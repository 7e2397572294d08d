-------------------------- MODULE MCTimerLifecycle --------------------------
(* Small instances of TimerLifecycle for TLC. *)
EXTENDS TimerLifecycle, TLC

CONSTANTS d1, d2

\* One device: the order of client ids does not matter.
MCOneFirst == {(d1 :> [n \in Docs |-> 1])}

\* Two devices, up to renaming them: d1 draws the smaller id for core; the
\* third id is left for the session after a crash, so it is the least or the
\* greatest.  Entries are numbered the other way round.
MCTwoFirst ==
  {[d \in Devices |-> [n \in Docs |->
      LET c == IF d = d1 THEN pair[1] ELSE pair[2] IN IF n = "core" THEN c ELSE 4 - c]]
   : pair \in {<<1, 2>>, <<2, 3>>}}

MCSpans == {<<0, 2>>, <<1, 3>>}
=============================================================================
