---------------------------- MODULE SyncManifest ----------------------------
(***************************************************************************)
(* The manifest entry of one synchronised document, and what a device      *)
(* makes of it: the version of the base file and the time at which that    *)
(* file was last seen to change, the delta files it refers to, and the     *)
(* tombstones of the deltas that a base file has absorbed.  A listing of   *)
(* the provider's files is evidence beside it: it names the delta files    *)
(* that exist and the time of the base file.                               *)
(*                                                                         *)
(* Times are compared for equality only, so a counter stands for them; 0   *)
(* is a base file never seen.  The tombstones are not capped (the code     *)
(* keeps the last 512).                                                    *)
(***************************************************************************)
EXTENDS Integers, FiniteSets

Manifest(Id) ==
  [version : Nat, deltas : SUBSET Id, gone : SUBSET Id, baseTime : Nat]

Listing(Id) == [base : Nat, deltas : SUBSET Id, manifest : Nat]

Larger(a, b) == IF a >= b THEN a ELSE b

\* A manifest that was just read, completed from a listing: the base file
\* changed behind it, or delta files exist that it neither lists nor buried.
Reconcile(m, files) ==
  [m EXCEPT !.version  = IF m.baseTime = files.base THEN @
                         ELSE IF m.baseTime = 0 THEN Larger(1, @) ELSE @ + 1,
            !.baseTime = files.base,
            !.deltas   = @ \union (files.deltas \ m.gone)]

\* Variant: the remote tombstones are not taken off the joined deltas.
Join_Resurrected(remote, local, files) ==
  LET gone == remote.gone \union local.gone
      top  == Larger(local.version, remote.version)
  IN [version  |-> top,
      deltas   |-> remote.deltas \union local.deltas \union files.deltas,
      gone     |-> gone,
      baseTime |-> files.base]

\* The manifest a save writes: the local one and the remote one joined, with
\* every delta file of the listing that neither of them buried.
Join(remote, local, files) ==
  LET newer == IF local.version >= remote.version THEN local ELSE remote
      moved == newer.baseTime # 0 /\ newer.baseTime # files.base
      gone  == remote.gone \union local.gone
      top   == Larger(local.version, remote.version)
  IN [version  |-> IF moved THEN top + 1 ELSE IF top = 0 THEN 1 ELSE top,
      deltas   |-> (remote.deltas \union local.deltas \union files.deltas) \ gone,
      gone     |-> gone,
      baseTime |-> files.base]

AddDelta(m, id) ==
  [m EXCEPT !.deltas = @ \union {id}, !.gone = @ \ {id}]

\* A new base file, which leaves the deltas listed ...
NewBase(m) == [m EXCEPT !.version = @ + 1]

\* Variant: the deltas are replaced without a tombstone.
ClearDeltas_NoTombstone(m) ==
  [m EXCEPT !.version = @ + 1, !.deltas = {}]

\* ... and one that replaces them, each leaving a tombstone.
ClearDeltas(m) ==
  [m EXCEPT !.version = @ + 1, !.deltas = {}, !.gone = @ \union m.deltas]
=============================================================================
