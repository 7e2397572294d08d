------------------------------ MODULE MCDevice ------------------------------
(* A small instance of DeviceWork for TLC.                                   *)
EXTENDS DeviceWork, TLC

CONSTANTS t1, t2, i1, k1, k2, l1, l2   \* model values

\* A client c with a project p, whose task k has a subtask s; an entry on each
\* task, an expense x of the project, and what may be added: a second entry, a
\* timer, an invoice and an attachment.
MCKind ==
  [c |-> "client", p |-> "project", k |-> "task", s |-> "task", e |-> "entry", f |-> "entry",
   m |-> "timer", x |-> "expense", i |-> "invoice", a |-> "attachment"]
MCRecords == DOMAIN MCKind
MCRefs ==
  [c |-> {}, p |-> {}, k |-> {"p"}, s |-> {"p", "k"}, e |-> {"k"}, f |-> {"s"},
   m |-> {"p", "k"}, x |-> {"p"}, i |-> {"c", "p"}, a |-> {"s"}]
MCTies ==
  [r \in DOMAIN MCKind |-> CASE r = "p" -> {"c"} [] r \in {"e", "x", "k"} -> {"i"} [] OTHER -> {}]
MCFirstTies == {<<"p", "c">>}

\* Two recurrences, one paid automatically, and one that ends after its first period.
MCLast == <<9, 1>>

-----------------------------------------------------------------------------
\* The parts share no state, so that a part that stands still may as well begin
\* in one state; and the account of a cached license is k1, whichever that is.
MCInit ==
  /\ DeviceInit
  /\ part = "cloud" \/ wanted = k1
  /\ part = "files" \/ brand = "google"
  /\ binding.life = k1 /\ (part = "access" \/ binding.exp = 0)

MCSpec == MCInit /\ [][DeviceNext]_deviceVars /\ EmailFairness
=============================================================================
