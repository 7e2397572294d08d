--------------------------- MODULE SharedDocument ---------------------------
(***************************************************************************)
(* What synchronisation promises about one document, without the files:    *)
(* every device has a replica and owes some of its edits to one store.  A  *)
(* device may forget that it owes an edit only when the store has it, and  *)
(* the store may forget an edit only while some device owes it.            *)
(***************************************************************************)
CONSTANTS Edits, Devices

VARIABLES
  replica,   \* the edits in the document of each device
  owed,      \* the edits each device knows it has to upload
  store      \* the edits the provider would give to a new device

Init ==
  /\ replica = [d \in Devices |-> {}]
  /\ owed = [d \in Devices |-> {}]
  /\ store = {}

\* A device owes edits of its replica, and stops owing only what the store has.
Owes(d, due) ==
  /\ owed' = [owed EXCEPT ![d] = due]
  /\ due \subseteq replica'[d]
  /\ owed[d] \ due \subseteq store'

Edit(d) ==
  \E e \in Edits, due \in SUBSET Edits :
    /\ \A c \in Devices : e \notin replica[c]
    /\ replica' = [replica EXCEPT ![d] = @ \union {e}]
    /\ UNCHANGED store
    /\ Owes(d, due) /\ e \in due

\* Any exchange of one device with the store: it fetches what the store has,
\* publishes what is in its replica, and settles what it owes.
Exchange(d) ==
  \E got, given, lost, due \in SUBSET Edits :
    /\ got \subseteq store /\ given \subseteq replica[d]
    /\ replica' = [replica EXCEPT ![d] = @ \union got]
    /\ store' = (store \ lost) \union given
    /\ Owes(d, due)
    /\ store \ store' \subseteq UNION {owed'[c] : c \in Devices}

Next == \E d \in Devices : Edit(d) \/ Exchange(d)

Spec == Init /\ [][Next]_<<replica, owed, store>>

\* An edit that is in some document is at the store, or owed to it.
Kept ==
  \A d \in Devices : replica[d] \subseteq store \union UNION {owed[c] : c \in Devices}
=============================================================================
