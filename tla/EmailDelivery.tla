---------------------------- MODULE EmailDelivery ----------------------------
(***************************************************************************)
(* Invoices sent by email through the hosted Worker.  An attempt is stored *)
(* in a database of its own before the request is posted; the request is   *)
(* retried once, and an attempt whose outcome is unknown blocks the send   *)
(* action of its invoice until a status check, of the dialog or of the     *)
(* list of invoices, has found it out and written it to the invoice.       *)
(***************************************************************************)
EXTENDS Naturals, FiniteSetsExt

CONSTANTS
  Invoices,
  Capacity,  \* attempts the database retains (256 in the code)
  MaxAttempts, MaxTroubles  \* bounds; an attempt that lapsed counts twice

ConstantsAssumption ==
  Capacity \in Nat \ {0} /\ {MaxAttempts, MaxTroubles} \subseteq Nat

Attempts == 1..MaxAttempts
Checkers == {"dialog", "list"}
Workers == Checkers \union {"send"}  \* what runs in the tab

VARIABLES
  store,    \* the attempts in the database
  invoice,  \* the invoices in memory: their contents and the attempt that sent them
  disk,     \* ... and in the database of their document
  dialog,   \* the email dialog
  list,     \* the list of invoices: the attempts under which it blocks the action
  job,      \* the operations that wait for something
  worker,   \* the Worker: what it knows of each attempt; bookkeeping: whether it lapsed
  net,      \* the requests that may still arrive
  life,     \* the session
  troubles  \* edits, lost answers, reloads and new sessions so far

vars == <<store, invoice, disk, dialog, list, job, worker, net, life, troubles>>

NoDialog == [doc |-> "none"]
Idle == [at |-> "idle"]
NoList == [ready |-> FALSE, guards |-> {}]

Stored == DOMAIN store
Unresolved(a) == ~store[a].applied /\ store[a].state # "rejected"
Drawn == {a \in Attempts : worker[a].state # "undrawn"}
Lapsed == {a \in Attempts : worker[a].lapsed}

\* The effect of the list runs again whenever an attempt or an invoice changes
\* and then blocks every action until it has read the attempts; its checks and
\* the look-up of the dialog start afresh.
ListRuns == list' = NoList
Stale(c) == IF c = Idle \/ c.at = "apply" THEN Idle ELSE [c EXCEPT !.current = FALSE]
Outdated(j) == [j EXCEPT !["list"] = Stale(@)]
LooksAgain(dlg) == IF dlg = NoDialog THEN dlg ELSE [dlg EXCEPT !.looked = FALSE]

-----------------------------------------------------------------------------
(* The database of attempts.                                               *)

Completed(a) == store[a].state = "completed" /\ store[a].applied

\* Variant: a marker that was applied is never looked at again.
Candidates_Unresolved(d) == {a \in Stored : store[a].doc = d /\ Unresolved(a)}

\* The attempts that block the send action of an invoice: those without an
\* outcome, and while the invoice is not marked as sent, those with one.
Candidates(d) ==
  {a \in Stored : store[a].doc = d /\ (Unresolved(a) \/ (invoice[d].sent = 0 /\ Completed(a)))}

\* The attempts are in the order of their last updates.
Latest(a) == 1 + Max({0} \union {store[b].at : b \in Stored \ {a}})
Put(a, record) ==
  [store EXCEPT ![a] = IF record = store[a] THEN record ELSE [record EXCEPT !.at = Latest(a)]]

Monotonic(now, next) == IF now = "pending" THEN next ELSE now

\* The one that is looked after: of this session if there is one, and of those the
\* one updated last.
Chosen(d) ==
  LET bound == {a \in Candidates(d) : store[a].life = life}
      some == IF bound # {} THEN bound ELSE Candidates(d)
  IN {a \in some : \A b \in some : store[b].at <= store[a].at}

\* An update finds the attempt under the session it was made or rebound under.
Bound(a, l) == a \in Stored /\ store[a].life = l
Updated(a, l, state) ==
  IF Bound(a, l) THEN Put(a, [store[a] EXCEPT !.state = Monotonic(@, state)]) ELSE store
Rebound(a, l, state) ==
  IF a \in Stored /\ (Unresolved(a) \/ (Completed(a) /\ state = "completed"))
  THEN Put(a, [store[a] EXCEPT !.state = Monotonic(@, state), !.life = l]) ELSE store
Releasable(a, l) ==
  Bound(a, l) /\ store[a].state \in {"pending", "rejected"} /\ ~store[a].applied
Released(a, l) ==
  IF Releasable(a, l) THEN Put(a, [store[a] EXCEPT !.state = "rejected"]) ELSE store

\* Resolved attempts make room when the database is full.  One is that old only
\* when its confirmation has been saved.
Room ==
  IF Cardinality(Stored) < Capacity THEN {{}}
  ELSE {{b} : b \in {c \in Stored : ~Unresolved(c) /\ disk[store[c].doc] = invoice[store[c].doc]}}

-----------------------------------------------------------------------------
(* The list and the dialog.                                                *)

Guard(d, a) == [doc |-> d, a |-> a, rebind |-> store[a].life # life]

Discover ==
  /\ ~list.ready
  /\ list' = [ready |-> TRUE,
              guards |-> UNION {{Guard(d, a) : a \in Chosen(d)} : d \in Invoices}]
  /\ UNCHANGED <<store, invoice, disk, dialog, job, worker, net, life, troubles>>

OpenDialog(d) ==
  /\ dialog = NoDialog /\ list.ready /\ invoice[d].sent = 0
  /\ \A g \in list.guards : g.doc # d
  /\ dialog' = [doc |-> d, ver |-> invoice[d].ver, looked |-> FALSE,
                pending |-> 0, rebind |-> FALSE, life |-> life, old |-> FALSE]
  /\ UNCHANGED <<store, invoice, disk, list, job, worker, net, life, troubles>>

\* An attempt blocks the dialog and is checked under the session it was found in,
\* unless the dialog is at a check already.
Checking == job["dialog"] # Idle /\ job["dialog"].current
Blocks(dlg, a, rebind, l) ==
  IF Checking THEN dlg ELSE [dlg EXCEPT !.pending = a, !.rebind = rebind, !.life = l]

\* The dialog looks for an attempt of its invoice, too.
LookUp ==
  /\ dialog # NoDialog /\ ~dialog.looked
  /\ LET dlg == [dialog EXCEPT !.looked = TRUE] IN
     \/ \E a \in Chosen(dialog.doc) : dialog' = Blocks(dlg, a, store[a].life # life, life)
     \/ Candidates(dialog.doc) = {} /\ dialog' = dlg
  /\ UNCHANGED <<store, invoice, disk, list, job, worker, net, life, troubles>>

\* What the dialog started goes on without it, and does not touch the invoice.
Detached(j) ==
  [w \in Workers |-> IF w = "list" THEN j[w]
                     ELSE IF j[w].at \in {"attach", "mark"} THEN Idle ELSE Stale(j[w])]

CloseDialog ==
  /\ dialog # NoDialog /\ dialog' = NoDialog
  /\ job' = Detached(job)
  /\ UNCHANGED <<store, invoice, disk, list, worker, net, life, troubles>>

-----------------------------------------------------------------------------
(* A send.                                                                 *)

\* The user sends the invoice as the dialog shows it; the attachment takes time.
\* Bookkeeping: whether it is sent blindly, before the dialog has looked or when it
\* asked under a session that was replaced.
Send ==
  /\ dialog # NoDialog /\ dialog.pending = 0 /\ job["send"] = Idle
  /\ job' = [job EXCEPT !["send"] =
       [at |-> "attach", a |-> 0, try |-> 1, doc |-> dialog.doc, ver |-> dialog.ver,
        life |-> life, current |-> TRUE, answer |-> "none",
        blind |-> ~dialog.looked \/ dialog.old]]
  /\ UNCHANGED <<store, invoice, disk, dialog, list, worker, net, life, troubles>>

\* The attempt is stored before anything is posted; none without room for it.
StoreAttempt ==
  LET s == job["send"] IN
  /\ s.at = "attach"
  /\ \/ /\ \E a \in Attempts \ Drawn : \E gone \in Room :
             /\ Cardinality(Drawn) + Cardinality(Lapsed) < MaxAttempts
             /\ \A b \in Attempts \ Drawn : a <= b
             /\ store' = [b \in (Stored \ gone) \union {a} |->
                  IF b = a THEN [doc |-> s.doc, ver |-> s.ver, life |-> s.life,
                                 state |-> "pending", applied |-> FALSE, at |-> Latest(a)]
                  ELSE store[b]]
             /\ worker' = [worker EXCEPT ![a] = [state |-> "none", doc |-> s.doc, ver |-> s.ver,
                                                 lapsed |-> s.blind]]
             /\ job' = Outdated([job EXCEPT !["send"].at = "post", !["send"].a = a])
        /\ ListRuns
     \/ /\ Room = {}
        /\ job' = [job EXCEPT !["send"] = Idle]
        /\ UNCHANGED <<store, list, worker>>
  /\ UNCHANGED <<invoice, disk, dialog, net, life, troubles>>

Post ==
  LET s == job["send"] IN
  /\ s.at = "post"
  /\ net' = net \union {[a |-> s.a, try |-> s.try]}
  /\ job' = [job EXCEPT !["send"].at = "wait"]
  /\ UNCHANGED <<store, invoice, disk, dialog, list, worker, life, troubles>>

\* The time is over, the connection breaks, or the Worker fails.
GiveUp ==
  LET s == job["send"] IN
  /\ s.at = "wait"
  /\ IF [a |-> s.a, try |-> s.try] \in net
     THEN troubles < MaxTroubles /\ troubles' = troubles + 1 ELSE UNCHANGED troubles
  /\ job' = [job EXCEPT !["send"] = IF s.try = 1 THEN [s EXCEPT !.at = "post", !.try = 2]
                                    ELSE [s EXCEPT !.at = "unknown"]]
  /\ UNCHANGED <<store, invoice, disk, dialog, list, worker, net, life>>

\* The Worker takes a request: it has it delivered, or does not know yet, or refuses
\* it (quota, rate, session), a retry of what it has taken too.  A request that the
\* client gave up does not overtake a later one.
Outcomes(a) ==
  {"refused"} \union
  CASE worker[a].state = "none" -> {"pending", "completed", "rejected"}
    [] worker[a].state = "closed" -> {}
    [] OTHER -> {worker[a].state}

Awaited(m) ==
  job["send"] # Idle /\ job["send"].at = "wait" /\ m = [a |-> job["send"].a, try |-> job["send"].try]

Take(m) ==
  /\ m \in net /\ net' = {n \in net : n.a # m.a \/ n.try > m.try}
  /\ \E answer \in Outcomes(m.a), arrives \in {b \in BOOLEAN : b => Awaited(m)} :
       /\ Awaited(m) /\ ~arrives => troubles < MaxTroubles
       /\ troubles' = IF Awaited(m) /\ ~arrives THEN troubles + 1 ELSE troubles
       /\ job' = IF arrives THEN [job EXCEPT !["send"].at = "answered", !["send"].answer = answer]
                 ELSE job
       /\ worker' = IF answer = "refused" THEN worker ELSE [worker EXCEPT ![m.a].state = answer]
  /\ UNCHANGED <<store, invoice, disk, dialog, list, life>>

\* The provider or the Worker's own reconciliation settles a pending one.
Settle(a) ==
  /\ worker[a].state = "pending"
  /\ \E outcome \in {"completed", "rejected"} : worker' = [worker EXCEPT ![a].state = outcome]
  /\ UNCHANGED <<store, invoice, disk, dialog, list, job, net, life, troubles>>

\* The end of a send: the list runs again, and an attempt whose outcome is not
\* known blocks the dialog.
Ends(s, blocked) ==
  /\ job' = Outdated([job EXCEPT !["send"] = Idle])
  /\ dialog' = IF blocked /\ s.current THEN Blocks(dialog, s.a, FALSE, s.life) ELSE dialog
  /\ ListRuns

\* What the answer means for the attempt: an outcome is stored, a refusal takes
\* the attempt back, whatever the Worker has of it, and a pending one is asked for
\* once more.
Answer ==
  LET s == job["send"] IN
  /\ \/ /\ s.at = "answered" /\ s.answer \in {"completed", "rejected"}
        /\ store' = Updated(s.a, s.life, s.answer)
        /\ IF s.answer = "completed" /\ s.current
           THEN /\ job' = Outdated([job EXCEPT !["send"].at = "apply"])
                /\ ListRuns /\ UNCHANGED dialog
           ELSE Ends(s, FALSE)
        /\ UNCHANGED worker
     \/ /\ s.at = "answered" /\ s.answer = "refused"
        /\ store' = Released(s.a, s.life) /\ Ends(s, FALSE)
        /\ worker' = [worker EXCEPT ![s.a].lapsed = @ \/ worker[s.a].state \notin {"none", "closed"}]
     \/ /\ s.at = "answered" /\ s.answer = "pending" /\ s.try = 1
        /\ job' = [job EXCEPT !["send"].at = "post", !["send"].try = 2]
        /\ UNCHANGED <<store, dialog, list, worker>>
     \/ /\ (s.at = "answered" /\ s.answer = "pending" /\ s.try = 2) \/ s.at = "unknown"
        /\ Ends(s, TRUE) /\ UNCHANGED <<store, worker>>
  /\ UNCHANGED <<invoice, disk, net, life, troubles>>

-----------------------------------------------------------------------------
(* A status check.                                                         *)

\* A lock per attempt keeps a check behind the send that reserves it.
Locked(a) ==
  \E w \in Workers : job[w] # Idle /\ job[w].a = a /\ job[w].at \notin {"apply", "mark"}

\* The Worker closes an attempt that it does not know, so that no late request
\* can open it.
Ask(w, d, a, rebind, l) ==
  /\ job[w] = Idle /\ ~Locked(a)
  /\ worker' = IF worker[a].state = "none" THEN [worker EXCEPT ![a].state = "closed"] ELSE worker
  /\ job' = [job EXCEPT ![w] =
       [at |-> "told", a |-> a, doc |-> d, rebind |-> rebind, life |-> l, current |-> TRUE,
        answer |-> worker'[a].state]]
  /\ net' = {n \in net : n.a # a}
  /\ UNCHANGED <<store, invoice, disk, list, life, troubles>>

DialogAsks ==
  /\ dialog # NoDialog /\ dialog.pending # 0
  /\ Ask("dialog", dialog.doc, dialog.pending, dialog.rebind, dialog.life)
  /\ dialog' = [dialog EXCEPT !.old = @ \/ dialog.life # life]
ListAsks(g) ==
  list.ready /\ g \in list.guards /\ Ask("list", g.doc, g.a, g.rebind, life) /\ UNCHANGED dialog

CheckFails(w) ==
  /\ job[w].at = "told" /\ troubles < MaxTroubles /\ troubles' = troubles + 1
  /\ job' = [job EXCEPT ![w] = Idle]
  /\ UNCHANGED <<store, invoice, disk, dialog, list, worker, net, life>>

\* The dialog or the list lets go of an attempt.
LetsGo(w) ==
  IF w = "dialog"
  THEN dialog' = IF dialog # NoDialog /\ job[w].current THEN [dialog EXCEPT !.pending = 0] ELSE dialog
  ELSE UNCHANGED dialog

\* The outcome is stored; an unknown attempt of this session is taken back, one
\* of an earlier session stays, and so does one that is no longer found.
Told(w) ==
  LET c == job[w]
      outcome == CASE c.answer = "closed" -> IF c.rebind THEN store ELSE Released(c.a, c.life)
                   [] c.rebind -> Rebound(c.a, c.life, c.answer)
                   [] OTHER -> Updated(c.a, c.life, c.answer)
      goes == c.answer = "completed" /\ c.current /\ (c.rebind => Bound(c.a, c.life) \/ outcome # store)
      over == \/ c.answer = "rejected" /\ (c.rebind => c.a \in Stored /\ Unresolved(c.a))
              \/ c.answer = "closed" /\ ~c.rebind /\ Releasable(c.a, c.life)
      next == IF goes THEN [c EXCEPT !.at = "apply"] ELSE Idle
  IN /\ c.at = "told"
     /\ store' = outcome
     /\ IF store' # store
        THEN /\ ListRuns
             /\ job' = Outdated([job EXCEPT ![w] = next])
        ELSE /\ list' = IF w = "list" /\ c.current /\ over
                        THEN [list EXCEPT !.guards = {g \in @ : g.a # c.a}] ELSE list
             /\ job' = [job EXCEPT ![w] = next]
     /\ IF over THEN LetsGo(w) ELSE UNCHANGED dialog
     /\ UNCHANGED <<invoice, disk, worker, net, life, troubles>>

-----------------------------------------------------------------------------
(* What follows a delivery, for the send and for the checks.               *)

\* The invoice is marked as sent if it is still what was sent; the attempt
\* stays if that cannot be told.
Apply(w) ==
  LET c == job[w]
      matches == store[c.a].ver = invoice[c.doc].ver
  IN /\ c.at = "apply"
     /\ IF Bound(c.a, c.life)
        THEN LET j == [job EXCEPT ![w].at = "mark"] IN
             IF matches /\ invoice[c.doc].sent # c.a
             THEN /\ invoice' = [invoice EXCEPT ![c.doc].sent = c.a]
                  /\ ListRuns /\ job' = Outdated(j) /\ dialog' = LooksAgain(dialog)
             ELSE job' = j /\ UNCHANGED <<invoice, list, dialog>>
        ELSE /\ job' = [job EXCEPT ![w] = Idle]
             /\ dialog' = IF w = "send"
                          THEN [dialog EXCEPT !.pending = c.a, !.rebind = FALSE, !.life = c.life]
                          ELSE dialog
             /\ UNCHANGED <<invoice, list>>
     /\ UNCHANGED <<store, disk, worker, net, life, troubles>>

\* The attempt is marked as applied, and the dialog closes.
Mark(w) ==
  LET c == job[w] IN
  /\ c.at = "mark"
  /\ LET marks == Bound(c.a, c.life)
         j == [job EXCEPT ![w] = Idle]
     IN /\ store' = IF marks THEN Put(c.a, [store[c.a] EXCEPT !.applied = TRUE]) ELSE store
        /\ IF store' # store THEN ListRuns
           ELSE list' = IF w = "list" /\ c.current /\ marks
                        THEN [list EXCEPT !.guards = {g \in @ : g.a # c.a}] ELSE list
        /\ IF w # "list"
           THEN /\ dialog' = IF marks THEN NoDialog
                             ELSE [dialog EXCEPT !.pending = c.a, !.rebind = FALSE, !.life = c.life]
                /\ job' = IF marks THEN Detached(IF store' # store THEN Outdated(j) ELSE j) ELSE j
           ELSE job' = (IF store' # store THEN Outdated(j) ELSE j) /\ UNCHANGED dialog
  /\ UNCHANGED <<invoice, disk, worker, net, life, troubles>>

-----------------------------------------------------------------------------
(* What else happens.                                                      *)

\* The contents of an invoice become what they never were: a payment, another device.
Edit(d) ==
  /\ troubles < MaxTroubles /\ troubles' = troubles + 1
  /\ invoice' = [invoice EXCEPT ![d].ver = troubles']
  /\ ListRuns /\ job' = Outdated(job) /\ dialog' = LooksAgain(dialog)
  /\ UNCHANGED <<store, disk, worker, net, life>>

\* The document reaches its database.
Save(d) ==
  /\ disk[d] # invoice[d] /\ disk' = [disk EXCEPT ![d] = invoice[d]]
  /\ UNCHANGED <<store, invoice, dialog, list, job, worker, net, life, troubles>>

\* The provider is connected again, under the same account.
Reconnect ==
  /\ troubles < MaxTroubles /\ troubles' = troubles + 1 /\ life' = life + 1
  /\ ListRuns /\ job' = Outdated(job) /\ dialog' = LooksAgain(dialog)
  /\ UNCHANGED <<store, invoice, disk, worker, net>>

Reload ==
  /\ troubles < MaxTroubles /\ troubles' = troubles + 1
  /\ invoice' = disk /\ dialog' = NoDialog
  /\ ListRuns /\ job' = [w \in Workers |-> Idle]
  /\ UNCHANGED <<store, disk, worker, net, life>>

-----------------------------------------------------------------------------
Init ==
  /\ store = [a \in {} |-> 0]
  /\ invoice = [d \in Invoices |-> [ver |-> 0, sent |-> 0]] /\ disk = invoice
  /\ dialog = NoDialog /\ list = NoList
  /\ job = [w \in Workers |-> Idle]
  /\ worker = [a \in Attempts |-> [state |-> "undrawn", doc |-> "none", ver |-> 0,
                                   lapsed |-> FALSE]]
  /\ net = {} /\ life = 0 /\ troubles = 0

Next ==
  \/ Discover \/ LookUp \/ CloseDialog \/ Send \/ StoreAttempt \/ Post \/ GiveUp \/ Answer
  \/ \E d \in Invoices : OpenDialog(d) \/ Edit(d) \/ Save(d)
  \/ \E m \in net : Take(m)
  \/ \E a \in Attempts : Settle(a)
  \/ DialogAsks
  \/ \E g \in list.guards : ListAsks(g)
  \/ \E w \in Checkers : CheckFails(w) \/ Told(w)
  \/ \E w \in Workers : Apply(w) \/ Mark(w)
  \/ Reconnect \/ Reload

Spec == Init /\ [][Next]_vars

\* What an operation that was begun does next.
SendGoesOn ==
  \/ StoreAttempt \/ Post \/ GiveUp \/ Answer \/ Apply("send") \/ Mark("send")
  \/ \E m \in net : Awaited(m) /\ Take(m)
CheckGoesOn(w) == Told(w) \/ Apply(w) \/ Mark(w)
ListGoesOn == \E g \in list.guards : ListAsks(g)

-----------------------------------------------------------------------------
Delivered(a) == worker[a].state = "completed"

Same(a, b) == worker[a].doc = worker[b].doc /\ worker[a].ver = worker[b].ver

\* No version of an invoice is delivered twice, whatever is lost or late and
\* whenever the tab is closed: an attempt without an outcome, and one whose
\* outcome did not reach the invoice, keeps the user from sending it again.
\* Only one that was taken back after a retry that was refused, and one that was
\* sent blindly, may be the second.
NotSentTwice ==
  \A a, b \in Attempts :
    Delivered(a) /\ Delivered(b) /\ Same(a, b) => a = b \/ {a, b} \cap Lapsed # {}

\* Whatever was delivered comes to be shown as sent, unless the invoice was
\* changed or the attempt was taken back; a reload may undo it, but it is found
\* again.
DeliveredIsShown ==
  []<>(\A a \in Attempts : Delivered(a) =>
         \/ a \in Lapsed
         \/ \E d \in Invoices : /\ d = worker[a].doc
                                /\ invoice[d].sent # 0 \/ invoice[d].ver # worker[a].ver)
=============================================================================
