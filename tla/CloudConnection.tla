--------------------------- MODULE CloudConnection ---------------------------
(***************************************************************************)
(* The connection of a tab to the cloud provider that is selected for the  *)
(* workspace.  An effect connects whenever the selection changes, whatever *)
(* is still under way for an earlier one; a connection that fails for the  *)
(* moment is tried again by a timer, a bounded number of times, and again  *)
(* when the tab comes back to sight or to the network.                     *)
(***************************************************************************)
EXTENDS Naturals

CONSTANTS
  Keys, None,     \* what may be selected: a provider, its generation, a session
  Retries,        \* tries of one recovery (3 in the code)
  MaxTries        \* bound: connections ever begun

ConstantsAssumption ==
  /\ None \notin Keys
  /\ Retries \in Nat \ {0} /\ MaxTries \in Nat

Tries == 1..MaxTries

VARIABLES
  wanted,   \* what is selected, or None
  due,      \* the effect has to run
  view,     \* the selection that the effect last ran for
  eligible, \* the tab is visible and online
  try,      \* each connection: for what, how far, and whether a retry began it
  app       \* what the context, the store and the recovery hold; bookkeeping (cut): a
            \* logout has disconnected a connection that was begun after its own

vars == <<wanted, due, view, eligible, try, app>>

\* The recovery: for which connection, the retries made, whether the timer is
\* set and the provider asked to wait, the retry that runs, a recent wake-up.
NoRecovery ==
  [key |-> None, count |-> 0, timer |-> FALSE, late |-> FALSE, run |-> 0, woke |-> FALSE]

-----------------------------------------------------------------------------
(* The recovery, as functions of its record.                               *)

Scheduled(r) ==
  [r EXCEPT !.timer = @ \/ (r.key # None /\ r.run = 0 /\ eligible /\ r.count < Retries)]

ClearedFor(r, k) == IF r.key = k THEN NoRecovery ELSE r

Pending(r, k, late) ==
  Scheduled([(IF r.key = k THEN r ELSE [NoRecovery EXCEPT !.key = k]) EXCEPT !.late = late])

\* Signals within a second are one.
Woken(r) ==
  IF r.key = None \/ r.run # 0 \/ r.woke THEN r
  ELSE [r EXCEPT !.woke = TRUE, !.count = 0, !.timer = TRUE]

RunEnds(r, n) == IF r.run = n THEN Scheduled([r EXCEPT !.run = 0]) ELSE r

-----------------------------------------------------------------------------
(* Connecting.                                                             *)

Begun == {n \in Tries : try[n].at # "none"}
IsNext(n) == n \in Tries \ Begun /\ \A m \in Tries \ Begun : n <= m

\* The store lets go of its provider; one that still connects does not notice.
Dropped(t, p) ==
  [n \in Tries |-> IF n = p /\ t[n].at = "on" THEN [t[n] EXCEPT !.at = "off"] ELSE t[n]]

Runs(k) == app.provider # 0 /\ try[app.provider].key = k /\ try[app.provider].at = "on"
UnderWay(k) == app.attempt # 0 /\ try[app.attempt].key = k

\* A retry that has just started.
Now == MaxTries + 1

\* The effect or a retry connects to k; r is the recovery as it is by then.
Settles(k) ==
  /\ k # None /\ Runs(k)
  /\ app' = [app EXCEPT !.rec = NoRecovery, !.blocked = None, !.connected = TRUE]
  /\ UNCHANGED try

SignsOff(k) ==
  /\ k = None
  /\ app' = [app EXCEPT !.attempt = 0, !.provider = 0, !.rec = NoRecovery, !.last = None,
                        !.blocked = None, !.connected = FALSE, !.connecting = FALSE]
  /\ try' = Dropped(try, app.provider)

Kept(k, r) == IF app.last = k THEN r ELSE NoRecovery

Waits(k, r) ==
  /\ k # None /\ ~Runs(k) /\ (app.blocked = k \/ UnderWay(k))
  /\ app' = [app EXCEPT !.rec = RunEnds(Scheduled(Kept(k, r)), Now), !.last = k]
  /\ UNCHANGED try

Begins(k, r, n) ==
  /\ k # None /\ ~Runs(k) /\ app.blocked # k /\ ~UnderWay(k) /\ IsNext(n)
  /\ app' = [app EXCEPT !.attempt = n, !.provider = n, !.last = k, !.connecting = TRUE,
                        !.cut = FALSE,
                        !.rec = Scheduled(Kept(k, [r EXCEPT !.run = IF @ = Now THEN n ELSE @]))]
  /\ try' = [Dropped(try, app.provider) EXCEPT
               ![n] = [key |-> k, at |-> "connecting", retry |-> r.run = Now]]

Connects(k, r) == Settles(k) \/ SignsOff(k) \/ Waits(k, r) \/ \E n \in Tries : Begins(k, r, n)

\* Another selection, or the same for another reason to render.
Select(k) ==
  /\ wanted' = k /\ due' = TRUE
  /\ UNCHANGED <<view, eligible, try, app>>

\* The effects run: the recovery loses its listener and its timer, the tab
\* connects, the recovery gets its listener back.
Effect ==
  /\ due /\ due' = FALSE /\ view' = wanted
  /\ Connects(wanted, [app.rec EXCEPT !.timer = FALSE])
  /\ UNCHANGED <<wanted, eligible>>

-----------------------------------------------------------------------------
(* How a connection ends.                                                  *)

\* Variant: every answer counts, whatever was begun since.
IsCurrent_Always(n) == TRUE

IsCurrent(n) == app.attempt = n

\* A retry that waited for it has ended.
Ended(r, n) == IF try[n].retry THEN RunEnds(r, n) ELSE r
Over(a) == [a EXCEPT !.attempt = 0, !.connecting = FALSE]

Stands(n) ==
  /\ try[n].at = "connecting" /\ try' = [try EXCEPT ![n].at = "on"]
  /\ app' = IF IsCurrent(n)
            THEN Over([app EXCEPT !.rec = Ended(ClearedFor(@, try[n].key), n), !.blocked = None,
                                  !.connected = TRUE])
            ELSE [app EXCEPT !.rec = Ended(@, n)]
  /\ UNCHANGED <<wanted, due, view, eligible>>

\* It fails for the moment, perhaps with the wish to be asked later only.
Fails(n, late) ==
  /\ try[n].at = "connecting" /\ try' = [try EXCEPT ![n].at = "off"]
  /\ app' = IF IsCurrent(n)
            THEN Over([app EXCEPT !.rec = Ended(Pending(@, try[n].key, late), n),
                                  !.connected = FALSE])
            ELSE [app EXCEPT !.rec = Ended(@, n)]
  /\ UNCHANGED <<wanted, due, view, eligible>>

\* The workspace has moved to the other provider: no try before the user decides.
Moved(n) ==
  /\ try[n].at = "connecting" /\ try' = [try EXCEPT ![n].at = "off"]
  /\ app' = IF IsCurrent(n)
            THEN Over([app EXCEPT !.rec = Ended(ClearedFor(@, try[n].key), n),
                                  !.blocked = try[n].key, !.connected = FALSE])
            ELSE [app EXCEPT !.rec = Ended(@, n)]
  /\ UNCHANGED <<wanted, due, view, eligible>>

\* The session is refused: it is cleared, which takes time, and then the store
\* is disconnected, whatever it is connected to by then.
Refused(n) ==
  /\ try[n].at = "connecting"
  /\ IF IsCurrent(n)
     THEN /\ try' = [try EXCEPT ![n].at = "refused"] /\ UNCHANGED app
          /\ IF wanted = try[n].key THEN wanted' = None /\ due' = TRUE ELSE UNCHANGED <<wanted, due>>
     ELSE /\ try' = [try EXCEPT ![n].at = "off"] /\ app' = [app EXCEPT !.rec = Ended(@, n)]
          /\ UNCHANGED <<wanted, due>>
  /\ UNCHANGED <<view, eligible>>

LoggedOut(n) ==
  /\ try[n].at = "refused"
  /\ try' = [Dropped(try, app.provider) EXCEPT ![n].at = "off"]
  /\ LET a == [app EXCEPT !.provider = 0, !.connected = FALSE, !.connecting = FALSE,
                          !.cut = @ \/ app.provider \notin {0, n},
                          !.rec = Ended(ClearedFor(@, try[n].key), n)]
     IN app' = IF IsCurrent(n) THEN Over(a) ELSE a
  /\ UNCHANGED <<wanted, due, view, eligible>>

-----------------------------------------------------------------------------
(* The timer of the recovery, and what wakes it.                           *)

TimerFires ==
  /\ app.rec.timer
  /\ LET r == [app.rec EXCEPT !.timer = FALSE] IN
       \/ /\ r.key = None \/ ~eligible
          /\ app' = [app EXCEPT !.rec = r] /\ UNCHANGED try
       \/ /\ r.key # None /\ eligible /\ r.late
          /\ app' = [app EXCEPT !.rec = Scheduled(r)] /\ UNCHANGED try
       \/ /\ r.key # None /\ eligible /\ ~r.late
          /\ Connects(view, [r EXCEPT !.run = Now, !.count = @ + 1])
  /\ UNCHANGED <<wanted, due, view, eligible>>

\* The tab is hidden or offline, or comes back.
Turns ==
  /\ eligible' = ~eligible
  /\ app' = IF eligible' THEN [app EXCEPT !.rec = Woken(@)] ELSE app
  /\ UNCHANGED <<wanted, due, view, try>>

TimePasses ==
  /\ app' = [app EXCEPT !.rec.late = FALSE, !.rec.woke = FALSE]
  /\ UNCHANGED <<wanted, due, view, eligible, try>>

-----------------------------------------------------------------------------
Init ==
  /\ wanted \in Keys /\ due = TRUE /\ view = None /\ eligible = TRUE
  /\ try = [n \in Tries |-> [key |-> None, at |-> "none", retry |-> FALSE]]
  /\ app = [attempt |-> 0, provider |-> 0, connected |-> FALSE, connecting |-> FALSE,
            blocked |-> None, last |-> None, rec |-> NoRecovery, cut |-> FALSE]

Next ==
  \/ \E k \in Keys \union {None} : Select(k)
  \/ Effect
  \/ \E n \in Tries : \/ Stands(n) \/ Moved(n) \/ Refused(n) \/ LoggedOut(n)
                      \/ \E late \in BOOLEAN : Fails(n, late)
  \/ TimerFires \/ Turns \/ TimePasses

Spec == Init /\ [][Next]_vars

-----------------------------------------------------------------------------
\* What the tab shows as connected is the provider that the store syncs with,
\* and that one is connected: no late answer of an earlier connection is taken
\* for the current one, none that stands is forgotten.  Only the logout of a
\* session that was refused may cut off what was begun since, until something is
\* begun again.  While a retry of the recovery is the connection that counts, no
\* timer is set to begin another.
ShownIsReal ==
  /\ app.connected /\ ~app.connecting /\ ~app.cut
       => app.provider # 0 /\ try[app.provider].at = "on"
  /\ app.attempt # 0 /\ try[app.attempt].retry /\ app.rec.key = try[app.attempt].key
       => ~app.rec.timer
=============================================================================
