---------------------------- MODULE BillingAccess ----------------------------
(***************************************************************************)
(* The paid plan that a tab grants to the connected cloud account.  A      *)
(* signed license is taken from the cache when the account appears, so     *)
(* that the plan is there offline, and is replaced by the answer of the    *)
(* billing service once the connection is ready.  The account and the      *)
(* connection change while answers are awaited: every refresh and every    *)
(* change of account begins a new epoch, and what belongs to an older one  *)
(* is dropped when it comes back.                                          *)
(*                                                                         *)
(* A render gives the hook its options, and its effects run later, but     *)
(* before the next render.  The device's clocks are right, so the time the *)
(* code trusts is the time; the timer that ends a license is prompt.       *)
(***************************************************************************)
EXTENDS Naturals, FiniteSets

CONSTANTS
  Lives,       \* the lifecycles of accounts
  None,
  Retries,     \* retries of a transient failure (2 in the code)
  MaxRuns,     \* bound: functions in flight
  MaxChanges,  \* bound: changes of the account or the connection, refreshes by the
               \* user, the window or another tab, and requests that fail
  MaxTime      \* bound: time; a license lasts one or two units

ConstantsAssumption ==
  /\ None \notin Lives
  /\ {Retries, MaxRuns, MaxChanges, MaxTime} \subseteq Nat

VARIABLES
  life, ready,  \* the options of the last render: the account, and onlineRefreshEnabled
  due,          \* its effects that have to run: subset of {"life", "ready"}
  shown,        \* the license granted, its lifecycle and its end
  hydrated,     \* hydratedLifecycle is that of the last effect
  retry,        \* the retry timer and the retries so far
  runs,         \* the functions in flight
  clears,       \* deletions of a cached license: the lifecycle, and why
  binding,      \* the cached license, in the database
  now,
  heard,        \* bookkeeping: a request made since the account and the connection are
                \* there has been answered
  barred,       \* bookkeeping: what was asked last for the account was refused
  reading,      \* bookkeeping: the reading of the cache was "overtaken" by a refresh, and
                \* the connection, which came back after that, "missed"; or "quiet"
  changes       \* bookkeeping: what MaxChanges changes, so far

told == <<heard, barred, reading>>
vars == <<life, ready, due, shown, hydrated, retry, runs, clears, binding, now, told, changes>>

NoLicense == [life |-> None, exp |-> 0]
NoRetry == [on |-> FALSE, count |-> 0]

\* A run: what it waits for, its lifecycle, whether its epoch is the current
\* one, and the license it has got.
Begun(pc) == [pc |-> pc, life |-> life, cur |-> TRUE, got |-> NoLicense]

Room == Cardinality(runs) < MaxRuns
Happens == changes < MaxChanges /\ changes' = changes + 1

\* A new epoch: what is in flight belongs to an older one.
Aged(rs) == {[x EXCEPT !.cur = FALSE] : x \in rs}

\* refresh: without an account or a connection there is nothing to ask.
Refreshed(rs) == IF ready /\ life # None THEN Aged(rs) \union {Begun("ask")} ELSE rs

IsCurrent(x) == ready /\ x.cur /\ x.life = life

Ends(x) == runs' = runs \ {x}
Goes(x, pc, got) == runs' = (runs \ {x}) \union {[x EXCEPT !.pc = pc, !.got = got]}

-----------------------------------------------------------------------------
(* The options and their effects.                                          *)

\* The account signs in or out, the connection comes or goes.
Render(l, r) ==
  /\ due = {}
  /\ <<l, r>> # <<life, ready>> /\ (r => l # None)
  /\ life' = l /\ ready' = r
  /\ due' = {"ready"} \union (IF l # life THEN {"life"} ELSE {})
  /\ heard' = (heard /\ l = life /\ ready)
  /\ Happens
  /\ UNCHANGED <<shown, hydrated, retry, runs, clears, binding, now, barred,
                 reading>>

\* The effect on the account forgets what was shown and reads the cache.  Without
\* an account the cached license is forgotten, unless an account is back first.
LifeEffect ==
  /\ "life" \in due /\ Room
  /\ due' = due \ {"life", "ready"}
  /\ shown' = NoLicense /\ hydrated' = FALSE /\ retry' = NoRetry
  /\ runs' = Aged(runs) \union (IF life = None THEN {} ELSE {Begun("cache")})
  /\ binding' \in {binding} \union (IF life = None THEN {NoLicense} ELSE {})
  /\ heard' = FALSE /\ barred' = FALSE /\ reading' = "quiet"
  /\ UNCHANGED <<life, ready, clears, now, changes>>

\* The effect on the connection asks when it has come back, if the cache has been
\* read.
ReadyEffect ==
  /\ due = {"ready"} /\ Room
  /\ due' = {}
  /\ retry' = IF ready THEN [retry EXCEPT !.on = FALSE] ELSE NoRetry
  /\ runs' = IF ready /\ hydrated THEN Refreshed(runs) ELSE runs
  /\ reading' = IF ready /\ reading = "overtaken" THEN "missed" ELSE reading
  /\ UNCHANGED <<life, ready, shown, hydrated, clears, binding, now, heard, barred, changes>>

-----------------------------------------------------------------------------
(* The cache.                                                              *)

\* readBoundBillingCache, and the keys.
ReadCache(x) ==
  /\ x.pc = "cache"
  /\ IF x.cur
     THEN Goes(x, "cached", IF binding.life = x.life THEN binding ELSE NoLicense)
     ELSE Ends(x)
  /\ UNCHANGED <<life, ready, due, shown, hydrated, retry, clears, binding, now, told, changes>>

\* What was cached is granted if it is still good.
Restored(x) == IF x.got.exp > now /\ x.life = life THEN x.got ELSE shown

\* Variant: the connection that comes meanwhile goes unnoticed.
Hydrated_NotAsked(x) ==
  /\ x.pc = "cached"
  /\ IF x.cur THEN shown' = Restored(x) /\ hydrated' = (x.life = life)
     ELSE UNCHANGED <<shown, hydrated>>
  /\ Ends(x)
  /\ UNCHANGED <<life, ready, due, retry, clears, binding, now, told, changes>>

\* The license was verified.  Then the service is asked, if it can be now.
Hydrated(x) ==
  /\ x.pc = "cached"
  /\ IF x.cur
     THEN /\ shown' = Restored(x) /\ hydrated' = (x.life = life)
          /\ runs' = Refreshed(runs \ {x})
          /\ retry' = IF ready THEN [retry EXCEPT !.on = FALSE] ELSE retry
     ELSE Ends(x) /\ UNCHANGED <<shown, hydrated, retry>>
  /\ UNCHANGED <<life, ready, due, clears, binding, now, told, changes>>

-----------------------------------------------------------------------------
(* A refresh.                                                              *)

\* The window becomes visible, another tab announces a change, the user asks.  The
\* cache, if it is being read, is then never taken as read.
AskAgain ==
  /\ ready /\ Room /\ Happens
  /\ runs' = Refreshed(runs)
  /\ retry' = [retry EXCEPT !.on = FALSE]
  /\ reading' = IF hydrated THEN reading ELSE "overtaken"
  /\ UNCHANGED <<life, ready, due, shown, hydrated, clears, binding, now, heard, barred>>

RetryFires ==
  /\ retry.on /\ Room
  /\ retry' = [retry EXCEPT !.on = FALSE]
  /\ runs' = Refreshed(runs)
  /\ UNCHANGED <<life, ready, due, shown, hydrated, clears, binding, now, told, changes>>

\* What a failure does: nothing if it came late.  A refusal ends the access, and
\* the cached license is forgotten.
Fails(x, transient) ==
  /\ Ends(x)
  /\ IF ~IsCurrent(x) THEN UNCHANGED <<shown, retry, clears, told>>
     ELSE IF transient
     THEN /\ retry' = IF retry.count < Retries THEN [on |-> TRUE, count |-> retry.count + 1]
                      ELSE retry
          /\ UNCHANGED <<shown, clears, told>>
     ELSE /\ shown' = NoLicense
          /\ clears' = clears \union {<<x.life, "refused">>}
          /\ heard' = TRUE /\ barred' = TRUE /\ UNCHANGED <<retry, reading>>
  /\ UNCHANGED <<life, ready, due, hydrated, binding, now>>

RequestFails(x, transient) ==
  /\ x.pc = "ask" /\ Happens
  /\ Fails(x, transient)

\* The service answers with a license that lasts for a while, which is verified,
Answer(x, exp) ==
  /\ x.pc = "ask" /\ exp \in now + 1..now + 2
  /\ IF IsCurrent(x) THEN Goes(x, "write", [life |-> x.life, exp |-> exp]) ELSE Ends(x)
  /\ UNCHANGED <<life, ready, due, shown, hydrated, retry, clears, binding, now, told, changes>>

\* ... stored in a transaction,
Write(x) ==
  /\ x.pc = "write"
  /\ binding' = IF IsCurrent(x) THEN x.got ELSE binding
  /\ Goes(x, "publish", x.got)
  /\ UNCHANGED <<life, ready, due, shown, hydrated, retry, clears, now, told, changes>>

Grants(x) ==
  /\ shown' = x.got /\ Ends(x)
  /\ retry' = [retry EXCEPT !.count = 0] /\ heard' = TRUE /\ barred' = (barred /\ ~x.cur)
  /\ UNCHANGED <<life, ready, due, hydrated, clears, binding, now, reading>>

\* Variant: a license that was stored is granted, whatever happened meanwhile.
Publish_Unchecked(x) ==
  /\ x.pc = "publish" /\ UNCHANGED changes
  /\ Grants(x)

\* ... and granted, unless it ran out meanwhile.
Publish(x) ==
  /\ x.pc = "publish" /\ UNCHANGED changes
  /\ IF IsCurrent(x) /\ x.got.exp > now THEN Grants(x) ELSE Fails(x, FALSE)

-----------------------------------------------------------------------------
(* Time and the cached license.                                            *)

\* clearActiveBillingBinding: after a refusal whatever is stored by now; after
\* the end of a license only as long as there is no other.
Clear(l, why) ==
  /\ <<l, why>> \in clears
  /\ clears' = clears \ {<<l, why>>}
  /\ binding' = IF binding.life = l /\ (why = "expired" => shown = NoLicense /\ life = l)
                THEN NoLicense ELSE binding
  /\ UNCHANGED <<life, ready, due, shown, hydrated, retry, runs, now, told, changes>>

\* The license that is granted runs out: it is forgotten, and the service is
\* asked for another.
Expire ==
  /\ shown # NoLicense /\ shown.exp <= now /\ Room
  /\ shown' = NoLicense
  /\ clears' = clears \union (IF life = None THEN {} ELSE {<<life, "expired">>})
  /\ runs' = Refreshed(runs)
  /\ retry' = IF ready THEN [retry EXCEPT !.on = FALSE] ELSE retry
  /\ UNCHANGED <<life, ready, due, hydrated, binding, now, told, changes>>

Tick ==
  /\ now < MaxTime /\ (shown = NoLicense \/ shown.exp > now)
  /\ now' = now + 1
  /\ UNCHANGED <<life, ready, due, shown, hydrated, retry, runs, clears, binding, told, changes>>

\* A new tab: it finds a license that was cached before, and may have run out.
Init ==
  /\ life = None /\ ready = FALSE /\ due = {}
  /\ shown = NoLicense /\ hydrated = FALSE /\ retry = NoRetry
  /\ runs = {} /\ clears = {}
  /\ binding \in [life : Lives, exp : {0, 2}]
  /\ now = 1 /\ heard = FALSE /\ barred = FALSE /\ reading = "quiet"
  /\ changes = 0

Next ==
  \/ \E l \in Lives \union {None}, r \in BOOLEAN : Render(l, r)
  \/ LifeEffect \/ ReadyEffect \/ AskAgain \/ RetryFires \/ Expire \/ Tick
  \/ \E x \in runs :
       \/ ReadCache(x) \/ Hydrated(x) \/ Write(x) \/ Publish(x)
       \/ \E exp \in 1..MaxTime + 2 : Answer(x, exp)
       \/ \E transient \in BOOLEAN : RequestFails(x, transient)
  \/ \E l \in Lives, why \in {"refused", "expired"} : Clear(l, why)

Spec == Init /\ [][Next]_vars

-----------------------------------------------------------------------------
\* What the hook returns as the license of the account.
Granted == shown # NoLicense /\ shown.life = life

\* The plan that is granted has not run out, and no later answer refused it.
GrantedIsCurrent == Granted => shown.exp >= now /\ ~barred

\* When nothing is under way and the connection is there, the service has
\* answered since it is there, or has failed as often as it is tried; but for a
\* connection that came back after a refresh had overtaken the reading of the cache.
Settled == due = {} /\ ~retry.on /\ runs = {}
StatusIsHeard ==
  Settled /\ ready => heard \/ retry.count = Retries \/ reading = "missed"
=============================================================================
