------------------------ MODULE CloudTransfer_proofs -------------------------
(***************************************************************************)
(* What CloudTransfer.FencedIsComplete and ForeignIsUntouched rest on, for *)
(* every number of edits, transfers, attempts, failed requests, reloads    *)
(* and sign-outs.                                                          *)
(***************************************************************************)
EXTENDS CloudTransfer, TLAPS

Somewhere == Providers \union {None}
Journals ==
  [op : 0..MaxTransfers, src : Somewhere, tgt : Somewhere, gen : Nat,
   stage : {"none", "staging", "source-marked", "activated", "finalizing"}]
Lives == [active : Somewhere, gen : Nat, staged : Somewhere]
Devices == [home : Providers, gen : Nat, has : SUBSET Edits, fresh : BOOLEAN, busy : BOOLEAN]
Contents == SUBSET (Edits \union {0})

Staging == {"sync", "bind", "inspect"}
Checking == {"merge", "prepare", "snapshot", "upload", "fingerprint", "verify", "compare",
             "recheck", "link", "target", "source"}
Fencing == {"fence", "touch", "record"}
Settling == {"converge", "snapshot", "upload", "mark", "fingerprint", "verify", "compare",
             "activate"}
Switching == {"activated", "own", "switch", "publish", "clear"}
Places == {"idle", "open"} \union Staging \union Checking \union Fencing \union Settling
          \union Switching
Runs ==
  [pc : Places, settle : BOOLEAN, tries : 0..Attempts, snap : SUBSET Edits,
   seen : SUBSET Edits, redo : BOOLEAN, srcSame : BOOLEAN, tgtSame : BOOLEAN,
   pulled : BOOLEAN, blind : BOOLEAN]

TransferTypes ==
  /\ journal \in Journals /\ life \in Lives
  /\ marker \in [Providers -> Markers] /\ files \in [Providers -> Contents]
  /\ local \in SUBSET Edits /\ conn \in Somewhere /\ other \in Devices /\ run \in Runs
  /\ linked \in BOOLEAN /\ owed \in SUBSET Edits
  /\ made \in 0..MaxEdits /\ ops \in 0..MaxTransfers

\* A journal names two providers, and outlives the run that wrote it.
Journaled == journal # NoJournal
JournalFits ==
  Journaled => /\ journal.src \in Providers /\ journal.tgt \in Providers
               /\ journal.src # journal.tgt /\ journal.gen > 0
               /\ journal.stage # "none"

\* Something is staged for a session that is there, and for the journal if there
\* is one; then the store is connected to that session's provider or to none.
Staged == life.staged # None
LifeFits ==
  Staged => /\ life.active \in Providers /\ life.staged # life.active
            /\ conn \in {None, life.active}
            /\ Journaled => /\ life.active = journal.src /\ life.staged = journal.tgt
                            /\ journal.stage \in {"staging", "source-marked"}

\* Where the run stands, and what the journal says then.
Early == Staging \union Checking
Fenced_ == marker[journal.src] = Note("moved", journal.tgt)
RunFits ==
  /\ run.pc = "idle" => run = Idle
  /\ run.pc \notin {"idle", "open"} => Journaled
  /\ run.pc = "open" => ~run.settle /\ ~run.pulled /\ (Staged \/ conn = None)
  /\ run.settle => run.pc \in Settling \union Switching /\ PastFence
  /\ ~run.settle => run.pc \in {"idle", "open"} \union Early \union Fencing
  /\ ~run.settle /\ run.pc \in Early \union {"fence"} => ~Fenced_ /\ ~PastFence
  /\ run.pc \in {"touch", "record"} => Fenced_
  /\ run.pc \notin {"idle", "open", "publish", "clear"} => conn \in {None, journal.src}
  /\ run.pc \in {"activated", "own", "switch", "publish", "clear"} => ~Staged

\* Data of another workspace is nowhere near this one.
Past == run.pc \notin ({"idle", "open"} \union Staging) \/ PastFence
Apart(p) ==
  /\ p \notin {life.active, conn, other.home, journal.src}
  /\ marker[p].state \in {"none", "theirs"}
  /\ \A q \in Providers : marker[q].state = "moved" => marker[q].to # p
  /\ Past => journal.tgt # p
ForeignIsApart == \A p \in Providers : Foreign(p) => Apart(p)

\* A provider that was left names another.
MovedSomewhere == \A q \in Providers : marker[q].state = "moved" => marker[q].to \in Providers

\* What the target held when it was read is in what replaces it.
SeenIsKept ==
  /\ run.settle /\ run.pc = "snapshot" => run.seen \subseteq local
  /\ run.settle /\ run.pc = "upload" => run.seen \subseteq run.snap

\* Before the fence: what was pulled is here; a snapshot has the source as it was
\* when its fingerprint was read; what was verified is at the target.
Verified == {"compare", "recheck", "link", "target", "source"}
Snapped == {"upload", "fingerprint", "verify"} \union Verified
SourceIsKnown ==
  ~run.settle =>
    /\ run.pulled => files[journal.src] \subseteq local
    /\ run.pc \in Snapped /\ run.srcSame /\ ~run.blind => files[journal.src] \subseteq run.snap
    /\ run.pc \in Verified => run.snap \subseteq files[journal.tgt]
    /\ run.pc = "fence" => owed \subseteq files[journal.tgt]

TransferInv ==
  /\ TransferTypes /\ JournalFits /\ LifeFits /\ RunFits /\ ForeignIsApart /\ MovedSomewhere
  /\ SeenIsKept /\ SourceIsKnown /\ FencedIsComplete

\* A step leaves foreign data alone and brings none.
Untouched ==
  \A p \in Providers :
    /\ Foreign(p) => files'[p] = files[p] /\ marker'[p] = marker[p]
    /\ Foreign(p)' => Foreign(p)

\* What the constants are.
LEMMA TransferConstants ==
  /\ Source # Target /\ None \notin Providers
  /\ MaxEdits \in Nat /\ MaxTransfers \in Nat /\ Attempts \in Nat \ {0}
BY ProviderAssumption, BoundsAssumption DEF Providers

\* The other of the two providers.
LEMMA OppositeFact ==
  ASSUME NEW p \in Providers
  PROVE  Opposite(p) \in Providers /\ Opposite(p) # p
<1>1. \E q \in Providers : q # p
  BY TransferConstants DEF Providers
<1> QED
  BY <1>1 DEF Opposite

\* The fields of a run that goes on with its next step.
LEMMA GotoFields ==
  ASSUME run \in Runs, NEW pc \in Places
  PROVE  LET r == Goto(pc)
         IN  /\ r \in Runs /\ r.pc = pc /\ r.settle = run.settle /\ r.tries = run.tries
             /\ r.snap = run.snap /\ r.seen = run.seen /\ r.redo = run.redo
             /\ r.srcSame = run.srcSame /\ r.tgtSame = run.tgtSame
             /\ r.pulled = run.pulled /\ r.blind = run.blind
BY DEF Goto, Runs

\* No run.
LEMMA IdleFields ==
  /\ Idle \in Runs /\ Idle.pc = "idle" /\ ~Idle.settle /\ ~Idle.srcSame /\ ~Idle.tgtSame
  /\ ~Idle.pulled /\ Idle.snap = {} /\ Idle.seen = {}
BY TransferConstants DEF Idle, Runs, Places

\* What remains of a run when a manifest is saved.
Same(v, r) ==
  /\ v \in Runs /\ v.pc = r.pc /\ v.settle = r.settle /\ v.tries = r.tries
  /\ v.snap = r.snap /\ v.seen = r.seen /\ v.pulled = r.pulled
  /\ v.blind = r.blind /\ (v.srcSame => r.srcSame)
  /\ r = Idle => v = Idle

\* What saving a provider's files changes.
LEMMA SavedFields ==
  ASSUME files \in [Providers -> Contents], other \in Devices, journal \in Journals,
         NEW p \in Providers, NEW E \in SUBSET Edits, NEW r \in Runs,
         Saved(p, E, FALSE, r) \/ Saved(p, E, TRUE, r)
  PROVE  /\ files' \in [Providers -> Contents]
         /\ files'[p] = files[p] \union E
         /\ \A q \in Providers \ {p} : files'[q] = files[q]
         /\ other' \in Devices /\ other'.home = other.home
         /\ Same(run', r)
<1> DEFINE next == [pc |-> r.pc, settle |-> r.settle, tries |-> r.tries, snap |-> r.snap,
                    seen |-> r.seen, redo |-> r.redo,
                    srcSame |-> (r.srcSame /\ p # journal.src),
                    tgtSame |-> (r.tgtSame /\ p # journal.tgt),
                    pulled |-> r.pulled, blind |-> r.blind]
<1>0. [r EXCEPT !.srcSame = @ /\ p # journal.src, !.tgtSame = @ /\ p # journal.tgt] = next
  <2> DEFINE x == (r.srcSame /\ p # journal.src)
             y == (r.tgtSame /\ p # journal.tgt)
             q == [pc |-> r.pc, settle |-> r.settle, tries |-> r.tries, snap |-> r.snap,
                   seen |-> r.seen, redo |-> r.redo, srcSame |-> x, tgtSame |-> r.tgtSame,
                   pulled |-> r.pulled, blind |-> r.blind]
  <2>1. next = [q EXCEPT !.tgtSame = y]
    OBVIOUS
  <2> HIDE DEF x, y, next
  <2>2. [r EXCEPT !.srcSame = x] = q
    BY DEF Runs
  <2>3. [r EXCEPT !.srcSame = x, !.tgtSame = y] = [[r EXCEPT !.srcSame = x] EXCEPT !.tgtSame = y]
    OBVIOUS
  <2>4. [r EXCEPT !.srcSame = x, !.tgtSame = y] = next
    BY <2>1, <2>2, <2>3, Zenon
  <2> QED
    BY <2>4 DEF x, y
<1> HIDE DEF next
<1>1. /\ files' = [files EXCEPT ![p] = @ \union E]
      /\ run' \in {r, next} /\ other' \in {other, [other EXCEPT !.fresh = FALSE]}
  BY <1>0 DEF Saved
<1>2. next \in Runs
  BY DEF Runs, next
<1>3. ASSUME r = Idle PROVE next = Idle
  <2>1. /\ r.pc = "idle" /\ r.settle = FALSE /\ r.tries = 0 /\ r.snap = {} /\ r.seen = {}
        /\ r.redo = FALSE /\ r.srcSame = FALSE /\ r.tgtSame = FALSE
        /\ r.pulled = FALSE /\ r.blind = FALSE
    BY <1>3 DEF Idle
  <2>2. (r.srcSame /\ p # journal.src) = FALSE /\ (r.tgtSame /\ p # journal.tgt) = FALSE
    BY <2>1
  <2> QED
    BY <2>1, <2>2, Zenon DEF next, Idle
<1>4. other' \in Devices /\ other'.home = other.home
  BY <1>1 DEF Devices
<1>5. /\ files' \in [Providers -> Contents] /\ files'[p] = files[p] \union E
      /\ \A q \in Providers \ {p} : files'[q] = files[q]
  BY <1>1 DEF Contents
<1>6. /\ next.pc = r.pc /\ next.settle = r.settle /\ next.tries = r.tries
      /\ next.snap = r.snap /\ next.seen = r.seen /\ next.pulled = r.pulled
      /\ next.blind = r.blind /\ (next.srcSame => r.srcSame)
  BY DEF next
<1> QED
  <2>1. Same(next, r)
    BY <1>2, <1>3, <1>6 DEF Same
  <2>2. Same(r, r)
    BY DEF Same
  <2> QED
    BY <1>1, <1>4, <1>5, <2>1, <2>2

\* What a forced sync changes.
LEMMA ForcedFields ==
  ASSUME TransferTypes, NEW E \in SUBSET Edits, NEW r \in Runs,
         conn # None => 0 \notin files[conn],
         ForcedSync(FALSE, E, r) \/ ForcedSync(TRUE, E, r)
  PROVE  /\ files' \in [Providers -> Contents] /\ local' \in SUBSET Edits
         /\ local \union E \subseteq local'
         /\ \A q \in Providers \ {conn} : files'[q] = files[q]
         /\ conn # None =>
              /\ files'[conn] = files[conn] \union local \union E
              /\ ForcedSync(TRUE, E, r) => files[conn] \subseteq local'
         /\ other' \in Devices /\ other'.home = other.home
         /\ Same(run', r)
<1>1. CASE conn = None
  BY <1>1, TransferConstants DEF ForcedSync, TransferTypes, Same
<1>2. CASE conn # None
  <2>1. conn \in Providers
    BY <1>2 DEF TransferTypes, Somewhere
  <2>2. /\ local' \in {local \union E, local \union E \union files[conn]}
        /\ ForcedSync(TRUE, E, r) => files[conn] \subseteq local'
        /\ Saved(conn, local \union E, FALSE, r)
    BY <1>2 DEF ForcedSync
  <2>3. local \union E \in SUBSET Edits /\ journal \in Journals
        /\ files \in [Providers -> Contents] /\ other \in Devices
    BY DEF TransferTypes
  <2>4. files[conn] \subseteq Edits
    BY <1>2, <2>1, <2>3 DEF Contents
  <2>5. local' \in SUBSET Edits
    BY <2>2, <2>3, <2>4
  <2> HIDE DEF TransferTypes
  <2>6. /\ files' \in [Providers -> Contents]
        /\ files'[conn] = files[conn] \union (local \union E)
        /\ \A q \in Providers \ {conn} : files'[q] = files[q]
        /\ other' \in Devices /\ other'.home = other.home
        /\ Same(run', r)
    <3>1. PICK p \in Providers : p = conn
      BY <2>1
    <3>2. PICK F \in SUBSET Edits : F = local \union E
      BY <2>3
    <3>3. Saved(p, F, FALSE, r)
      BY <2>2, <3>1, <3>2 DEF Saved
    <3>4. /\ files' \in [Providers -> Contents] /\ files'[p] = files[p] \union F
          /\ \A q \in Providers \ {p} : files'[q] = files[q]
          /\ other' \in Devices /\ other'.home = other.home
          /\ Same(run', r)
      BY <2>3, <3>3, SavedFields
    <3> QED
      BY <3>1, <3>2, <3>4
  <2> QED
    BY <1>2, <2>1, <2>2, <2>3, <2>5, <2>6
<1> QED
  BY <1>1, <1>2

\* What the invariant says of the values.
LEMMA TransferParts ==
  ASSUME TransferInv
  PROVE  /\ TransferTypes /\ JournalFits /\ LifeFits /\ RunFits /\ ForeignIsApart
         /\ MovedSomewhere /\ SeenIsKept /\ SourceIsKnown /\ FencedIsComplete
         /\ run \in Runs /\ journal \in Journals /\ life \in Lives /\ other \in Devices
         /\ marker \in [Providers -> Markers] /\ files \in [Providers -> Contents]
         /\ local \in SUBSET Edits /\ conn \in Somewhere
BY DEF TransferInv, TransferTypes

\* An edit is not data of another workspace.
LEMMA NoZero == \A E \in SUBSET Edits : 0 \notin E
BY DEF Edits

\* The store is connected to no foreign data.
LEMMA ConnIsOurs ==
  ASSUME TransferInv
  PROVE  conn # None => conn \in Providers /\ 0 \notin files[conn] /\ files[conn] \subseteq Edits
BY DEF TransferInv, TransferTypes, Somewhere, ForeignIsApart, Foreign, Apart, Contents

\* Steps of the coordinator before the fence.
LEMMA EarlyStep ==
  ASSUME TransferInv, run' \in Runs, UNCHANGED <<journal, life, conn>>, ~(Fenced_'),
         ~run.settle, run.pc \in Early, ~run'.settle, run'.pc \in Early
  PROVE  RunFits' /\ SeenIsKept'
<1>1. SeenIsKept'
  BY DEF SeenIsKept
<1>2. /\ run'.pc \notin {"idle", "open"} /\ run'.pc \notin {"touch", "record"}
      /\ run'.pc \notin {"activated", "own", "switch", "publish", "clear"}
      /\ run.pc \notin {"idle", "open", "publish", "clear"}
  BY DEF Early, Staging, Checking
<1>3. /\ Journaled' /\ conn' \in {None, journal'.src} /\ ~(PastFence')
  BY <1>2 DEF TransferInv, RunFits, Journaled, Fenced_, PastFence, Note
<1> QED
  BY <1>1, <1>2, <1>3 DEF RunFits

\* Steps of the coordinator that publish the target after the fence.
LEMMA SettlingStep ==
  ASSUME TransferInv, run' \in Runs, UNCHANGED <<journal, life, conn>>,
         run.settle, run.pc \in Settling, run'.settle, run'.pc \in Settling
  PROVE  RunFits' /\ SourceIsKnown' /\ Past
BY DEF TransferInv, RunFits, SourceIsKnown, Early, Staging, Checking, Fencing, Settling,
       Switching, Journaled, Fenced_, PastFence, Note, Staged, Past

\* A run that ended.
LEMMA IdleStep ==
  ASSUME run' = Idle, UNCHANGED <<journal>>
  PROVE  RunFits' /\ SeenIsKept' /\ SourceIsKnown' /\ (Past' => Past)
<1>1. /\ run'.pc = "idle" /\ run'.settle = FALSE /\ run'.pulled = FALSE
  BY DEF Idle
<1>2. (run' = Idle) /\ Idle = Idle'
  BY DEF Idle
<1>3. RunFits'
  BY <1>1, <1>2 DEF RunFits, Early, Staging, Checking
<1>4. SeenIsKept' /\ SourceIsKnown'
  BY <1>1 DEF SeenIsKept, SourceIsKnown, Snapped, Verified
<1>5. Past' => Past
  BY <1>1 DEF Past, PastFence
<1> QED
  BY <1>3, <1>4, <1>5

\* What a step keeps that writes neither journal nor lifecycle.
LEMMA MarkersKeep ==
  ASSUME TransferInv, UNCHANGED <<journal, life, conn>>,
         other'.home = other.home \/ ~Foreign(other'.home),
         \A q \in Providers :
           \/ marker'[q] = marker[q] \/ marker'[q].state # "moved"
           \/ marker'[q].to \in Providers /\ ~Foreign(marker'[q].to),
         Untouched, Past' => Past \/ ~Foreign(journal.tgt),
         Journaled /\ Fenced_' => owed' \subseteq files'[journal.tgt]
  PROVE  JournalFits' /\ LifeFits' /\ ForeignIsApart' /\ MovedSomewhere' /\ FencedIsComplete'
<1>1. JournalFits' /\ LifeFits' /\ MovedSomewhere'
  BY DEF TransferInv, JournalFits, LifeFits, MovedSomewhere, Journaled, Staged
<1>2. ForeignIsApart'
  <2>1. SUFFICES ASSUME NEW p \in Providers, Foreign(p)'
                 PROVE  Apart(p)'
    BY DEF ForeignIsApart
  <2>2. Foreign(p) /\ Apart(p) /\ marker'[p] = marker[p]
    BY <2>1 DEF Untouched, TransferInv, ForeignIsApart
  <2>3. Past' => journal.tgt # p
    BY <2>2 DEF Apart
  <2>4. ASSUME NEW q \in Providers, marker'[q].state = "moved" PROVE marker'[q].to # p
    BY <2>2, <2>4 DEF Apart
  <2> QED
    BY <2>2, <2>3, <2>4 DEF Apart
<1>3. FencedIsComplete'
  BY DEF FencedIsComplete, Journaled, Fenced_
<1> QED
  BY <1>1, <1>2, <1>3

\* ... nor marker.
LEMMA OutlineKeeps ==
  ASSUME TransferInv, UNCHANGED <<journal, life, marker, conn>>,
         other'.home = other.home \/ ~Foreign(other'.home),
         Untouched, Past' => Past \/ ~Foreign(journal.tgt),
         Journaled /\ Fenced_ => owed' \subseteq files'[journal.tgt]
  PROVE  JournalFits' /\ LifeFits' /\ ForeignIsApart' /\ MovedSomewhere' /\ FencedIsComplete'
<1>1. Fenced_' = Fenced_
  BY DEF Fenced_, Note
<1> QED
  BY <1>1, MarkersKeep

\* A step that only moves the run.
LEMMA RunOnly ==
  ASSUME TransferInv, run' \in Runs,
         UNCHANGED <<journal, life, cloud, local, conn, other, owed, made, ops>>,
         linked' \in BOOLEAN, RunFits', SeenIsKept', SourceIsKnown',
         Past' => Past \/ ~Foreign(journal.tgt)
  PROVE  TransferInv' /\ Untouched
<1>1. TransferTypes'
  BY DEF TransferInv, TransferTypes, cloud
<1>2. Untouched
  BY DEF Untouched, Foreign, cloud
<1>3. JournalFits' /\ LifeFits' /\ ForeignIsApart' /\ MovedSomewhere' /\ FencedIsComplete'
  <2>1. Journaled /\ Fenced_ => owed' \subseteq files'[journal.tgt]
    BY DEF TransferInv, FencedIsComplete, Journaled, Fenced_, cloud
  <2> QED
    BY <1>2, <2>1, OutlineKeeps DEF cloud
<1> QED
  BY <1>1, <1>2, <1>3 DEF TransferInv

LEMMA StopKeeps ==
  ASSUME TransferInv, run' = Idle,
         UNCHANGED <<journal, life, cloud, local, conn, other, linked, owed, made, ops>>
  PROVE  TransferInv' /\ Untouched
<1>1. RunFits' /\ SeenIsKept' /\ SourceIsKnown' /\ (Past' => Past)
  BY IdleStep
<1>2. run' \in Runs /\ linked' \in BOOLEAN
  BY IdleFields DEF TransferInv, TransferTypes
<1> QED
  BY <1>1, <1>2, RunOnly

\* A sync of profile and source before the fence, whatever the run does next.
LEMMA EarlySync ==
  ASSUME TransferInv, NEW E \in SUBSET Edits, NEW r \in Runs,
         ForcedSync(FALSE, E, r) \/ ForcedSync(TRUE, E, r),
         UNCHANGED <<journal, life, marker, conn, linked, owed, mishap, counts>>,
         run.pc \in Early, ~run.settle,
         r = Idle \/ /\ r.pc \in Early \ Snapped /\ ~r.settle
                     /\ r.pulled => run.pulled \/ (conn # None /\ ForcedSync(TRUE, E, r))
                     /\ r.pc \in Staging \/ run.pc \notin Staging
  PROVE  TransferInv' /\ Untouched
<1>1. /\ files' \in [Providers -> Contents] /\ local' \in SUBSET Edits
      /\ local \union E \subseteq local'
      /\ \A p \in Providers \ {conn} : files'[p] = files[p]
      /\ conn # None =>
           /\ files'[conn] = files[conn] \union local \union E
           /\ ForcedSync(TRUE, E, r) => files[conn] \subseteq local'
      /\ other' \in Devices /\ other'.home = other.home
      /\ Same(run', r)
  <2>1. conn # None => 0 \notin files[conn]
    BY ConnIsOurs
  <2> QED
    BY <2>1, TransferParts, ForcedFields
<1>2. /\ journal.src \in Providers /\ conn \in {None, journal.src}
      /\ ~(Journaled /\ Fenced_)
  BY TransferParts DEF RunFits, JournalFits, Early, Staging, Checking
<1>3. /\ run' \in Runs
      /\ run' = Idle \/ /\ run'.pc \in Early \ Snapped /\ ~run'.settle
                        /\ run'.pulled => run.pulled \/ (conn # None /\ ForcedSync(TRUE, E, r))
                        /\ run'.pc \in Staging \/ run.pc \notin Staging
  BY <1>1 DEF Same
<1>4. RunFits' /\ SeenIsKept' /\ SourceIsKnown' /\ (Past' => Past)
  <2>1. CASE run' = Idle
    BY <2>1, IdleStep
  <2>2. CASE run' # Idle
    <3>1. RunFits' /\ SeenIsKept'
      <4>1. ~(Fenced_')
        BY TransferParts DEF RunFits, Fenced_, Note
      <4> QED
        BY <1>3, <2>2, <4>1, EarlyStep
    <3>2. Past' => Past
      BY <1>3, <2>2 DEF Past, PastFence, Early, Staging, Checking
    <3>3. run'.pulled => files'[journal.src] \subseteq local'
      <4>1. run.pulled => files[journal.src] \subseteq local
        BY TransferParts DEF SourceIsKnown
      <4> QED
        BY <1>1, <1>2, <1>3, <2>2, <4>1, TransferConstants
    <3>4. SourceIsKnown'
      BY <1>3, <2>2, <3>3 DEF SourceIsKnown, Snapped, Verified, Early, Staging, Checking
    <3> QED
      BY <3>1, <3>2, <3>4
  <2> QED
    BY <2>1, <2>2
<1>5. Untouched
  BY <1>1, ConnIsOurs, NoZero, TransferConstants, TransferParts DEF Untouched, Foreign
<1>6. TransferTypes'
  BY <1>1, <1>3, TransferParts DEF TransferTypes, counts
<1>7. JournalFits' /\ LifeFits' /\ ForeignIsApart' /\ MovedSomewhere' /\ FencedIsComplete'
  BY <1>1, <1>2, <1>4, <1>5, OutlineKeeps
<1> QED
  BY <1>4, <1>5, <1>6, <1>7 DEF TransferInv

\* The source is pulled and pushed.
LEMMA SyncSourceKeeps == ASSUME TransferInv, SyncSource PROVE TransferInv' /\ Untouched
<1> DEFINE r == [Goto("bind") EXCEPT !.pulled = conn # None]
<1>1. /\ run.pc = "sync" /\ ForcedSync(TRUE, {}, r)
      /\ UNCHANGED <<journal, life, marker, conn, linked, owed, mishap, counts>>
  BY DEF SyncSource, At
<1>2. /\ r \in Runs /\ r.pc = "bind" /\ r.settle = run.settle /\ r.pulled = (conn # None)
  BY TransferParts DEF Goto, Runs, Places, Staging
<1> HIDE DEF r
<1>3. PICK q \in Runs : q = r
  BY <1>2
<1>4. ForcedSync(TRUE, {}, q)
  BY <1>1, <1>3 DEF ForcedSync, Saved
<1>5. ~run.settle
  BY <1>1, TransferParts DEF RunFits, Settling, Switching
<1>6. /\ q.pc \in Early \ Snapped /\ ~q.settle /\ q.pc \in Staging
      /\ q.pulled => conn # None /\ ForcedSync(TRUE, {}, q)
  BY <1>2, <1>3, <1>4, <1>5 DEF Early, Staging, Snapped, Verified
<1>7. {} \in SUBSET Edits /\ run.pc \in Early
  BY <1>1 DEF Early, Staging
<1> QED
  BY <1>1, <1>4, <1>5, <1>6, <1>7, EarlySync

\* What the target has is of this workspace, once the run looked.
LEMMA TargetIsOurs ==
  ASSUME TransferInv, Past, Journaled
  PROVE  /\ journal.tgt \in Providers /\ ~Foreign(journal.tgt)
         /\ files[journal.tgt] \in SUBSET Edits
<1>1. journal.tgt \in Providers
  BY TransferParts DEF JournalFits
<1>2. ~Foreign(journal.tgt)
  BY <1>1, TransferParts DEF ForeignIsApart, Apart
<1> QED
  BY <1>1, <1>2, TransferParts DEF Foreign, Contents

\* What the target holds is merged.
LEMMA MergeTargetKeeps == ASSUME TransferInv, MergeTarget PROVE TransferInv' /\ Untouched
<1> DEFINE r == Goto("prepare")
<1>1. /\ run.pc = "merge" /\ ForcedSync(FALSE, run.seen, r)
      /\ UNCHANGED <<journal, life, marker, conn, linked, owed, mishap, counts>>
  BY DEF MergeTarget, At
<1>2. /\ r \in Runs /\ r.pc = "prepare" /\ r.settle = run.settle /\ r.pulled = run.pulled
  BY TransferParts, GotoFields DEF Places, Checking
<1>3. run.seen \in SUBSET Edits
  BY TransferParts DEF Runs
<1> HIDE DEF r
<1>4. PICK q \in Runs : q = r
  BY <1>2
<1>5. PICK E \in SUBSET Edits : E = run.seen
  BY <1>3
<1>6. ForcedSync(FALSE, E, q)
  BY <1>1, <1>4, <1>5 DEF ForcedSync, Saved
<1>7. ~run.settle
  BY <1>1, TransferParts DEF RunFits, Settling, Switching
<1>8. /\ q.pc \in Early \ Snapped /\ ~q.settle /\ (q.pulled => run.pulled)
      /\ run.pc \notin Staging /\ run.pc \in Early
  BY <1>1, <1>2, <1>4, <1>7 DEF Early, Staging, Checking, Snapped, Verified
<1> QED
  BY <1>1, <1>6, <1>7, <1>8, EarlySync

\* Another attempt, or none.
LEMMA AgainKeeps ==
  ASSUME TransferInv, NEW E \in SUBSET Edits, NEW seen \in SUBSET Edits,
         Again(FALSE, E, seen) \/ Again(TRUE, E, seen),
         run.pc \in Verified, ~run.settle
  PROVE  TransferInv' /\ Untouched
<1> DEFINE r(pull) == IF run.tries > 1
                      THEN [Goto("snapshot") EXCEPT !.tries = @ - 1, !.seen = seen,
                                              !.pulled = @ \/ (pull /\ conn # None)]
                      ELSE Idle
<1>1. /\ ForcedSync(FALSE, E, r(FALSE)) \/ ForcedSync(TRUE, E, r(TRUE))
      /\ UNCHANGED <<journal, life, marker, conn, linked, owed, mishap, counts>>
  BY DEF Again
<1>2. ASSUME NEW pull \in BOOLEAN
      PROVE  /\ r(pull) \in Runs
             /\ r(pull) = Idle \/ /\ r(pull).pc = "snapshot" /\ r(pull).settle = run.settle
                                  /\ r(pull).pulled => run.pulled \/ (pull /\ conn # None)
  <2>1. CASE run.tries > 1
    <3> DEFINE b == (run.pulled \/ (pull /\ conn # None))
               x == [pc |-> "snapshot", settle |-> run.settle, tries |-> run.tries - 1,
                     snap |-> run.snap, seen |-> seen, redo |-> run.redo,
                     srcSame |-> run.srcSame, tgtSame |-> run.tgtSame, pulled |-> b,
                     blind |-> run.blind]
    <3>1. Goto("snapshot") \in Runs /\ Goto("snapshot").tries = run.tries
          /\ Goto("snapshot").pulled = run.pulled
      BY TransferParts, GotoFields DEF Places, Checking
    <3>2. r(pull) = [Goto("snapshot") EXCEPT !.tries = run.tries - 1, !.seen = seen,
                                              !.pulled = b]
      BY <2>1, <3>1
    <3>3. b \in BOOLEAN /\ run.tries - 1 \in 0..Attempts
      BY <2>1, TransferParts, TransferConstants DEF Runs
    <3> HIDE DEF b
    <3>4. /\ r(pull) \in Runs /\ r(pull).pc = "snapshot" /\ r(pull).settle = run.settle
          /\ r(pull).pulled = b
      BY <3>2, <3>3, TransferParts DEF Goto, Runs, Places, Checking
    <3> QED
      BY <3>4 DEF b
  <2>2. CASE ~(run.tries > 1)
    BY <2>2, IdleFields
  <2> QED
    BY <2>1, <2>2
<1> HIDE DEF r
<1>3. run.pc \in Early /\ run.pc \notin Staging /\ "snapshot" \in Early \ Snapped
  BY DEF Early, Verified, Checking, Staging, Snapped
<1>4. CASE ForcedSync(FALSE, E, r(FALSE))
  <2>1. PICK q \in Runs : q = r(FALSE)
    BY <1>2
  <2>2. ForcedSync(FALSE, E, q)
    BY <1>4, <2>1 DEF ForcedSync, Saved
  <2>3. q = Idle \/ (q.pc \in Early \ Snapped /\ ~q.settle /\ (q.pulled => run.pulled))
    BY <1>2, <1>3, <2>1
  <2> QED
    BY <1>1, <1>3, <2>2, <2>3, EarlySync
<1>5. CASE ForcedSync(TRUE, E, r(TRUE))
  <2>1. PICK q \in Runs : q = r(TRUE)
    BY <1>2
  <2>2. ForcedSync(TRUE, E, q)
    BY <1>5, <2>1 DEF ForcedSync, Saved
  <2>3. q = Idle \/ /\ q.pc \in Early \ Snapped /\ ~q.settle
                    /\ q.pulled => run.pulled \/ conn # None
    BY <1>2, <1>3, <2>1
  <2> QED
    BY <1>1, <1>3, <2>2, <2>3, EarlySync
<1> QED
  BY <1>1, <1>4, <1>5

\* A source without a marker gets one.
LEMMA BindSourceKeeps == ASSUME TransferInv, BindSource PROVE TransferInv' /\ Untouched
<1> USE TransferParts
<1>1. /\ run.pc = "bind" /\ UNCHANGED <<journal, life, local, conn, linked, owed, mishap, counts>>
      /\ journal.src \in Providers /\ journal.gen \in Nat /\ journal.gen > 0
      /\ ~Foreign(journal.src) /\ Journaled
  BY DEF BindSource, At, RunFits, JournalFits, ForeignIsApart, Apart, Journals
<1>2. /\ ~run.settle /\ run.pc \in Early /\ ~Fenced_
  BY <1>1 DEF RunFits, Early, Staging, Settling, Switching
<1>3. PICK r \in Runs : r = Goto("inspect")
  BY GotoFields DEF Places, Staging
<1>4. /\ r.pc = "inspect" /\ ~r.settle /\ r.pulled = run.pulled
  BY <1>2, <1>3, GotoFields DEF Places, Staging
<1>5. /\ files' = files /\ other' \in Devices /\ other'.home = other.home
      /\ run' \in Runs /\ run'.pc = "inspect" /\ ~run'.settle /\ run'.pulled = run.pulled
      /\ marker' \in [Providers -> Markers]
      /\ \A q \in Providers : marker'[q] = marker[q] \/ (q = journal.src /\ marker'[q].state = "active")
  <2>1. CASE Marked(journal.src)
    BY <1>3, <1>4, <2>1 DEF BindSource
  <2>2. CASE ~Marked(journal.src)
    <3> DEFINE m == [state |-> "active", to |-> journal.src, gen |-> journal.gen - 1, op |-> 0]
    <3>1. [Note("active", journal.src) EXCEPT !.gen = @ - 1, !.op = 0] = m
      <4> DEFINE g == journal.gen - 1
                 n == [state |-> "active", to |-> journal.src, gen |-> g, op |-> journal.op]
      <4>1. Note("active", journal.src).gen - 1 = g
        BY DEF Note
      <4> HIDE DEF g
      <4>2. [Note("active", journal.src) EXCEPT !.gen = g] = n
        BY DEF Note
      <4>3. [n EXCEPT !.op = 0] = [state |-> "active", to |-> journal.src, gen |-> g, op |-> 0]
        OBVIOUS
      <4>4. [Note("active", journal.src) EXCEPT !.gen = @ - 1, !.op = 0]
              = [[Note("active", journal.src) EXCEPT !.gen = g] EXCEPT !.op = 0]
        BY <4>1
      <4> QED
        BY <4>2, <4>3, <4>4 DEF g
    <3>2. m \in Markers
      BY <1>1 DEF Markers
    <3>3. /\ marker' = [marker EXCEPT ![journal.src] = m]
          /\ Saved(journal.src, {}, TRUE, r)
      BY <1>3, <2>2, <3>1 DEF BindSource, Saved
    <3>4. PICK p \in Providers : p = journal.src
      BY <1>1
    <3>5. {} \in SUBSET Edits /\ Saved(p, {}, TRUE, r)
      BY <3>3, <3>4 DEF Saved
    <3>6. /\ files' \in [Providers -> Contents]
          /\ files'[p] = files[p] \union {}
          /\ \A q \in Providers \ {p} : files'[q] = files[q]
          /\ other' \in Devices /\ other'.home = other.home
          /\ Same(run', r)
      BY <3>5, SavedFields
    <3>7. files' = files
      BY <3>6
    <3>8. /\ run' \in Runs /\ run'.pc = "inspect" /\ ~run'.settle /\ run'.pulled = run.pulled
      BY <1>4, <3>6 DEF Same
    <3> QED
      BY <1>1, <3>2, <3>3, <3>6, <3>7, <3>8
  <2> QED
    BY <2>1, <2>2
<1>6. ~(Fenced_')
  <2>1. marker'[journal.src] # Note("moved", journal.tgt)
    BY <1>1, <1>2, <1>5 DEF Note, Fenced_
  <2> QED
    BY <1>1, <2>1 DEF Fenced_, Note
<1>7. RunFits' /\ SeenIsKept'
  BY <1>1, <1>2, <1>5, <1>6, EarlyStep DEF Early, Staging
<1>8. SourceIsKnown'
  BY <1>1, <1>2, <1>5 DEF SourceIsKnown, Snapped, Verified
<1>9. Untouched
  BY <1>1, <1>5 DEF Untouched, Foreign
<1>10. Past' => Past
  BY <1>1, <1>5 DEF Past, PastFence, Staging
<1>11. TransferTypes'
  BY <1>1, <1>5 DEF TransferTypes, counts
<1>12. JournalFits' /\ LifeFits' /\ ForeignIsApart' /\ MovedSomewhere' /\ FencedIsComplete'
  BY <1>1, <1>5, <1>6, <1>9, <1>10, MarkersKeep
<1> QED
  BY <1>7, <1>8, <1>9, <1>11, <1>12 DEF TransferInv

\* The target is listed.
LEMMA InspectKeeps == ASSUME TransferInv, Inspect PROVE TransferInv' /\ Untouched
<1> USE TransferParts
<1> DEFINE p == journal.tgt
           ours == Marked(p) /\ marker[p].state # "theirs"
<1>1. /\ run.pc = "inspect"
      /\ UNCHANGED <<journal, life, cloud, local, conn, other, linked, owed, counts>>
      /\ ~run.settle /\ run.pc \in Early /\ ~Fenced_ /\ p \in Providers
  BY DEF Inspect, At, RunFits, Early, Staging, Settling, Switching, JournalFits
<1>2. CASE ours \/ (~Marked(p) /\ files[p] = {})
  <2>1. ~Foreign(p) /\ files[p] \in SUBSET Edits
    BY <1>1, <1>2 DEF ForeignIsApart, Foreign, Apart, Marked, Contents
  <2>2. /\ run' \in Runs /\ run'.pc \in {"merge", "prepare"} /\ run'.settle = run.settle
        /\ run'.pulled = run.pulled
    <3>1. \E pc \in {"merge", "prepare"} : run' = [Goto(pc) EXCEPT !.seen = files[p]]
      BY <1>2 DEF Inspect
    <3> QED
      BY <2>1, <3>1 DEF Goto, Runs, Places, Checking
  <2>3. RunFits' /\ SeenIsKept'
    <3>1. ~(Fenced_') /\ run'.pc \in Early
      BY <1>1, <2>2 DEF Fenced_, Note, cloud, Early, Checking
    <3> QED
      BY <1>1, <2>2, <3>1, EarlyStep
  <2>4. SourceIsKnown'
    BY <1>1, <2>2 DEF SourceIsKnown, Snapped, Verified, cloud
  <2> QED
    BY <1>1, <2>1, <2>2, <2>3, <2>4, RunOnly DEF counts, TransferTypes
<1>3. CASE ~(ours \/ (~Marked(p) /\ files[p] = {}))
  <2>1. run' = Idle
    BY <1>3 DEF Inspect
  <2> QED
    BY <1>1, <2>1, StopKeeps DEF counts
<1> QED
  BY <1>2, <1>3

\* The marker of the target says that a transfer is prepared.
LEMMA PreparedMarker ==
  ASSUME TransferInv, Journaled, Past, NEW state \in {"transfer-prepared", "active"},
         marker' = [marker EXCEPT ![journal.tgt] = Note(state, journal.tgt)],
         UNCHANGED <<journal, files>>
  PROVE  /\ marker' \in [Providers -> Markers]
         /\ \A q \in Providers : marker'[q] = marker[q] \/ marker'[q].state # "moved"
         /\ Untouched /\ Fenced_' = Fenced_
<1> USE TransferParts
<1>1. /\ journal.tgt \in Providers /\ ~Foreign(journal.tgt) /\ journal.src # journal.tgt
      /\ journal.src \in Providers
  BY TargetIsOurs DEF JournalFits
<1>2. Note(state, journal.tgt) \in Markers /\ Note(state, journal.tgt).state = state
  BY <1>1 DEF Note, Markers, Journals
<1>3. /\ marker' \in [Providers -> Markers]
      /\ marker'[journal.tgt].state = state
      /\ \A q \in Providers \ {journal.tgt} : marker'[q] = marker[q]
  BY <1>1, <1>2
<1>4. Untouched
  BY <1>1, <1>3 DEF Untouched, Foreign
<1>5. Fenced_' = Fenced_
  BY <1>1, <1>3 DEF Fenced_, Note
<1> QED
  BY <1>3, <1>4, <1>5

LEMMA PrepareKeeps == ASSUME TransferInv, Prepare PROVE TransferInv' /\ Untouched
<1> USE TransferParts
<1>1. /\ run.pc = "prepare"
      /\ marker' = [marker EXCEPT ![journal.tgt] = Note("transfer-prepared", journal.tgt)]
      /\ UNCHANGED <<journal, life, files, local, conn, other, linked, owed, mishap, counts>>
      /\ ~run.settle /\ run.pc \in Early /\ ~Fenced_ /\ Journaled /\ Past
  BY DEF Prepare, At, RunFits, Early, Staging, Checking, Settling, Switching, Past
<1>2. /\ run' \in Runs /\ run'.pc = "snapshot" /\ ~run'.settle /\ run'.pulled = run.pulled
  <2>1. run' = [Goto("snapshot") EXCEPT !.tries = Attempts]
    BY DEF Prepare
  <2>2. /\ Goto("snapshot") \in Runs /\ Goto("snapshot").pc = "snapshot"
        /\ Goto("snapshot").settle = run.settle /\ Goto("snapshot").pulled = run.pulled
    BY GotoFields DEF Places, Checking
  <2>3. Attempts \in 0..Attempts
    BY TransferConstants
  <2> QED
    BY <1>1, <2>1, <2>2, <2>3 DEF Runs
<1>3. /\ marker' \in [Providers -> Markers]
      /\ \A q \in Providers : marker'[q] = marker[q] \/ marker'[q].state # "moved"
      /\ Untouched /\ ~(Fenced_')
  BY <1>1, PreparedMarker
<1>4. RunFits' /\ SeenIsKept'
  BY <1>1, <1>2, <1>3, EarlyStep DEF Early, Checking
<1>5. SourceIsKnown'
  BY <1>1, <1>2 DEF SourceIsKnown, Snapped, Verified
<1>6. TransferTypes'
  BY <1>1, <1>2, <1>3 DEF TransferTypes, counts
<1>7. JournalFits' /\ LifeFits' /\ ForeignIsApart' /\ MovedSomewhere' /\ FencedIsComplete'
  BY <1>1, <1>3, MarkersKeep
<1> QED
  BY <1>3, <1>4, <1>5, <1>6, <1>7 DEF TransferInv

\* An attempt begins with what the profile holds.
LEMMA SnapshotKeeps == ASSUME TransferInv, Snapshot PROVE TransferInv' /\ Untouched
<1> USE TransferParts
<1>1. /\ run.pc = "snapshot"
      /\ UNCHANGED <<journal, life, cloud, local, conn, other, linked, owed, mishap, counts>>
      /\ Past /\ "upload" \in Early \intersect Settling /\ run.pc \in Early \intersect Settling
      /\ (~run.settle => ~Fenced_)
  BY DEF Snapshot, At, RunFits, Early, Staging, Checking, Settling, Past
<1>2. /\ run' \in Runs /\ run'.pc = "upload" /\ run'.settle = run.settle
      /\ run'.pulled = run.pulled /\ run'.snap = local /\ run'.seen = run.seen
      /\ run'.blind = ~run.pulled
  <2>1. run' = [Goto("upload") EXCEPT !.snap = local, !.srcSame = TRUE,
                                !.redo = FALSE, !.blind = ~run.pulled]
    BY DEF Snapshot
  <2> DEFINE b == ~run.pulled
             x == [pc |-> "upload", settle |-> run.settle, tries |-> run.tries, snap |-> local,
                   seen |-> run.seen, redo |-> FALSE, srcSame |-> TRUE,
                   tgtSame |-> run.tgtSame, pulled |-> run.pulled, blind |-> b]
  <2>2. b \in BOOLEAN
    OBVIOUS
  <2>3. run' = x
    <3> HIDE DEF b
    <3>1. run' = [Goto("upload") EXCEPT !.snap = local, !.srcSame = TRUE,
                                  !.redo = FALSE, !.blind = b]
      BY <2>1 DEF b
    <3> QED
      BY <3>1 DEF Goto, Runs
  <2>4. x \in Runs
    <3> HIDE DEF b
    <3> QED
      BY <2>2 DEF Runs, Places, Checking
  <2> QED
    BY <2>3, <2>4
<1>3. CASE run.settle
  <2>1. RunFits' /\ SourceIsKnown'
    BY <1>1, <1>2, <1>3, SettlingStep
  <2>2. SeenIsKept'
    BY <1>1, <1>2, <1>3 DEF SeenIsKept
  <2> QED
    BY <1>1, <1>2, <2>1, <2>2, RunOnly DEF counts, TransferTypes
<1>4. CASE ~run.settle
  <2>1. RunFits' /\ SeenIsKept'
    <3>1. ~(Fenced_')
      BY <1>1, <1>4 DEF Fenced_, Note, cloud
    <3> QED
      BY <1>1, <1>2, <1>4, <3>1, EarlyStep
  <2>2. SourceIsKnown'
    BY <1>1, <1>2, <1>4 DEF SourceIsKnown, Snapped, Verified, cloud
  <2> QED
    BY <1>1, <1>2, <2>1, <2>2, RunOnly DEF counts, TransferTypes
<1> QED
  BY <1>3, <1>4

\* A step between two requests of an attempt.
LEMMA MovesOn ==
  ASSUME TransferInv, run' \in Runs, run'.settle = run.settle, linked' \in BOOLEAN,
         UNCHANGED <<journal, life, cloud, local, conn, other, owed, made, ops>>,
         run.settle => /\ run.pc \in Settling
                       /\ run'.pc \in Settling \ {"snapshot", "upload"},
         ~run.settle => /\ run.pc \in Checking /\ run'.pc \in Checking
                        /\ SourceIsKnown'
  PROVE  TransferInv' /\ Untouched
<1>1. CASE run.settle
  <2>1. RunFits' /\ SourceIsKnown' /\ Past
    BY <1>1, SettlingStep
  <2>2. SeenIsKept'
    BY <1>1 DEF SeenIsKept
  <2> QED
    BY <2>1, <2>2, RunOnly
<1>2. CASE ~run.settle
  <2>1. run.pc \in Early /\ run'.pc \in Early /\ Past
    BY <1>2 DEF Early, Past, Checking, Staging
  <2>2. ~(Fenced_')
    BY <1>2, <2>1, TransferParts DEF RunFits, Fenced_, Note, cloud
  <2>3. RunFits' /\ SeenIsKept'
    BY <1>2, <2>1, <2>2, EarlyStep
  <2> QED
    BY <1>2, <2>1, <2>3, RunOnly
<1> QED
  BY <1>1, <1>2

\* The snapshot replaces what the target was known to hold.
LEMMA UploadKeeps == ASSUME TransferInv, Upload PROVE TransferInv' /\ Untouched
<1> USE TransferParts
<1> DEFINE p == journal.tgt
<1>1. /\ run.pc = "upload"
      /\ files' = [files EXCEPT ![p] = run.snap \union (files[p] \ run.seen)]
      /\ run' = [Goto(IF run.settle THEN "mark" ELSE "fingerprint") EXCEPT !.seen = files'[p]]
      /\ other' = IF other.home = p THEN [other EXCEPT !.fresh = FALSE] ELSE other
      /\ UNCHANGED <<journal, life, marker, local, conn, linked, owed, mishap, counts>>
  BY DEF Upload, At
<1>2. Past /\ Journaled /\ (~run.settle => ~Fenced_) /\ run.pc \in Early \intersect Settling
  BY <1>1 DEF RunFits, Past, Early, Staging, Checking, Settling
<1>3. /\ p \in Providers /\ ~Foreign(p) /\ files[p] \in SUBSET Edits /\ run.snap \in SUBSET Edits
      /\ journal.src \in Providers /\ journal.src # p
  BY <1>2, TargetIsOurs DEF JournalFits, Runs
<1>4. /\ files'[p] = run.snap \union (files[p] \ run.seen) /\ files'[p] \in SUBSET Edits
      /\ \A q \in Providers \ {p} : files'[q] = files[q]
      /\ files' \in [Providers -> Contents]
  BY <1>1, <1>3 DEF Contents
<1>5. /\ run' \in Runs /\ run'.settle = run.settle /\ run'.pulled = run.pulled
      /\ run'.pc = IF run.settle THEN "mark" ELSE "fingerprint"
      /\ run'.snap = run.snap /\ run'.srcSame = run.srcSame /\ run'.blind = run.blind
  <2>1. \E pc \in {"mark", "fingerprint"} : /\ pc = IF run.settle THEN "mark" ELSE "fingerprint"
                                            /\ run' = [Goto(pc) EXCEPT !.seen = files'[p]]
    BY <1>1
  <2> QED
    BY <1>4, <2>1 DEF Goto, Runs, Places, Checking, Settling
<1>6. other' \in Devices /\ other'.home = other.home
  BY <1>1 DEF Devices
<1>7. TransferTypes'
  BY <1>1, <1>4, <1>5, <1>6 DEF TransferTypes, counts
<1>8. Untouched
  <2>1. 0 \notin files'[p]
    BY <1>4, NoZero
  <2> QED
    BY <1>1, <1>3, <1>4, <2>1 DEF Untouched, Foreign
<1>9. RunFits' /\ SeenIsKept' /\ SourceIsKnown'
  <2>1. CASE run.settle
    <3>1. run'.pc \in Settling
      BY <1>5, <2>1 DEF Settling
    <3>2. RunFits' /\ SourceIsKnown'
      BY <1>1, <1>2, <1>5, <2>1, <3>1, SettlingStep
    <3> QED
      BY <1>5, <2>1, <3>2 DEF SeenIsKept
  <2>2. CASE ~run.settle
    <3>1. ~(Fenced_') /\ run'.pc \in Early
      BY <1>1, <1>2, <1>5, <2>2 DEF Fenced_, Note, Early, Checking
    <3>2. RunFits' /\ SeenIsKept'
      BY <1>1, <1>2, <1>5, <2>2, <3>1, EarlyStep
    <3>3. SourceIsKnown'
      BY <1>1, <1>3, <1>4, <1>5, <2>2 DEF SourceIsKnown, Snapped, Verified
    <3> QED
      BY <3>2, <3>3
  <2> QED
    BY <2>1, <2>2
<1>10. ASSUME Fenced_ PROVE owed' \subseteq files'[p]
  <2>1. run.settle /\ run.seen \subseteq run.snap /\ owed \subseteq files[p]
    BY <1>1, <1>2, <1>10 DEF SeenIsKept, FencedIsComplete, Fenced_, Journaled
  <2> QED
    BY <1>1, <1>4, <2>1
<1>11. JournalFits' /\ LifeFits' /\ ForeignIsApart' /\ MovedSomewhere' /\ FencedIsComplete'
  BY <1>1, <1>2, <1>6, <1>8, <1>10, OutlineKeeps
<1> QED
  BY <1>7, <1>8, <1>9, <1>11 DEF TransferInv

LEMMA MarkSettledKeeps == ASSUME TransferInv, MarkSettled PROVE TransferInv' /\ Untouched
<1> USE TransferParts
<1>1. /\ run.pc = "mark"
      /\ marker' = [marker EXCEPT ![journal.tgt] = Note("transfer-prepared", journal.tgt)]
      /\ UNCHANGED <<journal, life, files, local, conn, other, linked, owed, mishap, counts>>
      /\ run.settle /\ run.pc \in Settling /\ Journaled /\ Past
  BY DEF MarkSettled, At, RunFits, Early, Staging, Checking, Settling, Fencing, Past
<1>2. /\ run' \in Runs /\ run'.pc = "fingerprint" /\ run'.settle
  BY <1>1, GotoFields DEF MarkSettled, Places, Checking
<1>3. /\ marker' \in [Providers -> Markers]
      /\ \A q \in Providers : marker'[q] = marker[q] \/ marker'[q].state # "moved"
      /\ Untouched /\ Fenced_' = Fenced_
  BY <1>1, PreparedMarker
<1>4. RunFits' /\ SourceIsKnown'
  BY <1>1, <1>2, SettlingStep DEF Settling
<1>5. SeenIsKept'
  BY <1>2 DEF SeenIsKept
<1>6. TransferTypes'
  BY <1>1, <1>2, <1>3 DEF TransferTypes, counts
<1>7. Fenced_' => owed' \subseteq files'[journal.tgt]
  BY <1>1, <1>3 DEF FencedIsComplete, Fenced_, Journaled
<1>8. JournalFits' /\ LifeFits' /\ ForeignIsApart' /\ MovedSomewhere' /\ FencedIsComplete'
  BY <1>1, <1>3, <1>7, MarkersKeep
<1> QED
  BY <1>3, <1>4, <1>5, <1>6, <1>8 DEF TransferInv

LEMMA FingerprintKeeps == ASSUME TransferInv, Fingerprint PROVE TransferInv' /\ Untouched
<1> USE TransferParts
<1>1. /\ run.pc = "fingerprint"
      /\ UNCHANGED <<journal, life, cloud, local, conn, other, linked, owed, mishap, counts>>
      /\ run' = [Goto("verify") EXCEPT !.tgtSame = TRUE]
  BY DEF Fingerprint, At
<1>2. /\ run' \in Runs /\ run'.pc = "verify" /\ run'.settle = run.settle
      /\ run'.snap = run.snap /\ run'.pulled = run.pulled /\ run'.srcSame = run.srcSame
      /\ run'.blind = run.blind
  BY <1>1 DEF Goto, Runs, Places, Checking
<1>3. ~run.settle => SourceIsKnown'
  BY <1>1, <1>2 DEF SourceIsKnown, Snapped, Verified, cloud
<1> QED
  BY <1>1, <1>2, <1>3, MovesOn DEF Settling, Checking, counts, TransferTypes

\* The target is read back.
LEMMA VerifyKeeps == ASSUME TransferInv, Verify PROVE TransferInv' /\ Untouched
<1> USE TransferParts
<1>1. CASE files[journal.tgt] = run.snap /\ Prepared
  <2>1. /\ run.pc = "verify"
        /\ UNCHANGED <<journal, life, cloud, local, conn, other, linked, owed, mishap, counts>>
        /\ run' = [Goto("compare") EXCEPT !.seen = run.snap]
    BY <1>1 DEF Verify, At
  <2>2. /\ run' \in Runs /\ run'.pc = "compare" /\ run'.settle = run.settle
        /\ run'.snap = run.snap /\ run'.pulled = run.pulled /\ run'.srcSame = run.srcSame
        /\ run'.blind = run.blind
    BY <2>1 DEF Goto, Runs, Places, Checking
  <2>3. ~run.settle => SourceIsKnown'
    BY <1>1, <2>1, <2>2 DEF SourceIsKnown, Snapped, Verified, cloud
  <2> QED
    BY <2>1, <2>2, <2>3, MovesOn DEF Settling, Checking, counts, TransferTypes
<1>2. CASE ~(files[journal.tgt] = run.snap /\ Prepared)
  BY <1>2, StopKeeps DEF Verify, Stop, counts
<1> QED
  BY <1>1, <1>2

\* The next step of a comparison that found nothing.
LEMMA NothingFound ==
  ASSUME TransferInv, NEW pc \in Verified, run' = Goto(pc), linked' \in BOOLEAN,
         UNCHANGED <<journal, life, cloud, local, conn, other, owed, made, ops>>,
         ~run.settle, run.pc \in Verified
  PROVE  TransferInv' /\ Untouched
<1> USE TransferParts
<1>1. pc \in Checking /\ pc \in Places /\ run.pc \in Checking
  BY DEF Verified, Checking, Places
<1>2. /\ run' \in Runs /\ run'.pc = pc /\ run'.settle = run.settle
      /\ run'.snap = run.snap /\ run'.pulled = run.pulled /\ run'.srcSame = run.srcSame
      /\ run'.blind = run.blind
  BY <1>1, GotoFields
<1>3. SourceIsKnown'
  BY <1>2 DEF SourceIsKnown, Snapped, Verified, cloud
<1> QED
  BY <1>1, <1>2, <1>3, MovesOn

LEMMA CompareKeeps == ASSUME TransferInv, Compare PROVE TransferInv' /\ Untouched
<1> USE TransferParts
<1>1. run.pc = "compare" /\ ~run.settle /\ run.pc \in Verified /\ Past /\ Journaled
  BY DEF Compare, At, Verified, Past, RunFits, Staging
<1>2. PICK E \in SUBSET Edits : E = files[journal.tgt]
  BY <1>1, TargetIsOurs
<1>3. {} \in SUBSET Edits /\ run.seen \in SUBSET Edits
  BY DEF Runs
<1>4. PICK S \in SUBSET Edits : S = run.seen
  BY <1>3
<1>5. CASE Again(FALSE, E, E)
  BY <1>1, <1>5, AgainKeeps
<1>6. CASE Again(FALSE, {}, run.seen)
  <2>1. Again(FALSE, {}, S)
    BY <1>4, <1>6 DEF Again, ForcedSync, Saved
  <2> QED
    BY <1>1, <1>3, <2>1, AgainKeeps
<1>7. CASE Stop
  BY <1>7, StopKeeps DEF Stop, counts
<1>8. CASE /\ run' = Goto("recheck")
           /\ UNCHANGED <<journal, life, cloud, local, conn, other, linked, owed, mishap, counts>>
  BY <1>1, <1>8, NothingFound DEF Verified, counts, TransferTypes
<1>9. Again(FALSE, files[journal.tgt], files[journal.tgt]) => Again(FALSE, E, E)
  BY <1>2 DEF Again, ForcedSync, Saved
<1> QED
  BY <1>5, <1>6, <1>7, <1>8, <1>9 DEF Compare

LEMMA RecheckKeeps == ASSUME TransferInv, Recheck PROVE TransferInv' /\ Untouched
<1> USE TransferParts
<1>1. run.pc = "recheck" /\ ~run.settle /\ run.pc \in Verified
  BY DEF Recheck, At, Verified, RunFits, Settling, Switching
<1>2. {} \in SUBSET Edits /\ run.seen \in SUBSET Edits
  BY DEF Runs
<1>3. PICK S \in SUBSET Edits : S = run.seen
  BY <1>2
<1>4. CASE Again(TRUE, {}, run.seen)
  <2>1. Again(TRUE, {}, S)
    BY <1>3, <1>4 DEF Again, ForcedSync, Saved
  <2> QED
    BY <1>1, <1>2, <2>1, AgainKeeps
<1>5. CASE Stop
  BY <1>5, StopKeeps DEF Stop, counts
<1>6. CASE /\ run' = Goto("link")
           /\ UNCHANGED <<journal, life, cloud, local, conn, other, linked, owed, mishap, counts>>
  BY <1>1, <1>6, NothingFound DEF Verified, counts, TransferTypes
<1> QED
  BY <1>4, <1>5, <1>6 DEF Recheck

LEMMA LinkKeeps == ASSUME TransferInv, Link PROVE TransferInv' /\ Untouched
<1>1. /\ run.pc = "link" /\ run' = Goto("target") /\ linked' = TRUE
      /\ UNCHANGED <<journal, life, cloud, local, conn, other, owed, mishap, counts>>
      /\ ~run.settle /\ run.pc \in Verified /\ "target" \in Verified
  BY TransferParts DEF Link, At, Verified, RunFits, Settling, Switching
<1> QED
  BY <1>1, NothingFound DEF counts

\* The target is merged if it changed during the link.
LEMMA TargetAfterLinkKeeps == ASSUME TransferInv, TargetAfterLink PROVE TransferInv' /\ Untouched
<1> USE TransferParts
<1>1. run.pc = "target" /\ ~run.settle /\ run.pc \in Verified /\ Past /\ Journaled
  BY DEF TargetAfterLink, At, Verified, RunFits, Settling, Switching, Past, Staging
<1>2. CASE Prepared
  <2> DEFINE E == files[journal.tgt]
  <2>1. /\ UNCHANGED <<journal, life, cloud, conn, other, linked, owed, mishap, counts>>
        /\ local' \in {local, local \union E}
        /\ run' \in {Goto("source"), [Goto("source") EXCEPT !.redo = TRUE, !.seen = E]}
    BY <1>2 DEF TargetAfterLink
  <2>2. E \in SUBSET Edits
    BY <1>1, TargetIsOurs
  <2>3. /\ run' \in Runs /\ run'.pc = "source" /\ run'.settle = run.settle
        /\ run'.snap = run.snap /\ run'.pulled = run.pulled /\ run'.srcSame = run.srcSame
        /\ run'.blind = run.blind
    BY <2>1, <2>2 DEF Goto, Runs, Places, Checking
  <2>4. SourceIsKnown'
    BY <1>1, <2>1, <2>3 DEF SourceIsKnown, Snapped, Verified, cloud
  <2>5. ~(Fenced_') /\ ~Fenced_ /\ run.pc \in Early /\ run'.pc \in Early
    BY <1>1, <2>1, <2>3 DEF RunFits, Fenced_, Note, cloud, Early, Verified, Checking
  <2>6. RunFits' /\ SeenIsKept'
    BY <1>1, <2>1, <2>3, <2>5, EarlyStep
  <2>7. TransferTypes'
    BY <2>1, <2>2, <2>3 DEF TransferTypes, counts, cloud
  <2>8. Untouched
    BY <2>1 DEF Untouched, Foreign, cloud
  <2>9. JournalFits' /\ LifeFits' /\ ForeignIsApart' /\ MovedSomewhere' /\ FencedIsComplete'
    BY <1>1, <2>1, <2>5, <2>8, OutlineKeeps DEF cloud
  <2> QED
    BY <2>4, <2>6, <2>7, <2>8, <2>9 DEF TransferInv
<1>3. CASE ~Prepared
  BY <1>3, StopKeeps DEF TargetAfterLink, Stop, counts
<1> QED
  BY <1>2, <1>3

\* The last comparison, and what the workspace is then.
LEMMA SourceAfterLinkKeeps == ASSUME TransferInv, SourceAfterLink PROVE TransferInv' /\ Untouched
<1> USE TransferParts
<1> DEFINE changed == run.redo \/ ~run.srcSame \/ local # run.snap
<1>1. /\ run.pc = "source" /\ ~run.settle /\ run.pc \in Verified /\ Past /\ Journaled
      /\ ~Fenced_ /\ ~PastFence /\ conn \in {None, journal.src}
  BY DEF SourceAfterLink, At, Verified, RunFits, Settling, Switching, Past, Staging, Early,
         Checking
<1>2. CASE changed
  <2>1. {} \in SUBSET Edits /\ run.seen \in SUBSET Edits
    BY DEF Runs
  <2>2. PICK S \in SUBSET Edits : S = run.seen
    BY <2>1
  <2>3. Again(~run.srcSame, {}, run.seen)
    BY <1>2 DEF SourceAfterLink
  <2>4. Again(FALSE, {}, S) \/ Again(TRUE, {}, S)
    <3>1. run.srcSame \in BOOLEAN
      BY DEF Runs
    <3>2. CASE run.srcSame
      <4>1. (~run.srcSame) = FALSE
        BY <3>2
      <4> QED
        BY <2>2, <2>3, <4>1 DEF Again, ForcedSync, Saved
    <3>3. CASE ~run.srcSame
      <4>1. (~run.srcSame) = TRUE
        BY <3>3
      <4> QED
        BY <2>2, <2>3, <4>1 DEF Again, ForcedSync, Saved
    <3> QED
      BY <3>2, <3>3
  <2> QED
    BY <1>1, <2>1, <2>4, AgainKeeps
<1>3. CASE ~changed
  <2>1. /\ owed' = local \union (IF run.blind THEN {} ELSE files[journal.src])
        /\ run' = Goto("fence")
        /\ UNCHANGED <<journal, life, cloud, local, conn, other, linked, mishap, counts>>
    BY <1>3 DEF SourceAfterLink
  <2>2. /\ run' \in Runs /\ run'.pc = "fence" /\ run'.settle = run.settle
        /\ run'.pulled = run.pulled
    BY <2>1, GotoFields DEF Places, Fencing
  <2>3. files[journal.src] \in SUBSET Edits
    BY <1>1 DEF JournalFits, ForeignIsApart, Apart, Foreign, Contents
  <2>4. owed' \in SUBSET Edits /\ owed' \subseteq files[journal.tgt]
    BY <1>1, <1>3, <2>1, <2>3 DEF SourceIsKnown, Snapped, Verified
  <2>5. TransferTypes'
    BY <2>1, <2>2, <2>4 DEF TransferTypes, counts, cloud
  <2>6. SourceIsKnown' /\ SeenIsKept'
    BY <1>1, <2>1, <2>2, <2>4 DEF SourceIsKnown, SeenIsKept, Snapped, Verified, cloud
  <2>7. ~(Fenced_')
    BY <1>1, <2>1 DEF Fenced_, Note, cloud
  <2>8. RunFits'
    BY <1>1, <2>1, <2>2, <2>7 DEF RunFits, Journaled, PastFence, Early, Staging, Checking, Fencing
  <2>9. Untouched
    BY <2>1 DEF Untouched, Foreign, cloud
  <2>10. JournalFits' /\ LifeFits' /\ ForeignIsApart' /\ MovedSomewhere' /\ FencedIsComplete'
    BY <1>1, <2>1, <2>9, OutlineKeeps DEF cloud
  <2> QED
    BY <2>5, <2>6, <2>8, <2>9, <2>10 DEF TransferInv
<1> QED
  BY <1>2, <1>3

\* The source is marked as moved.
LEMMA FenceKeeps == ASSUME TransferInv, Fence PROVE TransferInv' /\ Untouched
<1> USE TransferParts
<1>1. /\ run.pc = "fence"
      /\ marker' = [marker EXCEPT ![journal.src] = Note("moved", journal.tgt)]
      /\ run' = Goto("touch")
      /\ UNCHANGED <<journal, life, files, local, conn, other, linked, owed, mishap, counts>>
  BY DEF Fence, At
<1>2. /\ ~run.settle /\ Past /\ Journaled /\ conn \in {None, journal.src}
      /\ owed \subseteq files[journal.tgt]
  BY <1>1 DEF RunFits, Settling, Switching, Past, Staging, SourceIsKnown
<1>3. /\ journal.src \in Providers /\ ~Foreign(journal.src)
      /\ journal.tgt \in Providers /\ ~Foreign(journal.tgt)
  BY <1>2, TargetIsOurs DEF JournalFits, ForeignIsApart, Apart
<1>4. /\ run' \in Runs /\ run'.pc = "touch" /\ run'.settle = run.settle
      /\ run'.pulled = run.pulled
  BY <1>1, GotoFields DEF Places, Fencing
<1>5. /\ Note("moved", journal.tgt) \in Markers /\ Note("moved", journal.tgt).to = journal.tgt
  BY <1>3 DEF Note, Markers, Journals
<1>6. /\ marker' \in [Providers -> Markers]
      /\ marker'[journal.src] = Note("moved", journal.tgt)
      /\ \A q \in Providers \ {journal.src} : marker'[q] = marker[q]
  BY <1>1, <1>3, <1>5
<1>7. Fenced_'
  BY <1>1, <1>6 DEF Fenced_, Note
<1>8. RunFits'
  BY <1>1, <1>2, <1>4, <1>7 DEF RunFits, Journaled, Early, Staging, Checking, Fencing
<1>9. SourceIsKnown' /\ SeenIsKept'
  BY <1>1, <1>2, <1>4 DEF SourceIsKnown, SeenIsKept, Snapped, Verified
<1>10. TransferTypes'
  BY <1>1, <1>4, <1>6 DEF TransferTypes, counts
<1>11. Untouched
  BY <1>1, <1>3, <1>6 DEF Untouched, Foreign
<1>12. JournalFits' /\ LifeFits' /\ ForeignIsApart' /\ MovedSomewhere' /\ FencedIsComplete'
  BY <1>1, <1>2, <1>3, <1>5, <1>6, <1>11, MarkersKeep
<1> QED
  BY <1>8, <1>9, <1>10, <1>11, <1>12 DEF TransferInv

\* Its manifest is saved.
LEMMA TouchKeeps == ASSUME TransferInv, Touch PROVE TransferInv' /\ Untouched
<1> USE TransferParts
<1>1. /\ run.pc = "touch"
      /\ UNCHANGED <<journal, life, marker, local, conn, linked, owed, mishap, counts>>
      /\ Saved(journal.src, {}, TRUE, Goto("record"))
  BY DEF Touch, At
<1>2. ~run.settle /\ Past /\ Journaled /\ conn \in {None, journal.src} /\ Fenced_
  BY <1>1 DEF RunFits, Settling, Switching, Past, Staging
<1>3. PICK p \in Providers : p = journal.src
  BY <1>2 DEF JournalFits
<1>4. PICK r \in Runs : r = Goto("record")
  BY GotoFields DEF Places, Fencing
<1>5. {} \in SUBSET Edits /\ Saved(p, {}, TRUE, r)
  BY <1>1, <1>3, <1>4 DEF Saved
<1>6. /\ files' \in [Providers -> Contents]
      /\ files'[p] = files[p] \union {}
      /\ \A q \in Providers \ {p} : files'[q] = files[q]
      /\ other' \in Devices /\ other'.home = other.home
      /\ Same(run', r)
  BY <1>5, SavedFields
<1>7. files' = files
  BY <1>6
<1>8. /\ run' \in Runs /\ run'.pc = "record" /\ run'.settle = run.settle
      /\ run'.pulled = run.pulled
  <2>1. r.pc = "record" /\ r.settle = run.settle /\ r.pulled = run.pulled
    BY <1>4, GotoFields DEF Places, Fencing
  <2> QED
    BY <1>6, <2>1 DEF Same
<1>9. RunFits'
  BY <1>1, <1>2, <1>8 DEF RunFits, Journaled, Fenced_, Note, Early, Staging, Checking, Fencing
<1>10. SourceIsKnown' /\ SeenIsKept'
  BY <1>1, <1>2, <1>7, <1>8 DEF SourceIsKnown, SeenIsKept, Snapped, Verified
<1>11. TransferTypes'
  BY <1>1, <1>6, <1>8 DEF TransferTypes, counts
<1>12. Untouched
  BY <1>1, <1>7 DEF Untouched, Foreign
<1>13. JournalFits' /\ LifeFits' /\ ForeignIsApart' /\ MovedSomewhere' /\ FencedIsComplete'
  BY <1>1, <1>2, <1>6, <1>7, <1>12, OutlineKeeps DEF FencedIsComplete, Journaled, Fenced_
<1> QED
  BY <1>9, <1>10, <1>11, <1>12, <1>13 DEF TransferInv

\* What a step keeps that only moves the stage of the journal on.
LEMMA StageKeeps ==
  ASSUME TransferInv, Journaled, Past,
         NEW stage \in {"source-marked", "activated"},
         journal' = [journal EXCEPT !.stage = stage],
         Staged => stage = "source-marked",
         UNCHANGED <<life, cloud, local, conn, other, linked, owed, counts>>,
         run' \in Runs, run'.settle, run'.pc \in {"converge", "own"},
         conn \in {None, journal.src}, run'.pc = "own" => ~Staged
  PROVE  TransferInv' /\ Untouched
<1> USE TransferParts
<1>1. /\ journal' \in Journals /\ journal'.src = journal.src /\ journal'.tgt = journal.tgt
      /\ journal'.gen = journal.gen /\ journal'.op = journal.op /\ journal'.stage = stage
  BY DEF Journals
<1>2. Journaled'
  BY <1>1 DEF Journaled, NoJournal
<1>3. TransferTypes'
  BY <1>1 DEF TransferTypes, cloud, counts
<1>4. JournalFits' /\ LifeFits' /\ MovedSomewhere'
  <2>1. JournalFits' /\ MovedSomewhere'
    BY <1>1 DEF JournalFits, MovedSomewhere, cloud
  <2>2. LifeFits'
    BY <1>1 DEF LifeFits, Staged
  <2> QED
    BY <2>1, <2>2
<1>5. Fenced_' = Fenced_
  BY <1>1 DEF Fenced_, Note, cloud
<1>6. RunFits' /\ SeenIsKept' /\ SourceIsKnown'
  <2>1. PastFence'
    BY <1>1 DEF PastFence
  <2>2. RunFits'
    BY <1>1, <1>2, <2>1 DEF RunFits, Settling, Switching, Staged
  <2> QED
    BY <2>2 DEF SeenIsKept, SourceIsKnown
<1>7. Untouched
  BY DEF Untouched, Foreign, cloud
<1>8. ForeignIsApart'
  <2>1. SUFFICES ASSUME NEW p \in Providers, Foreign(p)'
                 PROVE  Apart(p)'
    BY DEF ForeignIsApart
  <2>2. Apart(p)
    BY <2>1 DEF ForeignIsApart, Foreign, cloud
  <2> QED
    BY <1>1, <2>2 DEF Apart, cloud
<1>9. FencedIsComplete'
  BY <1>1, <1>5 DEF FencedIsComplete, Fenced_, Journaled, cloud
<1> QED
  BY <1>3, <1>4, <1>6, <1>7, <1>8, <1>9 DEF TransferInv

LEMMA RecordFenceKeeps == ASSUME TransferInv, RecordFence PROVE TransferInv' /\ Untouched
<1> USE TransferParts
<1>1. /\ run.pc = "record" /\ journal' = [journal EXCEPT !.stage = "source-marked"]
      /\ run' = [Goto("converge") EXCEPT !.settle = TRUE, !.tries = Attempts]
      /\ UNCHANGED <<life, cloud, local, conn, other, linked, owed, mishap, counts>>
  BY DEF RecordFence, At
<1>2. Past /\ Journaled /\ conn \in {None, journal.src}
  BY <1>1 DEF RunFits, Past, Staging
<1>3. run' \in Runs /\ run'.settle /\ run'.pc = "converge"
  <2>1. Goto("converge") \in Runs /\ Goto("converge").pc = "converge"
    BY GotoFields DEF Places, Settling
  <2>2. Attempts \in 0..Attempts
    BY TransferConstants
  <2> QED
    BY <1>1, <2>1, <2>2 DEF Runs
<1> QED
  BY <1>1, <1>2, <1>3, StageKeeps

LEMMA RecordActivatedKeeps == ASSUME TransferInv, RecordActivated PROVE TransferInv' /\ Untouched
<1> USE TransferParts
<1>1. /\ run.pc = "activated" /\ journal' = [journal EXCEPT !.stage = "activated"]
      /\ run' = Goto("own")
      /\ UNCHANGED <<life, cloud, local, conn, other, linked, owed, mishap, counts>>
  BY DEF RecordActivated, At
<1>2. Past /\ Journaled /\ conn \in {None, journal.src} /\ run.settle /\ ~Staged
  BY <1>1 DEF RunFits, Past, Staging, Early, Checking, Fencing
<1>3. run' \in Runs /\ run'.settle /\ run'.pc = "own"
  BY <1>1, <1>2, GotoFields DEF Places, Switching
<1> QED
  BY <1>1, <1>2, <1>3, StageKeeps

\* The target is merged again, or the rest of the work begins.
LEMMA ConvergeKeeps == ASSUME TransferInv, Converge PROVE TransferInv' /\ Untouched
<1> USE TransferParts
<1>1. /\ run.pc = "converge" /\ run.settle /\ Past /\ Journaled /\ PastFence
      /\ conn \in {None, journal.src}
  BY DEF Converge, At, RunFits, Past, Early, Staging, Checking, Fencing
<1>2. CASE journal.stage # "source-marked"
  <2>1. /\ run' = Goto("own")
        /\ UNCHANGED <<journal, life, cloud, local, conn, other, linked, owed, mishap, counts>>
    BY <1>2 DEF Converge
  <2>2. run' \in Runs /\ run'.pc = "own" /\ run'.settle = run.settle
    BY <2>1, GotoFields DEF Places, Switching
  <2>3. ~Staged
    BY <1>1, <1>2 DEF PastFence, LifeFits
  <2>4. RunFits' /\ SeenIsKept' /\ SourceIsKnown'
    <3>1. RunFits'
      BY <1>1, <2>1, <2>2, <2>3
      DEF RunFits, Journaled, Staged, PastFence, Settling, Switching
    <3> QED
      BY <1>1, <2>2, <3>1 DEF SeenIsKept, SourceIsKnown
  <2> QED
    BY <1>1, <2>1, <2>2, <2>4, RunOnly DEF TransferTypes, counts
<1>3. CASE journal.stage = "source-marked" /\ Prepared
  <2> DEFINE E == files[journal.tgt]
  <2>1. /\ local' = local \union E
        /\ run' = [Goto("snapshot") EXCEPT !.seen = E]
        /\ UNCHANGED <<journal, life, cloud, conn, other, linked, owed, mishap, counts>>
    BY <1>3 DEF Converge
  <2>2. E \in SUBSET Edits
    BY <1>1, TargetIsOurs
  <2>3. run' \in Runs /\ run'.pc = "snapshot" /\ run'.settle = run.settle /\ run'.seen = E
    BY <2>1, <2>2 DEF Goto, Runs, Places, Checking
  <2>4. RunFits' /\ SourceIsKnown'
    BY <1>1, <2>1, <2>3, SettlingStep DEF Settling
  <2>5. SeenIsKept'
    BY <2>1, <2>3 DEF SeenIsKept
  <2>6. TransferTypes'
    BY <2>1, <2>2, <2>3 DEF TransferTypes, counts, cloud
  <2>7. Untouched
    BY <2>1 DEF Untouched, Foreign, cloud
  <2>8. JournalFits' /\ LifeFits' /\ ForeignIsApart' /\ MovedSomewhere' /\ FencedIsComplete'
    BY <1>1, <2>1, <2>7, OutlineKeeps DEF cloud, FencedIsComplete, Journaled, Fenced_
  <2> QED
    BY <2>4, <2>5, <2>6, <2>7, <2>8 DEF TransferInv
<1>4. CASE journal.stage = "source-marked" /\ ~Prepared
  BY <1>4, StopKeeps DEF Converge, Stop, counts
<1> QED
  BY <1>2, <1>3, <1>4

LEMMA CompareSettledKeeps == ASSUME TransferInv, CompareSettled PROVE TransferInv' /\ Untouched
<1> USE TransferParts
<1>1. run.pc = "compare" /\ run.settle /\ run.pc \in Settling
  BY DEF CompareSettled, At, Settling
<1>2. CASE Stop
  BY <1>2, StopKeeps DEF Stop, counts
<1>3. CASE ~Stop
  <2>1. /\ UNCHANGED <<journal, life, cloud, local, conn, other, linked, owed, mishap, counts>>
        /\ run' \in {Goto("activate"), [Goto("converge") EXCEPT !.tries = @ - 1]}
        /\ run' # Goto("activate") => run.tries > 1
    BY <1>3 DEF CompareSettled
  <2>2. run' \in Runs /\ run'.pc \in {"activate", "converge"} /\ run'.settle = run.settle
    <3>1. CASE run' = Goto("activate")
      BY <3>1, GotoFields DEF Places, Settling
    <3>2. CASE run' # Goto("activate")
      <4>1. /\ Goto("converge") \in Runs /\ Goto("converge").pc = "converge"
            /\ Goto("converge").settle = run.settle /\ Goto("converge").tries = run.tries
        BY GotoFields DEF Places, Settling
      <4>2. run.tries - 1 \in 0..Attempts
        BY <2>1, <3>2, TransferConstants DEF Runs
      <4>3. run' = [Goto("converge") EXCEPT !.tries = run.tries - 1]
        BY <2>1, <3>2, <4>1
      <4> QED
        BY <4>1, <4>2, <4>3 DEF Runs
    <3> QED
      BY <3>1, <3>2
  <2> QED
    BY <1>1, <2>1, <2>2, MovesOn DEF Settling, TransferTypes, counts
<1> QED
  BY <1>2, <1>3

\* The lifecycle says that the target is the active provider.
LEMMA ActivateKeeps == ASSUME TransferInv, Activate PROVE TransferInv' /\ Untouched
<1> USE TransferParts
<1>1. /\ run.pc = "activate" /\ run.settle /\ Past /\ Journaled /\ PastFence
      /\ conn \in {None, journal.src}
  BY DEF Activate, At, RunFits, Past, Early, Staging, Checking, Fencing
<1>2. CASE LifeStands
  <2>1. /\ life' = [active |-> journal.tgt, gen |-> journal.gen, staged |-> None]
        /\ run' = Goto("activated")
        /\ UNCHANGED <<journal, cloud, local, conn, other, linked, owed, mishap, counts>>
    BY <1>2 DEF Activate
  <2>2. run' \in Runs /\ run'.pc = "activated" /\ run'.settle = run.settle
    BY <2>1, GotoFields DEF Places, Switching
  <2>3. journal.tgt \in Providers
    BY <1>1 DEF JournalFits
  <2>4. /\ life' \in Lives /\ life'.staged = None /\ life'.active = journal.tgt
    BY <2>1, <2>3 DEF Lives, Somewhere, Journals
  <2>5. TransferTypes'
    BY <2>1, <2>2, <2>4 DEF TransferTypes, counts, cloud
  <2>6. JournalFits' /\ LifeFits' /\ MovedSomewhere' /\ FencedIsComplete'
    BY <2>1, <2>4
    DEF JournalFits, LifeFits, Staged, MovedSomewhere, FencedIsComplete, Journaled, Note, cloud
  <2>7. RunFits' /\ SeenIsKept' /\ SourceIsKnown'
    <3>1. RunFits'
      BY <1>1, <2>1, <2>2, <2>4 DEF RunFits, Journaled, Staged, PastFence, Settling, Switching
    <3> QED
      BY <1>1, <2>2, <3>1 DEF SeenIsKept, SourceIsKnown
  <2>8. ForeignIsApart'
    <3>1. SUFFICES ASSUME NEW p \in Providers, Foreign(p)'
                   PROVE  Apart(p)'
      BY DEF ForeignIsApart
    <3>2. Apart(p)
      BY <2>1, <3>1 DEF ForeignIsApart, Foreign, cloud
    <3> QED
      BY <1>1, <2>1, <2>4, <3>2 DEF Apart, cloud
  <2>9. Untouched
    BY <2>1 DEF Untouched, Foreign, cloud
  <2> QED
    BY <2>5, <2>6, <2>7, <2>8, <2>9 DEF TransferInv
<1>3. CASE ~LifeStands
  BY <1>3, StopKeeps DEF Activate, Stop, counts
<1> QED
  BY <1>2, <1>3

\* The target is marked as the place of the workspace.
LEMMA OwnKeeps == ASSUME TransferInv, Own PROVE TransferInv' /\ Untouched
<1> USE TransferParts
<1>1. /\ run.pc = "own"
      /\ marker' = [marker EXCEPT ![journal.tgt] = Note("active", journal.tgt)]
      /\ run' = Goto("switch")
      /\ UNCHANGED <<journal, life, files, local, conn, other, linked, owed, mishap, counts>>
  BY DEF Own, At
<1>2. /\ run.settle /\ Past /\ Journaled /\ PastFence /\ ~Staged
      /\ conn \in {None, journal.src}
  BY <1>1 DEF RunFits, Past, Early, Staging, Checking, Fencing
<1>3. /\ run' \in Runs /\ run'.pc = "switch" /\ run'.settle = run.settle
  BY <1>1, GotoFields DEF Places, Switching
<1>4. /\ marker' \in [Providers -> Markers]
      /\ \A q \in Providers : marker'[q] = marker[q] \/ marker'[q].state # "moved"
      /\ Untouched /\ Fenced_' = Fenced_
  BY <1>1, <1>2, PreparedMarker
<1>5. RunFits'
  BY <1>1, <1>2, <1>3 DEF RunFits, Journaled, Staged, PastFence, Settling, Switching
<1>6. SeenIsKept' /\ SourceIsKnown'
  BY <1>2, <1>3 DEF SeenIsKept, SourceIsKnown
<1>7. TransferTypes'
  BY <1>1, <1>3, <1>4 DEF TransferTypes, counts
<1>8. Fenced_' => owed' \subseteq files'[journal.tgt]
  BY <1>1, <1>2, <1>4 DEF FencedIsComplete, Fenced_, Journaled
<1>9. JournalFits' /\ LifeFits' /\ ForeignIsApart' /\ MovedSomewhere' /\ FencedIsComplete'
  BY <1>1, <1>2, <1>4, <1>8, MarkersKeep
<1> QED
  BY <1>4, <1>5, <1>6, <1>7, <1>9 DEF TransferInv

\* The store connects to the target.
LEMMA SwitchKeeps == ASSUME TransferInv, Switch PROVE TransferInv' /\ Untouched
<1> USE TransferParts
<1>1. /\ run.pc = "switch" /\ conn' = journal.tgt
      /\ local' = local \union files[journal.tgt]
      /\ journal' = [journal EXCEPT !.stage = "finalizing"]
      /\ Saved(journal.tgt, local, FALSE, Goto("publish"))
      /\ UNCHANGED <<life, marker, linked, owed, mishap, counts>>
  BY DEF Switch, At
<1>2. run.settle /\ Past /\ Journaled /\ PastFence /\ ~Staged
  BY <1>1 DEF RunFits, Past, Early, Staging, Checking, Fencing
<1>3. /\ journal.tgt \in Providers /\ ~Foreign(journal.tgt) /\ files[journal.tgt] \in SUBSET Edits
      /\ local \in SUBSET Edits
  BY <1>2, TargetIsOurs
<1>4. PICK p \in Providers : p = journal.tgt
  BY <1>3
<1>5. PICK r \in Runs : r = Goto("publish")
  BY GotoFields DEF Places, Switching
<1>6. PICK E \in SUBSET Edits : E = local
  BY <1>3
<1>7. Saved(p, E, FALSE, r)
  BY <1>1, <1>4, <1>5, <1>6 DEF Saved
<1>8. /\ files' \in [Providers -> Contents]
      /\ files'[p] = files[p] \union E
      /\ \A q \in Providers \ {p} : files'[q] = files[q]
      /\ other' \in Devices /\ other'.home = other.home
      /\ Same(run', r)
  BY <1>7, SavedFields
<1>9. run' \in Runs /\ run'.pc = "publish" /\ run'.settle = run.settle
  <2>1. r.pc = "publish" /\ r.settle = run.settle
    BY <1>5, GotoFields DEF Places, Switching
  <2> QED
    BY <1>8, <2>1 DEF Same
<1>10. /\ journal' \in Journals /\ journal'.src = journal.src /\ journal'.tgt = journal.tgt
       /\ journal'.gen = journal.gen /\ journal'.op = journal.op /\ journal'.stage = "finalizing"
  BY <1>1 DEF Journals
<1>11. Journaled' /\ PastFence'
  BY <1>10 DEF Journaled, NoJournal, PastFence
<1>12. TransferTypes'
  BY <1>1, <1>3, <1>8, <1>9, <1>10 DEF TransferTypes, Somewhere, counts
<1>13. JournalFits' /\ LifeFits' /\ MovedSomewhere'
  <2>1. JournalFits'
    BY <1>2, <1>10 DEF JournalFits
  <2>2. LifeFits' /\ MovedSomewhere'
    BY <1>1, <1>2 DEF LifeFits, Staged, MovedSomewhere
  <2> QED
    BY <2>1, <2>2
<1>14. RunFits' /\ SeenIsKept' /\ SourceIsKnown'
  <2>1. RunFits'
    BY <1>1, <1>2, <1>9, <1>11 DEF RunFits, Staged, Settling, Switching
  <2> QED
    BY <1>2, <1>9, <2>1 DEF SeenIsKept, SourceIsKnown
<1>15. Untouched
  <2>1. 0 \notin files'[p]
    BY <1>3, <1>4, <1>8, NoZero DEF Foreign
  <2> QED
    BY <1>1, <1>3, <1>4, <1>8, <2>1 DEF Untouched, Foreign
<1>16. ForeignIsApart'
  <2>1. SUFFICES ASSUME NEW q \in Providers, Foreign(q)'
                 PROVE  Apart(q)'
    BY DEF ForeignIsApart
  <2>2. Apart(q) /\ q # journal.tgt
    BY <1>3, <1>15, <2>1 DEF ForeignIsApart, Untouched
  <2> QED
    BY <1>1, <1>8, <1>10, <2>2 DEF Apart
<1>17. FencedIsComplete'
  <2>1. Fenced_' = Fenced_
    BY <1>1, <1>10 DEF Fenced_, Note
  <2> QED
    BY <1>1, <1>2, <1>4, <1>8, <1>10, <2>1 DEF FencedIsComplete, Fenced_, Journaled
<1> QED
  BY <1>12, <1>13, <1>14, <1>15, <1>16, <1>17 DEF TransferInv

\* The profile pushes to the target.
LEMMA PublishKeeps == ASSUME TransferInv, Publish PROVE TransferInv' /\ Untouched
<1> USE TransferParts
<1>1. /\ run.pc = "publish" /\ ForcedSync(FALSE, {}, Goto("clear"))
      /\ UNCHANGED <<journal, life, marker, conn, linked, owed, mishap, counts>>
  BY DEF Publish, At
<1>2. run.settle /\ Past /\ Journaled /\ PastFence /\ ~Staged
  BY <1>1 DEF RunFits, Past, Early, Staging, Checking, Fencing
<1>3. PICK r \in Runs : r = Goto("clear")
  BY GotoFields DEF Places, Switching
<1>4. ForcedSync(FALSE, {}, r) /\ {} \in SUBSET Edits /\ (conn # None => 0 \notin files[conn])
  BY <1>1, <1>3, ConnIsOurs DEF ForcedSync, Saved
<1>5. /\ files' \in [Providers -> Contents] /\ local' \in SUBSET Edits
      /\ \A q \in Providers \ {conn} : files'[q] = files[q]
      /\ conn # None => files'[conn] = files[conn] \union local \union {}
      /\ other' \in Devices /\ other'.home = other.home
      /\ Same(run', r)
  BY <1>4, ForcedFields
<1>6. run' \in Runs /\ run'.pc = "clear" /\ run'.settle = run.settle
  <2>1. r.pc = "clear" /\ r.settle = run.settle
    BY <1>3, GotoFields DEF Places, Switching
  <2> QED
    BY <1>5, <2>1 DEF Same
<1>7. RunFits' /\ SeenIsKept' /\ SourceIsKnown'
  <2>1. RunFits'
    BY <1>1, <1>2, <1>6 DEF RunFits, Journaled, PastFence, Staged, Settling, Switching
  <2> QED
    BY <1>2, <1>6, <2>1 DEF SeenIsKept, SourceIsKnown
<1>8. TransferTypes'
  BY <1>1, <1>5, <1>6 DEF TransferTypes, counts
<1>9. Untouched
  BY <1>1, <1>5, ConnIsOurs, NoZero, TransferConstants DEF Untouched, Foreign
<1>10. ASSUME Fenced_ PROVE owed' \subseteq files'[journal.tgt]
  <2>1. owed \subseteq files[journal.tgt] /\ journal.tgt \in Providers
    BY <1>2, <1>10 DEF FencedIsComplete, Fenced_, Journaled, JournalFits
  <2> QED
    BY <1>1, <1>5, <2>1, TransferConstants
<1>11. JournalFits' /\ LifeFits' /\ ForeignIsApart' /\ MovedSomewhere' /\ FencedIsComplete'
  BY <1>1, <1>2, <1>5, <1>9, <1>10, OutlineKeeps
<1> QED
  BY <1>7, <1>8, <1>9, <1>11 DEF TransferInv

LEMMA ClearJournalKeeps == ASSUME TransferInv, ClearJournal PROVE TransferInv' /\ Untouched
<1> USE TransferParts
<1>1. /\ run.pc = "clear" /\ journal' = NoJournal /\ run' = Idle
      /\ UNCHANGED <<life, cloud, local, conn, other, linked, owed, mishap, counts>>
      /\ ~Staged
  BY DEF ClearJournal, At, RunFits
<1>2. /\ ~(Journaled') /\ ~(PastFence') /\ journal'.src = None /\ journal'.tgt = None
      /\ journal' \in Journals
  BY <1>1, TransferConstants DEF Journaled, NoJournal, PastFence, Journals, Somewhere
<1>3. run' \in Runs /\ run'.pc = "idle" /\ run'.settle = FALSE /\ run'.pulled = FALSE
  BY <1>1, IdleFields DEF Idle
<1>4. TransferTypes'
  BY <1>1, <1>2, <1>3 DEF TransferTypes, counts, cloud
<1>5. JournalFits' /\ LifeFits' /\ MovedSomewhere' /\ FencedIsComplete'
  <2>1. JournalFits' /\ FencedIsComplete'
    BY <1>2 DEF JournalFits, FencedIsComplete, Journaled
  <2> QED
    BY <1>1, <2>1 DEF LifeFits, Staged, MovedSomewhere, cloud
<1>6. RunFits' /\ SeenIsKept' /\ SourceIsKnown'
  <2>1. RunFits'
    BY <1>1, <1>3 DEF RunFits, Idle, Early, Staging, Checking
  <2> QED
    BY <1>3, <2>1 DEF SeenIsKept, SourceIsKnown, Snapped, Verified
<1>7. Untouched
  BY <1>1 DEF Untouched, Foreign, cloud
<1>8. ForeignIsApart'
  <2>1. SUFFICES ASSUME NEW p \in Providers, Foreign(p)'
                 PROVE  Apart(p)'
    BY DEF ForeignIsApart
  <2>2. Apart(p)
    BY <1>1, <2>1 DEF ForeignIsApart, Foreign, cloud
  <2>3. ~(Past')
    BY <1>2, <1>3 DEF Past
  <2> QED
    BY <1>1, <1>2, <2>2, <2>3, TransferConstants DEF Apart, cloud
<1> QED
  BY <1>4, <1>5, <1>6, <1>7, <1>8 DEF TransferInv

\* The journal is written.
LEMMA OpenNewKeeps == ASSUME TransferInv, OpenNew PROVE TransferInv' /\ Untouched
<1> USE TransferParts
<1> DEFINE m == marker[life.active]
           ok == life.staged # None /\ (m.state = "none" \/ (m.to = life.active /\ m.state # "moved"))
<1>1. run.pc = "open" /\ ~Journaled
  BY DEF OpenNew, At, Journaled
<1>2. CASE ok /\ ops < MaxTransfers
  <2>1. /\ ops' = ops + 1
        /\ journal' = [op |-> ops + 1, src |-> life.active, tgt |-> life.staged,
                       gen |-> life.gen + 1, stage |-> "staging"]
        /\ run' = Goto("sync")
        /\ UNCHANGED <<life, cloud, local, conn, other, linked, owed, mishap,
                       made, faults, crashes, quits>>
    BY <1>2 DEF OpenNew
  <2>2. /\ life.active \in Providers /\ life.staged # life.active /\ life.staged \in Providers
        /\ conn \in {None, life.active} /\ life.gen \in Nat
    BY <1>2 DEF LifeFits, Staged, Lives, Somewhere
  <2>3. ops + 1 \in 0..MaxTransfers
    BY <1>2, TransferConstants DEF TransferTypes
  <2>4. /\ journal' \in Journals /\ journal'.src = life.active /\ journal'.tgt = life.staged
        /\ journal'.gen = life.gen + 1 /\ journal'.stage = "staging"
    BY <2>1, <2>2, <2>3 DEF Journals, Somewhere
  <2>5. Journaled' /\ ~(PastFence')
    BY <2>4 DEF Journaled, NoJournal, PastFence
  <2>6. run' \in Runs /\ run'.pc = "sync" /\ ~run'.settle /\ ~run'.pulled
    BY <1>1, <2>1, GotoFields DEF Places, Staging, RunFits
  <2>7. ~(Fenced_')
    <3>1. marker'[life.active].state # "moved"
      BY <1>2, <2>1 DEF cloud
    <3> QED
      BY <2>4, <3>1 DEF Fenced_, Note
  <2>8. TransferTypes'
    BY <2>1, <2>3, <2>4, <2>6 DEF TransferTypes, counts, cloud
  <2>9. JournalFits' /\ LifeFits' /\ MovedSomewhere' /\ FencedIsComplete'
    <3>1. JournalFits'
      BY <2>2, <2>4 DEF JournalFits
    <3>2. LifeFits' /\ MovedSomewhere'
      BY <2>1, <2>2, <2>4 DEF LifeFits, Staged, MovedSomewhere, cloud
    <3>3. FencedIsComplete'
      BY <2>7 DEF FencedIsComplete, Fenced_
    <3> QED
      BY <3>1, <3>2, <3>3
  <2>10. RunFits' /\ SeenIsKept' /\ SourceIsKnown'
    <3>1. RunFits'
      BY <2>1, <2>2, <2>4, <2>5, <2>6, <2>7 DEF RunFits, Staging, Early
    <3> QED
      BY <2>6, <3>1 DEF SeenIsKept, SourceIsKnown, Snapped, Verified
  <2>11. Untouched
    BY <2>1 DEF Untouched, Foreign, cloud
  <2>12. ForeignIsApart'
    <3>1. SUFFICES ASSUME NEW p \in Providers, Foreign(p)'
                   PROVE  Apart(p)'
      BY DEF ForeignIsApart
    <3>2. Apart(p)
      BY <2>1, <3>1 DEF ForeignIsApart, Foreign, cloud
    <3>3. ~(Past')
      BY <2>5, <2>6 DEF Past, Staging
    <3> QED
      BY <2>1, <2>4, <3>2, <3>3 DEF Apart, cloud
  <2> QED
    BY <2>8, <2>9, <2>10, <2>11, <2>12 DEF TransferInv
<1>3. CASE ~(ok /\ ops < MaxTransfers)
  BY <1>3, StopKeeps DEF OpenNew, Stop, counts
<1> QED
  BY <1>2, <1>3

\* A later run takes the journal up.
LEMMA OpenOldKeeps == ASSUME TransferInv, OpenOld PROVE TransferInv' /\ Untouched
<1> USE TransferParts
<1> DEFINE m == marker[journal.src]
           same == UNCHANGED <<journal, life, cloud, local, conn, other, linked, owed,
                               mishap, counts>>
<1>1. /\ run.pc = "open" /\ Journaled /\ ~run.settle /\ ~run.pulled
      /\ conn \in {None, journal.src} /\ journal.tgt \in Providers
  BY DEF OpenOld, At, Journaled, RunFits, LifeFits, JournalFits
<1>2. CASE PastFence
  <2>1. same /\ run' = [Goto("converge") EXCEPT !.settle = TRUE, !.tries = Attempts]
    BY <1>2 DEF OpenOld
  <2>2. run' \in Runs /\ run'.pc = "converge" /\ run'.settle
    <3>1. Goto("converge") \in Runs /\ Goto("converge").pc = "converge"
      BY GotoFields DEF Places, Settling
    <3>2. Attempts \in 0..Attempts
      BY TransferConstants
    <3> QED
      BY <2>1, <3>1, <3>2 DEF Runs
  <2>3. RunFits'
    BY <1>1, <1>2, <2>1, <2>2 DEF RunFits, Journaled, PastFence, Settling, Switching
  <2>4. SeenIsKept' /\ SourceIsKnown'
    BY <2>2 DEF SeenIsKept, SourceIsKnown
  <2>5. Past
    BY <1>2 DEF Past
  <2> QED
    BY <2>1, <2>2, <2>3, <2>4, <2>5, RunOnly DEF TransferTypes, counts
<1>3. CASE ~PastFence /\ m = Note("moved", journal.tgt)
  <2>1. same /\ run' = Goto("touch")
    <3>1. m.state = "moved"
      BY <1>3 DEF Note
    <3> QED
      BY <1>3, <3>1 DEF OpenOld
  <2>2. run' \in Runs /\ run'.pc = "touch" /\ ~run'.settle /\ ~run'.pulled
    BY <1>1, <2>1, GotoFields DEF Places, Fencing
  <2>3. Fenced_'
    BY <1>3, <2>1 DEF Fenced_, Note, cloud
  <2>4. RunFits'
    BY <1>1, <2>1, <2>2, <2>3 DEF RunFits, Journaled, Early, Staging, Checking, Fencing
  <2>5. SeenIsKept' /\ SourceIsKnown'
    BY <2>2 DEF SeenIsKept, SourceIsKnown, Snapped, Verified
  <2>6. ~Foreign(journal.tgt)
    <3>1. m.state = "moved" /\ m.to = journal.tgt /\ journal.src \in Providers
      BY <1>1, <1>3 DEF Note, JournalFits
    <3> QED
      BY <1>1, <3>1 DEF ForeignIsApart, Apart
  <2> QED
    BY <2>1, <2>2, <2>4, <2>5, <2>6, RunOnly DEF TransferTypes, counts
<1>4. CASE ~PastFence /\ m.state = "moved" /\ m # Note("moved", journal.tgt)
  BY <1>4, StopKeeps DEF OpenOld, Stop, counts
<1>5. CASE ~PastFence /\ m.state # "moved"
  <2>1. same /\ run' = Goto("sync")
    BY <1>5 DEF OpenOld, Note
  <2>2. run' \in Runs /\ run'.pc = "sync" /\ ~run'.settle /\ ~run'.pulled
    BY <1>1, <2>1, GotoFields DEF Places, Staging
  <2>3. ~(Fenced_') /\ ~(PastFence')
    BY <1>5, <2>1 DEF Fenced_, Note, PastFence, cloud
  <2>4. RunFits'
    BY <1>1, <2>1, <2>2, <2>3 DEF RunFits, Journaled, Early, Staging
  <2>5. SeenIsKept' /\ SourceIsKnown'
    BY <2>2 DEF SeenIsKept, SourceIsKnown, Snapped, Verified
  <2>6. ~(Past')
    BY <2>2, <2>3 DEF Past, Staging
  <2> QED
    BY <2>1, <2>2, <2>4, <2>5, <2>6, RunOnly DEF TransferTypes, counts
<1> QED
  BY <1>2, <1>3, <1>4, <1>5 DEF Note

LEMMA StepKeeps == ASSUME TransferInv, Step PROVE TransferInv' /\ Untouched
<1>1. CASE OpenNew \/ OpenOld \/ SyncSource \/ BindSource \/ Inspect \/ MergeTarget \/ Prepare
  BY <1>1, OpenNewKeeps, OpenOldKeeps, SyncSourceKeeps, BindSourceKeeps, InspectKeeps,
     MergeTargetKeeps, PrepareKeeps
<1>2. CASE Snapshot \/ Upload \/ MarkSettled \/ Fingerprint \/ Verify \/ Compare \/ Recheck
  BY <1>2, SnapshotKeeps, UploadKeeps, MarkSettledKeeps, FingerprintKeeps, VerifyKeeps,
     CompareKeeps, RecheckKeeps
<1>3. CASE Link \/ TargetAfterLink \/ SourceAfterLink \/ Fence \/ Touch \/ RecordFence \/ Converge
  BY <1>3, LinkKeeps, TargetAfterLinkKeeps, SourceAfterLinkKeeps, FenceKeeps, TouchKeeps,
     RecordFenceKeeps, ConvergeKeeps
<1>4. CASE CompareSettled \/ Activate \/ RecordActivated \/ Own \/ Switch \/ Publish \/ ClearJournal
  BY <1>4, CompareSettledKeeps, ActivateKeeps, RecordActivatedKeeps, OwnKeeps, SwitchKeeps,
     PublishKeeps, ClearJournalKeeps
<1> QED
  BY <1>1, <1>2, <1>3, <1>4 DEF Step

\* A transfer is asked for.
LEMMA StartKeeps == ASSUME TransferInv, Start PROVE TransferInv' /\ Untouched
<1> USE TransferParts
<1>1. /\ run = Idle /\ ~Journaled /\ conn # None /\ conn = life.active
      /\ life' = [life EXCEPT !.staged = Opposite(life.active)]
      /\ run' = Goto("open")
      /\ UNCHANGED <<journal, cloud, local, conn, other, linked, owed, mishap, counts>>
  BY DEF Start, Journaled
<1>2. life.active \in Providers
  BY <1>1 DEF Somewhere
<1>3. /\ life' \in Lives /\ life'.active = life.active /\ life'.staged \in Providers
      /\ life'.staged # life.active
  BY <1>1, <1>2, OppositeFact DEF Lives, Somewhere
<1>4. run' \in Runs /\ run'.pc = "open" /\ ~run'.settle /\ ~run'.pulled
  BY <1>1, GotoFields, IdleFields DEF Places
<1>5. TransferTypes'
  BY <1>1, <1>3, <1>4 DEF TransferTypes, counts, cloud
<1>6. JournalFits' /\ LifeFits' /\ MovedSomewhere' /\ FencedIsComplete'
  <2>1. JournalFits' /\ FencedIsComplete'
    BY <1>1 DEF JournalFits, FencedIsComplete, Journaled
  <2> QED
    BY <1>1, <1>2, <1>3, <2>1 DEF LifeFits, Journaled, MovedSomewhere, cloud
<1>7. RunFits' /\ SeenIsKept' /\ SourceIsKnown'
  <2>1. RunFits'
    BY <1>1, <1>3, <1>4, TransferConstants DEF RunFits, Staged, Early, Staging, Checking
  <2> QED
    BY <1>4, <2>1 DEF SeenIsKept, SourceIsKnown, Snapped, Verified
<1>8. Untouched
  BY <1>1 DEF Untouched, Foreign, cloud
<1>9. ForeignIsApart'
  <2>1. SUFFICES ASSUME NEW p \in Providers, Foreign(p)'
                 PROVE  Apart(p)'
    BY DEF ForeignIsApart
  <2>2. Apart(p)
    BY <1>1, <2>1 DEF ForeignIsApart, Foreign, cloud
  <2>3. Past' => Past
    BY <1>1, <1>4 DEF Past, PastFence
  <2> QED
    BY <1>1, <1>3, <2>2, <2>3 DEF Apart, cloud
<1> QED
  BY <1>5, <1>6, <1>7, <1>8, <1>9 DEF TransferInv

LEMMA ResumeKeeps == ASSUME TransferInv, Resume PROVE TransferInv' /\ Untouched
<1> USE TransferParts
<1>1. /\ run = Idle /\ life.staged # None /\ run' = Goto("open")
      /\ UNCHANGED <<journal, life, cloud, local, conn, other, linked, owed, mishap, counts>>
  BY DEF Resume, Resumable
<1>2. run' \in Runs /\ run'.pc = "open" /\ ~run'.settle /\ ~run'.pulled
  BY <1>1, GotoFields, IdleFields DEF Places
<1>3. RunFits' /\ SeenIsKept' /\ SourceIsKnown'
  <2>1. RunFits'
    BY <1>1, <1>2 DEF RunFits, Staged, Early, Staging, Checking
  <2> QED
    BY <1>2, <2>1 DEF SeenIsKept, SourceIsKnown, Snapped, Verified
<1>4. Past' => Past
  BY <1>1, <1>2 DEF Past, PastFence
<1> QED
  BY <1>1, <1>2, <1>3, <1>4, RunOnly DEF TransferTypes, counts

LEMMA FaultKeeps == ASSUME TransferInv, Fault PROVE TransferInv' /\ Untouched
BY StopKeeps DEF Fault

\* The profile is reloaded, or its user signs out: there is no connection then.
LEMMA CrashKeeps == ASSUME TransferInv, Crash PROVE TransferInv' /\ Untouched
<1> USE TransferParts
<1>1. /\ conn' = None /\ run' = Idle
      /\ UNCHANGED <<journal, life, cloud, local, other, linked, owed, made, ops>>
  BY DEF Crash
<1>2. RunFits' /\ SeenIsKept' /\ SourceIsKnown' /\ (Past' => Past)
  BY <1>1, IdleStep
<1>3. TransferTypes'
  BY <1>1, IdleFields DEF TransferTypes, cloud, Somewhere
<1>4. JournalFits' /\ LifeFits' /\ MovedSomewhere' /\ FencedIsComplete'
  BY <1>1 DEF JournalFits, LifeFits, Staged, Journaled, MovedSomewhere, FencedIsComplete, Note, cloud
<1>5. Untouched
  BY <1>1 DEF Untouched, Foreign, cloud
<1>6. ForeignIsApart'
  <2>1. SUFFICES ASSUME NEW p \in Providers, Foreign(p)'
                 PROVE  Apart(p)'
    BY DEF ForeignIsApart
  <2>2. Apart(p)
    BY <1>1, <2>1 DEF ForeignIsApart, Foreign, cloud
  <2> QED
    BY <1>1, <1>2, <2>2, TransferConstants DEF Apart, cloud
<1> QED
  BY <1>2, <1>3, <1>4, <1>5, <1>6 DEF TransferInv

LEMMA QuitKeeps == ASSUME TransferInv, Quit PROVE TransferInv' /\ Untouched
<1> USE TransferParts
<1>1. /\ life' = [active |-> None, gen |-> 0, staged |-> None] /\ conn' = None
      /\ UNCHANGED <<journal, cloud, local, other, run, linked, owed, made, ops>>
  BY DEF Quit
<1>2. TransferTypes'
  BY <1>1 DEF TransferTypes, cloud, Somewhere, Lives
<1>3. JournalFits' /\ LifeFits' /\ MovedSomewhere' /\ FencedIsComplete'
  BY <1>1 DEF JournalFits, LifeFits, Staged, Journaled, MovedSomewhere, FencedIsComplete, Note, cloud
<1>4. RunFits' /\ SeenIsKept' /\ SourceIsKnown' /\ Past' = Past
  <2>1. RunFits'
    <3>1. /\ Fenced_' = Fenced_ /\ PastFence' = PastFence /\ Journaled' = Journaled
          /\ ~(Staged') /\ Idle' = Idle
      BY <1>1 DEF Fenced_, Note, PastFence, Journaled, Staged, cloud, Idle
    <3> QED
      BY <1>1, <3>1 DEF RunFits
  <2> QED
    BY <1>1, <2>1 DEF SeenIsKept, SourceIsKnown, Past, PastFence, cloud
<1>5. Untouched
  BY <1>1 DEF Untouched, Foreign, cloud
<1>6. ForeignIsApart'
  <2>1. SUFFICES ASSUME NEW p \in Providers, Foreign(p)'
                 PROVE  Apart(p)'
    BY DEF ForeignIsApart
  <2>2. Apart(p)
    BY <1>1, <2>1 DEF ForeignIsApart, Foreign, cloud
  <2> QED
    BY <1>1, <1>4, <2>2, TransferConstants DEF Apart, cloud
<1> QED
  BY <1>2, <1>3, <1>4, <1>5, <1>6 DEF TransferInv

\* The user signs in where no other workspace is.
LEMMA ClaimKeeps ==
  ASSUME TransferInv, NEW p \in Providers, Claim(p) PROVE TransferInv' /\ Untouched
<1> USE TransferParts
<1>1. /\ life.active = None /\ ~Foreign(p)
      /\ life' = [life EXCEPT !.active = p, !.gen = life.gen + 1]
      /\ UNCHANGED <<journal, cloud, local, conn, other, run, linked, owed, mishap, counts>>
  BY DEF Claim, Foreign
<1>2. ~Staged
  BY <1>1, TransferConstants DEF LifeFits
<1>3. life' \in Lives /\ life'.active = p /\ life'.staged = None
  <2> DEFINE next == [active |-> p, gen |-> life.gen + 1, staged |-> life.staged]
             mid == [active |-> p, gen |-> life.gen, staged |-> life.staged]
  <2>1. [life EXCEPT !.active = p] = mid
    BY DEF Lives
  <2>2. [mid EXCEPT !.gen = life.gen + 1] = next
    OBVIOUS
  <2>3. life' = [[life EXCEPT !.active = p] EXCEPT !.gen = life.gen + 1]
    BY <1>1
  <2>4. next \in Lives
    BY DEF Lives, Somewhere
  <2> QED
    BY <1>2, <2>1, <2>2, <2>3, <2>4 DEF Staged
<1>4. TransferTypes'
  BY <1>1, <1>3 DEF TransferTypes, cloud, counts
<1>5. JournalFits' /\ LifeFits' /\ MovedSomewhere' /\ FencedIsComplete'
  <2>1. JournalFits' /\ MovedSomewhere' /\ FencedIsComplete'
    BY <1>1 DEF JournalFits, Journaled, MovedSomewhere, FencedIsComplete, Note, cloud
  <2> QED
    BY <1>3, <2>1 DEF LifeFits, Staged
<1>6. RunFits' /\ SeenIsKept' /\ SourceIsKnown' /\ Past' = Past
  <2>1. RunFits'
    <3>1. /\ Fenced_' = Fenced_ /\ PastFence' = PastFence /\ Journaled' = Journaled
          /\ ~(Staged') /\ Idle' = Idle
      BY <1>1, <1>3 DEF Fenced_, Note, PastFence, Journaled, Staged, cloud, Idle
    <3> QED
      BY <1>1, <1>2, <3>1 DEF RunFits
  <2> QED
    BY <1>1, <2>1 DEF SeenIsKept, SourceIsKnown, Past, PastFence, cloud
<1>7. Untouched
  BY <1>1 DEF Untouched, Foreign, cloud
<1>8. ForeignIsApart'
  <2>1. SUFFICES ASSUME NEW q \in Providers, Foreign(q)'
                 PROVE  Apart(q)'
    BY DEF ForeignIsApart
  <2>2. Apart(q) /\ q # p
    BY <1>1, <2>1 DEF ForeignIsApart, Foreign, cloud
  <2> QED
    BY <1>1, <1>3, <1>6, <2>2 DEF Apart, cloud
<1> QED
  BY <1>4, <1>5, <1>6, <1>7, <1>8 DEF TransferInv

\* What happens beside the coordinator: documents and files only grow.
LEMMA SideKeeps ==
  ASSUME TransferInv, UNCHANGED <<journal, life, marker, conn, linked, owed, ops>>,
         files' \in [Providers -> Contents], local' \in SUBSET Edits, other' \in Devices,
         made' \in 0..MaxEdits, run' \in Runs, Untouched,
         run = Idle => run' = Idle,
         run'.pc = run.pc, run'.settle = run.settle, run'.seen = run.seen,
         run'.snap = run.snap, run'.blind = run.blind,
         run'.srcSame => run.srcSame, run'.pulled => run.pulled,
         local \subseteq local', \A p \in Providers : files[p] \subseteq files'[p],
         Journaled => \/ files'[journal.src] = files[journal.src]
                      \/ ~run'.srcSame /\ ~run'.pulled,
         other'.home = other.home \/ ~Foreign(other'.home)
  PROVE  TransferInv'
<1> USE TransferParts
<1>1. TransferTypes'
  BY DEF TransferTypes
<1>2. /\ Fenced_' = Fenced_ /\ PastFence' = PastFence /\ Journaled' = Journaled
      /\ Staged' = Staged /\ Idle' = Idle
  BY DEF Fenced_, Note, PastFence, Journaled, Staged, Idle
<1>3. RunFits'
  <2>1. run'.pc = "open" => ~run'.pulled
    BY DEF RunFits
  <2>2. run'.pc = "idle" => run' = Idle
    BY DEF RunFits
  <2> QED
    BY <1>2, <2>1, <2>2 DEF RunFits
<1>4. SeenIsKept'
  BY DEF SeenIsKept
<1>5. SourceIsKnown'
  <2>1. SUFFICES ASSUME ~run.settle PROVE SourceIsKnown'
    BY DEF SourceIsKnown
  <2>2. CASE Journaled
    <3>1. journal.src \in Providers /\ journal.tgt \in Providers
      BY <2>2 DEF JournalFits
    <3> QED
      BY <2>1, <2>2, <3>1 DEF SourceIsKnown
  <2>3. CASE ~Journaled
    <3>1. run.pc \in {"idle", "open"} /\ ~run.pulled
      BY <2>3 DEF RunFits, Idle
    <3> QED
      BY <2>1, <3>1 DEF SourceIsKnown, Snapped, Verified
  <2> QED
    BY <2>2, <2>3
<1>6. Past' => Past
  BY <1>2 DEF Past
<1>7. ASSUME Journaled, Fenced_ PROVE owed' \subseteq files'[journal.tgt]
  BY <1>7 DEF FencedIsComplete, Journaled, Fenced_, JournalFits
<1>8. JournalFits' /\ LifeFits' /\ ForeignIsApart' /\ MovedSomewhere' /\ FencedIsComplete'
  BY <1>6, <1>7, OutlineKeeps
<1> QED
  BY <1>1, <1>3, <1>4, <1>5, <1>8 DEF TransferInv

LEMMA LocalEditKeeps == ASSUME TransferInv, LocalEdit PROVE TransferInv' /\ Untouched
<1> USE TransferParts
<1>1. /\ made' = made + 1 /\ local' = local \union {made + 1} /\ made' \in 0..MaxEdits
      /\ made + 1 \in Edits
      /\ UNCHANGED <<journal, life, marker, files, conn, other, run, linked, owed, ops>>
  BY TransferConstants DEF LocalEdit, TransferTypes, Edits, cloud
<1>2. Untouched
  BY <1>1 DEF Untouched, Foreign
<1> QED
  BY <1>1, <1>2, SideKeeps

LEMMA OtherEditKeeps == ASSUME TransferInv, OtherEdit PROVE TransferInv' /\ Untouched
<1> USE TransferParts
<1>1. /\ made' = made + 1 /\ made' \in 0..MaxEdits /\ made + 1 \in Edits
      /\ other' = [other EXCEPT !.has = other.has \union {made + 1}]
      /\ UNCHANGED <<journal, life, marker, files, local, conn, run, linked, owed, ops>>
  BY TransferConstants DEF OtherEdit, TransferTypes, Edits, cloud
<1>2. Untouched
  BY <1>1 DEF Untouched, Foreign
<1>3. other' \in Devices /\ other'.home = other.home
  BY <1>1 DEF Devices
<1> QED
  BY <1>1, <1>2, <1>3, SideKeeps

LEMMA OtherBeginKeeps == ASSUME TransferInv, OtherBegin PROVE TransferInv' /\ Untouched
<1> USE TransferParts
<1> DEFINE has == IF other.fresh THEN other.has ELSE other.has \union files[other.home]
<1>1. /\ other' = [other EXCEPT !.busy = TRUE, !.fresh = TRUE, !.has = has]
      /\ UNCHANGED <<journal, life, marker, files, local, conn, run, linked, owed, made, ops>>
  BY DEF OtherBegin, cloud, counts
<1>2. has \in SUBSET Edits
  <2>1. other.home \in Providers /\ ~Foreign(other.home)
    BY DEF Devices, ForeignIsApart, Apart
  <2> QED
    BY <2>1 DEF Foreign, Contents, Devices
<1>3. Untouched
  BY <1>1 DEF Untouched, Foreign
<1>4. other' \in Devices /\ other'.home = other.home
  <2> HIDE DEF has
  <2> QED
    BY <1>1, <1>2 DEF Devices
<1> QED
  BY <1>1, <1>3, <1>4, SideKeeps DEF TransferTypes

\* The other device publishes what it has.
LEMMA OtherPushKeeps == ASSUME TransferInv, OtherPush PROVE TransferInv' /\ Untouched
<1> USE TransferParts
<1> DEFINE h == other.home
           quiet == other.has \subseteq files[h]
           s == (run.srcSame /\ h # journal.src)
           u == (run.pulled /\ h # journal.src)
           t == (run.tgtSame /\ h # journal.tgt)
           next == [pc |-> run.pc, settle |-> run.settle, tries |-> run.tries,
                    snap |-> run.snap, seen |-> run.seen, redo |-> run.redo, srcSame |-> s,
                    tgtSame |-> t, pulled |-> u, blind |-> run.blind]
<1>1. /\ files' = [files EXCEPT ![h] = files[h] \union other.has]
      /\ other' = [other EXCEPT !.busy = FALSE]
      /\ UNCHANGED <<journal, life, marker, local, conn, linked, owed, made, ops>>
  BY DEF OtherPush, counts
<1>2. h \in Providers /\ ~Foreign(h) /\ other.has \in SUBSET Edits
  BY DEF Devices, ForeignIsApart, Apart
<1>3. other' \in Devices /\ other'.home = other.home
  BY <1>1 DEF Devices
<1>4. /\ files' \in [Providers -> Contents] /\ files'[h] = files[h] \union other.has
      /\ \A p \in Providers \ {h} : files'[p] = files[p]
  BY <1>1, <1>2 DEF Contents
<1>5. Untouched
  <2>1. 0 \notin files'[h]
    BY <1>2, <1>4, NoZero DEF Foreign
  <2> QED
    BY <1>1, <1>2, <1>4, <2>1 DEF Untouched, Foreign
<1>6. run' = IF quiet THEN run ELSE next
  <2>1. run' = IF quiet THEN run ELSE [run EXCEPT !.srcSame = s, !.pulled = u, !.tgtSame = t]
    BY DEF OtherPush
  <2> DEFINE a == [pc |-> run.pc, settle |-> run.settle, tries |-> run.tries,
                   snap |-> run.snap, seen |-> run.seen, redo |-> run.redo, srcSame |-> s,
                   tgtSame |-> run.tgtSame, pulled |-> run.pulled, blind |-> run.blind]
             b == [pc |-> run.pc, settle |-> run.settle, tries |-> run.tries,
                   snap |-> run.snap, seen |-> run.seen, redo |-> run.redo, srcSame |-> s,
                   tgtSame |-> run.tgtSame, pulled |-> u, blind |-> run.blind]
  <2> HIDE DEF s, u, t
  <2>2. [run EXCEPT !.srcSame = s] = a
    BY DEF Runs
  <2>3. [a EXCEPT !.pulled = u] = b
    OBVIOUS
  <2>4. [b EXCEPT !.tgtSame = t] = next
    OBVIOUS
  <2>5. [run EXCEPT !.srcSame = s, !.pulled = u, !.tgtSame = t]
          = [[[run EXCEPT !.srcSame = s] EXCEPT !.pulled = u] EXCEPT !.tgtSame = t]
    OBVIOUS
  <2> HIDE DEF a, b, next
  <2>6. [run EXCEPT !.srcSame = s, !.pulled = u, !.tgtSame = t] = next
    BY <2>2, <2>3, <2>4, <2>5, Zenon
  <2> QED
    BY <2>1, <2>6
<1>7. next \in Runs
  <2>1. s \in BOOLEAN /\ u \in BOOLEAN /\ t \in BOOLEAN
    OBVIOUS
  <2> HIDE DEF s, u, t
  <2> QED
    BY <2>1 DEF Runs
<1>8. run = Idle => next = Idle
  <2>1. SUFFICES ASSUME run = Idle PROVE next = Idle
    OBVIOUS
  <2>2. /\ run.pc = "idle" /\ run.settle = FALSE /\ run.tries = 0 /\ run.snap = {} /\ run.seen = {}
        /\ run.redo = FALSE /\ run.srcSame = FALSE /\ run.tgtSame = FALSE
        /\ run.pulled = FALSE /\ run.blind = FALSE
    BY <2>1 DEF Idle
  <2>3. s = FALSE /\ u = FALSE /\ t = FALSE
    BY <2>2
  <2> HIDE DEF s, u, t
  <2> QED
    BY <2>2, <2>3, Zenon DEF Idle
<1>9. /\ next.pc = run.pc /\ next.settle = run.settle /\ next.seen = run.seen
      /\ next.snap = run.snap /\ next.blind = run.blind
      /\ (next.srcSame => run.srcSame /\ h # journal.src)
      /\ (next.pulled => run.pulled /\ h # journal.src)
  OBVIOUS
<1> HIDE DEF next
<1>10. /\ run' \in Runs /\ (run = Idle => run' = Idle)
       /\ run'.pc = run.pc /\ run'.settle = run.settle /\ run'.seen = run.seen
       /\ run'.snap = run.snap /\ run'.blind = run.blind
       /\ (run'.srcSame => run.srcSame) /\ (run'.pulled => run.pulled)
       /\ quiet \/ h # journal.src \/ (~run'.srcSame /\ ~run'.pulled)
  BY <1>6, <1>7, <1>8, <1>9
<1>11. Journaled => \/ files'[journal.src] = files[journal.src]
                    \/ ~run'.srcSame /\ ~run'.pulled
  BY <1>2, <1>4, <1>10 DEF JournalFits
<1>12. /\ local \subseteq local' /\ \A p \in Providers : files[p] \subseteq files'[p]
       /\ local' \in SUBSET Edits /\ made' \in 0..MaxEdits
  BY <1>1, <1>2, <1>4 DEF TransferTypes
<1> QED
  BY <1>1, <1>3, <1>4, <1>5, <1>10, <1>11, <1>12, SideKeeps

\* The other device goes where the marker points.
LEMMA OtherFollowsKeeps == ASSUME TransferInv, OtherFollows PROVE TransferInv' /\ Untouched
<1> USE TransferParts
<1>1. /\ marker[other.home].state = "moved"
      /\ other' = [other EXCEPT !.home = marker[other.home].to, !.gen = 1]
      /\ UNCHANGED <<journal, life, marker, files, local, conn, run, linked, owed, made, ops>>
  BY DEF OtherFollows, Fenced, cloud, counts
<1>2. other.home \in Providers
  BY DEF Devices
<1>3. marker[other.home].to \in Providers /\ ~Foreign(marker[other.home].to)
  BY <1>1, <1>2 DEF MovedSomewhere, ForeignIsApart, Apart
<1>4. other' \in Devices /\ other'.home = marker[other.home].to
  BY <1>1, <1>3 DEF Devices
<1>5. Untouched
  BY <1>1 DEF Untouched, Foreign
<1> QED
  BY <1>1, <1>3, <1>4, <1>5, SideKeeps DEF TransferTypes

\* A pass of the profile outside a transfer, which may be its first.
LEMMA PassKeeps ==
  ASSUME TransferInv, run = Idle, NEW p \in Providers, ~Foreign(p),
         conn' = p, p \in {life.active, conn},
         local' = local \union files[p], Saved(p, local, FALSE, run),
         UNCHANGED <<journal, life, marker, linked, owed, mishap, counts>>
  PROVE  TransferInv' /\ Untouched
<1> USE TransferParts
<1>1. files[p] \in SUBSET Edits
  BY DEF Foreign, Contents
<1>2. PICK E \in SUBSET Edits : E = local
  OBVIOUS
<1>3. PICK r \in Runs : r = run
  OBVIOUS
<1>4. Saved(p, E, FALSE, r)
  BY <1>2, <1>3 DEF Saved
<1>5. /\ files' \in [Providers -> Contents]
      /\ files'[p] = files[p] \union E
      /\ \A q \in Providers \ {p} : files'[q] = files[q]
      /\ other' \in Devices /\ other'.home = other.home
      /\ Same(run', r)
  BY <1>4, SavedFields
<1>6. run' = Idle
  BY <1>3, <1>5 DEF Same
<1>7. RunFits' /\ SeenIsKept' /\ SourceIsKnown' /\ (Past' => Past)
  BY <1>6, IdleStep
<1>8. TransferTypes'
  BY <1>1, <1>5, <1>6, IdleFields DEF TransferTypes, counts, Somewhere
<1>9. JournalFits' /\ LifeFits' /\ MovedSomewhere'
  <2>1. LifeFits'
    BY TransferConstants DEF LifeFits, Staged, Journaled
  <2> QED
    BY <2>1 DEF JournalFits, Journaled, MovedSomewhere
<1>10. Untouched
  <2>1. 0 \notin files'[p]
    BY <1>1, <1>2, <1>5, NoZero DEF Foreign
  <2> QED
    BY <1>5, <2>1 DEF Untouched, Foreign
<1>11. ForeignIsApart'
  <2>1. SUFFICES ASSUME NEW q \in Providers, Foreign(q)'
                 PROVE  Apart(q)'
    BY DEF ForeignIsApart
  <2>2. Foreign(q) /\ Apart(q)
    BY <1>10, <2>1 DEF ForeignIsApart, Untouched
  <2> QED
    BY <1>5, <1>7, <2>2 DEF Apart
<1>12. FencedIsComplete'
  <2>1. SUFFICES ASSUME Journaled, Fenced_ PROVE owed \subseteq files'[journal.tgt]
    BY DEF FencedIsComplete, Journaled, Fenced_, Note
  <2>2. owed \subseteq files[journal.tgt] /\ journal.tgt \in Providers
    BY <2>1 DEF FencedIsComplete, Journaled, Fenced_, JournalFits
  <2> QED
    BY <1>5, <2>2
<1> QED
  BY <1>7, <1>8, <1>9, <1>10, <1>11, <1>12 DEF TransferInv

LEMMA ReconnectKeeps == ASSUME TransferInv, Reconnect PROVE TransferInv' /\ Untouched
<1>1. PICK p \in Providers : p = life.active
  BY TransferParts DEF Reconnect, Lives, Somewhere
<1>2. ~Foreign(p)
  BY <1>1, TransferParts DEF ForeignIsApart, Apart
<1>3. /\ run = Idle /\ conn' = p /\ local' = local \union files[p]
      /\ Saved(p, local, FALSE, run)
      /\ UNCHANGED <<journal, life, marker, linked, owed, mishap, counts>>
  BY <1>1 DEF Reconnect, Saved
<1> QED
  BY <1>1, <1>2, <1>3, PassKeeps

LEMMA AutoSyncKeeps == ASSUME TransferInv, AutoSync PROVE TransferInv' /\ Untouched
<1>1. PICK p \in Providers : p = conn
  BY TransferParts DEF AutoSync, Somewhere
<1>2. ~Foreign(p)
  BY <1>1, TransferParts DEF ForeignIsApart, Apart
<1>3. /\ run = Idle /\ conn' = p /\ local' = local \union files[p]
      /\ Saved(p, local, FALSE, run)
      /\ UNCHANGED <<journal, life, marker, linked, owed, mishap, counts>>
  BY <1>1 DEF AutoSync, Saved
<1> QED
  BY <1>1, <1>2, <1>3, PassKeeps

\* A workspace begins at one provider; the other holds nothing, this workspace or
\* something else.
LEMMA TransferInit == ASSUME Init PROVE TransferInv
<1>1. PICK kind \in TargetKinds, g \in OtherGens :
        /\ journal = NoJournal
        /\ life = [active |-> Source, gen |-> 1, staged |-> None]
        /\ marker = [p \in Providers |-> IF p = Source THEN NoMarker ELSE Holds(kind).marker]
        /\ files = [p \in Providers |-> IF p = Source THEN {} ELSE Holds(kind).files]
        /\ local = {} /\ conn = Source
        /\ other = [home |-> IF kind = "ours" THEN Target ELSE Source, gen |-> g,
                    has |-> files[Target] \ {0}, fresh |-> TRUE, busy |-> FALSE]
        /\ run = Idle
        /\ linked = FALSE /\ owed = {}
        /\ mishap = FALSE
        /\ made = (IF kind = "ours" THEN 1 ELSE 0)
        /\ ops = 0
  BY Zenon DEF Init
<1>2. /\ Source \in Providers /\ Target \in Providers /\ Source # Target /\ g \in Nat
      /\ \A p \in Providers : p = Source \/ p = Target
      /\ (kind = "ours" => 1 \in Edits)
  BY TransferConstants, BoundsAssumption DEF Providers, Edits
<1>3. /\ Holds(kind).files \in Contents
      /\ 0 \in Holds(kind).files => kind # "ours"
      /\ Holds(kind).files \ {0} \subseteq Edits
  BY <1>2 DEF Holds, Contents
<1>4. NoMarker \in Markers /\ NoMarker.state = "none" /\ NoMarker.to = None
  BY DEF NoMarker, Markers
<1>5. /\ Holds(kind).marker \in Markers
      /\ Holds(kind).marker.state = "moved" => Holds(kind).marker.to = Source
      /\ kind # "ours" => Holds(kind).marker.state \in {"none", "theirs"}
  <2>1. CASE kind = "ours"
    BY <1>2, <2>1 DEF Holds, Markers
  <2>2. CASE kind = "foreign"
    <3>1. [NoMarker EXCEPT !.state = "theirs"] = [state |-> "theirs", to |-> None, gen |-> 0, op |-> 0]
      BY DEF NoMarker
    <3>2. Holds(kind).marker = [state |-> "theirs", to |-> None, gen |-> 0, op |-> 0]
      BY <2>2, <3>1 DEF Holds
    <3> QED
      BY <2>2, <3>2 DEF Markers
  <2>3. CASE kind \notin {"ours", "foreign"}
    <3>1. Holds(kind).marker = NoMarker
      BY <2>3 DEF Holds
    <3> QED
      BY <1>4, <3>1
  <2> QED
    BY <2>1, <2>2, <2>3
<1>6. /\ marker \in [Providers -> Markers] /\ marker[Source] = NoMarker
      /\ marker[Target] = Holds(kind).marker
      /\ files \in [Providers -> Contents] /\ files[Source] = {}
      /\ files[Target] = Holds(kind).files
  BY <1>1, <1>2, <1>3, <1>4, <1>5 DEF Contents
<1>7. ~Journaled /\ ~PastFence /\ ~Past
  BY <1>1, IdleFields DEF Journaled, PastFence, NoJournal, Past
<1>8. TransferTypes
  <2>1. journal \in Journals /\ life \in Lives /\ conn \in Somewhere /\ run \in Runs
    BY <1>1, <1>2, TransferConstants, IdleFields DEF Journals, NoJournal, Lives, Somewhere
  <2>2. other \in Devices
    BY <1>1, <1>2, <1>3, <1>6 DEF Devices
  <2>3. made \in 0..MaxEdits /\ ops \in 0..MaxTransfers
    BY <1>1, <1>2, TransferConstants DEF Edits
  <2> QED
    BY <1>1, <1>6, <2>1, <2>2, <2>3 DEF TransferTypes
<1>9. JournalFits /\ LifeFits /\ FencedIsComplete
  BY <1>1, <1>7 DEF JournalFits, LifeFits, Staged, FencedIsComplete, Journaled
<1>10. RunFits /\ SeenIsKept /\ SourceIsKnown
  BY <1>1, IdleFields DEF RunFits, SeenIsKept, SourceIsKnown, Snapped, Verified, Early, Staging,
                          Checking
<1>11. MovedSomewhere
  BY <1>2, <1>4, <1>5, <1>6 DEF MovedSomewhere
<1>12. ForeignIsApart
  <2>1. SUFFICES ASSUME NEW p \in Providers, Foreign(p)
                 PROVE  Apart(p)
    BY DEF ForeignIsApart
  <2>2. p = Target /\ kind # "ours"
    BY <1>2, <1>3, <1>6, <2>1 DEF Foreign
  <2>3. /\ life.active = Source /\ conn = Source /\ other.home = Source /\ journal.src = None
    BY <1>1, <2>2 DEF NoJournal
  <2> QED
    BY <1>2, <1>4, <1>5, <1>6, <1>7, <2>2, <2>3, TransferConstants DEF Apart
<1> QED
  BY <1>8, <1>9, <1>10, <1>11, <1>12 DEF TransferInv

LEMMA NextKeeps == ASSUME TransferInv, Next PROVE TransferInv' /\ Untouched
<1>1. CASE LocalEdit \/ OtherEdit \/ OtherBegin \/ OtherPush \/ OtherFollows
  BY <1>1, LocalEditKeeps, OtherEditKeeps, OtherBeginKeeps, OtherPushKeeps, OtherFollowsKeeps
<1>2. CASE Reconnect \/ AutoSync \/ Crash \/ Quit \/ (\E p \in Providers : Claim(p))
  BY <1>2, ReconnectKeeps, AutoSyncKeeps, CrashKeeps, QuitKeeps, ClaimKeeps
<1>3. CASE Start \/ Resume \/ Fault \/ Step
  BY <1>3, StartKeeps, ResumeKeeps, FaultKeeps, StepKeeps
<1> QED
  BY <1>1, <1>2, <1>3 DEF Next

LEMMA StutterKeeps == ASSUME TransferInv, UNCHANGED vars PROVE TransferInv' /\ Untouched
<1> USE TransferParts
<1>1. /\ run' = run /\ Idle' = Idle
      /\ UNCHANGED <<journal, life, cloud, local, conn, other, linked, owed, made, ops>>
  BY DEF vars, counts, Idle
<1>2. RunFits' /\ SeenIsKept' /\ SourceIsKnown' /\ (Past' => Past)
  <2>1. RunFits' /\ (Past' => Past)
    BY <1>1 DEF RunFits, Journaled, Fenced_, PastFence, Note, Staged, cloud, Past
  <2> QED
    BY <1>1, <2>1 DEF SeenIsKept, SourceIsKnown, cloud
<1> QED
  BY <1>1, <1>2, RunOnly DEF TransferTypes

LEMMA TransferIsInvariant == Spec => []TransferInv
<1>1. TransferInv /\ [Next]_vars => TransferInv'
  BY NextKeeps, StutterKeeps
<1> QED
  BY <1>1, TransferInit, PTL DEF Spec

\* Once the source says that the workspace moved, the target has what the last
\* check of the source owed it, whatever fails, is reloaded or resumed.
THEOREM TransferIsComplete == Spec => []FencedIsComplete
<1>1. TransferInv => FencedIsComplete
  BY DEF TransferInv
<1> QED
  BY <1>1, TransferIsInvariant, PTL

\* No step of a transfer, of this profile or of the other device writes to a
\* provider that holds another workspace.
THEOREM ForeignIsSafe == Spec => ForeignIsUntouched
<1>1. TransferInv /\ [Next]_vars =>
        [\A p \in Providers : Foreign(p) => files'[p] = files[p] /\ marker'[p] = marker[p]]_vars
  BY NextKeeps DEF Untouched
<1> QED
  BY <1>1, TransferIsInvariant, PTL DEF Spec, ForeignIsUntouched


=============================================================================
