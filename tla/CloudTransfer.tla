--------------------------- MODULE CloudTransfer ----------------------------
(***************************************************************************)
(* The move of a workspace from one cloud provider to the other.  One      *)
(* profile runs the transfer; a journal in IndexedDB outlives it, and a    *)
(* marker file at each provider tells every device where the workspace     *)
(* lives.  Another device goes on syncing with whichever provider it is    *)
(* connected to.                                                           *)
(*                                                                         *)
(* The files of a provider are the set of edits that can be rebuilt from   *)
(* them (how devices exchange edits is the subject of CloudSync); 0 stands *)
(* for data of another workspace.  A manifest fingerprint is only ever     *)
(* compared with an earlier one, so what is kept is whether the manifest   *)
(* was saved since it was read.                                            *)
(***************************************************************************)
EXTENDS Naturals

CONSTANTS
  Source, Target, None,
  TargetKinds,   \* what the target may hold: "empty", "ours", "foreign", "unbound"
  OtherGens,     \* generations the other device's session may have
  Attempts,      \* verification attempts (3 in the code)
  MaxEdits,      \* bound: edits ever made
  MaxTransfers,  \* bound: journals ever created
  MaxFaults,     \* bound: requests that fail
  MaxCrashes,    \* bound: reloads of the profile
  MaxQuits       \* bound: disconnections by the user

ASSUME ProviderAssumption == Source # Target /\ None \notin {Source, Target}
ASSUME KindAssumption == TargetKinds \subseteq {"empty", "ours", "foreign", "unbound"}
ASSUME BoundsAssumption ==
  /\ OtherGens \subseteq Nat /\ Attempts \in Nat \ {0}
  /\ {MaxEdits, MaxTransfers, MaxFaults, MaxCrashes, MaxQuits} \subseteq Nat
  /\ "ours" \in TargetKinds => MaxEdits > 0   \* the edit left there by then

Providers == {Source, Target}
Edits == 1..MaxEdits

VARIABLES
  journal,  \* the transfer journal, or NoJournal
  life,     \* the storage lifecycle: active provider, its generation, staged one
  marker,   \* the binding marker at each provider
  files,    \* what the files at each provider contain
  local,    \* the documents of this profile
  conn,     \* the provider the store is connected to
  other,    \* the other device
  run,      \* the coordinator, between two awaits
  linked,   \* the hosted service knows both providers as one owner
  owed,     \* bookkeeping: the workspace as the last check of the source found it
  mishap,   \* bookkeeping: an interruption that the transfer does not survive
  made, ops, faults, crashes, quits  \* bookkeeping: bounds

cloud == <<marker, files>>
counts == <<made, ops, faults, crashes, quits>>
vars == <<journal, life, cloud, local, conn, other, run, linked, owed, mishap, counts>>

NoJournal == [op |-> 0, src |-> None, tgt |-> None, gen |-> 0, stage |-> "none"]
NoMarker == [state |-> "none", to |-> None, gen |-> 0, op |-> 0]

\* pc, the phase after the fence, attempts left, the snapshot, what of the
\* target was read last, a failed comparison; whether the manifests are as
\* remembered.  "pulled" and "blind" are bookkeeping: nobody pushed to the
\* source since it was pulled, and somebody had when the fingerprint was read.
Idle == [pc |-> "idle", settle |-> FALSE, tries |-> 0, snap |-> {}, seen |-> {},
         redo |-> FALSE, srcSame |-> FALSE, tgtSame |-> FALSE,
         pulled |-> FALSE, blind |-> FALSE]

Markers ==
  [state : {"none", "active", "transfer-prepared", "moved", "theirs"},
   to : Providers \union {None}, gen : Nat, op : Nat]

-----------------------------------------------------------------------------
(* Markers, journal and lifecycle.                                         *)

Marked(p) == marker[p].state # "none"

\* The marker the current transfer writes.
Note(state, p) == [state |-> state, to |-> p, gen |-> journal.gen, op |-> journal.op]

Prepared == marker[journal.tgt] = Note("transfer-prepared", journal.tgt)

\* A session of generation g that looks at the marker of p is turned away.
Fenced(p, g) ==
  marker[p].state = "moved" /\ marker[p].to # p /\ marker[p].gen >= g

\* The lifecycle still is what the journal was written for.
LifeStands ==
  life = [active |-> journal.src, gen |-> journal.gen - 1, staged |-> journal.tgt]

PastFence == journal.stage \in {"source-marked", "activated", "finalizing"}

At(pc) == run.pc = pc
Goto(pc) == [run EXCEPT !.pc = pc]

\* Provider p got the edits E and, if that or "touch" asks for it, a new
\* manifest, which whoever remembers an older one will find changed.
Saved(p, E, touch, r) ==
  LET news == touch \/ ~(E \subseteq files[p]) IN
  /\ files' = [files EXCEPT ![p] = @ \union E]
  /\ run' = IF ~news THEN r
            ELSE [r EXCEPT !.srcSame = @ /\ p # journal.src,
                           !.tgtSame = @ /\ p # journal.tgt]
  /\ other' = IF news /\ other.home = p THEN [other EXCEPT !.fresh = FALSE] ELSE other

\* forceCloudSync: does nothing when the store was disconnected meanwhile.
ForcedSync(pull, E, r) ==
  IF conn = None
  THEN /\ local' = local \union E
       /\ run' = r
       /\ UNCHANGED <<files, other>>
  ELSE /\ local' = local \union E \union (IF pull THEN files[conn] ELSE {})
       /\ Saved(conn, local \union E, FALSE, r)

-----------------------------------------------------------------------------
(* The user, the connection and the other device.                          *)

LocalEdit ==
  /\ made < MaxEdits
  /\ made' = made + 1
  /\ local' = local \union {made + 1}
  /\ UNCHANGED <<journal, life, cloud, conn, other, run, linked, owed, mishap,
                 ops, faults, crashes, quits>>

OtherEdit ==
  /\ made < MaxEdits
  /\ made' = made + 1
  /\ other' = [other EXCEPT !.has = @ \union {made + 1}]
  /\ UNCHANGED <<journal, life, cloud, local, conn, run, linked, owed, mishap,
                 ops, faults, crashes, quits>>

\* A pass of the other device begins.  It looks at the marker and pulls only
\* when the manifest changed since it last saw it.
OtherBegin ==
  /\ ~other.busy
  /\ \/ other.fresh /\ ~(other.has \subseteq files[other.home])
     \/ ~other.fresh /\ ~Fenced(other.home, other.gen)
  /\ other' = [other EXCEPT !.busy = TRUE, !.fresh = TRUE,
                 !.has = IF other.fresh THEN @ ELSE @ \union files[other.home]]
  /\ UNCHANGED <<journal, life, cloud, local, conn, run, linked, owed, mishap, counts>>

\* ... and ends: its edits are uploaded, the manifest it saved is the one it saw.
OtherPush ==
  /\ other.busy
  /\ files' = [files EXCEPT ![other.home] = @ \union other.has]
  /\ run' = IF other.has \subseteq files[other.home] THEN run
            ELSE [run EXCEPT !.srcSame = @ /\ other.home # journal.src,
                             !.pulled = @ /\ other.home # journal.src,
                             !.tgtSame = @ /\ other.home # journal.tgt]
  /\ other' = [other EXCEPT !.busy = FALSE]
  /\ UNCHANGED <<journal, life, marker, local, conn, linked, owed, mishap, counts>>

\* The other device is turned away by the marker and its user connects it to
\* the provider the marker names, as a new session.
OtherFollows ==
  /\ ~other.busy /\ ~other.fresh /\ Fenced(other.home, other.gen)
  /\ other' = [other EXCEPT !.home = marker[other.home].to, !.gen = 1]
  /\ UNCHANGED <<journal, life, cloud, local, conn, run, linked, owed, mishap, counts>>

\* The app connects to the active provider after a reload; the lock keeps it
\* from doing so while a transfer runs.
Reconnect ==
  /\ conn = None /\ run = Idle
  /\ life.active # None /\ ~Fenced(life.active, life.gen)
  /\ conn' = life.active
  /\ local' = local \union files[life.active]
  /\ Saved(life.active, local, FALSE, run)
  /\ UNCHANGED <<journal, life, marker, linked, owed, mishap, counts>>

\* A pass of the profile outside a transfer.
AutoSync ==
  /\ conn # None /\ run = Idle
  /\ ~Fenced(conn, life.gen)
  /\ local # files[conn]
  /\ local' = local \union files[conn]
  /\ Saved(conn, local, FALSE, run)
  /\ UNCHANGED <<journal, life, marker, conn, linked, owed, mishap, counts>>

\* The profile is reloaded.
Crash ==
  /\ crashes < MaxCrashes
  /\ crashes' = crashes + 1
  /\ conn' = None
  /\ run' = Idle
  /\ mishap' = (mishap \/ (journal # NoJournal /\ marker[journal.src].state = "moved"))
  /\ UNCHANGED <<journal, life, cloud, local, other, linked, owed, made, ops, faults, quits>>

\* The user signs out of the active provider, which also drops the staged one.
Quit ==
  /\ quits < MaxQuits
  /\ life.active # None
  /\ quits' = quits + 1
  /\ life' = [active |-> None, gen |-> 0, staged |-> None]
  /\ conn' = None
  /\ mishap' = (mishap \/ journal # NoJournal)
  /\ UNCHANGED <<journal, cloud, local, other, run, linked, owed, made, ops, faults, crashes>>

\* The user signs in to a provider when none is active.  (Signing in where
\* another workspace is merges the two; that is not a transfer.)
Claim(p) ==
  /\ life.active = None
  /\ 0 \notin files[p]
  /\ life' = [life EXCEPT !.active = p, !.gen = @ + 1]
  /\ UNCHANGED <<journal, cloud, local, conn, other, run, linked, owed, mishap, counts>>

-----------------------------------------------------------------------------
(* The coordinator, one step per request or journal write.                 *)

Opposite(p) == CHOOSE q \in Providers : q # p

\* startTransfer: nothing is staged or journaled.  The session of the target is
\* staged, then the coordinator runs.
Start ==
  /\ run = Idle
  /\ journal = NoJournal /\ life.staged = None
  /\ conn # None /\ conn = life.active
  /\ life' = [life EXCEPT !.staged = Opposite(life.active)]
  /\ run' = Goto("open")
  /\ UNCHANGED <<journal, cloud, local, conn, other, linked, owed, mishap, counts>>

\* resumeTransfer: wants the lifecycle and the connection as they were.
Resumable ==
  /\ journal # NoJournal \/ life.staged # None
  /\ life.active # None /\ life.staged # None
  /\ conn = life.active

Resume ==
  /\ run = Idle /\ Resumable
  /\ run' = Goto("open")
  /\ UNCHANGED <<journal, life, cloud, local, conn, other, linked, owed, mishap, counts>>

\* A coordinator step that ends the run with an error leaves the rest alone.
Stop ==
  /\ run' = Idle
  /\ UNCHANGED <<journal, life, cloud, local, conn, other, linked, owed, mishap, counts>>

\* Any request may fail.
Fault ==
  /\ run # Idle
  /\ faults < MaxFaults
  /\ faults' = faults + 1
  /\ run' = Idle
  /\ mishap' = (mishap \/ (journal # NoJournal /\ life.staged = None))
  /\ UNCHANGED <<journal, life, cloud, local, conn, other, linked, owed,
                 made, ops, crashes, quits>>

\* The first run reads the marker of the source and writes the journal.
OpenNew ==
  LET src == life.active
      m == marker[src]
      ok == life.staged # None /\ (m.state = "none" \/ (m.to = src /\ m.state # "moved")) IN
  /\ At("open") /\ journal = NoJournal
  /\ IF ok /\ ops < MaxTransfers
     THEN /\ ops' = ops + 1
          /\ journal' = [op |-> ops + 1, src |-> src, tgt |-> life.staged,
                         gen |-> life.gen + 1, stage |-> "staging"]
          /\ run' = Goto("sync")
          /\ UNCHANGED <<life, cloud, local, conn, other, linked, owed, mishap,
                         made, faults, crashes, quits>>
     ELSE Stop

\* Variant: a marker this transfer left is taken for another's.
OpenOld_Refuse ==
  LET m == marker[journal.src] IN
  /\ At("open") /\ journal # NoJournal
  /\ \/ /\ PastFence
        /\ run' = [Goto("converge") EXCEPT !.settle = TRUE, !.tries = Attempts]
        /\ UNCHANGED <<journal, life, cloud, local, conn, other, linked, owed, mishap, counts>>
     \/ /\ ~PastFence /\ m.state = "moved" /\ m = Note("moved", journal.tgt)
        /\ Stop
     \/ /\ ~PastFence /\ m.state = "moved" /\ m # Note("moved", journal.tgt)
        /\ Stop
     \/ /\ ~PastFence /\ m.state # "moved"
        /\ run' = Goto("sync")
        /\ UNCHANGED <<journal, life, cloud, local, conn, other, linked, owed, mishap, counts>>

\* A later run goes on from the journal and the marker of the source.
OpenOld ==
  LET m == marker[journal.src] IN
  /\ At("open") /\ journal # NoJournal
  /\ \/ /\ PastFence
        /\ run' = [Goto("converge") EXCEPT !.settle = TRUE, !.tries = Attempts]
        /\ UNCHANGED <<journal, life, cloud, local, conn, other, linked, owed, mishap, counts>>
     \/ /\ ~PastFence /\ m.state = "moved" /\ m = Note("moved", journal.tgt)
        /\ run' = Goto("touch")
        /\ UNCHANGED <<journal, life, cloud, local, conn, other, linked, owed, mishap, counts>>
     \/ /\ ~PastFence /\ m.state = "moved" /\ m # Note("moved", journal.tgt)
        /\ Stop
     \/ /\ ~PastFence /\ m.state # "moved"
        /\ run' = Goto("sync")
        /\ UNCHANGED <<journal, life, cloud, local, conn, other, linked, owed, mishap, counts>>

\* The source is pulled and pushed in full.
SyncSource ==
  /\ At("sync")
  /\ ForcedSync(TRUE, {}, [Goto("bind") EXCEPT !.pulled = conn # None])
  /\ UNCHANGED <<journal, life, marker, conn, linked, owed, mishap, counts>>

\* A source without a marker gets one.
BindSource ==
  /\ At("bind")
  /\ IF Marked(journal.src)
     THEN /\ run' = Goto("inspect") /\ UNCHANGED <<marker, files, other>>
     ELSE /\ marker' = [marker EXCEPT ![journal.src] =
                          [Note("active", journal.src) EXCEPT !.gen = @ - 1, !.op = 0]]
          /\ Saved(journal.src, {}, TRUE, Goto("inspect"))
  /\ UNCHANGED <<journal, life, local, conn, linked, owed, mishap, counts>>

\* Variant: the workspace a marker names is not compared.
Inspect_AnyLineage ==
  LET p == journal.tgt
      ours == Marked(p) IN
  /\ At("inspect")
  /\ IF ours \/ (~Marked(p) /\ files[p] = {})
     THEN /\ run' = [Goto(IF ours THEN "merge" ELSE "prepare") EXCEPT !.seen = files[p]]
          /\ UNCHANGED mishap
     ELSE /\ run' = Idle /\ mishap' = TRUE
  /\ UNCHANGED <<journal, life, cloud, local, conn, other, linked, owed, counts>>

\* Variant: files without a marker are taken for an empty target.
Inspect_Unbound ==
  LET p == journal.tgt
      ours == Marked(p) /\ marker[p].state # "theirs" IN
  /\ At("inspect")
  /\ IF ours \/ (~Marked(p))
     THEN /\ run' = [Goto(IF ours THEN "merge" ELSE "prepare") EXCEPT !.seen = files[p]]
          /\ UNCHANGED mishap
     ELSE /\ run' = Idle /\ mishap' = TRUE
  /\ UNCHANGED <<journal, life, cloud, local, conn, other, linked, owed, counts>>

\* The target is listed: it must be empty or carry this workspace.
Inspect ==
  LET p == journal.tgt
      ours == Marked(p) /\ marker[p].state # "theirs" IN
  /\ At("inspect")
  /\ IF ours \/ (~Marked(p) /\ files[p] = {})
     THEN /\ run' = [Goto(IF ours THEN "merge" ELSE "prepare") EXCEPT !.seen = files[p]]
          /\ UNCHANGED mishap
     ELSE /\ run' = Idle /\ mishap' = TRUE
  /\ UNCHANGED <<journal, life, cloud, local, conn, other, linked, owed, counts>>

\* What a target of this workspace already holds comes to the source first.
MergeTarget ==
  /\ At("merge")
  /\ ForcedSync(FALSE, run.seen, Goto("prepare"))
  /\ UNCHANGED <<journal, life, marker, conn, linked, owed, mishap, counts>>

Prepare ==
  /\ At("prepare")
  /\ marker' = [marker EXCEPT ![journal.tgt] = Note("transfer-prepared", journal.tgt)]
  /\ run' = [Goto("snapshot") EXCEPT !.tries = Attempts]
  /\ UNCHANGED <<journal, life, files, local, conn, other, linked, owed, mishap, counts>>

\* An attempt: fingerprint of the source, then a snapshot of the documents.
Snapshot ==
  /\ At("snapshot")
  /\ run' = [Goto("upload") EXCEPT !.snap = local, !.srcSame = TRUE,
                                !.redo = FALSE, !.blind = ~run.pulled]
  /\ UNCHANGED <<journal, life, cloud, local, conn, other, linked, owed, mishap, counts>>

\* The snapshot replaces what the loaded manifest of the target referred to;
\* saving the manifest joins what others added meanwhile.
Upload ==
  LET p == journal.tgt IN
  /\ At("upload")
  /\ files' = [files EXCEPT ![p] = run.snap \union (@ \ run.seen)]
  /\ run' = [Goto(IF run.settle THEN "mark" ELSE "fingerprint") EXCEPT !.seen = files'[p]]
  /\ other' = IF other.home = p THEN [other EXCEPT !.fresh = FALSE] ELSE other
  /\ UNCHANGED <<journal, life, marker, local, conn, linked, owed, mishap, counts>>

MarkSettled ==
  /\ At("mark")
  /\ marker' = [marker EXCEPT ![journal.tgt] = Note("transfer-prepared", journal.tgt)]
  /\ run' = Goto("fingerprint")
  /\ UNCHANGED <<journal, life, files, local, conn, other, linked, owed, mishap, counts>>

Fingerprint ==
  /\ At("fingerprint")
  /\ run' = [Goto("verify") EXCEPT !.tgtSame = TRUE]
  /\ UNCHANGED <<journal, life, cloud, local, conn, other, linked, owed, mishap, counts>>

\* The target is read back.
Verify ==
  /\ At("verify")
  /\ IF files[journal.tgt] = run.snap /\ Prepared
     THEN /\ run' = [Goto("compare") EXCEPT !.seen = run.snap]
          /\ UNCHANGED <<journal, life, cloud, local, conn, other, linked, owed, mishap, counts>>
     ELSE Stop

\* Profile and source are synced, with a pull or without, for another attempt
\* if one is left.  E was just read from the target.
Again(pull, E, seen) ==
  /\ ForcedSync(pull, E,
       IF run.tries > 1
       THEN [Goto("snapshot") EXCEPT !.tries = @ - 1, !.seen = seen,
                               !.pulled = @ \/ (pull /\ conn # None)]
       ELSE Idle)
  /\ UNCHANGED <<journal, life, marker, conn, linked, owed, mishap, counts>>

\* Has the target or this profile changed since the snapshot?
Compare ==
  LET E == files[journal.tgt] IN
  /\ At("compare") /\ ~run.settle
  /\ \/ ~run.tgtSame /\ Prepared /\ Again(FALSE, E, E)
     \/ ~run.tgtSame /\ ~Prepared /\ Stop
     \/ run.tgtSame /\ local # run.snap /\ Again(FALSE, {}, run.seen)
     \/ /\ run.tgtSame /\ local = run.snap
        /\ run' = Goto("recheck")
        /\ UNCHANGED <<journal, life, cloud, local, conn, other, linked, owed, mishap, counts>>

\* Has the source?  Then the lifecycle is checked.
Recheck ==
  /\ At("recheck")
  /\ \/ ~run.srcSame /\ Again(TRUE, {}, run.seen)
     \/ run.srcSame /\ ~LifeStands /\ Stop
     \/ /\ run.srcSame /\ LifeStands
        /\ run' = Goto("link")
        /\ UNCHANGED <<journal, life, cloud, local, conn, other, linked, owed, mishap, counts>>

\* The hosted services learn that both providers are one owner.
Link ==
  /\ At("link")
  /\ linked' = TRUE
  /\ run' = Goto("target")
  /\ UNCHANGED <<journal, life, cloud, local, conn, other, owed, mishap, counts>>

\* That took time: the target is compared again, and merged if it changed ...
TargetAfterLink ==
  LET E == files[journal.tgt] IN
  /\ At("target")
  /\ IF ~Prepared
     THEN Stop
     ELSE /\ local' = IF run.tgtSame THEN local ELSE local \union E
          /\ run' = IF run.tgtSame THEN Goto("source")
                    ELSE [Goto("source") EXCEPT !.redo = TRUE, !.seen = E]
          /\ UNCHANGED <<journal, life, cloud, conn, other, linked, owed, mishap, counts>>

\* Variant: what changed during the link is not looked at.
SourceAfterLink_Unchecked ==
  LET changed == run.redo IN
  /\ At("source")
  /\ \/ changed /\ Again(~run.srcSame, {}, run.seen)
     \/ /\ ~changed
        /\ owed' = local \union (IF run.blind THEN {} ELSE files[journal.src])
        /\ run' = Goto("fence")
        /\ UNCHANGED <<journal, life, cloud, local, conn, other, linked, mishap, counts>>

\* ... then this profile and the source.
SourceAfterLink ==
  LET changed == run.redo \/ ~run.srcSame \/ local # run.snap IN
  /\ At("source")
  /\ \/ changed /\ Again(~run.srcSame, {}, run.seen)
     \/ /\ ~changed
        /\ owed' = local \union (IF run.blind THEN {} ELSE files[journal.src])
        /\ run' = Goto("fence")
        /\ UNCHANGED <<journal, life, cloud, local, conn, other, linked, mishap, counts>>

\* The source is marked as moved: the point of no return.
Fence ==
  /\ At("fence")
  /\ marker' = [marker EXCEPT ![journal.src] = Note("moved", journal.tgt)]
  /\ run' = Goto("touch")
  /\ UNCHANGED <<journal, life, files, local, conn, other, linked, owed, mishap, counts>>

\* Its manifest is saved so that others look at the marker.
Touch ==
  /\ At("touch")
  /\ Saved(journal.src, {}, TRUE, Goto("record"))
  /\ UNCHANGED <<journal, life, marker, local, conn, linked, owed, mishap, counts>>

RecordFence ==
  /\ At("record")
  /\ journal' = [journal EXCEPT !.stage = "source-marked"]
  /\ run' = [Goto("converge") EXCEPT !.settle = TRUE, !.tries = Attempts]
  /\ UNCHANGED <<life, cloud, local, conn, other, linked, owed, mishap, counts>>

\* After the fence only the target counts: it is merged and published again
\* until nobody changes it meanwhile.
Converge ==
  LET E == files[journal.tgt] IN
  /\ At("converge")
  /\ IF journal.stage # "source-marked"
     THEN /\ run' = Goto("own")
          /\ UNCHANGED <<journal, life, cloud, local, conn, other, linked, owed, mishap, counts>>
     ELSE IF Prepared
     THEN /\ local' = local \union E
          /\ run' = [Goto("snapshot") EXCEPT !.seen = E]
          /\ UNCHANGED <<journal, life, cloud, conn, other, linked, owed, mishap, counts>>
     ELSE Stop

CompareSettled ==
  /\ At("compare") /\ run.settle
  /\ \/ /\ run.tgtSame /\ local = run.snap
        /\ run' = Goto("activate")
        /\ UNCHANGED <<journal, life, cloud, local, conn, other, linked, owed, mishap, counts>>
     \/ /\ ~(run.tgtSame /\ local = run.snap) /\ run.tries > 1
        /\ run' = [Goto("converge") EXCEPT !.tries = @ - 1]
        /\ UNCHANGED <<journal, life, cloud, local, conn, other, linked, owed, mishap, counts>>
     \/ /\ ~(run.tgtSame /\ local = run.snap) /\ run.tries = 1
        /\ Stop

Activate ==
  /\ At("activate")
  /\ IF LifeStands
     THEN /\ life' = [active |-> journal.tgt, gen |-> journal.gen, staged |-> None]
          /\ run' = Goto("activated")
          /\ UNCHANGED <<journal, cloud, local, conn, other, linked, owed, mishap, counts>>
     ELSE Stop

RecordActivated ==
  /\ At("activated")
  /\ journal' = [journal EXCEPT !.stage = "activated"]
  /\ run' = Goto("own")
  /\ UNCHANGED <<life, cloud, local, conn, other, linked, owed, mishap, counts>>

Own ==
  /\ At("own")
  /\ marker' = [marker EXCEPT ![journal.tgt] = Note("active", journal.tgt)]
  /\ run' = Goto("switch")
  /\ UNCHANGED <<journal, life, files, local, conn, other, linked, owed, mishap, counts>>

\* The store leaves the source and connects to the target.
Switch ==
  /\ At("switch")
  /\ conn' = journal.tgt
  /\ local' = local \union files[journal.tgt]
  /\ journal' = [journal EXCEPT !.stage = "finalizing"]
  /\ Saved(journal.tgt, local, FALSE, Goto("publish"))
  /\ UNCHANGED <<life, marker, linked, owed, mishap, counts>>

Publish ==
  /\ At("publish")
  /\ ForcedSync(FALSE, {}, Goto("clear"))
  /\ UNCHANGED <<journal, life, marker, conn, linked, owed, mishap, counts>>

ClearJournal ==
  /\ At("clear")
  /\ journal' = NoJournal
  /\ run' = Idle
  /\ UNCHANGED <<life, cloud, local, conn, other, linked, owed, mishap, counts>>

Step ==
  \/ OpenNew \/ OpenOld \/ SyncSource \/ BindSource \/ Inspect \/ MergeTarget
  \/ Prepare \/ Snapshot \/ Upload \/ MarkSettled \/ Fingerprint \/ Verify
  \/ Compare \/ Recheck \/ Link \/ TargetAfterLink \/ SourceAfterLink
  \/ Fence \/ Touch \/ RecordFence \/ Converge \/ CompareSettled
  \/ Activate \/ RecordActivated \/ Own \/ Switch \/ Publish \/ ClearJournal

-----------------------------------------------------------------------------
\* What the target may hold: nothing; this workspace, moved away from there
\* earlier, perhaps with an edit that arrived late; or something else.
Holds(kind) ==
  [files |-> IF kind = "empty" THEN {} ELSE IF kind = "ours" THEN {1} ELSE {0},
   marker |-> IF kind = "ours"
              THEN [state |-> "moved", to |-> Source, gen |-> 0, op |-> 0]
              ELSE IF kind = "foreign" THEN [NoMarker EXCEPT !.state = "theirs"]
              ELSE NoMarker]

Init ==
  \E kind \in TargetKinds, g \in OtherGens :
    /\ journal = NoJournal
    /\ life = [active |-> Source, gen |-> 1, staged |-> None]
    /\ marker = [p \in Providers |-> IF p = Source THEN NoMarker ELSE Holds(kind).marker]
    /\ files = [p \in Providers |-> IF p = Source THEN {} ELSE Holds(kind).files]
    /\ local = {} /\ conn = Source
    /\ other = [home |-> IF kind = "ours" THEN Target ELSE Source, gen |-> g,
                has |-> files[Target] \ {0}, fresh |-> TRUE, busy |-> FALSE]
    /\ run = Idle
    /\ linked = FALSE /\ owed = {}
    /\ mishap = FALSE
    /\ made = (IF kind = "ours" THEN 1 ELSE 0)
    /\ ops = 0 /\ faults = 0 /\ crashes = 0 /\ quits = 0

Next ==
  \/ LocalEdit \/ OtherEdit \/ OtherBegin \/ OtherPush \/ OtherFollows
  \/ Reconnect \/ AutoSync \/ Crash \/ Quit \/ (\E p \in Providers : Claim(p))
  \/ Start \/ Resume \/ Fault \/ Step

Spec == Init /\ [][Next]_vars

\* Requests are answered, the app connects by itself, and a user who was told
\* that a transfer stopped resumes it.
FairSpec == Spec /\ WF_vars(Step) /\ WF_vars(Reconnect) /\ SF_vars(Resume)

-----------------------------------------------------------------------------
TypeOK ==
  /\ journal \in [op : 0..MaxTransfers, src : Providers \union {None},
                  tgt : Providers \union {None}, gen : Nat,
                  stage : {"none", "staging", "source-marked", "activated", "finalizing"}]
  /\ life \in [active : Providers \union {None}, gen : Nat, staged : Providers \union {None}]
  /\ marker \in [Providers -> Markers]
  /\ files \in [Providers -> SUBSET (Edits \union {0})]
  /\ local \subseteq Edits
  /\ conn \in Providers \union {None}
  /\ other.home \in Providers /\ other.has \subseteq Edits
  /\ run.tries \in 0..Attempts /\ run.snap \subseteq Edits
  /\ linked \in BOOLEAN /\ owed \subseteq Edits

\* Once the source says the workspace moved, everything the profile held at the
\* last check can be rebuilt from the target, whatever request failed and
\* whatever was resumed since; and everything the source held, unless somebody
\* pushed to it after it was pulled and before its fingerprint was read.
FencedIsComplete ==
  journal # NoJournal /\ marker[journal.src] = Note("moved", journal.tgt)
    => owed \subseteq files[journal.tgt]

\* A target that holds something else is left as it is, on every path that
\* resumes a transfer too.
Foreign(p) == 0 \in files[p]
ForeignIsUntouched ==
  [][\A p \in Providers : Foreign(p) =>
       files'[p] = files[p] /\ marker'[p] = marker[p]]_vars

\* Unless the profile is reloaded after the source was fenced, or a request
\* fails after the activation, or the user signs out, or the target holds
\* something else, a transfer that was journaled is finished.
InterruptedFinishes ==
  []~mishap => (journal # NoJournal ~> journal = NoJournal)
=============================================================================
