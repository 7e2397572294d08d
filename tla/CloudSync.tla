----------------------------- MODULE CloudSync ------------------------------
(***************************************************************************)
(* The synchronisation of one document between devices through the files   *)
(* of a cloud provider.  A device queues its edits and uploads them as a   *)
(* delta file, or uploads its whole document as the base file; a manifest  *)
(* says which files make up the document.  Enough deltas are compacted     *)
(* into a new base.  Nothing at the provider is transactional: a pass is   *)
(* one request after another, requests of other devices run in between,    *)
(* and the tab may die between any two.                                    *)
(*                                                                         *)
(* The document is the set of the edits it contains, so that applying an   *)
(* update is a union.  Tabs of one device share its document, its local    *)
(* storage and a lock; each has a provider object of its own.  The         *)
(* document and its manifest entry exist when the model starts.            *)
(***************************************************************************)
EXTENDS SyncManifest, TLC

CONSTANTS
  Tabs, Devices,
  DeviceOf,      \* the device of each tab
  Mode,          \* "sync" or "backup"
  Conditional,   \* the store refuses to replace a file that changed (Dropbox)
  Serial,        \* assumption: passes of different devices do not overlap
  QuietConnect,  \* assumption: no edit is made while a connection is set up
  Threshold,     \* deltas that trigger a compaction (10 in the code)
  MaxEdits,      \* bound: edits ever made
  MaxLosses,     \* bound: sessions that end in a crash or a disconnect
  MaxFaults,     \* bound: requests that fail or whose answer is lost
  MaxForced,     \* bound: Sync Now and page-exit passes
  MaxDeltas      \* bound: delta files ever uploaded

ASSUME TabAssumption == DeviceOf \in [Tabs -> Devices]
ASSUME ModeAssumption == Mode \in {"sync", "backup"}
ASSUME FlagAssumption ==
  Conditional \in BOOLEAN /\ Serial \in BOOLEAN /\ QuietConnect \in BOOLEAN
ASSUME BoundAssumption ==
  /\ Threshold \in Nat \ {0} /\ MaxEdits \in Nat
  /\ MaxLosses \in Nat /\ MaxFaults \in Nat /\ MaxForced \in Nat
  /\ MaxDeltas \in Nat

Edits == 1..MaxEdits
DeltaIds == 1..MaxDeltas

VARIABLES
  base,      \* the base file: the edits in it, and the time it was replaced
  deltas,    \* the delta files: the edits in each
  manifest,  \* the manifest file, and the time it was replaced
  doc,       \* the document of each device, in memory and IndexedDB
  dirty,     \* local storage: the document has changes to upload
  parted,    \* local storage: it changed while no provider was connected
  tab,       \* the provider object of each tab
  made,      \* bookkeeping: the edits made on each device
  sent,      \* bookkeeping: the edits a device saw accepted by the provider
  losses, faults, forced  \* bookkeeping: the bounds

cloud == <<base, deltas, manifest>>
local == <<doc, dirty, parted>>
bounds == <<losses, faults, forced>>
vars == <<cloud, local, tab, made, sent, bounds>>

NoEntry == [version |-> 0, deltas |-> {}, gone |-> {}, baseTime |-> 0]
NoFiles == [base |-> 0, deltas |-> {}, manifest |-> 0]
Unread == [content |-> NoEntry, files |-> NoFiles, seen |-> 0]

Stages ==
  {"idle", "check", "read", "list", "body", "pull", "putBase", "putDelta",
   "save", "write", "delete", "callback", "complete"}
Kinds == {"none", "connect", "auto", "exit", "now"}
Jobs == {"none", "delta", "full", "verify", "compact", "final"}
Parts == {"content", "files", "seen"}
Gotten == [content : Manifest(DeltaIds), files : Listing(DeltaIds), seen : Nat]

\* A provider object: what it keeps between passes (up to "have"), and what a
\* pass holds across its awaits.
Provider ==
  [on : BOOLEAN, bound : BOOLEAN, ok : BOOLEAN,
   pending : SUBSET Edits, full : BOOLEAN, verify : BOOLEAN,
   entry : Manifest(DeltaIds), unsaved : BOOLEAN,
   seen : Nat, revision : Nat, cached : Nat,
   version : Nat, have : SUBSET DeltaIds,
   pc : Stages, kind : Kinds, job : Jobs,
   pull : BOOLEAN, post : BOOLEAN, recover : BOOLEAN, carry : BOOLEAN,
   todo : SUBSET Parts, got : Gotten,
   batch : SUBSET Edits, whole : SUBSET Edits, count : Nat,
   drop : SUBSET DeltaIds, next : Nat]

Fresh ==
  [on |-> FALSE, bound |-> FALSE, ok |-> TRUE, pending |-> {}, full |-> FALSE,
   verify |-> FALSE, entry |-> NoEntry, unsaved |-> FALSE, seen |-> 0,
   revision |-> 0, cached |-> 0, version |-> 0, have |-> {},
   pc |-> "idle", kind |-> "none", job |-> "none", pull |-> FALSE,
   post |-> FALSE, recover |-> FALSE, carry |-> FALSE, todo |-> {}, got |-> Unread,
   batch |-> {}, whole |-> {}, count |-> 0, drop |-> {}, next |-> 0]

\* A provider object between two passes.
Rest(t) ==
  [t EXCEPT !.pc = "idle", !.kind = "none", !.job = "none", !.pull = FALSE,
            !.post = FALSE, !.recover = FALSE, !.carry = FALSE, !.todo = {},
            !.got = Unread,
            !.batch = {}, !.whole = {}, !.count = 0, !.drop = {}, !.next = 0]

Init ==
  /\ base = [edits |-> {}, time |-> 1]
  /\ deltas = << >>
  /\ manifest = [entry |-> [version |-> 1, deltas |-> {}, gone |-> {}, baseTime |-> 1],
                 time |-> 1]
  /\ doc = [d \in Devices |-> {}]
  /\ dirty = [d \in Devices |-> FALSE]
  /\ parted = [d \in Devices |-> FALSE]
  /\ tab = [p \in Tabs |-> Fresh]
  /\ made = [d \in Devices |-> {}]
  /\ sent = [d \in Devices |-> {}]
  /\ losses = 0 /\ faults = 0 /\ forced = 0

-----------------------------------------------------------------------------
(* What a provider object knows. *)

AllMade == UNION {made[d] : d \in Devices}
Files == [base |-> base.time, deltas |-> DOMAIN deltas, manifest |-> manifest.time]

\* The web lock of a device, and the assumption that devices take turns.
Unlocked(p) ==
  \A q \in Tabs \ {p} :
    DeviceOf[q] = DeviceOf[p] \/ Serial => tab[q].pc = "idle"

Revision(n) == IF Conditional THEN n ELSE 0
Refused(known, now) == Conditional /\ known # now

InMemory(t) == t.full \/ t.verify \/ t.pending # {}
Unsynced(p) == InMemory(tab[p]) \/ dirty[DeviceOf[p]]

\* Variant: only an explicit request makes it a whole document.
Promoted_OnRequest(t, marked) == t.full

\* A marker of an earlier session makes the next upload a whole document,
\* unless a queue of this session is there already.
Promoted(t, marked) == t.full \/ (marked /\ t.pending = {})

-----------------------------------------------------------------------------
(* How a pass goes on, as functions of the provider object. *)

\* An upload that failed leaves its request for the next pass.
Failed(t) ==
  LET pushing == t.pc \in {"putBase", "save", "write"}
  IN Rest([t EXCEPT !.ok     = FALSE,
                    !.full   = @ \/ (pushing /\ t.job = "full"),
                    !.verify = @ \/ (pushing /\ t.job = "verify")])

Saving(t, job) == [t EXCEPT !.pc = "save", !.job = job, !.todo = {"content", "files"}]

Finished(t) ==
  IF t.unsaved THEN Saving(t, "final")
  ELSE [t EXCEPT !.pc = IF t.kind = "connect" \/ t.post THEN "complete" ELSE "callback",
                 !.job = "none"]

PutBase(t, job, edits) ==
  [t EXCEPT !.pc = "putBase", !.job = job, !.whole = edits, !.next = t.entry.version + 1,
            !.drop = IF job = "verify" THEN {} ELSE t.entry.deltas]

\* Compaction replaces every delta of the entry as the save just left it.
Compacted(t, edits) ==
  IF t.count >= Threshold THEN PutBase(t, "compact", edits) ELSE Finished(t)

\* Variant: the queue is emptied, whatever arrived meanwhile.
Uploaded_All(t) == [t EXCEPT !.pending = {}, !.batch = {}, !.whole = {}]

\* Variant: the batch is kept for the next request.
Uploaded_KeepBatch(t) == [t EXCEPT !.pending = @ \ t.batch, !.whole = {}]

\* Only the batch that was uploaded leaves the queue.
Uploaded(t) == [t EXCEPT !.pending = @ \ t.batch, !.batch = {}, !.whole = {}]

\* The base file is saved, referred to, and the deltas it replaces are gone.
BaseDone(t, edits) ==
  CASE t.job = "full" ->
         Compacted(Uploaded([t EXCEPT !.version = t.next, !.have = {}]), edits)
    [] t.job = "verify" ->
         Compacted(Uploaded([t EXCEPT !.version = t.next]), edits)
    [] t.job = "compact" ->
         Finished([t EXCEPT !.version = t.entry.version, !.have = {}, !.whole = {}])

Saved(t, edits) ==
  CASE t.job = "final" -> Finished(t)
    [] t.job = "delta" -> Compacted(Uploaded([t EXCEPT !.have = @ \union {t.next}]), edits)
    [] OTHER -> IF t.drop # {} THEN [t EXCEPT !.pc = "delete"] ELSE BaseDone(t, edits)

\* The manifest is read: it is completed from the listing.
Loaded(t, marked) ==
  LET m == Reconcile(t.got.content, t.got.files)
  IN [t EXCEPT !.entry = m, !.unsaved = @ \/ m # t.got.content,
               !.seen = t.got.seen, !.revision = Revision(t.got.seen),
               !.cached = Revision(t.got.files.base),
               !.recover = t.kind = "connect" /\ marked,
               !.full = IF t.kind = "connect" THEN Promoted(t, marked) ELSE @,
               !.verify = @ \/ (t.kind = "now" /\ ~t.full),
               !.pc = "pull", !.todo = {}, !.got = Unread]

-----------------------------------------------------------------------------
(* The user and the session. *)

Edit(p) ==
  LET d == DeviceOf[p]
      e == Cardinality(AllMade) + 1
  IN /\ e \in Edits
     /\ QuietConnect => tab[p].kind # "connect"
     /\ doc' = [doc EXCEPT ![d] = @ \union {e}]
     /\ made' = [made EXCEPT ![d] = @ \union {e}]
     /\ parted' = [parted EXCEPT ![d] = @ \/ ~tab[p].on]
     /\ IF tab[p].bound
        THEN /\ tab' = [tab EXCEPT ![p].pending = @ \union {e}]
             /\ dirty' = [dirty EXCEPT ![d] = TRUE]
        ELSE UNCHANGED <<tab, dirty>>
     /\ UNCHANGED <<cloud, sent, bounds>>

\* Detaching a provider moves its evidence to the disconnected marker.
Detached(p) == parted[DeviceOf[p]] \/ (tab[p].bound /\ Unsynced(p))

Connect(p) ==
  LET d == DeviceOf[p]
  IN /\ tab[p].pc = "idle" /\ ~tab[p].on /\ Unlocked(p)
     /\ parted' = [parted EXCEPT ![d] = Detached(p)]
     /\ dirty' = [dirty EXCEPT ![d] = (@ /\ ~tab[p].bound) \/ Detached(p)]
     /\ tab' = [tab EXCEPT ![p] =
          [Fresh EXCEPT !.bound = TRUE, !.full = Detached(p), !.carry = Detached(p),
                        !.pull = TRUE, !.pc = "list", !.kind = "connect"]]
     /\ UNCHANGED <<cloud, doc, made, sent, bounds>>

Disconnect(p) ==
  LET d == DeviceOf[p]
  IN /\ tab[p].pc = "idle" /\ tab[p].on /\ losses < MaxLosses
     /\ parted' = [parted EXCEPT ![d] = Detached(p)]
     /\ dirty' = [dirty EXCEPT ![d] = FALSE]
     /\ tab' = [tab EXCEPT ![p] = Fresh]
     /\ losses' = losses + 1
     /\ UNCHANGED <<cloud, doc, made, sent, faults, forced>>

\* The tab dies; what it wrote to IndexedDB and to local storage stays.
Crash(p) ==
  /\ tab[p].bound /\ losses < MaxLosses
  /\ tab' = [tab EXCEPT ![p] = Fresh]
  /\ losses' = losses + 1
  /\ UNCHANGED <<cloud, local, made, sent, faults, forced>>

\* What looks for remote changes.
Asks(kind) == kind = "now" \/ (kind = "auto" /\ Mode = "sync")

\* A pass: on a timer or after an edit, when the page is left, or Sync Now.
Begin(p, kind) ==
  LET t == tab[p]
      asks == Asks(kind)
  IN /\ t.on /\ t.pc = "idle" /\ Unlocked(p)
     /\ asks \/ Unsynced(p)
     /\ kind # "auto" => forced < MaxForced
     /\ forced' = IF kind = "auto" THEN forced ELSE forced + 1
     /\ tab' = [tab EXCEPT ![p] =
          [t EXCEPT !.kind = kind, !.pull = asks,
                    !.full = Promoted(t, dirty[DeviceOf[p]]),
                    !.pc = IF asks \/ Mode = "backup" THEN "check" ELSE "pull"]]
     /\ UNCHANGED <<cloud, local, made, sent, losses, faults>>

-----------------------------------------------------------------------------
(* The steps of a pass: each ends at an await. *)

Goes(p, t) == tab' = [tab EXCEPT ![p] = t]

\* Variant: a manifest that was read once counts as seen.
Changed_Once(t) == t.seen = 0

Changed(t) == t.seen # manifest.time

\* Only the time of the manifest is asked for; a push-only pass of backup
\* mode stops when it changed.
Check(p) ==
  LET t == tab[p]
      changed == Changed(t)
      asked == [t EXCEPT !.revision = Revision(manifest.time)]
  IN /\ t.pc = "check"
     /\ Goes(p, IF ~t.pull
                THEN IF changed THEN Failed(asked) ELSE [asked EXCEPT !.pc = "pull"]
                ELSE IF changed \/ t.kind = "now"
                THEN [asked EXCEPT !.pc = "read", !.todo = {"content", "files", "seen"}]
                ELSE [asked EXCEPT !.pc = "pull", !.pull = FALSE])
     /\ UNCHANGED <<cloud, local, made, sent, bounds>>

Answered(t, part) ==
  [t EXCEPT !.todo = @ \ {part},
            !.got = [t.got EXCEPT !.content = IF part = "content" THEN manifest.entry ELSE @,
                                  !.files = IF part = "files" THEN Files ELSE @,
                                  !.seen = IF part = "seen" THEN manifest.time ELSE @]]

\* Sync Now asks for a verification of every document, which marks it.
Marked(p) ==
  dirty' = [dirty EXCEPT ![DeviceOf[p]] = @ \/ (tab[p].kind = "now" /\ tab'[p].pc = "pull")]

\* A reload sends its three requests together; a refusal starts a full load.
Read(p, part) ==
  LET t == Answered(tab[p], part)
  IN /\ tab[p].pc = "read" /\ part \in tab[p].todo
     /\ Goes(p, IF part = "content" /\ Refused(tab[p].revision, manifest.time)
                THEN [t EXCEPT !.pc = "list", !.todo = {}, !.got = Unread]
                ELSE IF t.todo = {} THEN Loaded(t, dirty[DeviceOf[p]]) ELSE t)
     /\ Marked(p)
     /\ UNCHANGED <<cloud, doc, parted, made, sent, bounds>>

\* A load lists the files and then downloads the manifest.
List(p) ==
  /\ tab[p].pc = "list"
  /\ Goes(p, [Answered(Answered(tab[p], "files"), "seen") EXCEPT !.pc = "body"])
  /\ UNCHANGED <<cloud, local, made, sent, bounds>>

Body(p) ==
  LET t == tab[p]
  IN /\ t.pc = "body"
     /\ Goes(p, IF Refused(t.got.seen, manifest.time) THEN Failed(t)
                ELSE Loaded(Answered(t, "content"), dirty[DeviceOf[p]]))
     /\ Marked(p)
     /\ UNCHANGED <<cloud, doc, parted, made, sent, bounds>>

Absent(t) == IF t.pull THEN t.entry.deltas \ t.have ELSE {}
\* Variant: the base file is downloaded once.
BehindBase_Once(t) == t.pull /\ t.version = 0

BehindBase(t) == t.pull /\ t.entry.version > t.version

PullBase(p) ==
  LET t == tab[p]
  IN /\ t.pc = "pull" /\ BehindBase(t)
     /\ IF Refused(t.cached, base.time)
        THEN Goes(p, Failed(t)) /\ UNCHANGED doc
        ELSE /\ doc' = [doc EXCEPT ![DeviceOf[p]] = @ \union base.edits]
             /\ Goes(p, [t EXCEPT !.version = t.entry.version, !.have = {}])
     /\ UNCHANGED <<cloud, dirty, parted, made, sent, bounds>>

\* A delta that is referred to and does not exist fails the pass.
PullDelta(p, id) ==
  LET t == tab[p]
  IN /\ t.pc = "pull" /\ ~BehindBase(t) /\ id \in Absent(t)
     /\ IF id \in DOMAIN deltas
        THEN /\ doc' = [doc EXCEPT ![DeviceOf[p]] = @ \union deltas[id]]
             /\ Goes(p, [t EXCEPT !.have = @ \union {id}])
        ELSE Goes(p, Failed(t)) /\ UNCHANGED doc
     /\ UNCHANGED <<cloud, dirty, parted, made, sent, bounds>>

\* What this pass uploads: the document, the queue, or nothing.
Push(p) ==
  LET t == tab[p]
      edits == doc[DeviceOf[p]]
      batched == [t EXCEPT !.batch = t.pending, !.count = Cardinality(t.entry.deltas)]
  IN /\ t.pc = "pull" /\ ~BehindBase(t) /\ Absent(t) = {}
     /\ Goes(p, IF t.full
                THEN PutBase([batched EXCEPT !.full = FALSE], "full", edits)
                ELSE IF t.verify
                THEN PutBase([batched EXCEPT !.verify = FALSE], "verify", edits)
                ELSE IF t.pending # {}
                THEN [batched EXCEPT !.pc = "putDelta", !.job = "delta", !.count = @ + 1]
                ELSE Compacted(batched, edits))
     /\ UNCHANGED <<cloud, local, made, sent, bounds>>

\* The answer to a write comes back, or is lost although the write was done.
Lost(p) == faults < MaxFaults /\ faults' = faults + 1 /\ Goes(p, Failed(tab[p]))

Answer(p, t) == (Goes(p, t) /\ UNCHANGED faults) \/ Lost(p)

Counted(t) == [t EXCEPT !.entry = IF t.job = "verify" THEN NewBase(@) ELSE ClearDeltas(@),
                        !.unsaved = TRUE, !.cached = Revision(base.time + 1)]

UploadBase(p) ==
  LET t == tab[p]
  IN /\ t.pc = "putBase"
     /\ IF Refused(t.cached, base.time)
        THEN Goes(p, Failed(t)) /\ UNCHANGED <<base, faults>>
        ELSE /\ base' = [edits |-> t.whole, time |-> base.time + 1]
             /\ Answer(p, Saving(Counted(t), t.job))
     /\ UNCHANGED <<deltas, manifest, local, made, sent, losses, forced>>

\* The identity of a delta file is drawn at random.
UploadDelta(p) ==
  LET t == tab[p]
      id == Cardinality(DOMAIN deltas \union manifest.entry.gone
                        \union UNION {tab[q].entry.gone : q \in Tabs}) + 1
  IN /\ t.pc = "putDelta" /\ id \in DeltaIds
     /\ deltas' = [i \in DOMAIN deltas \union {id} |-> IF i = id THEN t.batch ELSE deltas[i]]
     /\ Answer(p, Saving([t EXCEPT !.entry = AddDelta(@, id), !.unsaved = TRUE,
                                   !.next = id], "delta"))
     /\ UNCHANGED <<base, manifest, local, made, sent, losses, forced>>

\* A save downloads the manifest again and lists the files, together ...
SaveRead(p, part) ==
  LET t == Answered(tab[p], part)
  IN /\ tab[p].pc = "save" /\ part \in tab[p].todo
     /\ Goes(p, IF part = "content" /\ Refused(t.revision, manifest.time)
                THEN Failed(tab[p])
                ELSE IF t.todo # {} THEN t
                ELSE [t EXCEPT !.entry = Join(t.got.content, @, t.got.files),
                               !.cached = Revision(t.got.files.base),
                               !.revision = Revision(t.got.files.manifest),
                               !.got = Unread, !.pc = "write"])
     /\ UNCHANGED <<cloud, local, made, sent, bounds>>

\* ... joins them with its own, and replaces the manifest.
SaveWrite(p) ==
  LET t == tab[p]
      d == DeviceOf[p]
      now == manifest.time + 1
      done == Saved([t EXCEPT !.seen = now, !.revision = Revision(now),
                              !.unsaved = FALSE], doc[d])
  IN /\ t.pc = "write"
     /\ IF Refused(t.revision, manifest.time)
        THEN Goes(p, Failed(t)) /\ UNCHANGED <<manifest, faults, sent>>
        ELSE /\ manifest' = [entry |-> t.entry, time |-> now]
             /\ \/ Goes(p, done) /\ UNCHANGED faults
                   /\ sent' = [sent EXCEPT ![d] = @ \union t.batch \union t.whole]
                \/ Lost(p) /\ UNCHANGED sent
     /\ UNCHANGED <<base, deltas, local, made, losses, forced>>

\* An error of the deletion is swallowed: the file stays.
DeleteDelta(p, id) ==
  LET t == tab[p]
      rest == [t EXCEPT !.drop = @ \ {id}]
      next == IF rest.drop = {} THEN BaseDone(rest, doc[DeviceOf[p]]) ELSE rest
  IN /\ t.pc = "delete" /\ id \in t.drop
     /\ Goes(p, next)
     /\ \/ deltas' = [i \in DOMAIN deltas \ {id} |-> deltas[i]] /\ UNCHANGED faults
        \/ faults < MaxFaults /\ faults' = faults + 1 /\ UNCHANGED deltas
     /\ UNCHANGED <<base, manifest, local, made, sent, losses, forced>>

\* After the callback of a pass, what it queued is pushed in the same pass.
Callback(p) ==
  LET t == tab[p]
  IN /\ t.pc = "callback"
     /\ Goes(p, IF InMemory(t) THEN [t EXCEPT !.pc = "pull", !.pull = FALSE, !.post = TRUE]
                ELSE [t EXCEPT !.pc = "complete"])
     /\ UNCHANGED <<cloud, local, made, sent, bounds>>

\* Variant: the end of a pass clears the marker.
Left_Nothing(p) == FALSE

\* What the marker says at the end of a pass: a connection clears it only for
\* the document it recovered.
Left(p) ==
  LET t == tab[p]
  IN IF t.kind = "connect" THEN dirty[DeviceOf[p]] /\ (~t.recover \/ InMemory(t))
     ELSE InMemory(t)

\* Once nothing is left to push, a connection clears the disconnected marker if
\* it found it set, and a pass that the store asked for clears it anyway.
Complete(p) ==
  LET t == tab[p]
      d == DeviceOf[p]
      left == Left(p)
  IN /\ t.pc = "complete"
     /\ dirty' = [dirty EXCEPT ![d] = left]
     /\ Goes(p, Rest([t EXCEPT !.on = TRUE, !.ok = TRUE]))
     /\ \E clears \in CASE t.kind = "connect" -> {t.carry}
                         [] t.kind = "now" -> {TRUE}
                         [] OTHER -> BOOLEAN :
          parted' = [parted EXCEPT ![d] = @ /\ (~clears \/ left \/ InMemory(t))]
     /\ UNCHANGED <<cloud, doc, made, sent, bounds>>

\* A request fails, by the network or by the provider.
Fail(p) ==
  LET t == tab[p]
  IN /\ t.pc \notin {"idle", "delete", "callback", "complete"}
     /\ t.pc = "pull" => BehindBase(t) \/ Absent(t) # {}
     /\ faults < MaxFaults
     /\ faults' = faults + 1
     /\ Goes(p, Failed(t))
     /\ UNCHANGED <<cloud, local, made, sent, losses, forced>>

Step(p) ==
  \/ Check(p) \/ List(p) \/ Body(p) \/ PullBase(p) \/ Push(p)
  \/ \E part \in {"content", "files", "seen"} : Read(p, part) \/ SaveRead(p, part)
  \/ \E id \in DeltaIds : PullDelta(p, id) \/ DeleteDelta(p, id)
  \/ UploadBase(p) \/ UploadDelta(p) \/ SaveWrite(p) \/ Callback(p) \/ Complete(p)

Next ==
  \E p \in Tabs :
    \/ Edit(p) \/ Connect(p) \/ Disconnect(p) \/ Crash(p) \/ Fail(p) \/ Step(p)
    \/ \E kind \in {"auto", "exit", "now"} : Begin(p, kind)

Spec == Init /\ [][Next]_vars

\* Requests are answered, a tab that was left is opened and connected again,
\* and the timers of a connected tab begin a pass sooner or later, whatever
\* other tabs do with the lock.
Fairness ==
  \A p \in Tabs : /\ WF_vars(Step(p))
                  /\ SF_vars(Connect(p))
                  /\ SF_vars(Begin(p, "auto"))

FairSpec == Spec /\ Fairness

-----------------------------------------------------------------------------
(* Properties. *)

TypeOK ==
  /\ base \in [edits : SUBSET Edits, time : Nat]
  /\ DOMAIN deltas \subseteq DeltaIds
  /\ \A id \in DOMAIN deltas : deltas[id] \subseteq Edits
  /\ manifest \in [entry : Manifest(DeltaIds), time : Nat]
  /\ doc \in [Devices -> SUBSET Edits]
  /\ dirty \in [Devices -> BOOLEAN] /\ parted \in [Devices -> BOOLEAN]
  /\ tab \in [Tabs -> Provider]
  /\ \A p \in Tabs : tab[p].batch \subseteq tab[p].pending
  /\ made \in [Devices -> SUBSET Edits] /\ sent \in [Devices -> SUBSET Edits]

\* Everything a device could still download.
CloudEdits ==
  base.edits \union
  UNION {deltas[id] : id \in DOMAIN deltas \ manifest.entry.gone}

\* What the manifest refers to.
Published ==
  (IF base.time = manifest.entry.baseTime THEN base.edits ELSE {})
  \union UNION {deltas[id] : id \in DOMAIN deltas \intersect manifest.entry.deltas}

\* An edit that was not accepted by the provider has left a marker in local
\* storage, so that a later session uploads it.
UnsentIsMarked ==
  \A d \in Devices : made[d] \subseteq sent[d] \/ dirty[d] \/ parted[d]

\* Every edit is at the provider, or its device knows it has to upload.
WorkIsRecoverable ==
  \A d \in Devices : made[d] \subseteq CloudEdits \/ dirty[d] \/ parted[d]

\* The manifest never refers to a delta file that was deleted.
NoDanglingReference == manifest.entry.deltas \subseteq DOMAIN deltas

\* A device that shows a finished sync has everything the manifest it saw
\* refers to.
SyncedIsComplete ==
  \A p \in Tabs :
    LET t == tab[p]
    IN t.on /\ t.pc = "idle" /\ t.ok /\ t.seen = manifest.time
         => Published \intersect UNION {sent[d] : d \in Devices} \subseteq doc[DeviceOf[p]]

\* A connection that has not read the manifest.
Loading(t) == t.pc \in {"list", "body"} /\ t.kind = "connect"

\* The whole document is to be uploaded: it was asked for, or is under way, or
\* a marker of an earlier session is all that is left.
OwesAll(p) ==
  LET t == tab[p]
      d == DeviceOf[p]
  IN \/ t.full
     \/ t.job = "full" /\ t.pc # "delete"
     \/ (t.pc = "idle" \/ Loading(t)) /\ dirty[d] /\ t.pending = {}
     \/ ~t.on /\ t.pc = "idle" /\ (parted[d] \/ Unsynced(p))

\* What a device would upload by itself: the whole document, or the queue.
Owed(d) ==
  UNION {IF OwesAll(p) THEN doc[d] ELSE tab[p].pending : p \in {q \in Tabs : DeviceOf[q] = d}}

\* The provider and the devices behave as one shared document: whatever a
\* compaction replaces and wherever it stops, an edit that can no longer be
\* downloaded is one that a device still has to upload, and a device forgets
\* only what the provider has.
Shared == INSTANCE SharedDocument
          WITH replica <- doc, store <- CloudEdits, owed <- [d \in Devices |-> Owed(d)]
ImplementsShared == Shared!Spec

\* An edit made anywhere arrives everywhere.
Converges ==
  \A e \in Edits : \A d \in Devices : e \in AllMade ~> e \in doc[d]
=============================================================================
