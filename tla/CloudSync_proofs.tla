--------------------------- MODULE CloudSync_proofs ---------------------------
(***************************************************************************)
(* What holds of CloudSync for every number of edits, delta files,         *)
(* crashes, lost answers and explicit requests, with and without           *)
(* conditional replacement.  That a state is well formed and that unsent   *)
(* work leaves a marker holds for every number of devices, whose passes    *)
(* may overlap.  What the files keep is proved for a workspace that is     *)
(* used on one device (OneDevice): with more, nothing keeps their passes   *)
(* apart, and TLC finds a save that brings back a reference to a deleted   *)
(* delta.  Each theorem names what it assumes.                             *)
(***************************************************************************)
EXTENDS CloudSync, FiniteSetTheorems, TLAPS

-----------------------------------------------------------------------------
(* The steps of a pass keep a provider object well formed.                 *)

BaseJobs == {"full", "verify", "compact"}

\* What is being uploaded fits the step of the pass.
JobFits(t) ==
  /\ t.pc \in {"putBase", "delete"} => t.job \in BaseJobs
  /\ t.pc = "putDelta" => t.job = "delta"
  /\ t.pc \in {"save", "write"} => t.job \in BaseJobs \union {"delta", "final"}
  /\ t.pc \in {"save", "write"} /\ t.job = "delta" => t.next \in DeltaIds

Tab(t) == t \in Provider /\ t.batch \subseteq t.pending /\ JobFits(t)

TypeInv == TypeOK /\ \A p \in Tabs : JobFits(tab[p])

\* What a provider object that was not used yet has read.
LEMMA EmptyType == NoEntry \in Manifest(DeltaIds) /\ NoFiles \in Listing(DeltaIds) /\ Unread \in Gotten
BY DEF NoEntry, NoFiles, Unread, Manifest, Listing, Gotten

\* The parts of a provider object that a pass changes.
LEMMA StageType ==
  ASSUME NEW t \in Provider, NEW pc \in Stages, NEW kind \in Kinds
  PROVE  [t EXCEPT !.pc = pc, !.kind = kind] \in Provider
BY DEF Provider

\* A provider object that turns to an upload.
LEMMA JobType ==
  ASSUME NEW t \in Provider, NEW pc \in Stages, NEW job \in Jobs
  PROVE  [t EXCEPT !.pc = pc, !.job = job] \in Provider
BY DEF Provider

\* A provider object that turns to an upload with its requests.
LEMMA TodoType ==
  ASSUME NEW t \in Provider, NEW pc \in Stages, NEW job \in Jobs, NEW todo \in SUBSET Parts
  PROVE  [t EXCEPT !.pc = pc, !.job = job, !.todo = todo] \in Provider
BY DEF Provider

\* A provider object that has read more of a file.
LEMMA GotType ==
  ASSUME NEW t \in Provider, NEW todo \in SUBSET Parts, NEW got \in Gotten
  PROVE  [t EXCEPT !.todo = todo, !.got = got] \in Provider
BY DEF Provider

\* A provider object with another copy of the manifest entry.
LEMMA EntryType ==
  ASSUME NEW t \in Provider, NEW entry \in Manifest(DeltaIds), NEW unsaved \in BOOLEAN,
         NEW n \in Nat
  PROVE  [t EXCEPT !.entry = entry, !.unsaved = unsaved, !.cached = n] \in Provider
BY DEF Provider

\* The end of a pass.
LEMMA RestType ==
  ASSUME NEW t \in Provider
  PROVE  /\ Rest(t) \in Provider /\ Tab(Rest(t)) /\ Rest(t).pc = "idle"
         /\ Rest(t).kind = "none" /\ Rest(t).got = Unread
         /\ Rest(t).batch = {} /\ Rest(t).whole = {}
         /\ Rest(t).on = t.on /\ Rest(t).bound = t.bound /\ Rest(t).ok = t.ok
         /\ Rest(t).pending = t.pending /\ Rest(t).full = t.full /\ Rest(t).verify = t.verify
         /\ Rest(t).entry = t.entry /\ Rest(t).seen = t.seen
<1>1. Rest(t) \in Provider
  <2>1. "idle" \in Stages /\ "none" \in Kinds /\ "none" \in Jobs
    BY DEF Stages, Kinds, Jobs
  <2> QED BY <2>1, EmptyType DEF Rest, Provider
<1>2. /\ Rest(t).pc = "idle" /\ Rest(t).batch = {} /\ Rest(t).whole = {}
      /\ Rest(t).kind = "none" /\ Rest(t).got = Unread
      /\ Rest(t).on = t.on /\ Rest(t).bound = t.bound /\ Rest(t).ok = t.ok
      /\ Rest(t).pending = t.pending /\ Rest(t).full = t.full /\ Rest(t).verify = t.verify
      /\ Rest(t).entry = t.entry /\ Rest(t).seen = t.seen
  BY DEF Rest, Provider
<1> QED
  BY <1>1, <1>2 DEF Tab, JobFits

\* A failure ends the pass, and keeps the request for a whole document.
Fails(t, u) ==
  /\ Tab(u) /\ u.pc = "idle" /\ u.kind = "none" /\ u.got = Unread
  /\ u.batch = {} /\ u.whole = {}
  /\ u.on = t.on /\ u.bound = t.bound /\ u.pending = t.pending /\ u.entry = t.entry
  /\ t.full \/ (t.pc \in {"putBase", "save", "write"} /\ t.job = "full") => u.full

\* A failed pass is over, and asks for a whole document if one was under way.
LEMMA FailedType == ASSUME NEW t \in Provider PROVE Fails(t, Failed(t))
<1> DEFINE pushing == t.pc \in {"putBase", "save", "write"}
           full == t.full \/ (pushing /\ t.job = "full")
           verify == t.verify \/ (pushing /\ t.job = "verify")
           u == [t EXCEPT !.ok = FALSE, !.full = full, !.verify = verify]
<1>1. full \in BOOLEAN /\ verify \in BOOLEAN
  OBVIOUS
<1>2. Failed(t) = Rest(u)
  BY DEF Failed
<1>3. t.full \/ (pushing /\ t.job = "full") => full
  OBVIOUS
<1> HIDE DEF full, verify
<1>4. u \in Provider
  BY <1>1 DEF Provider
<1>5. /\ u.on = t.on /\ u.bound = t.bound /\ u.pending = t.pending /\ u.entry = t.entry
      /\ u.full = full
  BY DEF Provider
<1> HIDE DEF u
<1> QED
  BY <1>2, <1>3, <1>4, <1>5, RestType DEF Fails

\* A save of the manifest begins.
LEMMA SavingType ==
  ASSUME NEW t \in Provider, NEW job \in BaseJobs \union {"delta", "final"}
  PROVE  /\ Saving(t, job) \in Provider
         /\ Saving(t, job) = [t EXCEPT !.pc = "save", !.job = job, !.todo = {"content", "files"}]
<1>1. /\ {"content", "files"} \in SUBSET Parts /\ "save" \in Stages /\ job \in Jobs
  BY DEF Parts, Stages, Jobs, BaseJobs
<1> QED
  BY <1>1 DEF Saving, Provider

\* What a provider object keeps while a pass goes on.
Keeps(t, u) ==
  /\ u.on = t.on /\ u.bound = t.bound /\ u.kind = t.kind /\ u.full = t.full /\ u.entry = t.entry
  /\ u.carry = t.carry /\ u.recover = t.recover /\ u.got = t.got

\* The pass goes on with a compaction, a save of the manifest, or its end.
Onward(t, u) ==
  \/ u.pc = "putBase" /\ u.job = "compact" /\ u.drop = t.entry.deltas
  \/ u.pc = "save" /\ u.job = "final" /\ u.todo = {"content", "files"}
  \/ u.pc \in {"callback", "complete"} /\ u.job = "none"

GoesOn(t, u) ==
  /\ u \in Provider /\ Keeps(t, u) /\ u.pending = t.pending /\ u.batch = t.batch
  /\ Onward(t, u)

\* A pass that has nothing left to upload saves its entry, or ends.
LEMMA FinishedType == ASSUME NEW t \in Provider PROVE GoesOn(t, Finished(t))
<1>1. CASE t.unsaved
  <2> DEFINE todo == {"content", "files"}
  <2>1. Finished(t) = [t EXCEPT !.pc = "save", !.job = "final", !.todo = todo]
    BY <1>1 DEF Finished, Saving
  <2>2. todo \in SUBSET Parts /\ "save" \in Stages /\ "final" \in Jobs
    BY DEF Parts, Stages, Jobs
  <2> HIDE DEF todo
  <2>3. [t EXCEPT !.pc = "save", !.job = "final", !.todo = todo] \in Provider
    BY <2>2, TodoType
  <2> QED BY <2>1, <2>3 DEF GoesOn, Onward, Keeps, Provider, todo
<1>2. CASE ~t.unsaved
  <2>1. PICK pc \in {"callback", "complete"} :
          Finished(t) = [t EXCEPT !.pc = pc, !.job = "none"]
    BY <1>2 DEF Finished
  <2>2. pc \in Stages /\ "none" \in Jobs
    BY DEF Stages, Jobs
  <2>3. [t EXCEPT !.pc = pc, !.job = "none"] \in Provider
    BY <2>2, JobType
  <2> QED BY <2>1, <2>3 DEF GoesOn, Onward, Keeps, Provider
<1> QED
  BY <1>1, <1>2

\* ... without a further upload.
LEMMA FinishedWhole ==
  ASSUME NEW t \in Provider
  PROVE  Finished(t).pc # "putBase" /\ Finished(t).whole = t.whole
<1>1. CASE t.unsaved
  BY <1>1 DEF Finished, Saving, Provider
<1>2. CASE ~t.unsaved
  <2>1. PICK pc \in {"callback", "complete"} :
          Finished(t) = [t EXCEPT !.pc = pc, !.job = "none"]
    BY <1>2 DEF Finished
  <2> QED BY <2>1 DEF Provider
<1> QED
  BY <1>1, <1>2

\* An upload of the base file begins.
LEMMA PutBaseType ==
  ASSUME NEW t \in Provider, NEW job \in BaseJobs, NEW edits \in SUBSET Edits
  PROVE  LET u == PutBase(t, job, edits)
         IN /\ u \in Provider /\ Keeps(t, u) /\ u.pending = t.pending /\ u.batch = t.batch
            /\ u.pc = "putBase" /\ u.job = job /\ u.whole = edits /\ u.verify = t.verify
            /\ u.drop = IF job = "verify" THEN {} ELSE t.entry.deltas
<1>1. t.entry \in Manifest(DeltaIds)
  BY DEF Provider
<1> DEFINE next == t.entry.version + 1
           drop == IF job = "verify" THEN {} ELSE t.entry.deltas
<1>2. next \in Nat /\ drop \in SUBSET DeltaIds
  BY <1>1 DEF Manifest
<1>3. PutBase(t, job, edits) = [t EXCEPT !.pc = "putBase", !.job = job, !.whole = edits,
                                         !.next = next, !.drop = drop]
  BY DEF PutBase
<1> HIDE DEF next
<1>4. drop = IF job = "verify" THEN {} ELSE t.entry.deltas
  OBVIOUS
<1> HIDE DEF drop
<1> DEFINE v == [t EXCEPT !.whole = edits, !.next = next, !.drop = drop]
<1>5. v \in Provider
  BY <1>2 DEF Provider
<1>6. PutBase(t, job, edits) = [v EXCEPT !.pc = "putBase", !.job = job]
  BY <1>3
<1>7. job \in Jobs /\ "putBase" \in Stages
  BY DEF BaseJobs, Jobs, Stages
<1>8. PutBase(t, job, edits) \in Provider
  <2> HIDE DEF v
  <2>1. [v EXCEPT !.pc = "putBase", !.job = job] \in Provider
    BY <1>5, <1>7, JobType
  <2> QED BY <1>6, <2>1
<1> QED
  BY <1>3, <1>4, <1>8 DEF Keeps, Provider

\* A compaction begins at the threshold, or the pass goes on to its end.
LEMMA CompactedType ==
  ASSUME NEW t \in Provider, NEW edits \in SUBSET Edits
  PROVE  GoesOn(t, Compacted(t, edits))
<1>1. CASE t.count >= Threshold
  <2>1. Compacted(t, edits) = PutBase(t, "compact", edits) /\ "compact" \in BaseJobs
    BY <1>1 DEF Compacted, BaseJobs
  <2> QED BY <2>1, PutBaseType DEF GoesOn, Onward
<1>2. CASE ~(t.count >= Threshold)
  BY <1>2, FinishedType DEF Compacted
<1> QED
  BY <1>1, <1>2

\* A compaction uploads the whole document, and the end of a pass nothing more.
LEMMA CompactedWhole ==
  ASSUME NEW t \in Provider, NEW edits \in SUBSET Edits
  PROVE  LET u == Compacted(t, edits)
         IN IF u.pc = "putBase" THEN u.whole = edits ELSE u.whole = t.whole
<1>1. CASE t.count >= Threshold
  <2>1. Compacted(t, edits) = PutBase(t, "compact", edits) /\ "compact" \in BaseJobs
    BY <1>1 DEF Compacted, BaseJobs
  <2> QED BY <2>1, PutBaseType
<1>2. CASE ~(t.count >= Threshold)
  <2>1. Compacted(t, edits) = Finished(t)
    BY <1>2 DEF Compacted
  <2> QED BY <2>1, FinishedWhole
<1> QED
  BY <1>1, <1>2

\* The queue is as it was, or without the batch that was uploaded.
Emptied(t, u) ==
  \/ u.pending = t.pending /\ u.batch = t.batch
  \/ u.pending = t.pending \ t.batch /\ u.batch = {}

\* What follows an upload.
Resumes(t, u) ==
  u \in Provider /\ Keeps(t, u) /\ Emptied(t, u) /\ Onward(t, u)

\* An upload ends: its batch leaves the queue, and a compaction may follow.
LEMMA UploadedType ==
  ASSUME NEW t \in Provider, NEW v \in Provider, Keeps(t, v),
         v.pending = t.pending, v.batch = t.batch, NEW edits \in SUBSET Edits
  PROVE  Resumes(t, Compacted(Uploaded(v), edits))
<1> DEFINE w == Uploaded(v)
<1>1. w \in Provider
  BY DEF Uploaded, Provider
<1>2. Keeps(t, w) /\ w.pending = t.pending \ t.batch /\ w.batch = {}
  BY DEF Uploaded, Provider, Keeps
<1> HIDE DEF w
<1>3. GoesOn(w, Compacted(w, edits))
  BY <1>1, CompactedType
<1> QED
  BY <1>2, <1>3 DEF GoesOn, Onward, Keeps, Emptied, Resumes, w

\* What follows the upload of a base file, for each reason it was uploaded.
LEMMA BaseDoneType ==
  ASSUME NEW t \in Provider, t.job \in BaseJobs, NEW edits \in SUBSET Edits
  PROVE  Resumes(t, BaseDone(t, edits))
<1>1. CASE t.job = "full"
  <2> DEFINE v == [t EXCEPT !.version = t.next, !.have = {}]
  <2>1. v \in Provider /\ Keeps(t, v) /\ v.pending = t.pending /\ v.batch = t.batch
    BY DEF Provider, Keeps
  <2>2. BaseDone(t, edits) = Compacted(Uploaded(v), edits)
    BY <1>1 DEF BaseDone
  <2> HIDE DEF v
  <2> QED BY <2>1, <2>2, UploadedType
<1>2. CASE t.job = "verify"
  <2> DEFINE v == [t EXCEPT !.version = t.next]
  <2>1. v \in Provider /\ Keeps(t, v) /\ v.pending = t.pending /\ v.batch = t.batch
    BY DEF Provider, Keeps
  <2>2. BaseDone(t, edits) = Compacted(Uploaded(v), edits)
    BY <1>2 DEF BaseDone
  <2> HIDE DEF v
  <2> QED BY <2>1, <2>2, UploadedType
<1>3. CASE t.job = "compact"
  <2> DEFINE v == [t EXCEPT !.version = t.entry.version, !.have = {}, !.whole = {}]
  <2>1. t.entry.version \in Nat
    BY DEF Provider, Manifest
  <2>2. v \in Provider
    BY <2>1 DEF Provider
  <2>3. Keeps(t, v) /\ v.pending = t.pending /\ v.batch = t.batch
    BY DEF Provider, Keeps
  <2>4. BaseDone(t, edits) = Finished(v)
    BY <1>3 DEF BaseDone
  <2> HIDE DEF v
  <2>5. GoesOn(v, Finished(v))
    BY <2>2, FinishedType
  <2> QED BY <2>3, <2>4, <2>5 DEF GoesOn, Onward, Keeps, Emptied, Resumes
<1> QED
  BY <1>1, <1>2, <1>3 DEF BaseJobs

\* The deltas that a base file replaced are still to be deleted.
Deletes(t, u) ==
  /\ u \in Provider /\ Keeps(t, u) /\ u.pending = t.pending /\ u.batch = t.batch
  /\ u.pc = "delete" /\ u.job = t.job /\ u.job \in BaseJobs /\ u.drop \subseteq t.drop

\* The manifest is written.
LEMMA SavedType ==
  ASSUME NEW t \in Provider, t.job \in BaseJobs \union {"delta", "final"},
         t.job = "delta" => t.next \in DeltaIds, NEW edits \in SUBSET Edits
  PROVE  Resumes(t, Saved(t, edits)) \/ Deletes(t, Saved(t, edits))
<1>1. CASE t.job = "final"
  <2>1. Saved(t, edits) = Finished(t)
    BY <1>1 DEF Saved
  <2>2. GoesOn(t, Finished(t))
    BY FinishedType
  <2> QED BY <2>1, <2>2 DEF GoesOn, Emptied, Resumes
<1>2. CASE t.job = "delta"
  <2> DEFINE v == [t EXCEPT !.have = @ \union {t.next}]
  <2>1. v \in Provider /\ Keeps(t, v) /\ v.pending = t.pending /\ v.batch = t.batch
    BY <1>2 DEF Provider, Keeps
  <2>2. Saved(t, edits) = Compacted(Uploaded(v), edits)
    BY <1>2 DEF Saved
  <2> HIDE DEF v
  <2> QED BY <2>1, <2>2, UploadedType
<1>3. CASE t.job \in BaseJobs /\ t.drop # {}
  <2>1. Saved(t, edits) = [t EXCEPT !.pc = "delete"]
    BY <1>3 DEF Saved, BaseJobs
  <2>2. "delete" \in Stages
    BY DEF Stages
  <2> QED BY <1>3, <2>1, <2>2 DEF Deletes, Keeps, Provider
<1>4. CASE t.job \in BaseJobs /\ t.drop = {}
  <2>1. Saved(t, edits) = BaseDone(t, edits)
    BY <1>4 DEF Saved, BaseJobs
  <2> QED BY <1>4, <2>1, BaseDoneType
<1> QED
  BY <1>1, <1>2, <1>3, <1>4

\* What a request brings.
LEMMA ReconcileType ==
  ASSUME NEW m \in Manifest(DeltaIds), NEW files \in Listing(DeltaIds)
  PROVE  /\ Reconcile(m, files) \in Manifest(DeltaIds)
         /\ Reconcile(m, files).deltas = m.deltas \union (files.deltas \ m.gone)
         /\ Reconcile(m, files).gone = m.gone
<1> DEFINE version == IF m.baseTime = files.base THEN m.version
                      ELSE IF m.baseTime = 0 THEN Larger(1, m.version) ELSE m.version + 1
           ids == m.deltas \union (files.deltas \ m.gone)
<1>1. Reconcile(m, files) = [m EXCEPT !.version = version, !.baseTime = files.base,
                                      !.deltas = ids]
  BY DEF Reconcile
<1>2. version \in Nat
  BY DEF Manifest, Larger
<1>3. files.base \in Nat /\ ids \in SUBSET DeltaIds
  BY DEF Manifest, Listing
<1>4. ids = m.deltas \union (files.deltas \ m.gone)
  OBVIOUS
<1> HIDE DEF version, ids
<1> QED
  BY <1>1, <1>2, <1>3, <1>4 DEF Manifest

\* The join of two entries and a listing: tombstones win over names.
LEMMA JoinType ==
  ASSUME NEW remote \in Manifest(DeltaIds), NEW mine \in Manifest(DeltaIds),
         NEW files \in Listing(DeltaIds)
  PROVE  /\ Join(remote, mine, files) \in Manifest(DeltaIds)
         /\ Join(remote, mine, files).gone = remote.gone \union mine.gone
         /\ Join(remote, mine, files).deltas
              = (remote.deltas \union mine.deltas \union files.deltas)
                \ (remote.gone \union mine.gone)
BY DEF Join, Manifest, Listing, Larger

\* A manifest that was read ends the reading.
LEMMA LoadedType ==
  ASSUME NEW t \in Provider, NEW marked \in BOOLEAN
  PROVE  LET u == Loaded(t, marked)
         IN /\ u \in Provider /\ u.pc = "pull" /\ u.job = t.job /\ u.got = Unread
            /\ u.entry = Reconcile(t.got.content, t.got.files)
            /\ u.on = t.on /\ u.bound = t.bound /\ u.kind = t.kind /\ u.carry = t.carry
            /\ u.pending = t.pending /\ u.batch = t.batch /\ u.whole = t.whole
            /\ u.recover = (t.kind = "connect" /\ marked)
            /\ u.full = IF t.kind = "connect" THEN Promoted(t, marked) ELSE t.full
<1> DEFINE m == Reconcile(t.got.content, t.got.files)
           unsaved == t.unsaved \/ m # t.got.content
           seen == t.got.seen
           revision == Revision(t.got.seen)
           cached == Revision(t.got.files.base)
           recover == t.kind = "connect" /\ marked
           full == IF t.kind = "connect" THEN Promoted(t, marked) ELSE t.full
           verify == t.verify \/ (t.kind = "now" /\ ~t.full)
           v == [t EXCEPT !.entry = m, !.seen = seen, !.revision = revision, !.cached = cached]
           w == [v EXCEPT !.unsaved = unsaved, !.recover = recover, !.full = full,
                          !.verify = verify]
<1>1. /\ t.got.content \in Manifest(DeltaIds) /\ t.got.files \in Listing(DeltaIds)
      /\ t.got.seen \in Nat
  BY DEF Provider, Gotten
<1>2. m \in Manifest(DeltaIds)
  BY <1>1, ReconcileType
<1>3. seen \in Nat /\ revision \in Nat /\ cached \in Nat
  BY <1>1 DEF Revision, Listing
<1>4. /\ unsaved \in BOOLEAN /\ recover \in BOOLEAN /\ verify \in BOOLEAN
      /\ full \in BOOLEAN
  BY DEF Promoted, Provider
<1>5. Loaded(t, marked) = [w EXCEPT !.pc = "pull", !.todo = {}, !.got = Unread]
  BY ZenonT(60) DEF Loaded
<1>6. full = IF t.kind = "connect" THEN Promoted(t, marked) ELSE t.full
  OBVIOUS
<1>7. recover = (t.kind = "connect" /\ marked)
  OBVIOUS
<1>8. m = Reconcile(t.got.content, t.got.files)
  OBVIOUS
<1> HIDE DEF m, unsaved, seen, revision, cached, recover, full, verify
<1>9. v \in Provider
  BY <1>2, <1>3 DEF Provider
<1>10. /\ v.entry = m /\ v.job = t.job /\ v.on = t.on /\ v.bound = t.bound /\ v.kind = t.kind
       /\ v.carry = t.carry /\ v.pending = t.pending /\ v.batch = t.batch /\ v.whole = t.whole
  BY DEF Provider
<1> HIDE DEF v
<1>11. w \in Provider
  BY <1>4, <1>9 DEF Provider
<1>12. /\ w.entry = m /\ w.job = t.job /\ w.on = t.on /\ w.bound = t.bound /\ w.kind = t.kind
       /\ w.carry = t.carry /\ w.pending = t.pending /\ w.batch = t.batch /\ w.whole = t.whole
       /\ w.recover = recover /\ w.full = full
  BY <1>9, <1>10 DEF Provider
<1> HIDE DEF w
<1> DEFINE u == [w EXCEPT !.pc = "pull", !.todo = {}, !.got = Unread]
<1>13. u \in Provider
  BY <1>11, EmptyType DEF Provider, Stages
<1>14. /\ u.pc = "pull" /\ u.job = t.job /\ u.got = Unread /\ u.entry = m
       /\ u.on = t.on /\ u.bound = t.bound /\ u.kind = t.kind /\ u.carry = t.carry
       /\ u.pending = t.pending /\ u.batch = t.batch /\ u.whole = t.whole /\ u.recover = recover /\ u.full = full
  BY <1>11, <1>12 DEF Provider
<1> HIDE DEF u
<1> QED
  BY <1>5, <1>6, <1>7, <1>8, <1>13, <1>14 DEF u

-----------------------------------------------------------------------------
(* The state is well formed.                                               *)

CloudType ==
  /\ base \in [edits : SUBSET Edits, time : Nat]
  /\ DOMAIN deltas \subseteq DeltaIds
  /\ \A id \in DOMAIN deltas : deltas[id] \subseteq Edits
  /\ manifest \in [entry : Manifest(DeltaIds), time : Nat]
LocalType ==
  /\ doc \in [Devices -> SUBSET Edits]
  /\ dirty \in [Devices -> BOOLEAN] /\ parted \in [Devices -> BOOLEAN]
TabsType == tab \in [Tabs -> Provider] /\ \A p \in Tabs : Tab(tab[p])
MadeType == made \in [Devices -> SUBSET Edits] /\ sent \in [Devices -> SUBSET Edits]

\* The typing in the parts that different steps change.
LEMMA TypeParts == TypeInv <=> CloudType /\ LocalType /\ TabsType /\ MadeType
BY DEF TypeInv, TypeOK, CloudType, LocalType, TabsType, MadeType, Tab

\* One tab goes on, the others stay as they are.
LEMMA OneTab ==
  ASSUME TabsType, NEW p \in Tabs, NEW u, Tab(u), Goes(p, u)
  PROVE  /\ TabsType' /\ tab'[p] = u
         /\ \A q \in Tabs \ {p} : tab'[q] = tab[q]
<1>1. tab' = [tab EXCEPT ![p] = u] /\ u \in Provider
  BY DEF Goes, Tab
<1>2. tab' \in [Tabs -> Provider] /\ tab'[p] = u /\ \A q \in Tabs \ {p} : tab'[q] = tab[q]
  BY <1>1 DEF TabsType
<1>3. \A q \in Tabs : Tab(tab'[q])
  BY <1>2 DEF TabsType
<1> QED
  BY <1>2, <1>3 DEF TabsType

\* What a tab and its device are.
LEMMA OfTab ==
  ASSUME TypeInv, NEW p \in Tabs
  PROVE  /\ Tab(tab[p]) /\ tab[p] \in Provider /\ DeviceOf[p] \in Devices
         /\ doc[DeviceOf[p]] \in SUBSET Edits
         /\ dirty[DeviceOf[p]] \in BOOLEAN /\ parted[DeviceOf[p]] \in BOOLEAN
         /\ manifest.entry \in Manifest(DeltaIds) /\ manifest.time \in Nat
BY TabAssumption DEF TypeInv, TypeOK, Tab

\* A provider object that a session leaves behind.
LEMMA FreshType == Tab(Fresh)
<1>1. "idle" \in Stages /\ "none" \in Kinds /\ "none" \in Jobs
  BY DEF Stages, Kinds, Jobs
<1>2. Fresh \in Provider
  BY <1>1, EmptyType DEF Fresh, Provider
<1> QED
  BY <1>2 DEF Fresh, Tab, JobFits

\* A step that leaves the files, the documents and the bookkeeping alone.
LEMMA TabStepType ==
  ASSUME TypeInv, TabsType', LocalType', UNCHANGED <<cloud, made, sent>>
  PROVE  TypeInv'
<1>1. CloudType' /\ MadeType'
  <2>1. CloudType /\ MadeType
    BY TypeParts
  <2> QED BY <2>1 DEF CloudType, MadeType, cloud
<1> QED
  BY <1>1 DEF TypeInv, TypeOK, CloudType, LocalType, TabsType, MadeType, Tab

\* An edit of the user keeps the state well formed.
LEMMA EditType == ASSUME TypeInv, NEW p \in Tabs, Edit(p) PROVE TypeInv'
<1> DEFINE d == DeviceOf[p]
           e == Cardinality(AllMade) + 1
           u == [tab[p] EXCEPT !.pending = @ \union {e}]
<1>1. e \in Edits /\ d \in Devices
  BY OfTab DEF Edit
<1>2. /\ doc' = [doc EXCEPT ![d] = @ \union {e}]
      /\ made' = [made EXCEPT ![d] = @ \union {e}]
      /\ parted' = [parted EXCEPT ![d] = @ \/ ~tab[p].on]
      /\ \/ Goes(p, u) /\ dirty' = [dirty EXCEPT ![d] = TRUE]
         \/ UNCHANGED <<tab, dirty>>
      /\ UNCHANGED <<cloud, sent>>
  <2>1. CASE tab[p].bound
    BY <2>1 DEF Edit, Goes
  <2>2. CASE ~tab[p].bound
    BY <2>2 DEF Edit, Goes
  <2> QED BY <2>1, <2>2
<1> HIDE DEF e
<1>3. Tab(u)
  <2>1. u \in Provider
    BY <1>1, OfTab DEF Provider
  <2>2. /\ u.batch = tab[p].batch /\ u.pending = tab[p].pending \union {e}
        /\ u.pc = tab[p].pc /\ u.job = tab[p].job /\ u.next = tab[p].next
    BY OfTab DEF Provider
  <2> HIDE DEF u
  <2> QED BY <2>1, <2>2, OfTab DEF Tab, JobFits
<1> HIDE DEF d, u
<1>4. TabsType'
  <2>1. TabsType
    BY TypeParts
  <2>2. CASE Goes(p, u)
    BY <2>1, <2>2, <1>3, OneTab
  <2>3. CASE UNCHANGED tab
    BY <2>1, <2>3 DEF TabsType
  <2> QED BY <1>2, <2>2, <2>3
<1>5. LocalType' /\ MadeType' /\ CloudType'
  <2>1. LocalType /\ MadeType /\ CloudType
    BY TypeParts
  <2>2. LocalType'
    BY <1>1, <1>2, <2>1 DEF LocalType
  <2>3. MadeType'
    BY <1>1, <1>2, <2>1 DEF MadeType
  <2>4. CloudType'
    BY <1>2, <2>1 DEF CloudType, cloud
  <2> QED BY <2>2, <2>3, <2>4
<1> QED
  BY <1>4, <1>5 DEF TypeInv, TypeOK, CloudType, LocalType, TabsType, MadeType, Tab

\* What a session begins with when a provider is connected.
Connecting(p) ==
  [Fresh EXCEPT !.bound = TRUE, !.full = Detached(p), !.carry = Detached(p),
                !.pull = TRUE, !.pc = "list", !.kind = "connect"]

\* The provider object of a connection that begins is well formed.
LEMMA ConnectingType ==
  ASSUME TypeInv, NEW p \in Tabs
  PROVE  LET u == Connecting(p)
         IN /\ Tab(u) /\ u.pc = "list" /\ u.kind = "connect" /\ u.bound /\ ~u.on
            /\ u.pending = {} /\ u.batch = {} /\ u.whole = {} /\ u.entry = NoEntry /\ u.got = Unread
            /\ (u.full <=> Detached(p)) /\ Detached(p) \in BOOLEAN
<1> DEFINE full == Detached(p)
<1>1. full \in BOOLEAN
  BY OfTab DEF Detached
<1>2. full = Detached(p)
  OBVIOUS
<1>3. Connecting(p) = [Fresh EXCEPT !.bound = TRUE, !.full = full, !.carry = full,
                                    !.pull = TRUE, !.pc = "list", !.kind = "connect"]
  BY DEF Connecting
<1> HIDE DEF full
<1>4. "list" \in Stages /\ "connect" \in Kinds
  BY DEF Stages, Kinds
<1>5. Fresh \in Provider
  BY FreshType DEF Tab
<1> DEFINE v == [Fresh EXCEPT !.bound = TRUE, !.full = full, !.carry = full, !.pull = TRUE]
<1>6. Connecting(p) \in Provider
  <2>1. v \in Provider
    BY <1>1, <1>5 DEF Provider
  <2>2. Connecting(p) = [v EXCEPT !.pc = "list", !.kind = "connect"]
    BY <1>3
  <2> HIDE DEF v
  <2>3. [v EXCEPT !.pc = "list", !.kind = "connect"] \in Provider
    BY <1>4, <2>1, StageType
  <2> QED BY <2>2, <2>3
<1>7. LET u == Connecting(p)
      IN /\ u.pc = "list" /\ u.kind = "connect" /\ u.bound /\ ~u.on
         /\ u.pending = {} /\ u.batch = {} /\ u.whole = {} /\ u.entry = NoEntry /\ u.got = Unread
         /\ u.full = full
  BY <1>3 DEF Fresh
<1> QED
  BY <1>1, <1>2, <1>6, <1>7 DEF Tab, JobFits

\* Connecting a provider keeps the state well formed.
LEMMA ConnectType == ASSUME TypeInv, NEW p \in Tabs, Connect(p) PROVE TypeInv'
<1>1. Goes(p, Connecting(p)) /\ UNCHANGED <<cloud, doc, made, sent>>
  BY DEF Connect, Goes, Connecting
<1>2. TabsType'
  BY <1>1, ConnectingType, OneTab, TypeParts
<1>3. LocalType'
  <2>1. LocalType
    BY TypeParts
  <2>2. Detached(p) \in BOOLEAN /\ DeviceOf[p] \in Devices
    BY ConnectingType, OfTab
  <2>3. parted' \in [Devices -> BOOLEAN]
    BY <2>1, <2>2 DEF Connect, LocalType
  <2>4. dirty' \in [Devices -> BOOLEAN]
    <3> DEFINE now == (dirty[DeviceOf[p]] /\ ~tab[p].bound) \/ Detached(p)
    <3>1. dirty' = [dirty EXCEPT ![DeviceOf[p]] = now] /\ now \in BOOLEAN
      BY <2>1, <2>2 DEF Connect, LocalType
    <3> HIDE DEF now
    <3> QED BY <2>1, <3>1 DEF LocalType
  <2> QED BY <1>1, <2>1, <2>3, <2>4 DEF LocalType
<1> QED
  BY <1>1, <1>2, <1>3, TabStepType

\* Disconnecting keeps the state well formed.
LEMMA DisconnectType == ASSUME TypeInv, NEW p \in Tabs, Disconnect(p) PROVE TypeInv'
<1>1. Goes(p, Fresh) /\ UNCHANGED <<cloud, doc, made, sent>>
  BY DEF Disconnect, Goes
<1>2. TabsType'
  BY <1>1, FreshType, OneTab, TypeParts
<1>3. LocalType'
  <2>1. LocalType
    BY TypeParts
  <2>2. Detached(p) \in BOOLEAN /\ DeviceOf[p] \in Devices
    BY ConnectingType, OfTab
  <2> QED BY <1>1, <2>1, <2>2 DEF Disconnect, LocalType
<1> QED
  BY <1>1, <1>2, <1>3, TabStepType

\* A step that changes a provider object only.
LEMMA OnlyTabType ==
  ASSUME TypeInv, NEW p \in Tabs, NEW u, Tab(u), Goes(p, u),
         UNCHANGED <<cloud, local, made, sent>>
  PROVE  TypeInv'
<1>1. TabsType'
  BY OneTab, TypeParts
<1>2. LocalType'
  <2>1. LocalType
    BY TypeParts
  <2> QED BY <2>1 DEF LocalType, local
<1> QED
  BY <1>1, <1>2, TabStepType

\* A tab that is closed keeps the state well formed.
LEMMA CrashType == ASSUME TypeInv, NEW p \in Tabs, Crash(p) PROVE TypeInv'
BY FreshType, OnlyTabType DEF Crash, Goes

\* A request that fails keeps the state well formed.
LEMMA FailType == ASSUME TypeInv, NEW p \in Tabs, Fail(p) PROVE TypeInv'
BY FailedType, OfTab, OnlyTabType DEF Fail, Fails

\* A pass begins.
Beginning(p, kind) ==
  [tab[p] EXCEPT !.kind = kind, !.pull = Asks(kind),
                 !.full = Promoted(tab[p], dirty[DeviceOf[p]]),
                 !.pc = IF Asks(kind) \/ Mode = "backup" THEN "check" ELSE "pull"]

\* The provider object of a pass that begins is well formed.
LEMMA BeginningType ==
  ASSUME TypeInv, NEW p \in Tabs, NEW kind \in {"auto", "exit", "now"}
  PROVE  LET u == Beginning(p, kind)
         IN /\ Tab(u) /\ u.pc \in {"check", "pull"} /\ u.kind = kind
            /\ u.on = tab[p].on /\ u.bound = tab[p].bound
            /\ u.pending = tab[p].pending /\ u.batch = tab[p].batch /\ u.whole = tab[p].whole
            /\ u.entry = tab[p].entry /\ u.got = tab[p].got
            /\ u.full = Promoted(tab[p], dirty[DeviceOf[p]])
<1> DEFINE pull == Asks(kind)
           full == Promoted(tab[p], dirty[DeviceOf[p]])
           pc == IF Asks(kind) \/ Mode = "backup" THEN "check" ELSE "pull"
<1>1. pull \in BOOLEAN /\ full \in BOOLEAN
  BY OfTab DEF Asks, Promoted, Provider
<1>2. pc \in {"check", "pull"}
  OBVIOUS
<1>7. pc \in Stages /\ kind \in Kinds
  BY DEF Stages, Kinds
<1>3. Beginning(p, kind) = [tab[p] EXCEPT !.kind = kind, !.pull = pull, !.full = full, !.pc = pc]
  BY DEF Beginning
<1>4. full = Promoted(tab[p], dirty[DeviceOf[p]])
  OBVIOUS
<1> HIDE DEF pull, full, pc
<1>5. Beginning(p, kind) \in Provider
  <2> DEFINE v == [tab[p] EXCEPT !.pull = pull, !.full = full]
  <2>0. tab[p] \in Provider
    BY OfTab
  <2>1. v \in Provider
    BY <1>1, <2>0 DEF Provider
  <2>2. Beginning(p, kind) = [v EXCEPT !.pc = pc, !.kind = kind]
    BY <1>3
  <2> HIDE DEF v
  <2>3. [v EXCEPT !.pc = pc, !.kind = kind] \in Provider
    BY <1>7, <2>1, StageType
  <2> QED BY <2>2, <2>3
<1>6. LET u == Beginning(p, kind)
      IN /\ u.pc = pc /\ u.kind = kind
         /\ u.on = tab[p].on /\ u.bound = tab[p].bound
         /\ u.pending = tab[p].pending /\ u.batch = tab[p].batch /\ u.whole = tab[p].whole
         /\ u.entry = tab[p].entry /\ u.got = tab[p].got /\ u.full = full
  BY <1>3, OfTab DEF Provider
<1>8. tab[p].batch \subseteq tab[p].pending
  BY OfTab DEF Tab
<1> QED
  BY <1>2, <1>4, <1>5, <1>6, <1>8 DEF Tab, JobFits

\* The beginning of a pass keeps the state well formed.
LEMMA BeginType ==
  ASSUME TypeInv, NEW p \in Tabs, NEW kind \in {"auto", "exit", "now"}, Begin(p, kind)
  PROVE  TypeInv'
<1>1. Goes(p, Beginning(p, kind)) /\ UNCHANGED <<cloud, local, made, sent>>
  BY DEF Begin, Goes, Beginning
<1> QED
  BY <1>1, BeginningType, OnlyTabType

-----------------------------------------------------------------------------
(* The steps of a pass.                                                    *)

\* A step that uploads nothing.
Waits(t, u) ==
  /\ Tab(u) /\ u.on = t.on /\ u.bound = t.bound /\ u.pending = t.pending
  /\ u.kind = t.kind /\ (t.full => u.full)
  /\ u.batch = t.batch /\ u.whole = t.whole

\* The answer to one of the requests of a reading.
LEMMA AnsweredType ==
  ASSUME TypeInv, NEW t \in Provider, NEW part \in Parts
  PROVE  LET u == Answered(t, part)
         IN /\ u \in Provider /\ u.todo = t.todo \ {part}
            /\ u.got.content = IF part = "content" THEN manifest.entry ELSE t.got.content
            /\ u.got.files = IF part = "files" THEN Files ELSE t.got.files
            /\ u.entry = t.entry /\ u.on = t.on /\ u.bound = t.bound /\ u.kind = t.kind
            /\ u.full = t.full /\ u.pending = t.pending /\ u.batch = t.batch
            /\ u.pc = t.pc /\ u.job = t.job /\ u.next = t.next /\ u.drop = t.drop
            /\ u.whole = t.whole
<1> DEFINE got == [t.got EXCEPT
             !.content = IF part = "content" THEN manifest.entry ELSE t.got.content,
             !.files = IF part = "files" THEN Files ELSE t.got.files,
             !.seen = IF part = "seen" THEN manifest.time ELSE t.got.seen]
           todo == t.todo \ {part}
<1>1. Answered(t, part) = [t EXCEPT !.todo = todo, !.got = got]
  BY DEF Answered
<1>2. Files \in Listing(DeltaIds)
  BY DEF Files, Listing, TypeInv, TypeOK
<1>3. t.got \in Gotten /\ todo \in SUBSET Parts
  BY DEF Provider
<1>4. manifest.entry \in Manifest(DeltaIds) /\ manifest.time \in Nat
  BY DEF TypeInv, TypeOK
<1>5. got \in Gotten
  BY <1>2, <1>3, <1>4 DEF Gotten
<1>6. /\ got.content = IF part = "content" THEN manifest.entry ELSE t.got.content
      /\ got.files = IF part = "files" THEN Files ELSE t.got.files
  BY <1>3 DEF Gotten
<1>7. todo = t.todo \ {part}
  OBVIOUS
<1> HIDE DEF got, todo
<1>8. Answered(t, part) \in Provider
  <2>1. [t EXCEPT !.todo = todo, !.got = got] \in Provider
    BY <1>3, <1>5, GotType
  <2> QED BY <1>1, <2>1
<1> QED
  BY <1>1, <1>6, <1>7, <1>8 DEF Provider

\* The time of the manifest is asked for.
LEMMA CheckType ==
  ASSUME TypeInv, NEW p \in Tabs, Check(p)
  PROVE  /\ TypeInv'
         /\ LET t == tab[p]
                u == tab'[p]
            IN \/ Fails(t, u)
               \/ Waits(t, u) /\ u.pc \in {"pull", "read"} /\ u.entry = t.entry /\ u.got = t.got
<1> DEFINE t == tab[p]
           revision == Revision(manifest.time)
           asked == [t EXCEPT !.revision = revision]
<1>1. t \in Provider /\ Tab(t) /\ t.pc = "check"
  BY OfTab DEF Check
<1>2. revision \in Nat
  BY OfTab DEF Revision
<1>3. \/ Goes(p, Failed(asked))
      \/ Goes(p, [asked EXCEPT !.pc = "pull"])
      \/ Goes(p, [asked EXCEPT !.pc = "read", !.todo = {"content", "files", "seen"}])
      \/ Goes(p, [asked EXCEPT !.pc = "pull", !.pull = FALSE])
  BY DEF Check
<1>4. UNCHANGED <<cloud, local, made, sent>>
  BY DEF Check
<1> HIDE DEF t, revision
<1>5. asked \in Provider
  BY <1>1, <1>2 DEF Provider
<1>6. /\ asked.on = t.on /\ asked.bound = t.bound /\ asked.pending = t.pending
      /\ asked.batch = t.batch /\ asked.whole = t.whole /\ asked.kind = t.kind /\ asked.full = t.full
      /\ asked.entry = t.entry /\ asked.got = t.got /\ asked.pc = t.pc
  BY <1>1 DEF Provider
<1>7. t.batch \subseteq t.pending
  BY <1>1 DEF Tab
<1> HIDE DEF asked
<1>8. PICK u : /\ Goes(p, u)
               /\ \/ u = Failed(asked)
                  \/ u = [asked EXCEPT !.pc = "pull"]
                  \/ u = [asked EXCEPT !.pc = "read", !.todo = {"content", "files", "seen"}]
                  \/ u = [asked EXCEPT !.pc = "pull", !.pull = FALSE]
  BY <1>3
<1>9. CASE u = Failed(asked)
  <2>1. Fails(asked, u)
    BY <1>5, <1>9, FailedType
  <2>2. Fails(t, u)
    BY <1>1, <1>6, <2>1 DEF Fails
  <2>3. TypeInv' /\ tab'[p] = u
    BY <1>4, <1>8, <2>2, OnlyTabType, OneTab, TypeParts DEF Fails
  <2> QED BY <2>2, <2>3 DEF t
<1>10. CASE u # Failed(asked)
  <2>1. u \in Provider
    <3>1. "pull" \in Stages /\ "read" \in Stages /\ {"content", "files", "seen"} \in SUBSET Parts
      BY DEF Stages, Parts
    <3>2. CASE u = [asked EXCEPT !.pc = "pull"]
      BY <1>5, <3>1, <3>2 DEF Provider
    <3>3. CASE u = [asked EXCEPT !.pc = "read", !.todo = {"content", "files", "seen"}]
      BY <1>5, <3>1, <3>3 DEF Provider
    <3>4. CASE u = [asked EXCEPT !.pc = "pull", !.pull = FALSE]
      BY <1>5, <3>1, <3>4 DEF Provider
    <3> QED BY <1>8, <1>10, <3>2, <3>3, <3>4
  <2>2. /\ u.on = asked.on /\ u.bound = asked.bound /\ u.pending = asked.pending
        /\ u.batch = asked.batch /\ u.whole = asked.whole /\ u.kind = asked.kind /\ u.full = asked.full
        /\ u.entry = asked.entry /\ u.got = asked.got /\ u.pc \in {"pull", "read"}
    <3>1. CASE u = [asked EXCEPT !.pc = "pull"]
      BY <1>5, <3>1 DEF Provider
    <3>2. CASE u = [asked EXCEPT !.pc = "read", !.todo = {"content", "files", "seen"}]
      BY <1>5, <3>2 DEF Provider
    <3>3. CASE u = [asked EXCEPT !.pc = "pull", !.pull = FALSE]
      BY <1>5, <3>3 DEF Provider
    <3> QED BY <1>8, <1>10, <3>1, <3>2, <3>3
  <2>3. Waits(t, u)
    BY <1>6, <1>7, <2>1, <2>2 DEF Waits, Tab, JobFits
  <2>4. TypeInv' /\ tab'[p] = u
    BY <1>4, <1>8, <2>3, OnlyTabType, OneTab, TypeParts DEF Waits
  <2> QED BY <1>6, <2>2, <2>3, <2>4 DEF t
<1> QED
  BY <1>9, <1>10

\* A reading may mark the document, and never unmarks one.
LEMMA MarkedType ==
  ASSUME TypeInv, NEW p \in Tabs, NEW u, Tab(u), Goes(p, u), Marked(p),
         UNCHANGED <<cloud, doc, parted, made, sent>>
  PROVE  /\ TypeInv' /\ tab'[p] = u
         /\ \A d \in Devices : dirty[d] => dirty'[d]
<1>1. TabsType' /\ tab'[p] = u
  BY OneTab, TypeParts
<1> DEFINE mark == tab[p].kind = "now" /\ tab'[p].pc = "pull"
<1>2. dirty' = [dirty EXCEPT ![DeviceOf[p]] = @ \/ mark]
  BY DEF Marked
<1>3. mark \in BOOLEAN
  OBVIOUS
<1> HIDE DEF mark
<1>4. LocalType
  BY TypeParts
<1>5. LocalType' /\ \A d \in Devices : dirty[d] => dirty'[d]
  BY <1>2, <1>3, <1>4, OfTab DEF LocalType
<1> QED
  BY <1>1, <1>5, TabStepType

\* The manifest that was just read, or the need to begin the reading again.
LEMMA ReadType ==
  ASSUME TypeInv, NEW p \in Tabs, NEW part \in Parts, Read(p, part)
  PROVE  /\ TypeInv' /\ \A d \in Devices : dirty[d] => dirty'[d]
         /\ LET t == tab[p]
                a == Answered(t, part)
                u == tab'[p]
            IN /\ Waits(t, u)
               /\ \/ u.pc = "list" /\ u.entry = t.entry /\ u.got = Unread
                  \/ u.pc = "pull" /\ u.got = Unread
                     /\ u.entry = Reconcile(a.got.content, a.got.files)
                  \/ u.pc = "read" /\ u.entry = t.entry /\ u.got = a.got
<1> DEFINE t == tab[p]
           a == Answered(t, part)
           marked == dirty[DeviceOf[p]]
<1>1. t \in Provider /\ Tab(t) /\ t.pc = "read" /\ marked \in BOOLEAN
  BY OfTab DEF Read
<1>2. \/ Goes(p, [a EXCEPT !.pc = "list", !.todo = {}, !.got = Unread])
      \/ Goes(p, Loaded(a, marked))
      \/ Goes(p, a)
  BY DEF Read
<1>3. Marked(p) /\ UNCHANGED <<cloud, doc, parted, made, sent>>
  BY DEF Read
<1> HIDE DEF t
<1>4. /\ a \in Provider /\ a.entry = t.entry /\ a.on = t.on /\ a.bound = t.bound
      /\ a.kind = t.kind /\ a.full = t.full /\ a.pending = t.pending /\ a.batch = t.batch /\ a.whole = t.whole
      /\ a.pc = "read"
  BY <1>1, AnsweredType
<1>5. t.batch \subseteq t.pending
  BY <1>1 DEF Tab
<1> HIDE DEF a, marked
<1>6. PICK u : /\ Goes(p, u)
               /\ \/ u = [a EXCEPT !.pc = "list", !.todo = {}, !.got = Unread]
                  \/ u = Loaded(a, marked)
                  \/ u = a
  BY <1>2
<1>7. /\ Waits(t, u)
      /\ \/ u.pc = "list" /\ u.entry = t.entry /\ u.got = Unread
         \/ u.pc = "pull" /\ u.got = Unread /\ u.entry = Reconcile(a.got.content, a.got.files)
         \/ u.pc = "read" /\ u.entry = t.entry /\ u.got = a.got
  <2>1. CASE u = [a EXCEPT !.pc = "list", !.todo = {}, !.got = Unread]
    <3>1. "list" \in Stages
      BY DEF Stages
    <3>2. u \in Provider
      BY <1>4, <2>1, <3>1, EmptyType DEF Provider
    <3>3. /\ u.on = t.on /\ u.bound = t.bound /\ u.kind = t.kind /\ u.full = t.full
          /\ u.pending = t.pending /\ u.batch = t.batch /\ u.whole = t.whole /\ u.pc = "list"
          /\ u.entry = t.entry /\ u.got = Unread
      BY <1>4, <2>1 DEF Provider
    <3> QED BY <1>5, <3>2, <3>3 DEF Waits, Tab, JobFits
  <2>2. CASE u = Loaded(a, marked)
    <3>1. /\ u \in Provider /\ u.pc = "pull" /\ u.got = Unread
          /\ u.entry = Reconcile(a.got.content, a.got.files)
          /\ u.on = a.on /\ u.bound = a.bound /\ u.kind = a.kind
          /\ u.pending = a.pending /\ u.batch = a.batch /\ u.whole = a.whole
          /\ u.full = IF a.kind = "connect" THEN Promoted(a, marked) ELSE a.full
      BY <1>1, <1>4, <2>2, LoadedType
    <3>2. a.full => u.full
      BY <3>1 DEF Promoted
    <3> QED BY <1>4, <1>5, <3>1, <3>2 DEF Waits, Tab, JobFits
  <2>3. CASE u = a
    BY <1>4, <1>5, <2>3 DEF Waits, Tab, JobFits
  <2> QED BY <1>6, <2>1, <2>2, <2>3
<1>8. TypeInv' /\ tab'[p] = u /\ \A d \in Devices : dirty[d] => dirty'[d]
  <2>1. Tab(u)
    BY <1>7 DEF Waits
  <2> QED BY <1>3, <1>6, <2>1, MarkedType
<1> QED
  BY <1>7, <1>8 DEF t, a

\* The listing of a load.
LEMMA ListType ==
  ASSUME TypeInv, NEW p \in Tabs, List(p)
  PROVE  /\ TypeInv'
         /\ LET t == tab[p]
                u == tab'[p]
            IN /\ Waits(t, u) /\ u.full = t.full /\ u.pc = "body" /\ u.entry = t.entry
               /\ u.got.content = t.got.content /\ u.got.files = Files
<1> DEFINE t == tab[p]
           a == Answered(t, "files")
           b == Answered(a, "seen")
           u == [b EXCEPT !.pc = "body"]
<1>1. t \in Provider /\ Tab(t)
  BY OfTab
<1>2. Goes(p, u) /\ UNCHANGED <<cloud, local, made, sent>>
  BY DEF List
<1>3. t.batch \subseteq t.pending
  BY <1>1 DEF Tab
<1>4. "files" \in Parts /\ "seen" \in Parts /\ "body" \in Stages
  BY DEF Parts, Stages
<1> HIDE DEF t
<1>5. /\ a \in Provider /\ a.entry = t.entry /\ a.on = t.on /\ a.bound = t.bound
      /\ a.kind = t.kind /\ a.full = t.full /\ a.pending = t.pending /\ a.batch = t.batch /\ a.whole = t.whole
      /\ a.got.content = t.got.content /\ a.got.files = Files
  BY <1>1, <1>4, AnsweredType
<1> HIDE DEF a
<1>6. /\ b \in Provider /\ b.entry = t.entry /\ b.on = t.on /\ b.bound = t.bound
      /\ b.kind = t.kind /\ b.full = t.full /\ b.pending = t.pending /\ b.batch = t.batch /\ b.whole = t.whole
      /\ b.got.content = t.got.content /\ b.got.files = Files
  BY <1>4, <1>5, AnsweredType
<1> HIDE DEF b
<1>7. u \in Provider
  BY <1>4, <1>6 DEF Provider
<1>8. /\ u.entry = t.entry /\ u.on = t.on /\ u.bound = t.bound
      /\ u.kind = t.kind /\ u.full = t.full /\ u.pending = t.pending /\ u.batch = t.batch /\ u.whole = t.whole
      /\ u.got.content = t.got.content /\ u.got.files = Files /\ u.pc = "body"
  BY <1>6 DEF Provider
<1> HIDE DEF u
<1>9. Waits(t, u)
  BY <1>3, <1>7, <1>8 DEF Waits, Tab, JobFits
<1>10. TypeInv' /\ tab'[p] = u
  BY <1>2, <1>9, OnlyTabType, OneTab, TypeParts DEF Waits
<1> QED
  BY <1>8, <1>9, <1>10 DEF t

\* The download of a load.
LEMMA BodyType ==
  ASSUME TypeInv, NEW p \in Tabs, Body(p)
  PROVE  /\ TypeInv' /\ \A d \in Devices : dirty[d] => dirty'[d]
         /\ LET t == tab[p]
                u == tab'[p]
            IN \/ Fails(t, u)
               \/ /\ Waits(t, u) /\ u.pc = "pull" /\ u.got = Unread
                  /\ u.entry = Reconcile(manifest.entry, t.got.files)
                  /\ t.kind = "connect" /\ dirty[DeviceOf[p]] /\ t.pending = {} => u.full
<1> DEFINE t == tab[p]
           a == Answered(t, "content")
           marked == dirty[DeviceOf[p]]
<1>1. t \in Provider /\ Tab(t) /\ marked \in BOOLEAN
  BY OfTab
<1>2. Goes(p, Failed(t)) \/ Goes(p, Loaded(a, marked))
  BY DEF Body
<1>3. Marked(p) /\ UNCHANGED <<cloud, doc, parted, made, sent>>
  BY DEF Body
<1>4. t.batch \subseteq t.pending
  BY <1>1 DEF Tab
<1>5. "content" \in Parts
  BY DEF Parts
<1> HIDE DEF t
<1>6. /\ a \in Provider /\ a.entry = t.entry /\ a.on = t.on /\ a.bound = t.bound
      /\ a.kind = t.kind /\ a.full = t.full /\ a.pending = t.pending /\ a.batch = t.batch /\ a.whole = t.whole
      /\ a.got.content = manifest.entry /\ a.got.files = t.got.files
  BY <1>1, <1>5, AnsweredType
<1> HIDE DEF a
<1>7. CASE Goes(p, Failed(t))
  <2>1. Fails(t, Failed(t))
    BY <1>1, FailedType
  <2>2. TypeInv' /\ tab'[p] = Failed(t) /\ \A d \in Devices : dirty[d] => dirty'[d]
    BY <1>3, <1>7, <2>1, MarkedType DEF Fails
  <2> QED BY <2>1, <2>2 DEF t
<1>8. CASE Goes(p, Loaded(a, marked))
  <2> DEFINE u == Loaded(a, marked)
  <2>1. /\ u \in Provider /\ u.pc = "pull" /\ u.got = Unread
        /\ u.entry = Reconcile(manifest.entry, t.got.files)
        /\ u.on = a.on /\ u.bound = a.bound /\ u.kind = a.kind
        /\ u.pending = a.pending /\ u.batch = a.batch /\ u.whole = a.whole
        /\ u.full = IF a.kind = "connect" THEN Promoted(a, marked) ELSE a.full
    BY <1>1, <1>6, LoadedType
  <2> HIDE DEF u
  <2>2. a.full => u.full
    BY <2>1 DEF Promoted
  <2>3. a.kind = "connect" /\ marked /\ a.pending = {} => u.full
    BY <2>1 DEF Promoted
  <2>4. Waits(t, u)
    BY <1>4, <1>6, <2>1, <2>2 DEF Waits, Tab, JobFits
  <2>5. TypeInv' /\ tab'[p] = u /\ \A d \in Devices : dirty[d] => dirty'[d]
    BY <1>3, <1>8, <2>4, MarkedType DEF Waits, u
  <2> QED BY <1>6, <2>1, <2>3, <2>4, <2>5 DEF t
<1> QED
  BY <1>2, <1>7, <1>8

\* What a download brings into the document of the device.
LEMMA PulledType ==
  ASSUME TypeInv, NEW p \in Tabs, NEW u, Tab(u), Goes(p, u), NEW edits \in SUBSET Edits,
         \/ UNCHANGED doc
         \/ doc' = [doc EXCEPT ![DeviceOf[p]] = @ \union edits],
         UNCHANGED <<cloud, dirty, parted, made, sent>>
  PROVE  /\ TypeInv' /\ tab'[p] = u
         /\ \A d \in Devices : doc[d] \subseteq doc'[d]
<1>1. TabsType' /\ tab'[p] = u
  BY OneTab, TypeParts
<1>2. LocalType
  BY TypeParts
<1>3. LocalType' /\ \A d \in Devices : doc[d] \subseteq doc'[d]
  <2>1. CASE UNCHANGED doc
    BY <1>2, <2>1 DEF LocalType
  <2>2. CASE doc' = [doc EXCEPT ![DeviceOf[p]] = @ \union edits]
    BY <1>2, <2>2, OfTab DEF LocalType
  <2> QED BY <2>1, <2>2
<1> QED
  BY <1>1, <1>3, TabStepType

\* Applying a downloaded base file keeps the state well formed.
LEMMA PullBaseType ==
  ASSUME TypeInv, NEW p \in Tabs, PullBase(p)
  PROVE  /\ TypeInv' /\ \A d \in Devices : doc[d] \subseteq doc'[d]
         /\ LET t == tab[p]
                u == tab'[p]
            IN \/ Fails(t, u)
               \/ Waits(t, u) /\ u.pc = "pull" /\ u.entry = t.entry /\ u.got = t.got
<1> DEFINE t == tab[p]
           u == [t EXCEPT !.version = t.entry.version, !.have = {}]
<1>1. t \in Provider /\ Tab(t) /\ t.pc = "pull"
  BY OfTab DEF PullBase
<1>2. base.edits \in SUBSET Edits
  BY DEF TypeInv, TypeOK
<1>3. UNCHANGED <<cloud, dirty, parted, made, sent>>
  BY DEF PullBase
<1>4. \/ Goes(p, Failed(t)) /\ UNCHANGED doc
      \/ Goes(p, u) /\ doc' = [doc EXCEPT ![DeviceOf[p]] = @ \union base.edits]
  BY DEF PullBase
<1> HIDE DEF t
<1>5. CASE Goes(p, Failed(t)) /\ UNCHANGED doc
  <2>1. Fails(t, Failed(t))
    BY <1>1, FailedType
  <2>2. /\ TypeInv' /\ tab'[p] = Failed(t)
        /\ \A d \in Devices : doc[d] \subseteq doc'[d]
    BY <1>2, <1>3, <1>5, <2>1, PulledType DEF Fails
  <2> QED BY <2>1, <2>2 DEF t
<1>6. CASE Goes(p, u) /\ doc' = [doc EXCEPT ![DeviceOf[p]] = @ \union base.edits]
  <2>1. t.entry.version \in Nat
    BY <1>1 DEF Provider, Manifest
  <2>2. u \in Provider
    BY <1>1, <2>1 DEF Provider
  <2>3. /\ u.on = t.on /\ u.bound = t.bound /\ u.kind = t.kind /\ u.full = t.full
        /\ u.pending = t.pending /\ u.batch = t.batch /\ u.whole = t.whole /\ u.pc = "pull"
        /\ u.entry = t.entry /\ u.got = t.got
    BY <1>1 DEF Provider
  <2> HIDE DEF u
  <2>4. Waits(t, u)
    BY <1>1, <2>2, <2>3 DEF Waits, Tab, JobFits
  <2>5. /\ TypeInv' /\ tab'[p] = u
        /\ \A d \in Devices : doc[d] \subseteq doc'[d]
    BY <1>2, <1>3, <1>6, <2>4, PulledType DEF Waits
  <2> QED BY <2>3, <2>4, <2>5 DEF t
<1> QED
  BY <1>4, <1>5, <1>6

\* Applying a downloaded delta keeps the state well formed.
LEMMA PullDeltaType ==
  ASSUME TypeInv, NEW p \in Tabs, NEW id \in DeltaIds, PullDelta(p, id)
  PROVE  /\ TypeInv' /\ \A d \in Devices : doc[d] \subseteq doc'[d]
         /\ LET t == tab[p]
                u == tab'[p]
            IN \/ Fails(t, u)
               \/ Waits(t, u) /\ u.pc = "pull" /\ u.entry = t.entry /\ u.got = t.got
<1> DEFINE t == tab[p]
           u == [t EXCEPT !.have = @ \union {id}]
<1>1. t \in Provider /\ Tab(t) /\ t.pc = "pull"
  BY OfTab DEF PullDelta
<1>2. id \in DOMAIN deltas => deltas[id] \in SUBSET Edits
  BY DEF TypeInv, TypeOK
<1>3. UNCHANGED <<cloud, dirty, parted, made, sent>>
  BY DEF PullDelta
<1>4. \/ Goes(p, Failed(t)) /\ UNCHANGED doc
      \/ /\ Goes(p, u) /\ id \in DOMAIN deltas
         /\ doc' = [doc EXCEPT ![DeviceOf[p]] = @ \union deltas[id]]
  BY DEF PullDelta
<1> HIDE DEF t
<1>5. CASE Goes(p, Failed(t)) /\ UNCHANGED doc
  <2>1. Fails(t, Failed(t)) /\ {} \in SUBSET Edits
    BY <1>1, FailedType
  <2>2. /\ TypeInv' /\ tab'[p] = Failed(t)
        /\ \A d \in Devices : doc[d] \subseteq doc'[d]
    BY <1>3, <1>5, <2>1, PulledType DEF Fails
  <2> QED BY <2>1, <2>2 DEF t
<1>6. CASE /\ Goes(p, u) /\ id \in DOMAIN deltas
           /\ doc' = [doc EXCEPT ![DeviceOf[p]] = @ \union deltas[id]]
  <2>1. u \in Provider
    BY <1>1 DEF Provider
  <2>2. /\ u.on = t.on /\ u.bound = t.bound /\ u.kind = t.kind /\ u.full = t.full
        /\ u.pending = t.pending /\ u.batch = t.batch /\ u.whole = t.whole /\ u.pc = "pull"
        /\ u.entry = t.entry /\ u.got = t.got
    BY <1>1 DEF Provider
  <2> HIDE DEF u
  <2>3. Waits(t, u)
    BY <1>1, <2>1, <2>2 DEF Waits, Tab, JobFits
  <2>4. /\ TypeInv' /\ tab'[p] = u
        /\ \A d \in Devices : doc[d] \subseteq doc'[d]
    BY <1>2, <1>3, <1>6, <2>3, PulledType DEF Waits
  <2> QED BY <2>2, <2>3, <2>4 DEF t
<1> QED
  BY <1>4, <1>5, <1>6

\* What is to be uploaded.
Pushes(t, u, edits) ==
  /\ Tab(u) /\ u.on = t.on /\ u.bound = t.bound /\ u.kind = t.kind
  /\ u.pending = t.pending /\ u.entry = t.entry /\ u.got = t.got
  /\ \/ t.full /\ u.pc = "putBase" /\ u.job = "full" /\ u.whole = edits
     \/ u.full = t.full
  /\ \/ /\ u.pc = "putBase" /\ u.drop \subseteq t.entry.deltas
        /\ u.job = "verify" => u.drop = {}
     \/ u.pc = "save" /\ u.job = "final" /\ u.todo = {"content", "files"}
     \/ u.pc \in {"putDelta", "callback", "complete"}
  /\ IF u.pc = "putBase" THEN u.whole = edits
     ELSE u.whole = t.whole /\ (u.pc = "putDelta" \/ u.batch = {})

\* The choice of an upload keeps the state well formed.
LEMMA PushType ==
  ASSUME TypeInv, NEW p \in Tabs, Push(p)
  PROVE  TypeInv' /\ Pushes(tab[p], tab'[p], doc[DeviceOf[p]])
<1> DEFINE t == tab[p]
           edits == doc[DeviceOf[p]]
           count == Cardinality(t.entry.deltas)
           b == [t EXCEPT !.batch = t.pending, !.count = count]
<1>1. t \in Provider /\ Tab(t) /\ edits \in SUBSET Edits
  BY OfTab
<1>2. \/ t.full /\ Goes(p, PutBase([b EXCEPT !.full = FALSE], "full", edits))
      \/ Goes(p, PutBase([b EXCEPT !.verify = FALSE], "verify", edits))
      \/ Goes(p, [b EXCEPT !.pc = "putDelta", !.job = "delta", !.count = @ + 1])
      \/ t.pending = {} /\ Goes(p, Compacted(b, edits))
  BY DEF Push
<1>3. UNCHANGED <<cloud, local, made, sent>>
  BY DEF Push
<1>4. count \in Nat
  <2>1. t.entry.deltas \in SUBSET DeltaIds
    BY <1>1 DEF Provider, Manifest
  <2>2. IsFiniteSet(DeltaIds)
    BY FS_Interval, BoundAssumption DEF DeltaIds
  <2> QED BY <2>1, <2>2, FS_Subset, FS_CardinalityType
<1> HIDE DEF t, edits, count
<1>5. b \in Provider
  BY <1>1, <1>4 DEF Provider
<1>6. /\ b.on = t.on /\ b.bound = t.bound /\ b.kind = t.kind /\ b.full = t.full
      /\ b.pending = t.pending /\ b.batch = t.pending /\ b.whole = t.whole
      /\ b.entry = t.entry /\ b.got = t.got
  BY <1>1 DEF Provider
<1> HIDE DEF b
<1>7. ASSUME NEW u, Goes(p, u), Pushes(t, u, edits)
      PROVE  TypeInv' /\ Pushes(tab[p], tab'[p], doc[DeviceOf[p]])
  <2>1. TypeInv' /\ tab'[p] = u
    BY <1>3, <1>7, OnlyTabType, OneTab, TypeParts DEF Pushes
  <2> QED BY <1>7, <2>1 DEF t, edits
<1>8. CASE t.full /\ Goes(p, PutBase([b EXCEPT !.full = FALSE], "full", edits))
  <2> DEFINE v == [b EXCEPT !.full = FALSE]
             u == PutBase(v, "full", edits)
  <2>1. v \in Provider /\ "full" \in BaseJobs
    BY <1>5 DEF Provider, BaseJobs
  <2>2. /\ v.on = b.on /\ v.bound = b.bound /\ v.kind = b.kind
        /\ v.pending = b.pending /\ v.batch = b.batch /\ v.entry = b.entry /\ v.got = b.got
    BY <1>5 DEF Provider
  <2> HIDE DEF v
  <2>3. /\ u \in Provider /\ Keeps(v, u) /\ u.pending = v.pending /\ u.batch = v.batch
        /\ u.pc = "putBase" /\ u.job = "full" /\ u.whole = edits
        /\ u.drop = v.entry.deltas
    BY <1>1, <2>1, PutBaseType
  <2> HIDE DEF u
  <2>4. Pushes(t, u, edits)
    BY <1>6, <1>8, <2>1, <2>2, <2>3 DEF Pushes, Keeps, Tab, JobFits
  <2> QED BY <1>7, <1>8, <2>4 DEF u, v
<1>9. CASE Goes(p, PutBase([b EXCEPT !.verify = FALSE], "verify", edits))
  <2> DEFINE v == [b EXCEPT !.verify = FALSE]
             u == PutBase(v, "verify", edits)
  <2>1. v \in Provider /\ "verify" \in BaseJobs
    BY <1>5 DEF Provider, BaseJobs
  <2>2. /\ v.on = b.on /\ v.bound = b.bound /\ v.kind = b.kind /\ v.full = b.full
        /\ v.pending = b.pending /\ v.batch = b.batch /\ v.entry = b.entry /\ v.got = b.got
    BY <1>5 DEF Provider
  <2> HIDE DEF v
  <2>3. /\ u \in Provider /\ Keeps(v, u) /\ u.pending = v.pending /\ u.batch = v.batch
        /\ u.pc = "putBase" /\ u.job = "verify" /\ u.drop = {} /\ u.whole = edits
    BY <1>1, <2>1, PutBaseType
  <2> HIDE DEF u
  <2>4. Pushes(t, u, edits)
    BY <1>6, <2>1, <2>2, <2>3 DEF Pushes, Keeps, Tab, JobFits
  <2> QED BY <1>7, <1>9, <2>4 DEF u, v
<1>10. CASE Goes(p, [b EXCEPT !.pc = "putDelta", !.job = "delta", !.count = @ + 1])
  <2> DEFINE u == [b EXCEPT !.pc = "putDelta", !.job = "delta", !.count = @ + 1]
  <2>1. u \in Provider
    <3>1. "putDelta" \in Stages /\ "delta" \in Jobs /\ b.count + 1 \in Nat
      BY <1>5 DEF Stages, Jobs, Provider
    <3> QED BY <1>5, <3>1 DEF Provider
  <2>2. /\ u.on = b.on /\ u.bound = b.bound /\ u.kind = b.kind /\ u.full = b.full
        /\ u.pending = b.pending /\ u.batch = b.batch /\ u.entry = b.entry /\ u.got = b.got
        /\ u.pc = "putDelta" /\ u.job = "delta" /\ u.whole = b.whole
    BY <1>5 DEF Provider
  <2> HIDE DEF u
  <2>3. Pushes(t, u, edits)
    BY <1>6, <2>1, <2>2 DEF Pushes, Tab, JobFits
  <2> QED BY <1>7, <1>10, <2>3 DEF u
<1>11. CASE t.pending = {} /\ Goes(p, Compacted(b, edits))
  <2> DEFINE u == Compacted(b, edits)
  <2>1. GoesOn(b, u) /\ IF u.pc = "putBase" THEN u.whole = edits ELSE u.whole = b.whole
    BY <1>1, <1>5, CompactedType, CompactedWhole
  <2> HIDE DEF u
  <2>2. Pushes(t, u, edits)
    BY <1>6, <1>11, <2>1 DEF Pushes, GoesOn, Onward, Keeps, Tab, JobFits, BaseJobs
  <2> QED BY <1>7, <1>11, <2>2 DEF u
<1> QED
  BY <1>2, <1>8, <1>9, <1>10, <1>11

\* A save of the manifest begins, with the entry that an upload left.
Saves(t, u) ==
  /\ Tab(u) /\ u.on = t.on /\ u.bound = t.bound /\ u.kind = t.kind /\ u.full = t.full
  /\ u.pending = t.pending /\ u.batch = t.batch /\ u.whole = t.whole
  /\ u.got = t.got /\ u.drop = t.drop
  /\ u.pc = "save" /\ u.job = t.job /\ u.todo = {"content", "files"}

\* An entry without the deltas that a base file replaced.
LEMMA ClearType ==
  ASSUME NEW m \in Manifest(DeltaIds)
  PROVE  /\ NewBase(m) \in Manifest(DeltaIds) /\ ClearDeltas(m) \in Manifest(DeltaIds)
         /\ NewBase(m).deltas = m.deltas /\ NewBase(m).gone = m.gone
         /\ ClearDeltas(m).deltas = {} /\ ClearDeltas(m).gone = m.gone \union m.deltas
<1>1. m.version + 1 \in Nat
  BY DEF Manifest
<1> QED
  BY <1>1 DEF NewBase, ClearDeltas, Manifest

\* An entry with one more delta.
LEMMA AddDeltaType ==
  ASSUME NEW m \in Manifest(DeltaIds), NEW id \in DeltaIds
  PROVE  /\ AddDelta(m, id) \in Manifest(DeltaIds)
         /\ AddDelta(m, id).deltas = m.deltas \union {id}
         /\ AddDelta(m, id).gone = m.gone \ {id}
BY DEF AddDelta, Manifest

\* The files change, the documents do not.
LEMMA FileStepType ==
  ASSUME TypeInv, NEW p \in Tabs, NEW u, Tab(u), Goes(p, u), CloudType', MadeType',
         UNCHANGED local
  PROVE  TypeInv' /\ tab'[p] = u
<1>1. TabsType' /\ tab'[p] = u
  BY OneTab, TypeParts
<1>2. LocalType'
  <2>1. LocalType
    BY TypeParts
  <2> QED BY <2>1 DEF LocalType, local
<1> QED
  BY <1>1, <1>2 DEF TypeInv, TypeOK, CloudType, LocalType, TabsType, MadeType, Tab

\* The upload of a base file keeps the state well formed.
LEMMA UploadBaseType ==
  ASSUME TypeInv, NEW p \in Tabs, UploadBase(p)
  PROVE  /\ TypeInv'
         /\ LET t == tab[p]
                u == tab'[p]
            IN \/ Fails(t, u)
               \/ /\ Saves(t, u) /\ t.job \in BaseJobs
                  /\ u.entry = IF t.job = "verify" THEN NewBase(t.entry) ELSE ClearDeltas(t.entry)
<1> DEFINE t == tab[p]
           c == Counted(t)
           u == Saving(c, t.job)
<1>1. t \in Provider /\ Tab(t) /\ t.pc = "putBase" /\ t.job \in BaseJobs
  BY OfTab DEF UploadBase, Tab, JobFits
<1>2. base.time + 1 \in Nat /\ base \in [edits : SUBSET Edits, time : Nat]
  BY DEF TypeInv, TypeOK
<1>3. /\ Goes(p, Failed(t)) \/ Goes(p, u)
      /\ base' \in {base, [edits |-> t.whole, time |-> base.time + 1]}
      /\ UNCHANGED <<deltas, manifest, local, made, sent>>
  BY DEF UploadBase, Answer, Lost
<1> DEFINE entry == IF t.job = "verify" THEN NewBase(t.entry) ELSE ClearDeltas(t.entry)
           cached == Revision(base.time + 1)
<1>4. c = [t EXCEPT !.entry = entry, !.unsaved = TRUE, !.cached = cached]
  BY DEF Counted
<1>5. entry = IF t.job = "verify" THEN NewBase(t.entry) ELSE ClearDeltas(t.entry)
  OBVIOUS
<1>6. cached \in Nat
  BY <1>2 DEF Revision
<1> HIDE DEF t, cached, entry
<1>7. t.entry \in Manifest(DeltaIds) /\ t.whole \in SUBSET Edits
  BY <1>1 DEF Provider
<1>8. entry \in Manifest(DeltaIds)
  BY <1>5, <1>7, ClearType
<1>9. c \in Provider
  <2>1. [t EXCEPT !.entry = entry, !.unsaved = TRUE, !.cached = cached] \in Provider
    BY <1>1, <1>6, <1>8, EntryType
  <2> QED BY <1>4, <2>1
<1>10. /\ c.on = t.on /\ c.bound = t.bound /\ c.kind = t.kind /\ c.full = t.full
       /\ c.pending = t.pending /\ c.whole = t.whole /\ c.got = t.got /\ c.drop = t.drop
       /\ c.batch = t.batch /\ c.entry = entry
  BY <1>1, <1>4 DEF Provider
<1> HIDE DEF c
<1>11. /\ u \in Provider
       /\ u = [c EXCEPT !.pc = "save", !.job = t.job, !.todo = {"content", "files"}]
  BY <1>1, <1>9, SavingType
<1>12. /\ u.on = t.on /\ u.bound = t.bound /\ u.kind = t.kind /\ u.full = t.full
       /\ u.pending = t.pending /\ u.whole = t.whole /\ u.got = t.got /\ u.drop = t.drop
       /\ u.batch = t.batch /\ u.entry = entry /\ u.pc = "save" /\ u.job = t.job
       /\ u.todo = {"content", "files"}
  BY <1>9, <1>10, <1>11 DEF Provider
<1> HIDE DEF u
<1>13. Saves(t, u)
  BY <1>1, <1>11, <1>12 DEF Saves, Tab, JobFits, BaseJobs
<1>14. CloudType' /\ MadeType'
  <2>1. CloudType /\ MadeType
    BY TypeParts
  <2>2. base' \in [edits : SUBSET Edits, time : Nat]
    BY <1>2, <1>3, <1>7
  <2> QED BY <1>3, <2>1, <2>2 DEF CloudType, MadeType
<1>15. Fails(t, Failed(t))
  BY <1>1, FailedType
<1>16. CASE Goes(p, Failed(t))
  BY <1>3, <1>14, <1>15, <1>16, FileStepType DEF Fails, t
<1>17. CASE Goes(p, u)
  <2>1. TypeInv' /\ tab'[p] = u
    BY <1>3, <1>13, <1>14, <1>17, FileStepType DEF Saves
  <2> QED BY <1>1, <1>5, <1>12, <1>13, <2>1 DEF t
<1> QED
  BY <1>3, <1>16, <1>17

\* The name of the next delta file.
NewDelta ==
  Cardinality(DOMAIN deltas \union manifest.entry.gone
              \union UNION {tab[q].entry.gone : q \in Tabs}) + 1

\* The upload of a delta keeps the state well formed.
LEMMA UploadDeltaType ==
  ASSUME TypeInv, NEW p \in Tabs, UploadDelta(p)
  PROVE  /\ TypeInv' /\ NewDelta \in DeltaIds /\ DOMAIN deltas' = DOMAIN deltas \union {NewDelta}
         /\ LET t == tab[p]
                u == tab'[p]
            IN \/ Fails(t, u)
               \/ Saves(t, u) /\ u.entry = AddDelta(t.entry, NewDelta) /\ u.job = "delta"
<1> DEFINE t == tab[p]
           id == NewDelta
           c == [t EXCEPT !.entry = AddDelta(@, id), !.unsaved = TRUE, !.next = id]
           u == Saving(c, "delta")
<1>1. t \in Provider /\ Tab(t) /\ t.pc = "putDelta" /\ t.job = "delta"
  BY OfTab DEF UploadDelta, Tab, JobFits
<1>2. /\ id \in DeltaIds
      /\ Goes(p, Failed(t)) \/ Goes(p, u)
      /\ deltas' = [i \in DOMAIN deltas \union {id} |-> IF i = id THEN t.batch ELSE deltas[i]]
      /\ UNCHANGED <<base, manifest, local, made, sent>>
  BY DEF UploadDelta, Answer, Lost, NewDelta
<1>3. id = NewDelta
  OBVIOUS
<1> HIDE DEF t, id
<1>4. id \in DeltaIds /\ id \in Nat
  BY <1>2 DEF DeltaIds
<1>5. t.entry \in Manifest(DeltaIds) /\ t.batch \in SUBSET Edits
  BY <1>1 DEF Provider
<1> DEFINE entry == AddDelta(t.entry, id)
<1>6. entry \in Manifest(DeltaIds)
  BY <1>4, <1>5, AddDeltaType
<1>7. c = [t EXCEPT !.entry = entry, !.unsaved = TRUE, !.next = id]
  OBVIOUS
<1>8. entry = AddDelta(t.entry, id)
  OBVIOUS
<1> HIDE DEF c, entry
<1>9. c \in Provider
  BY <1>1, <1>4, <1>6, <1>7 DEF Provider
<1>10. /\ c.on = t.on /\ c.bound = t.bound /\ c.kind = t.kind /\ c.full = t.full
       /\ c.pending = t.pending /\ c.whole = t.whole /\ c.got = t.got /\ c.drop = t.drop
       /\ c.batch = t.batch /\ c.entry = entry /\ c.next = id
  BY <1>1, <1>7 DEF Provider
<1>11. /\ u \in Provider
       /\ u = [c EXCEPT !.pc = "save", !.job = "delta", !.todo = {"content", "files"}]
  BY <1>9, SavingType
<1>12. /\ u.on = t.on /\ u.bound = t.bound /\ u.kind = t.kind /\ u.full = t.full
       /\ u.pending = t.pending /\ u.whole = t.whole /\ u.got = t.got /\ u.drop = t.drop
       /\ u.batch = t.batch /\ u.entry = entry /\ u.pc = "save" /\ u.job = "delta"
       /\ u.todo = {"content", "files"} /\ u.next = id
  <2>1. /\ u.on = c.on /\ u.bound = c.bound /\ u.kind = c.kind /\ u.full = c.full
        /\ u.pending = c.pending /\ u.whole = c.whole /\ u.got = c.got /\ u.drop = c.drop
    BY <1>9, <1>11 DEF Provider
  <2>2. u.batch = c.batch /\ u.entry = c.entry /\ u.next = c.next
    BY <1>9, <1>11 DEF Provider
  <2>3. u.pc = "save" /\ u.job = "delta" /\ u.todo = {"content", "files"}
    BY <1>9, <1>11 DEF Provider
  <2> QED BY <1>10, <2>1, <2>2, <2>3
<1> HIDE DEF u
<1>13. Saves(t, u)
  BY <1>1, <1>4, <1>11, <1>12 DEF Saves, Tab, JobFits, BaseJobs
<1>14. CloudType' /\ MadeType'
  <2>1. CloudType /\ MadeType
    BY TypeParts
  <2>2. /\ DOMAIN deltas' \subseteq DeltaIds
        /\ \A i \in DOMAIN deltas' : deltas'[i] \subseteq Edits
    BY <1>2, <1>4, <1>5, <2>1 DEF CloudType
  <2> QED BY <1>2, <2>1, <2>2 DEF CloudType, MadeType
<1>15. Fails(t, Failed(t))
  BY <1>1, FailedType
<1>16. DOMAIN deltas' = DOMAIN deltas \union {id}
  BY <1>2
<1>17. CASE Goes(p, Failed(t))
  <2>1. TypeInv' /\ tab'[p] = Failed(t)
    BY <1>2, <1>14, <1>15, <1>17, FileStepType DEF Fails
  <2> QED BY <1>3, <1>4, <1>15, <1>16, <2>1 DEF t
<1>18. CASE Goes(p, u)
  <2>1. TypeInv' /\ tab'[p] = u
    BY <1>2, <1>13, <1>14, <1>18, FileStepType DEF Saves
  <2> QED BY <1>3, <1>4, <1>8, <1>12, <1>13, <1>16, <2>1 DEF t
<1> QED
  BY <1>2, <1>17, <1>18

\* An answer to one of the requests of a save.
Rereads(t, u) ==
  /\ Tab(u) /\ u.on = t.on /\ u.bound = t.bound /\ u.kind = t.kind /\ u.full = t.full
  /\ u.pending = t.pending /\ u.batch = t.batch /\ u.whole = t.whole
  /\ u.drop = t.drop /\ u.job = t.job

\* Reading the manifest again keeps the state well formed.
LEMMA SaveReadType ==
  ASSUME TypeInv, NEW p \in Tabs, NEW part \in Parts, SaveRead(p, part)
  PROVE  /\ TypeInv'
         /\ LET t == tab[p]
                a == Answered(t, part)
                u == tab'[p]
            IN \/ Fails(t, u)
               \/ /\ Rereads(t, u) /\ u.pc = "save" /\ u.todo = t.todo \ {part}
                  /\ u.entry = t.entry /\ u.got = a.got
               \/ /\ Rereads(t, u) /\ u.pc = "write" /\ t.todo \subseteq {part}
                  /\ u.entry = Join(a.got.content, t.entry, a.got.files) /\ u.got = Unread
<1> DEFINE t == tab[p]
           a == Answered(t, part)
           entry == Join(a.got.content, t.entry, a.got.files)
           cached == Revision(a.got.files.base)
           revision == Revision(a.got.files.manifest)
           w == [a EXCEPT !.entry = entry, !.cached = cached, !.revision = revision,
                          !.got = Unread, !.pc = "write"]
<1>1. t \in Provider /\ Tab(t) /\ t.pc = "save"
  BY OfTab DEF SaveRead
<1>2. /\ a \in Provider /\ a.todo = t.todo \ {part} /\ a.entry = t.entry
      /\ a.on = t.on /\ a.bound = t.bound /\ a.kind = t.kind /\ a.full = t.full
      /\ a.pending = t.pending /\ a.batch = t.batch /\ a.pc = "save" /\ a.job = t.job
      /\ a.next = t.next /\ a.drop = t.drop /\ a.whole = t.whole
  BY <1>1, AnsweredType
<1>3. /\ \/ Goes(p, Failed(t))
         \/ Goes(p, a)
         \/ Goes(p, w) /\ a.todo = {}
      /\ UNCHANGED <<cloud, local, made, sent>>
  <2>1. w = [a EXCEPT !.entry = Join(a.got.content, @, a.got.files),
                      !.cached = Revision(a.got.files.base),
                      !.revision = Revision(a.got.files.manifest),
                      !.got = Unread, !.pc = "write"]
    BY <1>2
  <2> QED BY <2>1 DEF SaveRead
<1>4. entry = Join(a.got.content, t.entry, a.got.files)
  OBVIOUS
<1> HIDE DEF t
<1>5. a.got \in Gotten /\ t.entry \in Manifest(DeltaIds)
  BY <1>1, <1>2 DEF Provider
<1> HIDE DEF a
<1>6. a.got.content \in Manifest(DeltaIds) /\ a.got.files \in Listing(DeltaIds)
  BY <1>5 DEF Gotten
<1>7. entry \in Manifest(DeltaIds)
  BY <1>5, <1>6, JoinType
<1>8. cached \in Nat /\ revision \in Nat
  BY <1>6 DEF Revision, Listing
<1>9. Tab(a)
  BY <1>1, <1>2 DEF Tab, JobFits
<1> HIDE DEF entry, cached, revision
<1>10. w \in Provider
  <2> DEFINE v == [a EXCEPT !.entry = entry, !.cached = cached, !.revision = revision]
  <2>1. v \in Provider
    BY <1>2, <1>7, <1>8 DEF Provider
  <2>2. w = [v EXCEPT !.got = Unread, !.pc = "write"]
    OBVIOUS
  <2>3. "write" \in Stages
    BY DEF Stages
  <2> HIDE DEF v, w
  <2> QED BY <2>1, <2>2, <2>3, EmptyType DEF Provider
<1>11. /\ w.on = t.on /\ w.bound = t.bound /\ w.kind = t.kind /\ w.full = t.full
       /\ w.pending = t.pending /\ w.batch = t.batch /\ w.pc = "write" /\ w.job = t.job
       /\ w.next = t.next /\ w.drop = t.drop /\ w.whole = t.whole
       /\ w.entry = entry /\ w.got = Unread
  BY <1>2 DEF Provider
<1> HIDE DEF w
<1>12. Tab(w)
  BY <1>1, <1>10, <1>11 DEF Tab, JobFits
<1>13. CASE Goes(p, Failed(t))
  <2>1. Fails(t, Failed(t))
    BY <1>1, FailedType
  <2>2. TypeInv' /\ tab'[p] = Failed(t)
    BY <1>3, <1>13, <2>1, OnlyTabType, OneTab, TypeParts DEF Fails
  <2> QED BY <2>1, <2>2 DEF t
<1>14. CASE Goes(p, a)
  <2>1. TypeInv' /\ tab'[p] = a
    BY <1>3, <1>9, <1>14, OnlyTabType, OneTab, TypeParts
  <2> QED BY <1>2, <1>9, <2>1 DEF t, a, Rereads
<1>15. CASE Goes(p, w) /\ a.todo = {}
  <2>1. TypeInv' /\ tab'[p] = w
    BY <1>3, <1>12, <1>15, OnlyTabType, OneTab, TypeParts
  <2>2. t.todo \subseteq {part}
    BY <1>2, <1>15
  <2> QED BY <1>4, <1>11, <1>12, <2>1, <2>2 DEF t, a, Rereads
<1> QED
  BY <1>3, <1>13, <1>14, <1>15

\* The step of an upload that is done.
LEMMA ResumesTab ==
  ASSUME NEW t, NEW u, t.batch \subseteq t.pending, Resumes(t, u) \/ Deletes(t, u)
  PROVE  Tab(u)
<1>1. u \in Provider /\ u.batch \subseteq u.pending
  BY DEF Resumes, Deletes, Emptied
<1>2. JobFits(u)
  BY DEF Resumes, Deletes, Onward, JobFits, BaseJobs
<1> QED
  BY <1>1, <1>2 DEF Tab

\* Writing the manifest keeps the state well formed.
LEMMA SaveWriteType ==
  ASSUME TypeInv, NEW p \in Tabs, SaveWrite(p)
  PROVE  /\ TypeInv'
         /\ UNCHANGED manifest \/ manifest'.entry = tab[p].entry
         /\ LET t == tab[p]
                u == tab'[p]
            IN \/ Fails(t, u) /\ UNCHANGED sent
               \/ /\ Resumes(t, u) \/ Deletes(t, u)
                  /\ sent' = [sent EXCEPT ![DeviceOf[p]] = @ \union t.batch \union t.whole]
                  /\ manifest'.entry = t.entry
<1> DEFINE t == tab[p]
           now == manifest.time + 1
           revision == Revision(now)
           edits == doc[DeviceOf[p]]
           s == [t EXCEPT !.seen = now, !.revision = revision, !.unsaved = FALSE]
           u == Saved(s, edits)
           after == [sent EXCEPT ![DeviceOf[p]] = @ \union t.batch \union t.whole]
<1>1. /\ t \in Provider /\ Tab(t) /\ t.pc = "write" /\ edits \in SUBSET Edits
      /\ t.job \in BaseJobs \union {"delta", "final"}
      /\ t.job = "delta" => t.next \in DeltaIds
  BY OfTab DEF SaveWrite, Tab, JobFits
<1>2. /\ \/ Goes(p, Failed(t)) /\ UNCHANGED sent
         \/ Goes(p, u) /\ sent' = after /\ manifest' = [entry |-> t.entry, time |-> now]
      /\ UNCHANGED manifest \/ manifest' = [entry |-> t.entry, time |-> now]
      /\ UNCHANGED <<base, deltas, local, made>>
  BY DEF SaveWrite, Lost
<1>3. now \in Nat /\ revision \in Nat
  BY OfTab DEF Revision
<1>4. edits = doc[DeviceOf[p]] /\ after = [sent EXCEPT ![DeviceOf[p]] = @ \union t.batch \union t.whole]
  OBVIOUS
<1>5. DeviceOf[p] \in Devices
  BY OfTab
<1> HIDE DEF t, now, revision, edits
<1>6. s \in Provider
  BY <1>1, <1>3 DEF Provider
<1>7. /\ Keeps(t, s) /\ s.pending = t.pending /\ s.batch = t.batch
      /\ s.job = t.job /\ s.next = t.next /\ s.drop = t.drop
  BY <1>1 DEF Provider, Keeps
<1> HIDE DEF s
<1>8. Resumes(s, u) \/ Deletes(s, u)
  BY <1>1, <1>6, <1>7, SavedType
<1> HIDE DEF u
<1>9. Resumes(t, u) \/ Deletes(t, u)
  BY <1>7, <1>8 DEF Resumes, Deletes, Keeps, Emptied, Onward
<1>10. Tab(u)
  BY <1>1, <1>9, ResumesTab DEF Tab
<1>11. t.entry \in Manifest(DeltaIds) /\ t.batch \in SUBSET Edits /\ t.whole \in SUBSET Edits
  BY <1>1 DEF Provider, Tab
<1>12. CloudType' /\ MadeType'
  <2>1. CloudType /\ MadeType
    BY TypeParts
  <2>2. manifest' \in [entry : Manifest(DeltaIds), time : Nat]
    BY <1>2, <1>3, <1>11, <2>1 DEF CloudType
  <2>3. sent' \in [Devices -> SUBSET Edits]
    BY <1>2, <1>5, <1>11, <2>1 DEF MadeType
  <2> QED BY <1>2, <2>1, <2>2, <2>3 DEF CloudType, MadeType
<1>13. UNCHANGED manifest \/ manifest'.entry = t.entry
  BY <1>2
<1>14. CASE Goes(p, Failed(t)) /\ UNCHANGED sent
  <2>1. Fails(t, Failed(t))
    BY <1>1, FailedType
  <2>2. TypeInv' /\ tab'[p] = Failed(t)
    BY <1>2, <1>12, <1>14, <2>1, FileStepType DEF Fails
  <2> QED BY <1>13, <1>14, <2>1, <2>2 DEF t
<1>15. CASE Goes(p, u) /\ sent' = after /\ manifest' = [entry |-> t.entry, time |-> now]
  <2>1. TypeInv' /\ tab'[p] = u
    BY <1>2, <1>10, <1>12, <1>15, FileStepType
  <2> QED BY <1>4, <1>9, <1>15, <2>1 DEF t
<1> QED
  BY <1>2, <1>14, <1>15

\* Deleting a replaced delta keeps the state well formed.
LEMMA DeleteDeltaType ==
  ASSUME TypeInv, NEW p \in Tabs, NEW id \in DeltaIds, DeleteDelta(p, id)
  PROVE  /\ TypeInv' /\ DOMAIN deltas' \in {DOMAIN deltas, DOMAIN deltas \ {id}}
         /\ LET t == tab[p]
                u == tab'[p]
            IN Resumes(t, u) \/ Deletes(t, u)
<1> DEFINE t == tab[p]
           edits == doc[DeviceOf[p]]
           drop == t.drop \ {id}
           rest == [t EXCEPT !.drop = drop]
<1>1. t \in Provider /\ Tab(t) /\ t.pc = "delete" /\ edits \in SUBSET Edits /\ t.job \in BaseJobs
  BY OfTab DEF DeleteDelta, Tab, JobFits
<1>2. /\ Goes(p, BaseDone(rest, edits)) \/ Goes(p, rest)
      /\ UNCHANGED deltas \/ deltas' = [i \in DOMAIN deltas \ {id} |-> deltas[i]]
      /\ UNCHANGED <<base, manifest, local, made, sent>>
  BY DEF DeleteDelta
<1> HIDE DEF t, edits
<1>3. t.drop \in SUBSET DeltaIds
  BY <1>1 DEF Provider
<1>4. drop \in SUBSET DeltaIds /\ drop \subseteq t.drop
  BY <1>3
<1> HIDE DEF drop
<1>5. rest \in Provider
  BY <1>1, <1>4 DEF Provider
<1>6. /\ Keeps(t, rest) /\ rest.pending = t.pending /\ rest.batch = t.batch
      /\ rest.job = t.job /\ rest.drop = drop /\ rest.pc = "delete"
  BY <1>1 DEF Provider, Keeps
<1> HIDE DEF rest
<1>7. Resumes(t, BaseDone(rest, edits))
  <2>1. Resumes(rest, BaseDone(rest, edits))
    BY <1>1, <1>5, <1>6, BaseDoneType
  <2> QED BY <1>6, <2>1 DEF Resumes, Keeps, Emptied, Onward
<1>8. Deletes(t, rest)
  BY <1>1, <1>4, <1>5, <1>6 DEF Deletes
<1>9. CloudType' /\ MadeType'
  <2>1. CloudType /\ MadeType
    BY TypeParts
  <2> QED BY <1>2, <2>1 DEF CloudType, MadeType
<1>10. DOMAIN deltas' \in {DOMAIN deltas, DOMAIN deltas \ {id}}
  BY <1>2
<1>11. ASSUME NEW u, Goes(p, u), Resumes(t, u) \/ Deletes(t, u)
       PROVE  TypeInv' /\ (Resumes(tab[p], tab'[p]) \/ Deletes(tab[p], tab'[p]))
  <2>1. Tab(u)
    BY <1>1, <1>11, ResumesTab DEF Tab
  <2>2. TypeInv' /\ tab'[p] = u
    BY <1>2, <1>9, <1>11, <2>1, FileStepType
  <2> QED BY <1>11, <2>2 DEF t
<1> QED
  BY <1>2, <1>7, <1>8, <1>10, <1>11

\* The report to the application keeps the state well formed.
LEMMA CallbackType ==
  ASSUME TypeInv, NEW p \in Tabs, Callback(p)
  PROVE  /\ TypeInv'
         /\ LET t == tab[p]
                u == tab'[p]
            IN Waits(t, u) /\ u.pc \in {"pull", "complete"} /\ u.entry = t.entry /\ u.got = t.got
<1> DEFINE t == tab[p]
<1>1. t \in Provider /\ Tab(t)
  BY OfTab
<1>2. \/ Goes(p, [t EXCEPT !.pc = "pull", !.pull = FALSE, !.post = TRUE])
      \/ Goes(p, [t EXCEPT !.pc = "complete"])
  BY DEF Callback
<1>3. UNCHANGED <<cloud, local, made, sent>>
  BY DEF Callback
<1> HIDE DEF t
<1>4. PICK u : /\ Goes(p, u)
               /\ \/ u = [t EXCEPT !.pc = "pull", !.pull = FALSE, !.post = TRUE]
                  \/ u = [t EXCEPT !.pc = "complete"]
  BY <1>2
<1>5. u \in Provider
  <2>1. "pull" \in Stages /\ "complete" \in Stages
    BY DEF Stages
  <2>2. CASE u = [t EXCEPT !.pc = "pull", !.pull = FALSE, !.post = TRUE]
    BY <1>1, <2>1, <2>2 DEF Provider
  <2>3. CASE u = [t EXCEPT !.pc = "complete"]
    BY <1>1, <2>1, <2>3 DEF Provider
  <2> QED BY <1>4, <2>2, <2>3
<1>6. /\ u.on = t.on /\ u.bound = t.bound /\ u.kind = t.kind /\ u.full = t.full
      /\ u.pending = t.pending /\ u.batch = t.batch /\ u.whole = t.whole /\ u.entry = t.entry /\ u.got = t.got
      /\ u.pc \in {"pull", "complete"}
  BY <1>1, <1>4 DEF Provider
<1>7. Waits(t, u)
  BY <1>1, <1>5, <1>6 DEF Waits, Tab, JobFits
<1>8. TypeInv' /\ tab'[p] = u
  BY <1>3, <1>4, <1>7, OnlyTabType, OneTab, TypeParts DEF Waits
<1> QED
  BY <1>6, <1>7, <1>8 DEF t

\* The end of a pass keeps the state well formed.
LEMMA CompleteType ==
  ASSUME TypeInv, NEW p \in Tabs, Complete(p)
  PROVE  /\ TypeInv'
         /\ LET t == tab[p]
                u == tab'[p]
            IN /\ u.on /\ u.bound = t.bound /\ u.pending = t.pending /\ u.full = t.full
               /\ u.pc = "idle" /\ u.kind = "none" /\ u.entry = t.entry /\ u.got = Unread
               /\ u.batch = {} /\ u.whole = {}
         /\ Left(p) \in BOOLEAN /\ dirty' = [dirty EXCEPT ![DeviceOf[p]] = Left(p)]
         /\ parted' \in [Devices -> BOOLEAN]
         /\ \A d \in Devices :
              parted[d] => parted'[d] \/ (d = DeviceOf[p] /\ ~Left(p) /\ ~InMemory(tab[p]))
<1> DEFINE t == tab[p]
           v == [t EXCEPT !.on = TRUE, !.ok = TRUE]
           d == DeviceOf[p]
           left == Left(p)
<1>1. t \in Provider /\ Tab(t) /\ d \in Devices
  BY OfTab
<1>2. /\ Goes(p, Rest(v)) /\ dirty' = [dirty EXCEPT ![d] = left]
      /\ UNCHANGED <<cloud, doc, made, sent>>
  BY DEF Complete
<1>3. InMemory(t) \in BOOLEAN /\ left \in BOOLEAN
  BY OfTab DEF InMemory, Left, Provider
<1>4. PICK clears \in BOOLEAN :
        parted' = [parted EXCEPT ![d] = @ /\ (~clears \/ left \/ InMemory(t))]
  BY <1>1 DEF Complete, Provider
<1>5. left = Left(p)
  OBVIOUS
<1> HIDE DEF t, left
<1>6. v \in Provider
  BY <1>1 DEF Provider
<1>7. /\ v.on = TRUE /\ v.bound = t.bound /\ v.pending = t.pending /\ v.full = t.full
      /\ v.entry = t.entry
  BY <1>1 DEF Provider
<1> HIDE DEF v
<1>8. LET u == Rest(v)
      IN /\ Tab(u) /\ u.on /\ u.bound = t.bound /\ u.pending = t.pending /\ u.full = t.full
         /\ u.pc = "idle" /\ u.kind = "none" /\ u.entry = t.entry /\ u.got = Unread
               /\ u.batch = {} /\ u.whole = {}
  BY <1>6, <1>7, RestType
<1>9. TabsType' /\ tab'[p] = Rest(v)
  BY <1>2, <1>8, OneTab, TypeParts
<1>10. LocalType
  BY TypeParts
<1>11. parted' \in [Devices -> BOOLEAN] /\ dirty' \in [Devices -> BOOLEAN]
  BY <1>1, <1>2, <1>3, <1>4, <1>10 DEF LocalType
<1>12. TypeInv'
  <2>1. LocalType'
    BY <1>2, <1>10, <1>11 DEF LocalType
  <2> QED BY <1>2, <1>9, <2>1, TabStepType
<1>13. \A c \in Devices : parted[c] => parted'[c] \/ (c = d /\ ~left /\ ~InMemory(t))
  BY <1>1, <1>3, <1>4, <1>10 DEF LocalType
<1> QED
  BY <1>2, <1>3, <1>5, <1>8, <1>9, <1>11, <1>12, <1>13 DEF t

\* The state is well formed from the start.
LEMMA InitType == ASSUME Init PROVE TypeInv
<1>1. NoEntry \in Manifest(DeltaIds)
  BY EmptyType
<1>2. CloudType
  BY DEF Init, CloudType, Manifest
<1>3. LocalType /\ MadeType
  BY DEF Init, LocalType, MadeType
<1>4. TabsType
  BY FreshType DEF Init, TabsType, Tab
<1> QED
  BY <1>2, <1>3, <1>4, TypeParts

\* Every step keeps the state well formed.
LEMMA NextType == ASSUME TypeInv, [Next]_vars PROVE TypeInv'
<1>1. ASSUME NEW p \in Tabs, Step(p) PROVE TypeInv'
  <2>1. CASE \E part \in {"content", "files", "seen"} : Read(p, part) \/ SaveRead(p, part)
    BY <2>1, ReadType, SaveReadType DEF Parts
  <2>2. CASE \E id \in DeltaIds : PullDelta(p, id) \/ DeleteDelta(p, id)
    BY <2>2, PullDeltaType, DeleteDeltaType
  <2> QED
    BY <1>1, <2>1, <2>2, CheckType, ListType, BodyType, PullBaseType, PushType,
       UploadBaseType, UploadDeltaType, SaveWriteType, CallbackType, CompleteType DEF Step
<1>2. CASE UNCHANGED vars
  BY <1>2 DEF TypeInv, TypeOK, vars, cloud, local
<1>3. CASE Next
  BY <1>1, <1>3, EditType, ConnectType, DisconnectType, CrashType, FailType, BeginType DEF Next
<1> QED
  BY <1>2, <1>3

-----------------------------------------------------------------------------
(* When passes take turns, the manifest refers to no deleted file.         *)

\* The names of delta files that were ever given: the file exists, or the
\* manifest holds its tombstone.
Used == DOMAIN deltas \union manifest.entry.gone

\* What a tab knows of delta files, given the manifest entry m and the delta
\* files ids: it knows none that was never given; while it saves, what it has
\* read again is as it was; the entry it is about to write refers to existing
\* files and forgets no tombstone; and it deletes only what is buried.
Clear(t, m, ids) ==
  /\ t.entry.deltas \union t.entry.gone \subseteq ids \union m.gone
  /\ t.got.content.deltas \union t.got.content.gone \subseteq ids \union m.gone
  /\ t.got.files.deltas \subseteq ids \union m.gone
  /\ t.pc = "save" /\ "content" \notin t.todo => t.got.content = m
  /\ t.pc = "save" /\ "files" \notin t.todo => t.got.files.deltas = ids
  /\ t.pc = "write" => /\ m.gone \subseteq t.entry.gone
                       /\ t.entry.deltas \subseteq ids \ t.entry.gone
  /\ t.pc = "putBase" => /\ t.drop \subseteq t.entry.deltas
                         /\ t.job = "verify" => t.drop = {}
  /\ t.pc \in {"save", "write"} /\ t.job \in BaseJobs => t.drop \subseteq t.entry.gone
  /\ t.pc = "delete" => t.drop \subseteq m.gone

\* A workspace that is used on one device, in any number of tabs: its web lock
\* keeps their passes apart.
OneDevice == \A c, d \in Devices : c = d

\* Only one tab is in a pass.
Alone == \A p, q \in Tabs : p # q => tab[p].pc = "idle" \/ tab[q].pc = "idle"

Numbered(ids) == \E k \in Nat : ids = 1..k

Grounded ==
  /\ Alone /\ Numbered(Used)
  /\ manifest.entry.deltas \subseteq DOMAIN deltas \ manifest.entry.gone
  /\ \A p \in Tabs : Clear(tab[p], manifest.entry, DOMAIN deltas)

\* A tab between two passes is clear of what another one does to the files.
LEMMA IdleIsClear ==
  ASSUME NEW t, NEW m, NEW ids, NEW n, NEW ids2, Clear(t, m, ids), t.pc = "idle",
         ids \union m.gone \subseteq ids2 \union n.gone
  PROVE  Clear(t, n, ids2)
BY DEF Clear

\* Only one tab goes on, and the others stay as they are.
LEMMA TurnIsGrounded ==
  ASSUME Grounded, NEW p \in Tabs, \A q \in Tabs \ {p} : tab'[q] = tab[q],
         \/ \A q \in Tabs \ {p} : tab[q].pc = "idle"
         \/ tab'[p].pc = "idle" /\ UNCHANGED cloud,
         Clear(tab'[p], manifest'.entry, DOMAIN deltas'),
         Used \subseteq Used', Numbered(Used'),
         manifest'.entry.deltas \subseteq DOMAIN deltas' \ manifest'.entry.gone
  PROVE  Grounded'
<1>1. Alone'
  BY DEF Grounded, Alone
<1>2. \A q \in Tabs : Clear(tab'[q], manifest'.entry, DOMAIN deltas')
  <2> SUFFICES ASSUME NEW q \in Tabs \ {p}
               PROVE  Clear(tab[q], manifest'.entry, DOMAIN deltas')
    OBVIOUS
  <2>1. Clear(tab[q], manifest.entry, DOMAIN deltas)
    BY DEF Grounded
  <2>2. CASE tab[q].pc = "idle"
    BY <2>1, <2>2, IdleIsClear DEF Used
  <2>3. CASE UNCHANGED cloud
    BY <2>1, <2>3 DEF cloud
  <2> QED BY <2>2, <2>3
<1> QED
  BY <1>1, <1>2 DEF Grounded

\* ... and leaves the files alone.
LEMMA QuietTurn ==
  ASSUME Grounded, NEW p \in Tabs, \A q \in Tabs \ {p} : tab'[q] = tab[q],
         \/ tab[p].pc # "idle"
         \/ \A q \in Tabs \ {p} : tab[q].pc = "idle"
         \/ tab'[p].pc = "idle",
         UNCHANGED cloud,
         Clear(tab'[p], manifest.entry, DOMAIN deltas)
  PROVE  Grounded'
<1>1. UNCHANGED <<deltas, manifest>>
  BY DEF cloud
<1>2. Used' = Used /\ Numbered(Used)
  BY <1>1 DEF Used, Grounded
<1>3. \/ \A q \in Tabs \ {p} : tab[q].pc = "idle"
      \/ tab'[p].pc = "idle"
  BY DEF Grounded, Alone
<1>4. manifest.entry.deltas \subseteq DOMAIN deltas \ manifest.entry.gone
  BY DEF Grounded
<1> QED
  BY <1>1, <1>2, <1>3, <1>4, TurnIsGrounded

\* A step of one tab leaves the others alone.
LEMMA Others ==
  ASSUME TypeInv, NEW p \in Tabs, NEW u, Goes(p, u)
  PROVE  \A q \in Tabs \ {p} : tab'[q] = tab[q]
BY DEF Goes, TypeInv, TypeOK

\* A step of one tab, seen from any other tab.
LEMMA StepOthers ==
  ASSUME TypeInv, NEW p \in Tabs, Step(p) \/ Fail(p)
  PROVE  \A q \in Tabs \ {p} : tab'[q] = tab[q]
<1>1. \A u : Goes(p, u) => \A q \in Tabs \ {p} : tab'[q] = tab[q]
  BY Others
<1>2. CASE Check(p)
  BY <1>1, <1>2 DEF Check
<1>3. CASE List(p) \/ Body(p)
  BY <1>1, <1>3 DEF List, Body
<1>4. CASE PullBase(p) \/ \E id \in DeltaIds : PullDelta(p, id)
  BY <1>1, <1>4 DEF PullBase, PullDelta
<1>5. CASE Push(p)
  BY <1>1, <1>5 DEF Push
<1>6. CASE \E part \in {"content", "files", "seen"} : Read(p, part)
  BY <1>1, <1>6 DEF Read
<1>7. CASE \E part \in {"content", "files", "seen"} : SaveRead(p, part)
  BY <1>1, <1>7 DEF SaveRead
<1>8. CASE \E id \in DeltaIds : DeleteDelta(p, id)
  BY <1>1, <1>8 DEF DeleteDelta
<1>9. CASE UploadBase(p) \/ UploadDelta(p)
  BY <1>1, <1>9 DEF UploadBase, UploadDelta, Answer, Lost
<1>10. CASE SaveWrite(p)
  BY <1>1, <1>10 DEF SaveWrite, Lost
<1>11. CASE Callback(p) \/ Complete(p) \/ Fail(p)
  BY <1>1, <1>11 DEF Callback, Complete, Fail
<1> QED
  BY <1>2, <1>3, <1>4, <1>5, <1>6, <1>7, <1>8, <1>9, <1>10, <1>11 DEF Step

\* What a tab that failed or finished knows.
LEMMA FailsIsClear ==
  ASSUME NEW t, NEW u, NEW m, NEW ids, Clear(t, m, ids),
         u.pc = "idle", u.got = Unread, u.entry \in {t.entry, NoEntry}
  PROVE  Clear(u, m, ids)
<1>1. u.entry.deltas \union u.entry.gone \subseteq ids \union m.gone
  BY DEF Clear, NoEntry
<1>2. Unread.content.deltas = {} /\ Unread.content.gone = {} /\ Unread.files.deltas = {}
  BY DEF Unread, NoEntry, NoFiles
<1> QED
  BY <1>1, <1>2 DEF Clear

\* A tab that neither saves nor uploads.
LEMMA WaitsIsClear ==
  ASSUME NEW t, NEW u, NEW m, NEW ids, Clear(t, m, ids),
         u.pc \in {"check", "read", "pull", "complete"}, u.entry = t.entry, u.got = t.got
  PROVE  Clear(u, m, ids)
BY DEF Clear

\* An upload that is done.
LEMMA ResumesIsClear ==
  ASSUME NEW t, NEW u, NEW m, NEW ids, Resumes(t, u),
         t.entry.deltas \union t.entry.gone \subseteq ids \union m.gone,
         t.got.content.deltas \union t.got.content.gone \subseteq ids \union m.gone,
         t.got.files.deltas \subseteq ids \union m.gone
  PROVE  Clear(u, m, ids)
BY DEF Clear, Resumes, Keeps, Onward, BaseJobs

\* A tab that deletes only what is buried is clear.
LEMMA DeletesIsClear ==
  ASSUME NEW t, NEW u, NEW m, NEW ids, Deletes(t, u), t.drop \subseteq m.gone,
         t.entry.deltas \union t.entry.gone \subseteq ids \union m.gone,
         t.got.content.deltas \union t.got.content.gone \subseteq ids \union m.gone,
         t.got.files.deltas \subseteq ids \union m.gone
  PROVE  Clear(u, m, ids)
BY DEF Clear, Deletes, Keeps, BaseJobs

\* What a request brings is known.
LEMMA AnsweredIsKnown ==
  ASSUME TypeInv, Grounded, NEW p \in Tabs, NEW part \in Parts
  PROVE  LET c == Answered(tab[p], part).got.content
             f == Answered(tab[p], part).got.files
         IN c.deltas \union c.gone \subseteq Used /\ f.deltas \subseteq Used
<1>1. Clear(tab[p], manifest.entry, DOMAIN deltas) /\ tab[p] \in Provider
  BY OfTab DEF Grounded
<1>2. manifest.entry.deltas \subseteq DOMAIN deltas /\ Files.deltas = DOMAIN deltas
  BY DEF Grounded, Files
<1> DEFINE a == Answered(tab[p], part)
<1>3. a.got.content \in {manifest.entry, tab[p].got.content} /\ a.got.files \in {Files, tab[p].got.files}
  BY <1>1, AnsweredType
<1> HIDE DEF a
<1>4. a.got.content.deltas \union a.got.content.gone \subseteq Used /\ a.got.files.deltas \subseteq Used
  BY <1>1, <1>2, <1>3 DEF Clear, Used
<1> QED
  BY <1>4 DEF a

\* A manifest that was read and completed from a listing is known.
LEMMA ReconciledIsKnown ==
  ASSUME NEW m \in Manifest(DeltaIds), NEW files \in Listing(DeltaIds), NEW known,
         m.deltas \union m.gone \subseteq known, files.deltas \subseteq known
  PROVE  LET e == Reconcile(m, files) IN e.deltas \union e.gone \subseteq known
BY ReconcileType

\* A tab whose pass has read the manifest.
LEMMA LoadedIsClear ==
  ASSUME NEW u, NEW m, NEW ids, u.pc = "pull", u.got = Unread,
         u.entry.deltas \union u.entry.gone \subseteq ids \union m.gone
  PROVE  Clear(u, m, ids)
<1>1. Unread.content.deltas = {} /\ Unread.content.gone = {} /\ Unread.files.deltas = {}
  BY DEF Unread, NoEntry, NoFiles
<1> QED
  BY <1>1 DEF Clear

\* What holds at the beginning of any step.
LEMMA OfGrounded ==
  ASSUME TypeInv, Grounded, NEW p \in Tabs
  PROVE  /\ Clear(tab[p], manifest.entry, DOMAIN deltas)
         /\ manifest.entry.deltas \subseteq DOMAIN deltas \ manifest.entry.gone
         /\ Numbered(Used)
         /\ tab[p].pc # "idle" => \A q \in Tabs \ {p} : tab[q].pc = "idle"
BY DEF Grounded, Alone

\* An edit touches no file, and no knowledge of files.
LEMMA EditGrounded == ASSUME TypeInv, Grounded, NEW p \in Tabs, Edit(p) PROVE Grounded'
<1> DEFINE t == tab[p]
           e == Cardinality(AllMade) + 1
           u == [t EXCEPT !.pending = @ \union {e}]
<1>1. UNCHANGED cloud
  BY DEF Edit
<1>2. Goes(p, u) \/ UNCHANGED tab
  BY DEF Edit, Goes
<1>3. CASE UNCHANGED tab
  BY <1>1, <1>3 DEF Grounded, Alone, Numbered, Used, Clear, cloud
<1>4. CASE Goes(p, u)
  <2>1. t \in Provider /\ Clear(t, manifest.entry, DOMAIN deltas)
    BY OfTab, OfGrounded
  <2>2. tab'[p] = u /\ \A q \in Tabs \ {p} : tab'[q] = tab[q]
    BY <1>4 DEF Goes, TypeInv, TypeOK
  <2> HIDE DEF t, e
  <2>3. /\ u.entry = t.entry /\ u.got = t.got /\ u.pc = t.pc /\ u.todo = t.todo
        /\ u.drop = t.drop /\ u.job = t.job
    BY <2>1 DEF Provider
  <2> HIDE DEF u
  <2>4. Clear(u, manifest.entry, DOMAIN deltas)
    BY <2>1, <2>3 DEF Clear
  <2>5. u.pc = "idle" \/ tab[p].pc # "idle"
    BY <2>3 DEF t
  <2> QED BY <1>1, <2>2, <2>4, <2>5, QuietTurn
<1> QED
  BY <1>2, <1>3, <1>4

\* The tabs of one device share a lock.
LEMMA OneLock ==
  ASSUME OneDevice, NEW p \in Tabs, NEW q \in Tabs PROVE DeviceOf[q] = DeviceOf[p]
BY TabAssumption DEF OneDevice

\* A session that begins or ends knows no file that was never given.
LEMMA SessionGrounded ==
  ASSUME OneDevice, TypeInv, Grounded, NEW p \in Tabs,
         \/ Connect(p) \/ Disconnect(p) \/ Crash(p)
         \/ \E kind \in {"auto", "exit", "now"} : Begin(p, kind)
  PROVE  Grounded'
<1>1. Clear(tab[p], manifest.entry, DOMAIN deltas)
  BY OfGrounded
<1>2. CASE Connect(p)
  <2> DEFINE u == Connecting(p)
  <2>1. Goes(p, u) /\ UNCHANGED cloud /\ \A q \in Tabs \ {p} : tab[q].pc = "idle"
    BY <1>2, OneLock DEF Connect, Goes, Connecting, Unlocked
  <2>2. u.pc = "list" /\ u.entry = NoEntry /\ u.got = Unread
    BY ConnectingType
  <2> HIDE DEF u
  <2>3. Clear(u, manifest.entry, DOMAIN deltas)
    BY <2>2 DEF Clear, Unread, NoEntry, NoFiles
  <2>4. tab'[p] = u /\ \A q \in Tabs \ {p} : tab'[q] = tab[q]
    BY <2>1 DEF Goes, TypeInv, TypeOK
  <2> QED BY <2>1, <2>3, <2>4, QuietTurn
<1>3. CASE Disconnect(p) \/ Crash(p)
  <2>1. Goes(p, Fresh) /\ UNCHANGED cloud
    BY <1>3 DEF Disconnect, Crash, Goes
  <2>2. Fresh.pc = "idle" /\ Fresh.entry = NoEntry /\ Fresh.got = Unread
    BY DEF Fresh
  <2>3. Clear(Fresh, manifest.entry, DOMAIN deltas)
    BY <1>1, <2>2, FailsIsClear
  <2>4. tab'[p] = Fresh /\ \A q \in Tabs \ {p} : tab'[q] = tab[q]
    BY <2>1 DEF Goes, TypeInv, TypeOK
  <2> QED BY <2>1, <2>2, <2>3, <2>4, QuietTurn
<1>4. ASSUME NEW kind \in {"auto", "exit", "now"}, Begin(p, kind) PROVE Grounded'
  <2> DEFINE u == Beginning(p, kind)
  <2>1. Goes(p, u) /\ UNCHANGED cloud /\ \A q \in Tabs \ {p} : tab[q].pc = "idle"
    BY <1>4, OneLock DEF Begin, Goes, Beginning, Unlocked
  <2>2. u.pc \in {"check", "pull"} /\ u.entry = tab[p].entry /\ u.got = tab[p].got
    BY BeginningType
  <2> HIDE DEF u
  <2>3. Clear(u, manifest.entry, DOMAIN deltas)
    BY <1>1, <2>2, WaitsIsClear
  <2>4. tab'[p] = u /\ \A q \in Tabs \ {p} : tab'[q] = tab[q]
    BY <2>1 DEF Goes, TypeInv, TypeOK
  <2> QED BY <2>1, <2>3, <2>4, QuietTurn
<1> QED
  BY <1>2, <1>3, <1>4

\* The steps of a pass that leave the files alone.
LEMMA ReadingGrounded ==
  ASSUME TypeInv, Grounded, NEW p \in Tabs,
         \/ Check(p) \/ List(p) \/ Body(p) \/ PullBase(p) \/ Push(p) \/ Callback(p)
         \/ Complete(p) \/ Fail(p)
         \/ \E part \in Parts : Read(p, part)
         \/ \E id \in DeltaIds : PullDelta(p, id)
  PROVE  Grounded'
<1> DEFINE t == tab[p]
           u == tab'[p]
           m == manifest.entry
           ids == DOMAIN deltas
<1>1. /\ t \in Provider /\ Clear(t, m, ids) /\ m.deltas \subseteq ids
      /\ m \in Manifest(DeltaIds) /\ Used = ids \union m.gone
  BY OfTab, OfGrounded DEF Used
<1>2. \A q \in Tabs \ {p} : tab'[q] = tab[q]
  BY StepOthers DEF Step, Parts
<1>3. UNCHANGED cloud /\ t.pc # "idle"
  BY DEF Check, List, Body, PullBase, Push, Callback, Complete, Fail, Read, PullDelta
<1>4. SUFFICES Clear(u, m, ids)
  BY <1>2, <1>3, QuietTurn
<1> HIDE DEF u, t, m, ids
<1>5. ASSUME Fails(t, u) PROVE Clear(u, m, ids)
  BY <1>1, <1>5, FailsIsClear DEF Fails
<1>6. CASE Check(p) \/ PullBase(p) \/ Callback(p) \/ \E id \in DeltaIds : PullDelta(p, id)
  <2>1. \/ Fails(t, u)
        \/ u.pc \in {"check", "read", "pull", "complete"} /\ u.entry = t.entry /\ u.got = t.got
    BY <1>6, CheckType, PullBaseType, CallbackType, PullDeltaType DEF t, u
  <2> QED BY <1>1, <1>5, <2>1, WaitsIsClear
<1>7. CASE List(p)
  <2>1. u.pc = "body" /\ u.entry = t.entry /\ u.got.content = t.got.content /\ u.got.files.deltas = ids
    BY <1>7, ListType DEF t, u, ids, Files
  <2> QED BY <1>1, <2>1 DEF Clear
<1>8. CASE Body(p)
  <2>1. \/ Fails(t, u)
        \/ u.pc = "pull" /\ u.got = Unread /\ u.entry = Reconcile(m, t.got.files)
    BY <1>8, BodyType DEF t, u, m
  <2>2. t.got.files \in Listing(DeltaIds) /\ t.got.files.deltas \subseteq ids \union m.gone
    BY <1>1 DEF Provider, Gotten, Clear
  <2>3. LET e == Reconcile(m, t.got.files) IN e.deltas \union e.gone \subseteq ids \union m.gone
    BY <1>1, <2>2, ReconciledIsKnown
  <2> QED BY <1>5, <2>1, <2>3, LoadedIsClear
<1>9. CASE Push(p)
  <2>1. Pushes(t, u, doc[DeviceOf[p]])
    BY <1>9, PushType DEF t, u
  <2> QED BY <1>1, <2>1 DEF Clear, Pushes, BaseJobs
<1>10. CASE Complete(p)
  BY <1>1, <1>10, CompleteType, FailsIsClear DEF t, u
<1>11. CASE Fail(p)
  <2>1. u = Failed(t)
    BY <1>11 DEF Fail, Goes, TypeInv, TypeOK, t, u
  <2> QED BY <1>1, <1>5, <2>1, FailedType
<1>12. ASSUME NEW part \in Parts, Read(p, part) PROVE Clear(u, m, ids)
  <2> DEFINE a == Answered(t, part)
  <2>1. /\ a.got.content.deltas \union a.got.content.gone \subseteq ids \union m.gone
        /\ a.got.files.deltas \subseteq ids \union m.gone
    BY <1>1, AnsweredIsKnown DEF t
  <2>2. \/ u.pc = "list" /\ u.entry = t.entry /\ u.got = Unread
        \/ u.pc = "pull" /\ u.got = Unread /\ u.entry = Reconcile(a.got.content, a.got.files)
        \/ u.pc = "read" /\ u.entry = t.entry /\ u.got = a.got
    BY <1>12, ReadType DEF t, u
  <2>3. a.got.content \in Manifest(DeltaIds) /\ a.got.files \in Listing(DeltaIds)
    <3>1. a.got \in Gotten
      BY <1>1, AnsweredType DEF Provider
    <3> QED BY <3>1 DEF Gotten
  <2> HIDE DEF a
  <2>4. LET e == Reconcile(a.got.content, a.got.files)
        IN e.deltas \union e.gone \subseteq ids \union m.gone
    BY <2>1, <2>3, ReconciledIsKnown
  <2>5. CASE u.pc = "list" /\ u.entry = t.entry /\ u.got = Unread
    BY <1>1, <2>5 DEF Clear, Unread, NoEntry, NoFiles
  <2>6. CASE u.pc = "read" /\ u.entry = t.entry /\ u.got = a.got
    BY <1>1, <2>1, <2>6 DEF Clear
  <2> QED BY <2>2, <2>4, <2>5, <2>6, LoadedIsClear
<1> QED
  BY <1>6, <1>7, <1>8, <1>9, <1>10, <1>11, <1>12

\* A new base file gives no delta its name, and removes none.
LEMMA UploadBaseGrounded ==
  ASSUME TypeInv, Grounded, NEW p \in Tabs, UploadBase(p) PROVE Grounded'
<1> DEFINE t == tab[p]
           u == tab'[p]
           m == manifest.entry
           ids == DOMAIN deltas
<1>1. t \in Provider /\ Clear(t, m, ids) /\ t.pc = "putBase"
  BY OfTab, OfGrounded DEF UploadBase
<1>2. \A q \in Tabs \ {p} : tab'[q] = tab[q]
  BY StepOthers DEF Step
<1>3. UNCHANGED <<deltas, manifest>>
  BY DEF UploadBase
<1>4. \/ Fails(t, u)
      \/ /\ Saves(t, u) /\ t.job \in BaseJobs
         /\ u.entry = IF t.job = "verify" THEN NewBase(t.entry) ELSE ClearDeltas(t.entry)
  BY UploadBaseType
<1>5. SUFFICES Clear(u, m, ids)
  <2>1. \A q \in Tabs \ {p} : tab[q].pc = "idle"
    BY <1>1, OfGrounded
  <2>2. Used' = Used /\ Numbered(Used) /\ m.deltas \subseteq ids \ m.gone
    BY <1>3, OfGrounded DEF Used
  <2> QED BY <1>2, <1>3, <1>5, <2>1, <2>2, TurnIsGrounded
<1> HIDE DEF t, u, m, ids
<1>6. CASE Fails(t, u)
  BY <1>1, <1>6, FailsIsClear DEF Fails
<1>7. CASE /\ Saves(t, u) /\ t.job \in BaseJobs
           /\ u.entry = IF t.job = "verify" THEN NewBase(t.entry) ELSE ClearDeltas(t.entry)
  <2>1. t.entry \in Manifest(DeltaIds)
    BY <1>1 DEF Provider
  <2>2. /\ NewBase(t.entry).deltas = t.entry.deltas /\ NewBase(t.entry).gone = t.entry.gone
        /\ ClearDeltas(t.entry).deltas = {}
        /\ ClearDeltas(t.entry).gone = t.entry.gone \union t.entry.deltas
    BY <2>1, ClearType
  <2>3. u.drop \subseteq u.entry.gone
    BY <1>1, <1>7, <2>2 DEF Saves, Clear
  <2>4. u.entry.deltas \union u.entry.gone \subseteq ids \union m.gone
    BY <1>1, <1>7, <2>2 DEF Clear
  <2> QED BY <1>1, <1>7, <2>3, <2>4 DEF Saves, Clear
<1> QED
  BY <1>4, <1>6, <1>7

\* The name that a new delta file gets was never given before.
LEMMA NewDeltaIsNew ==
  ASSUME TypeInv, Grounded
  PROVE  /\ NewDelta \notin Used /\ Numbered(Used \union {NewDelta})
<1>1. PICK k \in Nat : Used = 1..k
  BY DEF Grounded, Numbered
<1>2. \A q \in Tabs : tab[q].entry.gone \subseteq Used
  BY DEF Grounded, Clear, Used
<1>3. DOMAIN deltas \union manifest.entry.gone \union UNION {tab[q].entry.gone : q \in Tabs} = Used
  BY <1>2 DEF Used
<1>4. NewDelta = Cardinality(1..k) + 1
  BY <1>1, <1>3 DEF NewDelta
<1>5. Cardinality(1..k) = k
  BY FS_Interval
<1>6. NewDelta = k + 1 /\ k + 1 \in Nat
  BY <1>4, <1>5
<1>7. Used \union {NewDelta} = 1..(k + 1)
  BY <1>1, <1>6
<1> QED
  BY <1>1, <1>6, <1>7 DEF Numbered

\* A new delta has a name that nobody knew.
LEMMA UploadDeltaGrounded ==
  ASSUME TypeInv, Grounded, NEW p \in Tabs, UploadDelta(p) PROVE Grounded'
<1> DEFINE t == tab[p]
           u == tab'[p]
           m == manifest.entry
           ids == DOMAIN deltas \union {NewDelta}
<1>1. /\ t \in Provider /\ Clear(t, m, DOMAIN deltas) /\ t.pc = "putDelta"
      /\ m.deltas \subseteq DOMAIN deltas \ m.gone
  BY OfTab, OfGrounded DEF UploadDelta
<1>2. \A q \in Tabs \ {p} : tab'[q] = tab[q]
  BY StepOthers DEF Step
<1>3. UNCHANGED manifest /\ DOMAIN deltas' = ids /\ NewDelta \in DeltaIds
  BY UploadDeltaType DEF UploadDelta
<1>4. \/ Fails(t, u)
      \/ Saves(t, u) /\ u.entry = AddDelta(t.entry, NewDelta) /\ u.job = "delta"
  BY UploadDeltaType
<1>5. Used' = Used \union {NewDelta}
  BY <1>3 DEF Used
<1>6. SUFFICES Clear(u, m, ids)
  <2>1. \A q \in Tabs \ {p} : tab[q].pc = "idle"
    BY <1>1, OfGrounded
  <2>2. Numbered(Used') /\ Used \subseteq Used' /\ m.deltas \subseteq ids \ m.gone
    <3>1. m.gone \subseteq Used /\ NewDelta \notin Used /\ Numbered(Used \union {NewDelta})
      BY NewDeltaIsNew DEF Used
    <3> QED BY <1>1, <1>5, <3>1
  <2> QED BY <1>2, <1>3, <1>6, <2>1, <2>2, TurnIsGrounded
<1>7. Clear(t, m, ids)
  BY <1>1 DEF Clear
<1>8. t.entry \in Manifest(DeltaIds)
  BY <1>1 DEF Provider
<1> HIDE DEF t, u, m
<1>9. CASE Fails(t, u)
  BY <1>7, <1>9, FailsIsClear DEF Fails
<1>10. CASE Saves(t, u) /\ u.entry = AddDelta(t.entry, NewDelta) /\ u.job = "delta"
  <2>1. /\ u.entry.deltas = t.entry.deltas \union {NewDelta}
        /\ u.entry.gone = t.entry.gone \ {NewDelta}
    BY <1>3, <1>8, <1>10, AddDeltaType
  <2>2. NewDelta \in ids
    OBVIOUS
  <2> HIDE DEF ids
  <2>3. u.entry.deltas \union u.entry.gone \subseteq ids \union m.gone
    BY <1>7, <2>1, <2>2 DEF Clear
  <2> QED BY <1>7, <1>10, <2>3 DEF Saves, Clear, BaseJobs
<1> QED
  BY <1>4, <1>9, <1>10

\* A save that read everything again writes an entry without loose ends.
LEMMA SaveReadGrounded ==
  ASSUME TypeInv, Grounded, NEW p \in Tabs, NEW part \in Parts, SaveRead(p, part)
  PROVE  Grounded'
<1> DEFINE t == tab[p]
           a == Answered(t, part)
           u == tab'[p]
           m == manifest.entry
           ids == DOMAIN deltas
<1>1. /\ t \in Provider /\ Clear(t, m, ids) /\ t.pc = "save"
      /\ m.deltas \subseteq ids \ m.gone
  BY OfTab, OfGrounded DEF SaveRead
<1>2. \A q \in Tabs \ {p} : tab'[q] = tab[q]
  BY StepOthers DEF Step, Parts
<1>3. UNCHANGED cloud /\ t.pc # "idle"
  BY DEF SaveRead
<1>4. SUFFICES Clear(u, m, ids)
  BY <1>2, <1>3, QuietTurn
<1>5. /\ a.got.content.deltas \union a.got.content.gone \subseteq ids \union m.gone
      /\ a.got.files.deltas \subseteq ids \union m.gone
  BY AnsweredIsKnown DEF Used
<1>6. \/ Fails(t, u)
      \/ /\ Rereads(t, u) /\ u.pc = "save" /\ u.todo = t.todo \ {part}
         /\ u.entry = t.entry /\ u.got = a.got
      \/ /\ Rereads(t, u) /\ u.pc = "write" /\ t.todo \subseteq {part}
         /\ u.entry = Join(a.got.content, t.entry, a.got.files) /\ u.got = Unread
  BY SaveReadType
<1>7. /\ a.got.content = IF part = "content" THEN m ELSE t.got.content
      /\ a.got.files = IF part = "files" THEN Files ELSE t.got.files
      /\ Files.deltas = ids /\ a.got \in Gotten
  BY <1>1, AnsweredType DEF Files, Provider
<1> HIDE DEF t, a, u, m, ids
<1>8. CASE Fails(t, u)
  BY <1>1, <1>8, FailsIsClear DEF Fails
<1>9. CASE /\ Rereads(t, u) /\ u.pc = "save" /\ u.todo = t.todo \ {part}
           /\ u.entry = t.entry /\ u.got = a.got
  <2>1. "content" \notin u.todo => u.got.content = m
    BY <1>1, <1>7, <1>9 DEF Clear
  <2>2. "files" \notin u.todo => u.got.files.deltas = ids
    BY <1>1, <1>7, <1>9 DEF Clear
  <2> QED BY <1>1, <1>5, <1>9, <2>1, <2>2 DEF Clear, Rereads
<1>10. CASE /\ Rereads(t, u) /\ u.pc = "write" /\ t.todo \subseteq {part}
            /\ u.entry = Join(a.got.content, t.entry, a.got.files) /\ u.got = Unread
  <2>1. a.got.content = m /\ a.got.files.deltas = ids
    BY <1>1, <1>7, <1>10 DEF Clear
  <2>2. t.entry \in Manifest(DeltaIds)
    BY <1>1 DEF Provider
  <2>3. a.got.content \in Manifest(DeltaIds) /\ a.got.files \in Listing(DeltaIds)
    BY <1>7 DEF Gotten
  <2>4. /\ u.entry.gone = a.got.content.gone \union t.entry.gone
        /\ u.entry.deltas = (a.got.content.deltas \union t.entry.deltas \union a.got.files.deltas)
                            \ (a.got.content.gone \union t.entry.gone)
    <3> DEFINE c == a.got.content
               f == a.got.files
    <3>1. c \in Manifest(DeltaIds) /\ f \in Listing(DeltaIds)
      BY <2>3
    <3>2. u.entry = Join(c, t.entry, f)
      BY <1>10
    <3> HIDE DEF c, f
    <3>3. Join(c, t.entry, f).gone = c.gone \union t.entry.gone
      BY <2>2, <3>1, JoinType, ZenonT(30)
    <3>4. Join(c, t.entry, f).deltas = (c.deltas \union t.entry.deltas \union f.deltas)
                                       \ (c.gone \union t.entry.gone)
      BY <2>2, <3>1, JoinType, ZenonT(30)
    <3> QED BY <3>2, <3>3, <3>4 DEF c, f
  <2>5. t.entry.deltas \union t.entry.gone \subseteq ids \union m.gone
    BY <1>1 DEF Clear
  <2>6. /\ u.entry.deltas \union u.entry.gone \subseteq ids \union m.gone
        /\ m.gone \subseteq u.entry.gone /\ u.entry.deltas \subseteq ids \ u.entry.gone
        /\ t.entry.gone \subseteq u.entry.gone
    BY <1>1, <2>1, <2>4, <2>5
  <2>7. u.job \in BaseJobs => u.drop \subseteq u.entry.gone
    BY <1>1, <1>10, <2>6 DEF Clear, Rereads
  <2>8. Unread.content.deltas = {} /\ Unread.content.gone = {} /\ Unread.files.deltas = {}
    BY DEF Unread, NoEntry, NoFiles
  <2> QED BY <1>10, <2>6, <2>7, <2>8 DEF Clear
<1> QED
  BY <1>6, <1>8, <1>9, <1>10

\* The entry that is written refers to files that exist.
LEMMA SaveWriteGrounded ==
  ASSUME TypeInv, Grounded, NEW p \in Tabs, SaveWrite(p) PROVE Grounded'
<1> DEFINE t == tab[p]
           u == tab'[p]
           m == manifest.entry
           n == manifest'.entry
           ids == DOMAIN deltas
<1>1. /\ t \in Provider /\ Clear(t, m, ids) /\ t.pc = "write"
      /\ m.deltas \subseteq ids \ m.gone
  BY OfTab, OfGrounded DEF SaveWrite
<1>2. \A q \in Tabs \ {p} : tab'[q] = tab[q]
  BY StepOthers DEF Step
<1>3. UNCHANGED deltas
  BY DEF SaveWrite
<1>4. n \in {m, t.entry}
  BY SaveWriteType
<1>5. /\ t.entry.gone \subseteq ids \union m.gone /\ m.gone \subseteq t.entry.gone
      /\ t.entry.deltas \subseteq ids \ t.entry.gone
  BY <1>1 DEF Clear
<1>6. ids \union n.gone = ids \union m.gone /\ n.deltas \subseteq ids \ n.gone
  BY <1>1, <1>4, <1>5
<1>7. SUFFICES Clear(u, n, ids)
  <2>1. \A q \in Tabs \ {p} : tab[q].pc = "idle"
    BY <1>1, OfGrounded
  <2>2. Used' = Used /\ Numbered(Used)
    BY <1>3, <1>6, OfGrounded DEF Used
  <2> QED BY <1>2, <1>3, <1>6, <1>7, <2>1, <2>2, TurnIsGrounded
<1>8. \/ Fails(t, u)
      \/ (Resumes(t, u) \/ Deletes(t, u)) /\ n = t.entry
  BY SaveWriteType
<1> HIDE DEF t, u, m, n, ids
<1>9. /\ t.entry.deltas \union t.entry.gone \subseteq ids \union n.gone
      /\ t.got.content.deltas \union t.got.content.gone \subseteq ids \union n.gone
      /\ t.got.files.deltas \subseteq ids \union n.gone
  BY <1>1, <1>6 DEF Clear
<1>10. CASE Fails(t, u)
  <2>1. Unread.content.deltas = {} /\ Unread.content.gone = {} /\ Unread.files.deltas = {}
    BY DEF Unread, NoEntry, NoFiles
  <2> QED BY <1>9, <1>10, <2>1 DEF Clear, Fails
<1>11. CASE Resumes(t, u)
  BY <1>9, <1>11, ResumesIsClear
<1>12. CASE Deletes(t, u) /\ n = t.entry
  <2>1. t.drop \subseteq n.gone
    BY <1>1, <1>12 DEF Clear, Deletes
  <2> QED BY <1>9, <1>12, <2>1, DeletesIsClear
<1> QED
  BY <1>8, <1>10, <1>11, <1>12

\* A delta is deleted when the manifest has its tombstone.
LEMMA DeleteDeltaGrounded ==
  ASSUME TypeInv, Grounded, NEW p \in Tabs, NEW id \in DeltaIds, DeleteDelta(p, id)
  PROVE  Grounded'
<1> DEFINE t == tab[p]
           u == tab'[p]
           m == manifest.entry
           ids == DOMAIN deltas'
<1>1. /\ t \in Provider /\ Clear(t, m, DOMAIN deltas) /\ t.pc = "delete" /\ id \in t.drop
      /\ m.deltas \subseteq DOMAIN deltas \ m.gone
  BY OfTab, OfGrounded DEF DeleteDelta
<1>2. \A q \in Tabs \ {p} : tab'[q] = tab[q]
  BY StepOthers DEF Step
<1>3. UNCHANGED manifest /\ ids \in {DOMAIN deltas, DOMAIN deltas \ {id}}
  BY DeleteDeltaType DEF DeleteDelta
<1>4. t.drop \subseteq m.gone
  BY <1>1 DEF Clear
<1>5. ids \union m.gone = DOMAIN deltas \union m.gone /\ m.deltas \subseteq ids \ m.gone
  BY <1>1, <1>3, <1>4
<1>6. SUFFICES Clear(u, m, ids)
  <2>1. \A q \in Tabs \ {p} : tab[q].pc = "idle"
    BY <1>1, OfGrounded
  <2>2. Used' = Used /\ Numbered(Used)
    BY <1>3, <1>5, OfGrounded DEF Used
  <2> QED BY <1>2, <1>3, <1>5, <1>6, <2>1, <2>2, TurnIsGrounded
<1>7. Resumes(t, u) \/ Deletes(t, u)
  BY DeleteDeltaType
<1> HIDE DEF t, u, m, ids
<1>8. /\ t.entry.deltas \union t.entry.gone \subseteq ids \union m.gone
      /\ t.got.content.deltas \union t.got.content.gone \subseteq ids \union m.gone
      /\ t.got.files.deltas \subseteq ids \union m.gone
  BY <1>1, <1>5 DEF Clear
<1> QED
  BY <1>4, <1>7, <1>8, ResumesIsClear, DeletesIsClear

\* Every step keeps the references grounded.
LEMMA NextGrounded ==
  ASSUME OneDevice, TypeInv, Grounded, [Next]_vars PROVE Grounded'
<1>1. ASSUME NEW p \in Tabs, Step(p) PROVE Grounded'
  <2>1. CASE \E part \in {"content", "files", "seen"} : Read(p, part) \/ SaveRead(p, part)
    BY <2>1, ReadingGrounded, SaveReadGrounded DEF Parts
  <2>2. CASE \E id \in DeltaIds : PullDelta(p, id) \/ DeleteDelta(p, id)
    BY <2>2, ReadingGrounded, DeleteDeltaGrounded
  <2> QED
    BY <1>1, <2>1, <2>2, ReadingGrounded, UploadBaseGrounded, UploadDeltaGrounded,
       SaveWriteGrounded DEF Step
<1>2. CASE UNCHANGED vars
  BY <1>2 DEF vars, cloud, Grounded, Alone, Numbered, Used, Clear
<1>3. CASE Next
  BY <1>1, <1>3, EditGrounded, SessionGrounded, ReadingGrounded DEF Next
<1> QED
  BY <1>2, <1>3

\* The references are grounded from the start.
LEMMA InitGrounded == ASSUME Init PROVE Grounded
<1>1. /\ DOMAIN deltas = {} /\ manifest.entry.deltas = {} /\ manifest.entry.gone = {}
      /\ \A p \in Tabs : tab[p] = Fresh
  BY DEF Init
<1>2. \A p \in Tabs : tab[p].pc = "idle" /\ tab[p].entry = NoEntry /\ tab[p].got = Unread
  BY <1>1 DEF Fresh
<1>3. Alone
  BY <1>2 DEF Alone
<1>4. Numbered(Used)
  <2>1. Used = 1..0 /\ 0 \in Nat
    BY <1>1 DEF Used
  <2> QED BY <2>1 DEF Numbered
<1>5. \A p \in Tabs : Clear(tab[p], manifest.entry, DOMAIN deltas)
  BY <1>2 DEF Clear, Unread, NoEntry, NoFiles
<1> QED
  BY <1>1, <1>3, <1>4, <1>5 DEF Grounded

\* Every reachable state is well formed: the files, the local markers and the
\* provider object of each tab are what the code takes them for, and the queue
\* contains the batch that is being uploaded.
THEOREM FilesAreWhole == Spec => []TypeOK
<1>1. Init => TypeInv
  BY InitType
<1>2. TypeInv /\ [Next]_vars => TypeInv'
  BY NextType
<1>3. TypeInv => TypeOK
  BY DEF TypeInv
<1> QED
  BY <1>1, <1>2, <1>3, PTL DEF Spec

\* In a workspace that is used on one device, the manifest never refers to a
\* delta file that was deleted, whatever requests fail or lose their answers,
\* sessions end or tabs are closed between two requests, and however many tabs
\* are open: the files a compaction deletes have their tombstones in the manifest
\* first, and a save joins what it reads again without reviving any of them.
THEOREM ReferencesExist == ASSUME OneDevice PROVE Spec => []NoDanglingReference
<1>1. Init => TypeInv /\ Grounded
  BY InitType, InitGrounded
<1>2. TypeInv /\ Grounded /\ [Next]_vars => (TypeInv /\ Grounded)'
  BY NextType, NextGrounded
<1>3. Grounded => NoDanglingReference
  BY DEF Grounded, NoDanglingReference
<1> QED
  BY <1>1, <1>2, <1>3, PTL DEF Spec

-----------------------------------------------------------------------------
(* An edit that was not accepted has left a marker.                        *)

\* Each device has one tab open.
Single == \A p, q \in Tabs : DeviceOf[p] = DeviceOf[q] => p = q

Unsent(d) == made[d] \ sent[d]

\* The edits un are queued, or the whole document is to be uploaded, or is
\* being uploaded.
Holds(t, un) ==
  \/ t.full
  \/ un \subseteq t.pending
  \/ /\ t.job = "full" /\ t.pc \in {"putBase", "save", "write"}
     /\ un \subseteq t.pending \union t.whole

\* A tab of a session holds the unsent edits un of its device, as soon as it has
\* read the manifest; before, the marker or the request for a whole document
\* speaks for them.  Before a pass leaves a batch behind, it was sent.
Owing(t, un, marked, accepted) ==
  /\ t.on \/ t.pc # "idle" => t.bound
  /\ (~t.on /\ t.pc # "idle") <=> t.kind = "connect"
  /\ t.pc \in {"check", "read"} => t.kind # "connect"
  /\ Loading(t) => t.pending = {} /\ (un = {} \/ t.full \/ marked)
  /\ (t.on \/ t.pc # "idle") /\ ~Loading(t) => Holds(t, un)
  /\ t.pc = "delete" => t.batch \subseteq accepted

Evident ==
  /\ \A d \in Devices : made[d] \subseteq doc[d]
  /\ \A d \in Devices : Unsent(d) = {} \/ dirty[d] \/ parted[d]
  /\ \A p \in Tabs : LET d == DeviceOf[p]
                     IN Owing(tab[p], Unsent(d), dirty[d], sent[d])

\* What one tab does concerns its device only.
LEMMA TurnIsEvident ==
  ASSUME Single, TypeInv, TypeInv', Evident, NEW p \in Tabs,
         \A q \in Tabs \ {p} : tab'[q] = tab[q],
         \A d \in Devices \ {DeviceOf[p]} :
           /\ made'[d] = made[d] /\ sent'[d] = sent[d]
           /\ dirty[d] => dirty'[d]
           /\ parted[d] => parted'[d],
         \A d \in Devices : made'[d] \subseteq doc'[d],
         Unsent(DeviceOf[p])' = {} \/ dirty'[DeviceOf[p]] \/ parted'[DeviceOf[p]],
         Owing(tab'[p], Unsent(DeviceOf[p])', dirty'[DeviceOf[p]], sent'[DeviceOf[p]])
  PROVE  Evident'
<1>1. \A d \in Devices : Unsent(d)' = {} \/ dirty'[d] \/ parted'[d]
  BY DEF Evident, Unsent
<1>2. ASSUME NEW q \in Tabs \ {p}
      PROVE  Owing(tab'[q], Unsent(DeviceOf[q])', dirty'[DeviceOf[q]], sent'[DeviceOf[q]])
  <2> DEFINE d == DeviceOf[q]
  <2>1. d \in Devices \ {DeviceOf[p]}
    BY TabAssumption DEF Single
  <2>2. Owing(tab[q], Unsent(d), dirty[d], sent[d])
    BY DEF Evident
  <2>3. tab'[q] = tab[q] /\ Unsent(d)' = Unsent(d) /\ sent'[d] = sent[d] /\ (dirty[d] => dirty'[d])
    BY <2>1 DEF Unsent
  <2> HIDE DEF d
  <2>4. Owing(tab'[q], Unsent(d)', dirty'[d], sent'[d])
    BY <2>2, <2>3 DEF Owing
  <2> QED BY <2>4 DEF d
<1> QED
  BY <1>1, <1>2 DEF Evident

\* ... and a step that keeps the bookkeeping and the markers leaves the edits
\* that were not sent as they are.
LEMMA QuietEvident ==
  ASSUME Single, TypeInv, TypeInv', Evident, NEW p \in Tabs,
         \A q \in Tabs \ {p} : tab'[q] = tab[q],
         UNCHANGED <<made, sent, parted>>,
         \A d \in Devices : doc[d] \subseteq doc'[d] /\ (dirty[d] => dirty'[d]),
         Owing(tab'[p], Unsent(DeviceOf[p]), dirty[DeviceOf[p]], sent[DeviceOf[p]])
  PROVE  Evident'
<1> DEFINE d == DeviceOf[p]
<1>1. d \in Devices /\ Unsent(d)' = Unsent(d)
  BY OfTab DEF Unsent
<1>2. Unsent(d) = {} \/ dirty[d] \/ parted[d]
  BY <1>1 DEF Evident
<1>3. \A c \in Devices : made'[c] \subseteq doc'[c]
  BY DEF Evident
<1>4. Owing(tab'[p], Unsent(d)', dirty'[d], sent'[d])
  <2>1. Owing(tab'[p], Unsent(d), dirty[d], sent[d]) /\ (dirty[d] => dirty'[d]) /\ sent'[d] = sent[d]
    BY <1>1
  <2> HIDE DEF d
  <2> QED BY <1>1, <2>1 DEF Owing
<1>5. Unsent(d)' = {} \/ dirty'[d] \/ parted'[d]
  BY <1>1, <1>2
<1> QED
  BY <1>3, <1>4, <1>5, TurnIsEvident

\* A tab that a session left behind.
LEMMA FreshOwes ==
  ASSUME NEW un, NEW marked, NEW accepted PROVE Owing(Fresh, un, marked, accepted)
BY DEF Owing, Fresh, Loading

\* A failed pass still owes what it did not upload.
LEMMA FailsOwes ==
  ASSUME NEW t, NEW u, NEW un, NEW marked, NEW accepted,
         Owing(t, un, marked, accepted), t.pc # "idle", Fails(t, u)
  PROVE  Owing(u, un, marked, accepted)
<1>1. CASE Loading(t)
  BY <1>1 DEF Owing, Fails, Loading
<1>2. CASE ~Loading(t)
  BY <1>2 DEF Owing, Fails, Loading, Holds
<1> QED
  BY <1>1, <1>2

\* A step that uploads nothing.
LEMMA WaitsOwes ==
  ASSUME NEW t, NEW u, NEW un, NEW marked, NEW accepted,
         Owing(t, un, marked, accepted), Waits(t, u),
         t.pc \in {"check", "read", "pull", "callback"},
         u.pc \in {"read", "pull", "complete", "list"},
         u.pc = "list" => t.pc = "read", u.pc = "read" => t.pc \in {"check", "read"}
  PROVE  Owing(u, un, marked, accepted)
<1>1. ~Loading(t) /\ Holds(t, un)
  BY DEF Owing, Loading
<1>2. t.full \/ un \subseteq t.pending
  BY <1>1 DEF Holds
<1>3. Holds(u, un)
  BY <1>2 DEF Holds, Waits
<1> QED
  BY <1>3 DEF Owing, Waits, Loading

\* An upload that is done owes what was not in it.
LEMMA ResumesOwes ==
  ASSUME NEW t, NEW u, NEW un, NEW vn, NEW marked, NEW accepted, NEW accepted2,
         Owing(t, un, marked, accepted), t.pc \in {"write", "delete"},
         Resumes(t, u) \/ (Deletes(t, u) /\ t.batch \subseteq accepted2),
         vn \subseteq un \ t.batch,
         t.pc = "write" => vn \subseteq un \ t.whole
  PROVE  Owing(u, vn, marked, accepted2)
<1>1. Holds(t, un) /\ t.bound
  BY DEF Owing, Loading
<1>2. u.pc \in {"putBase", "save", "callback", "complete", "delete"} /\ Keeps(t, u)
  BY DEF Resumes, Deletes, Onward
<1>3. u.pc = "delete" => u.batch \subseteq accepted2
  BY DEF Resumes, Deletes, Onward
<1>4. t.pending \ t.batch \subseteq u.pending
  BY DEF Resumes, Deletes, Emptied
<1>5. Holds(u, vn)
  BY <1>1, <1>2, <1>4 DEF Holds, Keeps
<1> QED
  BY <1>2, <1>3, <1>5 DEF Owing, Loading, Keeps

\* What holds of a tab and its device at the beginning of any step.
LEMMA OfEvident ==
  ASSUME TypeInv, Evident, NEW p \in Tabs
  PROVE  LET d == DeviceOf[p]
         IN /\ d \in Devices /\ tab[p] \in Provider
            /\ Owing(tab[p], Unsent(d), dirty[d], sent[d])
            /\ Unsent(d) = {} \/ dirty[d] \/ parted[d]
            /\ made[d] \subseteq doc[d]
BY OfTab DEF Evident

\* An edit is queued by its tab, or marks the document.
LEMMA EditEvident ==
  ASSUME QuietConnect, Single, TypeInv, TypeInv', Evident, NEW p \in Tabs, Edit(p)
  PROVE  Evident'
<1> DEFINE t == tab[p]
           d == DeviceOf[p]
           e == Cardinality(AllMade) + 1
           u == [t EXCEPT !.pending = @ \union {e}]
<1>1. /\ d \in Devices /\ t \in Provider /\ Owing(t, Unsent(d), dirty[d], sent[d])
      /\ t.kind # "connect"
  BY OfEvident DEF Edit
<1>2. /\ doc' = [doc EXCEPT ![d] = @ \union {e}]
      /\ made' = [made EXCEPT ![d] = @ \union {e}]
      /\ parted' = [parted EXCEPT ![d] = @ \/ ~t.on]
      /\ UNCHANGED sent
      /\ \/ t.bound /\ tab' = [tab EXCEPT ![p] = u] /\ dirty' = [dirty EXCEPT ![d] = TRUE]
         \/ ~t.bound /\ UNCHANGED <<tab, dirty>>
  <2>1. CASE t.bound
    BY <2>1 DEF Edit
  <2>2. CASE ~t.bound
    BY <2>2 DEF Edit
  <2> QED BY <2>1, <2>2
<1> HIDE DEF e
<1>3. TypeOK
  BY DEF TypeInv
<1>4. /\ Unsent(d)' \subseteq Unsent(d) \union {e} /\ sent'[d] = sent[d]
      /\ \A c \in Devices : made'[c] \subseteq doc'[c]
      /\ \A c \in Devices \ {d} : /\ made'[c] = made[c] /\ sent'[c] = sent[c]
                                  /\ dirty[c] => dirty'[c]
                                  /\ parted[c] => parted'[c]
  BY <1>1, <1>2, <1>3 DEF TypeOK, Unsent, Evident
<1>5. \A q \in Tabs \ {p} : tab'[q] = tab[q]
  BY <1>2, <1>3 DEF TypeOK
<1>6. CASE t.bound /\ tab' = [tab EXCEPT ![p] = u] /\ dirty' = [dirty EXCEPT ![d] = TRUE]
  <2>1. dirty'[d] /\ tab'[p] = u
    BY <1>1, <1>3, <1>6 DEF TypeOK
  <2>2. /\ u.on = t.on /\ u.bound = t.bound /\ u.kind = t.kind /\ u.full = t.full
        /\ u.pc = t.pc /\ u.job = t.job /\ u.whole = t.whole /\ u.batch = t.batch
        /\ u.pending = t.pending \union {e}
    BY <1>1 DEF Provider
  <2> HIDE DEF t, d, u
  <2>3. Holds(t, Unsent(d)) => Holds(u, Unsent(d)')
    BY <1>4, <2>2 DEF Holds
  <2>4. Owing(u, Unsent(d)', dirty'[d], sent'[d])
    BY <1>1, <1>4, <2>2, <2>3 DEF Owing, Loading
  <2> QED BY <1>4, <1>5, <2>1, <2>4, TurnIsEvident DEF d
<1>7. CASE ~t.bound /\ UNCHANGED <<tab, dirty>>
  <2>1. ~t.on /\ t.pc = "idle" /\ tab'[p] = t
    BY <1>1, <1>7 DEF Owing
  <2>2. parted'[d]
    BY <1>1, <1>2, <1>3, <2>1 DEF TypeOK
  <2> HIDE DEF t, d
  <2>3. Owing(t, Unsent(d)', dirty'[d], sent'[d])
    BY <1>1, <2>1 DEF Owing, Loading
  <2>4. Owing(tab'[p], Unsent(d)', dirty'[d], sent'[d])
    BY <2>1, <2>3
  <2> QED BY <1>4, <1>5, <2>2, <2>4, TurnIsEvident DEF d
<1> QED
  BY <1>2, <1>6, <1>7

\* A connection keeps the marker, or asks for the whole document.
LEMMA ConnectEvident ==
  ASSUME Single, TypeInv, TypeInv', Evident, NEW p \in Tabs, Connect(p)
  PROVE  Evident'
<1> DEFINE d == DeviceOf[p]
           u == Connecting(p)
           un == Unsent(d)
<1>1. /\ d \in Devices
      /\ Unsent(d) = {} \/ dirty[d] \/ parted[d]
  BY OfEvident
<1>2. /\ u.pc = "list" /\ u.kind = "connect" /\ u.bound /\ ~u.on
      /\ u.pending = {} /\ (u.full <=> Detached(p)) /\ Detached(p) \in BOOLEAN
  BY ConnectingType
<1>3. /\ tab' = [tab EXCEPT ![p] = u] /\ UNCHANGED <<doc, made, sent>>
      /\ parted' = [parted EXCEPT ![d] = Detached(p)]
      /\ dirty' = [dirty EXCEPT ![d] = (@ /\ ~tab[p].bound) \/ Detached(p)]
  BY DEF Connect, Connecting
<1>4. TypeOK
  BY DEF TypeInv
<1>5. dirty'[d] <=> (dirty[d] /\ ~tab[p].bound) \/ Detached(p)
  BY <1>1, <1>3, <1>4 DEF TypeOK
<1>6. dirty[d] \/ parted[d] => dirty'[d]
  BY <1>5 DEF Detached, Unsynced
<1>7. Unsent(d)' = Unsent(d) /\ tab'[p] = u
  BY <1>3, <1>4 DEF Unsent, TypeOK
<1>8. Owing(u, Unsent(d)', dirty'[d], sent'[d])
  <2> HIDE DEF d, u
  <2> QED BY <1>1, <1>2, <1>6, <1>7 DEF Owing, Loading
<1>9. /\ \A q \in Tabs \ {p} : tab'[q] = tab[q]
      /\ \A c \in Devices : made'[c] \subseteq doc'[c]
      /\ \A c \in Devices \ {d} : /\ made'[c] = made[c] /\ sent'[c] = sent[c]
                                  /\ dirty[c] => dirty'[c]
                                  /\ parted[c] => parted'[c]
  BY <1>3, <1>4 DEF TypeOK, Evident
<1> HIDE DEF u
<1> QED
  BY <1>1, <1>6, <1>7, <1>8, <1>9, TurnIsEvident

\* A session that ends with unsent edits leaves the document marked as detached.
LEMMA DisconnectEvident ==
  ASSUME Single, TypeInv, TypeInv', Evident, NEW p \in Tabs, Disconnect(p)
  PROVE  Evident'
<1> DEFINE d == DeviceOf[p]
           t == tab[p]
<1>1. /\ d \in Devices /\ Owing(t, Unsent(d), dirty[d], sent[d])
      /\ t.on /\ t.pc = "idle"
  BY OfEvident DEF Disconnect
<1>2. /\ tab' = [tab EXCEPT ![p] = Fresh] /\ UNCHANGED <<doc, made, sent>>
      /\ parted' = [parted EXCEPT ![d] = Detached(p)]
      /\ dirty' = [dirty EXCEPT ![d] = FALSE]
  BY DEF Disconnect
<1>3. TypeOK
  BY DEF TypeInv
<1>4. Unsent(d)' = Unsent(d) /\ tab'[p] = Fresh /\ parted'[d] = Detached(p)
  BY <1>1, <1>2, <1>3 DEF Unsent, TypeOK
<1>5. t.bound /\ (Unsent(d) = {} \/ InMemory(t))
  <2>1. t.bound /\ (t.full \/ Unsent(d) \subseteq t.pending)
    BY <1>1 DEF Owing, Loading, Holds
  <2> QED BY <2>1 DEF InMemory
<1>6. Unsent(d)' = {} \/ parted'[d]
  BY <1>4, <1>5 DEF Detached, Unsynced
<1>7. /\ \A q \in Tabs \ {p} : tab'[q] = tab[q]
      /\ \A c \in Devices : made'[c] \subseteq doc'[c]
      /\ \A c \in Devices \ {d} : /\ made'[c] = made[c] /\ sent'[c] = sent[c]
                                  /\ dirty[c] => dirty'[c]
                                  /\ parted[c] => parted'[c]
  BY <1>2, <1>3 DEF TypeOK, Evident
<1>8. Owing(tab'[p], Unsent(d)', dirty'[d], sent'[d])
  BY <1>4, FreshOwes
<1> QED
  BY <1>6, <1>7, <1>8, TurnIsEvident

\* A tab that is closed leaves the marker as it was.
LEMMA CrashEvident ==
  ASSUME Single, TypeInv, TypeInv', Evident, NEW p \in Tabs, Crash(p)
  PROVE  Evident'
<1>1. Goes(p, Fresh) /\ UNCHANGED <<doc, dirty, made, sent, parted>>
  BY DEF Crash, Goes, local
<1>2. tab'[p] = Fresh /\ \A q \in Tabs \ {p} : tab'[q] = tab[q]
  BY <1>1 DEF Goes, TypeInv, TypeOK
<1>3. \A d \in Devices : doc[d] \subseteq doc'[d] /\ (dirty[d] => dirty'[d])
  BY <1>1
<1> QED
  BY <1>1, <1>2, <1>3, FreshOwes, QuietEvident

\* A pass that begins takes the marker over as it was.
LEMMA BeginEvident ==
  ASSUME Single, TypeInv, TypeInv', Evident, NEW p \in Tabs,
         NEW kind \in {"auto", "exit", "now"}, Begin(p, kind)
  PROVE  Evident'
<1> DEFINE d == DeviceOf[p]
           t == tab[p]
           u == Beginning(p, kind)
<1>1. Owing(t, Unsent(d), dirty[d], sent[d]) /\ t.on /\ t.pc = "idle"
  BY OfEvident DEF Begin
<1>2. /\ u.pc \in {"check", "pull"} /\ u.kind = kind /\ u.on = t.on /\ u.bound = t.bound
      /\ u.pending = t.pending /\ u.full = Promoted(t, dirty[d])
  BY BeginningType
<1>3. Goes(p, u) /\ UNCHANGED <<doc, dirty, made, sent, parted>>
  BY DEF Begin, Goes, Beginning, local
<1>4. tab'[p] = u /\ \A q \in Tabs \ {p} : tab'[q] = tab[q]
  BY <1>3 DEF Goes, TypeInv, TypeOK
<1> HIDE DEF t, u
<1>5. t.full \/ Unsent(d) \subseteq t.pending
  BY <1>1 DEF Owing, Loading, Holds
<1>6. Holds(u, Unsent(d))
  BY <1>2, <1>5 DEF Holds, Promoted
<1>7. Owing(u, Unsent(d), dirty[d], sent[d])
  BY <1>1, <1>2, <1>6 DEF Owing, Loading
<1>8. \A c \in Devices : doc[c] \subseteq doc'[c] /\ (dirty[c] => dirty'[c])
  BY <1>3
<1> QED
  BY <1>3, <1>4, <1>7, <1>8, QuietEvident

\* The steps of a pass that change neither the bookkeeping nor what was marked
\* when no provider was connected.
LEMMA PassEvident ==
  ASSUME Single, TypeInv, TypeInv', Evident, NEW p \in Tabs,
         \/ Check(p) \/ List(p) \/ Body(p) \/ PullBase(p) \/ Push(p) \/ Callback(p)
         \/ UploadBase(p) \/ UploadDelta(p) \/ Fail(p)
         \/ \E part \in Parts : Read(p, part) \/ SaveRead(p, part)
         \/ \E id \in DeltaIds : PullDelta(p, id)
  PROVE  Evident'
<1> DEFINE d == DeviceOf[p]
           t == tab[p]
           u == tab'[p]
           un == Unsent(d)
           marked == dirty[d]
           accepted == sent[d]
<1>1. /\ Owing(t, un, marked, accepted) /\ made[d] \subseteq doc[d] /\ t \in Provider
      /\ un \subseteq doc[d]
  BY OfEvident DEF Unsent
<1>2. \A q \in Tabs \ {p} : tab'[q] = tab[q]
  BY StepOthers DEF Step, Parts
<1>3. UNCHANGED <<made, sent, parted>> /\ t.pc # "idle"
  BY DEF Check, List, Body, PullBase, Push, Callback, UploadBase, UploadDelta, Fail, Read,
         SaveRead, PullDelta, local
<1>4. \A c \in Devices : doc[c] \subseteq doc'[c] /\ (dirty[c] => dirty'[c])
  <2>1. CASE Body(p) \/ \E part \in Parts : Read(p, part)
    <3>1. UNCHANGED doc
      BY <2>1 DEF Body, Read
    <3> QED BY <2>1, <3>1, BodyType, ReadType
  <2>2. CASE PullBase(p) \/ \E id \in DeltaIds : PullDelta(p, id)
    <3>1. UNCHANGED dirty
      BY <2>2 DEF PullBase, PullDelta
    <3> QED BY <2>2, <3>1, PullBaseType, PullDeltaType
  <2>3. CASE UNCHANGED local
    BY <2>3 DEF local
  <2> QED
    BY <2>1, <2>2, <2>3 DEF Check, List, Push, Callback, UploadBase, UploadDelta, Fail, SaveRead
<1>5. SUFFICES Owing(u, un, marked, accepted)
  BY <1>2, <1>3, <1>4, QuietEvident
<1>6. ASSUME Fails(t, u) PROVE Owing(u, un, marked, accepted)
  BY <1>1, <1>3, <1>6, FailsOwes
<1>7. CASE Check(p) \/ PullBase(p) \/ Callback(p) \/ \E id \in DeltaIds : PullDelta(p, id)
  <2>1. /\ t.pc \in {"check", "pull", "callback"} /\ (t.pc \in {"pull", "callback"} => ~Check(p))
        /\ \/ Fails(t, u)
           \/ Waits(t, u) /\ u.pc \in {"read", "pull", "complete"} /\ (u.pc = "read" => Check(p))
    BY <1>7, CheckType, PullBaseType, CallbackType, PullDeltaType
       DEF Check, PullBase, Callback, PullDelta
  <2> HIDE DEF t, u, un, marked, accepted
  <2>2. CASE Fails(t, u)
    BY <1>6, <2>2
  <2>3. CASE Waits(t, u) /\ u.pc \in {"read", "pull", "complete"} /\ (u.pc = "read" => Check(p))
    BY <1>1, <2>1, <2>3, WaitsOwes
  <2> QED BY <2>1, <2>2, <2>3
<1>8. CASE \E part \in Parts : Read(p, part)
  <2>1. t.pc = "read" /\ Waits(t, u) /\ u.pc \in {"list", "pull", "read"}
    BY <1>8, ReadType DEF Read
  <2> HIDE DEF t, u, un, marked, accepted
  <2> QED BY <1>1, <2>1, WaitsOwes
<1>9. CASE List(p)
  <2>1. t.pc = "list" /\ Waits(t, u) /\ u.full = t.full /\ u.pc = "body"
    BY <1>9, ListType DEF List
  <2> HIDE DEF t, u, un, marked, accepted
  <2>2. CASE Loading(t)
    BY <1>1, <2>1, <2>2 DEF Owing, Waits, Loading
  <2>3. CASE ~Loading(t)
    BY <1>1, <2>1, <2>3 DEF Owing, Waits, Loading, Holds
  <2> QED BY <2>2, <2>3
<1>10. CASE Body(p)
  <2>1. /\ t.pc = "body"
        /\ \/ Fails(t, u)
           \/ /\ Waits(t, u) /\ u.pc = "pull"
              /\ t.kind = "connect" /\ marked /\ t.pending = {} => u.full
    BY <1>10, BodyType DEF Body
  <2> HIDE DEF t, u, un, marked, accepted
  <2>2. CASE /\ Waits(t, u) /\ u.pc = "pull"
             /\ t.kind = "connect" /\ marked /\ t.pending = {} => u.full
    <3>1. Holds(u, un)
      <4>1. CASE Loading(t)
        BY <1>1, <2>2, <4>1 DEF Owing, Waits, Loading, Holds
      <4>2. CASE ~Loading(t)
        BY <1>1, <2>1, <2>2, <4>2 DEF Owing, Waits, Loading, Holds
      <4> QED BY <4>1, <4>2
    <3> QED BY <1>1, <2>1, <2>2, <3>1 DEF Owing, Waits, Loading
  <2> QED BY <1>6, <2>1, <2>2
<1>11. CASE Push(p)
  <2>1. t.pc = "pull" /\ Pushes(t, u, doc[d])
    BY <1>11, PushType DEF Push
  <2> HIDE DEF t, u, un, marked, accepted
  <2>2. t.full \/ un \subseteq t.pending
    BY <1>1, <2>1 DEF Owing, Loading, Holds
  <2>3. Holds(u, un)
    BY <1>1, <2>1, <2>2 DEF Pushes, Holds
  <2>4. u.pc \in {"putBase", "save", "putDelta", "callback", "complete"}
    BY <2>1 DEF Pushes
  <2> QED BY <1>1, <2>1, <2>3, <2>4 DEF Owing, Pushes, Loading
<1>12. CASE UploadBase(p) \/ UploadDelta(p)
  <2>1. /\ t.pc \in {"putBase", "putDelta"}
        /\ Fails(t, u) \/ Saves(t, u)
    BY <1>12, UploadBaseType, UploadDeltaType DEF UploadBase, UploadDelta
  <2> HIDE DEF t, u, un, marked, accepted
  <2>2. CASE Saves(t, u)
    <3>1. Holds(t, un)
      BY <1>1, <2>1 DEF Owing, Loading
    <3>2. Holds(u, un)
      BY <2>2, <3>1 DEF Holds, Saves
    <3> QED BY <1>1, <2>1, <2>2, <3>2 DEF Owing, Saves, Loading
  <2> QED BY <1>6, <2>1, <2>2
<1>13. CASE \E part \in Parts : SaveRead(p, part)
  <2>1. /\ t.pc = "save"
        /\ Fails(t, u) \/ (Rereads(t, u) /\ u.pc \in {"save", "write"})
    BY <1>13, SaveReadType DEF SaveRead
  <2> HIDE DEF t, u, un, marked, accepted
  <2>2. CASE Rereads(t, u) /\ u.pc \in {"save", "write"}
    <3>1. Holds(t, un)
      BY <1>1, <2>1 DEF Owing, Loading
    <3>2. Holds(u, un)
      BY <2>1, <2>2, <3>1 DEF Holds, Rereads
    <3> QED BY <1>1, <2>1, <2>2, <3>2 DEF Owing, Rereads, Loading
  <2> QED BY <1>6, <2>1, <2>2
<1>14. CASE Fail(p)
  <2>1. u = Failed(t)
    BY <1>14 DEF Fail, Goes, TypeInv, TypeOK
  <2> HIDE DEF t, u, un, marked, accepted
  <2> QED BY <1>1, <1>6, <2>1, FailedType
<1> QED
  BY <1>7, <1>8, <1>9, <1>10, <1>11, <1>12, <1>13, <1>14

\* The manifest is written: what was uploaded is accepted.
LEMMA SaveWriteEvident ==
  ASSUME Single, TypeInv, TypeInv', Evident, NEW p \in Tabs, SaveWrite(p)
  PROVE  Evident'
<1> DEFINE d == DeviceOf[p]
           t == tab[p]
           u == tab'[p]
           un == Unsent(d)
           vn == Unsent(d)'
           accepted == sent[d]
           after == sent'[d]
<1>1. /\ d \in Devices /\ Owing(t, un, dirty[d], accepted) /\ t.pc = "write"
      /\ un = {} \/ dirty[d] \/ parted[d]
  BY OfEvident DEF SaveWrite
<1>2. \A q \in Tabs \ {p} : tab'[q] = tab[q]
  BY StepOthers DEF Step
<1>3. UNCHANGED <<doc, dirty, parted, made>>
  BY DEF SaveWrite, local
<1>4. \/ Fails(t, u) /\ UNCHANGED sent
      \/ /\ Resumes(t, u) \/ Deletes(t, u)
         /\ sent' = [sent EXCEPT ![d] = @ \union t.batch \union t.whole]
  BY SaveWriteType
<1>5. CASE Fails(t, u) /\ UNCHANGED sent
  <2>1. Owing(u, un, dirty[d], accepted)
    BY <1>1, <1>5, FailsOwes
  <2>2. \A c \in Devices : doc[c] \subseteq doc'[c] /\ (dirty[c] => dirty'[c])
    BY <1>3
  <2> QED BY <1>2, <1>3, <1>5, <2>1, <2>2, QuietEvident
<1>6. CASE /\ Resumes(t, u) \/ Deletes(t, u)
           /\ sent' = [sent EXCEPT ![d] = @ \union t.batch \union t.whole]
  <2>1. TypeOK
    BY DEF TypeInv
  <2>2. after = accepted \union t.batch \union t.whole
    BY <1>1, <1>6, <2>1 DEF TypeOK
  <2>3. vn \subseteq un \ t.batch /\ vn \subseteq un \ t.whole /\ t.batch \subseteq after
    BY <1>3, <2>2 DEF Unsent
  <2>4. Owing(u, vn, dirty[d], after)
    <3> HIDE DEF t, u, un, vn, accepted, after
    <3> QED BY <1>1, <1>6, <2>3, ResumesOwes
  <2>5. /\ \A c \in Devices : made'[c] \subseteq doc'[c]
        /\ \A c \in Devices \ {d} : /\ made'[c] = made[c] /\ sent'[c] = sent[c]
                                    /\ dirty[c] => dirty'[c]
                                    /\ parted[c] => parted'[c]
    BY <1>3, <1>6, <2>1 DEF TypeOK, Evident
  <2>6. vn = {} \/ dirty'[d] \/ parted'[d]
    BY <1>1, <1>3, <2>3
  <2> QED BY <1>2, <1>3, <2>4, <2>5, <2>6, TurnIsEvident
<1> QED
  BY <1>4, <1>5, <1>6

\* Deleting a delta sends nothing and forgets nothing.
LEMMA DeleteDeltaEvident ==
  ASSUME Single, TypeInv, TypeInv', Evident, NEW p \in Tabs, NEW id \in DeltaIds,
         DeleteDelta(p, id)
  PROVE  Evident'
<1> DEFINE d == DeviceOf[p]
           t == tab[p]
           u == tab'[p]
           un == Unsent(d)
           accepted == sent[d]
<1>1. /\ Owing(t, un, dirty[d], accepted) /\ t.pc = "delete"
  BY OfEvident DEF DeleteDelta
<1>2. \A q \in Tabs \ {p} : tab'[q] = tab[q]
  BY StepOthers DEF Step
<1>3. UNCHANGED <<doc, dirty, parted, made, sent>>
  BY DEF DeleteDelta, local
<1>4. Resumes(t, u) \/ Deletes(t, u)
  BY DeleteDeltaType
<1>5. t.batch \subseteq accepted /\ un \subseteq un \ t.batch
  BY <1>1 DEF Owing, Unsent
<1>6. Owing(u, un, dirty[d], accepted)
  <2> HIDE DEF t, u, un, accepted
  <2> QED BY <1>1, <1>4, <1>5, ResumesOwes
<1>7. \A c \in Devices : doc[c] \subseteq doc'[c] /\ (dirty[c] => dirty'[c])
  BY <1>3
<1> QED
  BY <1>2, <1>3, <1>6, <1>7, QuietEvident

\* The end of a pass clears a marker only when nothing is left to upload.
LEMMA CompleteEvident ==
  ASSUME Single, TypeInv, TypeInv', Evident, NEW p \in Tabs, Complete(p)
  PROVE  Evident'
<1> DEFINE d == DeviceOf[p]
           t == tab[p]
           u == tab'[p]
           un == Unsent(d)
<1>1. /\ d \in Devices /\ Owing(t, un, dirty[d], sent[d]) /\ t.pc = "complete"
      /\ un = {} \/ dirty[d] \/ parted[d]
  BY OfEvident DEF Complete
<1>2. \A q \in Tabs \ {p} : tab'[q] = tab[q]
  BY StepOthers DEF Step
<1>3. UNCHANGED <<doc, made, sent>>
  BY DEF Complete
<1>4. /\ u.on /\ u.bound = t.bound /\ u.pending = t.pending /\ u.full = t.full
      /\ u.pc = "idle" /\ u.kind = "none"
      /\ Left(p) \in BOOLEAN /\ dirty' = [dirty EXCEPT ![d] = Left(p)]
      /\ \A c \in Devices : parted[c] => parted'[c] \/ (c = d /\ ~Left(p) /\ ~InMemory(t))
  BY CompleteType
<1>5. TypeOK
  BY DEF TypeInv
<1>6. dirty'[d] = Left(p) /\ \A c \in Devices \ {d} : dirty'[c] = dirty[c]
  BY <1>1, <1>4, <1>5 DEF TypeOK
<1>7. t.bound /\ (t.full \/ un \subseteq t.pending)
  BY <1>1 DEF Owing, Loading, Holds
<1>8. un = {} \/ dirty'[d] \/ parted'[d]
  <2>1. CASE un # {}
    <3>1. InMemory(t)
      BY <1>7, <2>1 DEF InMemory
    <3>2. dirty[d] => Left(p)
      BY <3>1 DEF Left
    <3>3. parted[d] => parted'[d]
      BY <1>1, <1>4, <3>1
    <3> QED BY <1>1, <1>6, <3>2, <3>3
  <2> QED BY <2>1
<1>9. Owing(u, un, dirty'[d], sent[d])
  <2> HIDE DEF t, u, un, d
  <2> QED BY <1>4, <1>7 DEF Owing, Loading, Holds
<1>10. /\ Unsent(d)' = un /\ sent'[d] = sent[d]
       /\ \A c \in Devices : made'[c] \subseteq doc'[c]
       /\ \A c \in Devices \ {d} : /\ made'[c] = made[c] /\ sent'[c] = sent[c]
                                   /\ dirty[c] => dirty'[c]
                                   /\ parted[c] => parted'[c]
  BY <1>3, <1>4, <1>6 DEF Unsent, Evident
<1> QED
  BY <1>2, <1>8, <1>9, <1>10, TurnIsEvident

\* Every step keeps unsent edits evident.
LEMMA NextEvident ==
  ASSUME QuietConnect, Single, TypeInv, TypeInv', Evident, [Next]_vars PROVE Evident'
<1>1. ASSUME NEW p \in Tabs, Step(p) PROVE Evident'
  <2>1. CASE \E part \in {"content", "files", "seen"} : Read(p, part) \/ SaveRead(p, part)
    BY <2>1, PassEvident DEF Parts
  <2>2. CASE \E id \in DeltaIds : PullDelta(p, id) \/ DeleteDelta(p, id)
    BY <2>2, PassEvident, DeleteDeltaEvident
  <2> QED
    BY <1>1, <2>1, <2>2, PassEvident, SaveWriteEvident, CompleteEvident DEF Step
<1>2. CASE UNCHANGED vars
  BY <1>2 DEF vars, local, Evident, Unsent
<1>3. CASE Next
  BY <1>1, <1>3, EditEvident, ConnectEvident, DisconnectEvident, CrashEvident, BeginEvident,
     PassEvident DEF Next
<1> QED
  BY <1>2, <1>3

\* Nothing is unsent at the start.
LEMMA InitEvident == ASSUME Init PROVE Evident
<1>1. \A d \in Devices : made[d] = {} /\ Unsent(d) = {}
  BY DEF Init, Unsent
<1>2. \A p \in Tabs : tab[p] = Fresh
  BY DEF Init
<1> QED
  BY <1>1, <1>2, FreshOwes DEF Evident

\* When each device has one tab and no edit is made while a connection is set
\* up, an edit that the provider has not accepted has left a marker in local
\* storage, whatever passes overlap, requests fail, sessions end or the page is
\* closed: the marker goes only when the queue is empty.
THEOREM UnsentLeavesAMark == ASSUME QuietConnect, Single PROVE Spec => []UnsentIsMarked
<1>1. Init => TypeInv /\ Evident
  BY InitType, InitEvident
<1>2. TypeInv /\ Evident /\ [Next]_vars => (TypeInv /\ Evident)'
  BY NextType, NextEvident
<1>3. Evident => UnsentIsMarked
  BY DEF Evident, UnsentIsMarked, Unsent
<1> QED
  BY <1>1, <1>2, <1>3, PTL DEF Spec

-----------------------------------------------------------------------------
(* What was accepted stays at the provider.                                *)

\* Everything in the files, and the names of deltas that nobody has to read:
\* there is no such file, or the base file contains it.
Stored == base.edits \union UNION {deltas[id] : id \in DOMAIN deltas}
Spare == {id \in DeltaIds : id \in DOMAIN deltas => deltas[id] \subseteq base.edits}

\* A tab queues and uploads what its document has; a base file it uploads
\* contains everything in the files; what it is about to see accepted is in the
\* files; and it knows tombstones of spare deltas only.
Fit(t, known, held, spare) ==
  /\ t.pending \subseteq known /\ t.whole \subseteq known
  /\ t.entry.gone \union t.got.content.gone \subseteq spare
  /\ IF t.pc = "putBase" THEN held \subseteq t.whole /\ t.batch \subseteq t.whole
     ELSE t.whole \subseteq held
  /\ t.pc \notin {"putBase", "putDelta"} => t.batch \subseteq held

\* The device has everything in the files, which have everything it saw accepted.
Safe ==
  /\ \A d \in Devices : Stored \subseteq doc[d] /\ sent[d] \subseteq Stored
  /\ manifest.entry.gone \subseteq Spare
  /\ \A p \in Tabs : Fit(tab[p], doc[DeviceOf[p]], Stored, Spare)

\* What holds at the beginning of any step of a tab.
LEMMA OfSafe ==
  ASSUME TypeInv, Safe, NEW p \in Tabs
  PROVE  /\ Fit(tab[p], doc[DeviceOf[p]], Stored, Spare)
         /\ Stored \subseteq doc[DeviceOf[p]] /\ sent[DeviceOf[p]] \subseteq Stored
         /\ manifest.entry.gone \subseteq Spare
BY OfTab DEF Safe

\* A tab between two passes is not disturbed by what is added to the files.
LEMMA IdleFits ==
  ASSUME NEW t, NEW known, NEW held, NEW spare, Fit(t, known, held, spare), t.pc = "idle",
         NEW held2, NEW spare2, held \subseteq held2,
         t.entry.gone \union t.got.content.gone \subseteq spare2
  PROVE  Fit(t, known, held2, spare2)
BY DEF Fit

\* One tab goes on and the document stays.
LEMMA TurnIsSafe ==
  ASSUME OneDevice, TypeInv, Grounded, Safe, NEW p \in Tabs,
         \A q \in Tabs \ {p} : tab'[q] = tab[q], UNCHANGED doc, tab[p].pc # "idle",
         Stored \subseteq Stored', Stored' \subseteq doc[DeviceOf[p]],
         sent'[DeviceOf[p]] \subseteq Stored',
         manifest'.entry.gone \subseteq Spare',
         \A q \in Tabs \ {p} : tab[q].entry.gone \union tab[q].got.content.gone \subseteq Spare',
         Fit(tab'[p], doc[DeviceOf[p]], Stored', Spare')
  PROVE  Safe'
<1>1. \A d \in Devices : Stored' \subseteq doc'[d] /\ sent'[d] \subseteq Stored'
  <2>1. \A d \in Devices : d = DeviceOf[p]
    BY OfTab DEF OneDevice
  <2> QED BY <2>1
<1>2. ASSUME NEW q \in Tabs \ {p} PROVE Fit(tab'[q], doc[DeviceOf[q]], Stored', Spare')
  <2>1. tab[q].pc = "idle" /\ Fit(tab[q], doc[DeviceOf[q]], Stored, Spare)
    BY OfGrounded, OfSafe
  <2> QED BY <2>1, IdleFits
<1>3. \A q \in Tabs : Fit(tab'[q], doc'[DeviceOf[q]], Stored', Spare')
  BY <1>2
<1> QED
  BY <1>1, <1>3 DEF Safe

\* ... and so do the files.
LEMMA QuietIsSafe ==
  ASSUME TypeInv, Safe, NEW p \in Tabs, \A q \in Tabs \ {p} : tab'[q] = tab[q],
         UNCHANGED <<cloud, doc, sent>>,
         Fit(tab'[p], doc[DeviceOf[p]], Stored, Spare)
  PROVE  Safe'
<1>1. Stored' = Stored /\ Spare' = Spare /\ manifest' = manifest
  BY DEF cloud, Stored, Spare
<1>2. \A q \in Tabs : Fit(tab'[q], doc'[DeviceOf[q]], Stored', Spare')
  BY <1>1 DEF Safe
<1> QED
  BY <1>1, <1>2 DEF Safe

\* A pass that failed or ended, and a session that did, hold nothing back.
LEMMA EndFits ==
  ASSUME NEW t, NEW u, NEW known, NEW held, NEW spare, Fit(t, known, held, spare),
         u.pc \in {"idle", "list"}, u.pending \subseteq t.pending,
         u.batch = {}, u.whole = {}, u.got = Unread, u.entry \in {t.entry, NoEntry}
  PROVE  Fit(u, known, held, spare)
BY DEF Fit, Unread, NoEntry

\* A pass that goes on with what it holds.
LEMMA OnFits ==
  ASSUME NEW t, NEW u, NEW known, NEW held, NEW spare, Fit(t, known, held, spare),
         {t.pc, u.pc} \intersect {"putBase", "putDelta"} = {},
         u.pending = t.pending, u.batch = t.batch, u.whole = t.whole,
         u.entry.gone \union u.got.content.gone \subseteq spare
  PROVE  Fit(u, known, held, spare)
BY DEF Fit

\* What a request brings of tombstones.
LEMMA AnsweredFits ==
  ASSUME TypeInv, Safe, NEW p \in Tabs, NEW part \in Parts
  PROVE  LET a == Answered(tab[p], part)
         IN /\ a.got.content.gone \subseteq Spare
            /\ a.got.content \in Manifest(DeltaIds) /\ a.got.files \in Listing(DeltaIds)
<1> DEFINE a == Answered(tab[p], part)
<1>1. Fit(tab[p], doc[DeviceOf[p]], Stored, Spare) /\ manifest.entry.gone \subseteq Spare
  BY OfSafe
<1>2. a \in Provider /\ a.got.content = IF part = "content" THEN manifest.entry ELSE tab[p].got.content
  BY OfTab, AnsweredType
<1> HIDE DEF a
<1>3. a.got.content \in Manifest(DeltaIds) /\ a.got.files \in Listing(DeltaIds)
  BY <1>2 DEF Provider, Gotten
<1>4. a.got.content.gone \subseteq Spare
  BY <1>1, <1>2 DEF Fit
<1> QED
  BY <1>3, <1>4 DEF a

\* The steps of a pass that upload nothing.
LEMMA ReadingIsSafe ==
  ASSUME TypeInv, Safe, NEW p \in Tabs,
         \/ Check(p) \/ List(p) \/ Body(p) \/ PullBase(p) \/ Callback(p)
         \/ Complete(p) \/ Fail(p)
         \/ \E part \in Parts : Read(p, part)
         \/ \E id \in DeltaIds : PullDelta(p, id)
  PROVE  Safe'
<1> DEFINE t == tab[p]
           u == tab'[p]
           m == manifest.entry
           known == doc[DeviceOf[p]]
<1>1. /\ t \in Provider /\ Fit(t, known, Stored, Spare) /\ m \in Manifest(DeltaIds)
      /\ m.gone \subseteq Spare
  BY OfTab, OfSafe
<1>2. \A q \in Tabs \ {p} : tab'[q] = tab[q]
  BY StepOthers DEF Step, Parts
<1>3. UNCHANGED <<cloud, doc, sent>>
  <2>1. UNCHANGED <<cloud, sent>>
    BY DEF Check, List, Body, PullBase, Callback, Complete, Fail, Read, PullDelta
  <2>2. UNCHANGED doc \/ \E edits \in SUBSET Stored : doc' = [doc EXCEPT ![DeviceOf[p]] = @ \union edits]
    <3>1. CASE PullBase(p)
      <4>1. base.edits \in SUBSET Stored
        BY DEF Stored
      <4> QED BY <3>1, <4>1 DEF PullBase
    <3>2. ASSUME NEW id \in DeltaIds, PullDelta(p, id)
          PROVE  UNCHANGED doc \/ \E edits \in SUBSET Stored :
                                    doc' = [doc EXCEPT ![DeviceOf[p]] = @ \union edits]
      <4>1. id \in DOMAIN deltas => deltas[id] \in SUBSET Stored
        BY DEF Stored
      <4> QED BY <3>2, <4>1 DEF PullDelta
    <3> QED BY <3>1, <3>2 DEF Check, List, Body, Callback, Complete, Fail, Read, local
  <2>3. Stored \subseteq doc[DeviceOf[p]] /\ doc \in [Devices -> SUBSET Edits]
    BY OfSafe DEF TypeInv, TypeOK
  <2>4. UNCHANGED doc
    BY <2>2, <2>3, OfTab
  <2> QED BY <2>1, <2>4
<1>4. SUFFICES Fit(u, known, Stored, Spare)
  BY <1>2, <1>3, QuietIsSafe
<1>5. t.pc \notin {"putBase", "putDelta"} \/ Fail(p)
  BY DEF Check, List, Body, PullBase, Callback, Complete, Read, PullDelta
<1> HIDE DEF u, t, m, known
<1>6. ASSUME Fails(t, u) PROVE Fit(u, known, Stored, Spare)
  BY <1>1, <1>6, EndFits DEF Fails
<1>7. CASE Check(p) \/ PullBase(p) \/ Callback(p) \/ \E id \in DeltaIds : PullDelta(p, id)
  <2>1. t.pc \notin {"putBase", "putDelta"}
    BY <1>7 DEF Check, PullBase, Callback, PullDelta, t
  <2>2. \/ Fails(t, u)
        \/ Waits(t, u) /\ u.pc \in {"check", "read", "pull", "complete"} /\ u.entry = t.entry
           /\ u.got = t.got
    BY <1>7, CheckType, PullBaseType, CallbackType, PullDeltaType DEF t, u
  <2>3. CASE Waits(t, u) /\ u.pc \in {"check", "read", "pull", "complete"} /\ u.entry = t.entry
             /\ u.got = t.got
    <3>1. t.entry.gone \union t.got.content.gone \subseteq Spare
      BY <1>1 DEF Fit
    <3> QED BY <1>1, <2>1, <2>3, <3>1, OnFits DEF Waits
  <2> QED BY <1>6, <2>2, <2>3
<1>8. CASE List(p)
  <2>1. Waits(t, u) /\ u.pc = "body" /\ u.entry = t.entry /\ u.got.content = t.got.content
    BY <1>8, ListType DEF t, u
  <2>2. t.pc \notin {"putBase", "putDelta"} /\ t.entry.gone \union t.got.content.gone \subseteq Spare
    BY <1>1, <1>8 DEF List, Fit, t
  <2> QED BY <1>1, <2>1, <2>2, OnFits DEF Waits
<1>9. Unread.content.gone = {}
  BY DEF Unread, NoEntry
<1>10. CASE Body(p)
  <2>1. \/ Fails(t, u)
        \/ Waits(t, u) /\ u.pc = "pull" /\ u.got = Unread /\ u.entry = Reconcile(m, t.got.files)
    BY <1>10, BodyType DEF t, u, m
  <2>2. t.got.files \in Listing(DeltaIds)
    BY <1>1 DEF Provider, Gotten
  <2>3. Reconcile(m, t.got.files).gone = m.gone
    BY <1>1, <2>2, ReconcileType
  <2>4. t.pc \notin {"putBase", "putDelta"}
    BY <1>10 DEF Body, t
  <2> QED BY <1>1, <1>6, <1>9, <2>1, <2>3, <2>4, OnFits DEF Waits
<1>11. CASE Complete(p)
  <2>1. u.pending = t.pending /\ u.pc = "idle" /\ u.entry = t.entry /\ u.got = Unread
        /\ u.batch = {} /\ u.whole = {}
    BY <1>11, CompleteType DEF t, u
  <2> QED BY <1>1, <2>1, EndFits
<1>12. CASE Fail(p)
  <2>1. u = Failed(t)
    BY <1>12 DEF Fail, Goes, TypeInv, TypeOK, t, u
  <2> QED BY <1>1, <1>6, <2>1, FailedType
<1>13. ASSUME NEW part \in Parts, Read(p, part) PROVE Fit(u, known, Stored, Spare)
  <2> DEFINE a == Answered(t, part)
  <2>1. /\ a.got.content.gone \subseteq Spare
        /\ a.got.content \in Manifest(DeltaIds) /\ a.got.files \in Listing(DeltaIds)
    BY AnsweredFits DEF t
  <2>2. /\ Waits(t, u)
        /\ \/ u.pc = "list" /\ u.entry = t.entry /\ u.got = Unread
           \/ u.pc = "pull" /\ u.got = Unread /\ u.entry = Reconcile(a.got.content, a.got.files)
           \/ u.pc = "read" /\ u.entry = t.entry /\ u.got = a.got
    BY <1>13, ReadType DEF t, u
  <2> HIDE DEF a
  <2>3. Reconcile(a.got.content, a.got.files).gone = a.got.content.gone
    BY <2>1, ReconcileType
  <2>4. t.pc \notin {"putBase", "putDelta"} /\ t.entry.gone \subseteq Spare
    BY <1>1, <1>13 DEF Read, Fit, t
  <2>5. u.entry.gone \union u.got.content.gone \subseteq Spare /\ u.pc \notin {"putBase", "putDelta"}
    BY <1>9, <2>1, <2>2, <2>3, <2>4
  <2> QED BY <1>1, <2>2, <2>4, <2>5, OnFits DEF Waits
<1> QED
  BY <1>7, <1>8, <1>10, <1>11, <1>12, <1>13

\* The choice of an upload: a base file contains the document.
LEMMA PushIsSafe ==
  ASSUME TypeInv, Safe, NEW p \in Tabs, Push(p) PROVE Safe'
<1> DEFINE t == tab[p]
           u == tab'[p]
           known == doc[DeviceOf[p]]
<1>1. Fit(t, known, Stored, Spare) /\ Stored \subseteq known /\ t.pc = "pull"
  BY OfSafe DEF Push
<1>2. \A q \in Tabs \ {p} : tab'[q] = tab[q]
  BY StepOthers DEF Step
<1>3. UNCHANGED <<cloud, doc, sent>>
  BY DEF Push, local
<1>4. Pushes(t, u, known)
  BY PushType
<1>5. SUFFICES Fit(u, known, Stored, Spare)
  BY <1>2, <1>3, QuietIsSafe
<1> HIDE DEF t, u, known
<1>6. u.batch \subseteq u.pending /\ u.pending = t.pending
  BY <1>4 DEF Pushes, Tab
<1> QED
  BY <1>1, <1>4, <1>6 DEF Pushes, Fit

\* Sessions and passes begin and end.
LEMMA SessionIsSafe ==
  ASSUME TypeInv, Safe, NEW p \in Tabs,
         \/ Connect(p) \/ Disconnect(p) \/ Crash(p)
         \/ \E kind \in {"auto", "exit", "now"} : Begin(p, kind)
  PROVE  Safe'
<1> DEFINE t == tab[p]
           known == doc[DeviceOf[p]]
<1>1. Fit(t, known, Stored, Spare)
  BY OfSafe
<1>2. UNCHANGED <<cloud, doc, sent>>
  BY DEF Connect, Disconnect, Crash, Begin, local
<1>3. ASSUME NEW u, Goes(p, u), Fit(u, known, Stored, Spare) PROVE Safe'
  <2>1. tab'[p] = u /\ \A q \in Tabs \ {p} : tab'[q] = tab[q]
    BY <1>3 DEF Goes, TypeInv, TypeOK
  <2> QED BY <1>2, <1>3, <2>1, QuietIsSafe
<1> HIDE DEF known
<1>4. CASE Connect(p)
  <2>1. Goes(p, Connecting(p))
    BY <1>4 DEF Connect, Goes, Connecting
  <2> DEFINE u == Connecting(p)
  <2>2. /\ u.pc = "list" /\ u.pending = {} /\ u.batch = {} /\ u.whole = {}
        /\ u.entry = NoEntry /\ u.got = Unread
    BY ConnectingType
  <2> HIDE DEF u
  <2>3. Fit(u, known, Stored, Spare)
    BY <1>1, <2>2, EndFits
  <2> QED BY <1>3, <2>1, <2>3 DEF u
<1>5. CASE Disconnect(p) \/ Crash(p)
  <2>1. Goes(p, Fresh)
    BY <1>5 DEF Disconnect, Crash, Goes
  <2>2. /\ Fresh.pc = "idle" /\ Fresh.pending = {} /\ Fresh.batch = {} /\ Fresh.whole = {}
        /\ Fresh.entry = NoEntry /\ Fresh.got = Unread
    BY DEF Fresh
  <2>3. Fit(Fresh, known, Stored, Spare)
    BY <1>1, <2>2, EndFits
  <2> QED BY <1>3, <2>1, <2>3
<1>6. ASSUME NEW kind \in {"auto", "exit", "now"}, Begin(p, kind) PROVE Safe'
  <2> DEFINE u == Beginning(p, kind)
  <2>1. Goes(p, u) /\ t.pc = "idle"
    BY <1>6 DEF Begin, Goes, Beginning
  <2>2. /\ u.pc \in {"check", "pull"} /\ u.pending = t.pending /\ u.batch = t.batch
        /\ u.whole = t.whole /\ u.entry = t.entry /\ u.got = t.got
    BY BeginningType
  <2> HIDE DEF u, t
  <2>3. t.entry.gone \union t.got.content.gone \subseteq Spare
    BY <1>1 DEF Fit
  <2>4. Fit(u, known, Stored, Spare)
    BY <1>1, <2>1, <2>2, <2>3, OnFits
  <2> QED BY <1>3, <2>1, <2>4
<1> QED
  BY <1>4, <1>5, <1>6

\* An edit is added to the document, and perhaps to the queue.
LEMMA EditIsSafe ==
  ASSUME TypeInv, Safe, NEW p \in Tabs, Edit(p) PROVE Safe'
<1> DEFINE e == Cardinality(AllMade) + 1
           d == DeviceOf[p]
<1>1. /\ UNCHANGED <<cloud, sent>> /\ doc' = [doc EXCEPT ![d] = @ \union {e}]
      /\ \/ tab' = [tab EXCEPT ![p].pending = @ \union {e}]
         \/ UNCHANGED tab
  BY DEF Edit
<1> HIDE DEF e
<1>2. doc \in [Devices -> SUBSET Edits] /\ tab \in [Tabs -> Provider] /\ d \in Devices
  BY OfTab DEF TypeInv, TypeOK
<1>3. Stored' = Stored /\ Spare' = Spare /\ manifest' = manifest
  BY <1>1 DEF cloud, Stored, Spare
<1>4. \A c \in Devices : doc[c] \subseteq doc'[c]
  BY <1>1, <1>2
<1>5. ASSUME NEW q \in Tabs PROVE Fit(tab'[q], doc'[DeviceOf[q]], Stored', Spare')
  <2> DEFINE t == tab[q]
             u == tab'[q]
  <2>1. Fit(t, doc[DeviceOf[q]], Stored, Spare) /\ t \in Provider /\ DeviceOf[q] \in Devices
    BY OfSafe, OfTab
  <2>2. \/ u = t
        \/ q = p /\ u = [t EXCEPT !.pending = @ \union {e}]
    BY <1>1, <1>2
  <2>3. doc[DeviceOf[q]] \subseteq doc'[DeviceOf[q]] /\ (q = p => e \in doc'[DeviceOf[q]])
    BY <1>1, <1>2, <1>4, <2>1
  <2> HIDE DEF t, u
  <2>4. /\ u.pending \subseteq t.pending \union (IF q = p THEN {e} ELSE {})
        /\ u.whole = t.whole /\ u.batch = t.batch /\ u.pc = t.pc /\ u.entry = t.entry
        /\ u.got = t.got
    BY <2>1, <2>2 DEF Provider
  <2>5. Fit(u, doc'[DeviceOf[q]], Stored, Spare)
    BY <2>1, <2>3, <2>4 DEF Fit
  <2> QED BY <1>3, <2>5 DEF u
<1> QED
  BY <1>1, <1>3, <1>4, <1>5 DEF Safe

\* A new base file contains everything that was in the files.
LEMMA UploadBaseIsSafe ==
  ASSUME OneDevice, TypeInv, Grounded, Safe, NEW p \in Tabs, UploadBase(p) PROVE Safe'
<1> DEFINE t == tab[p]
           u == tab'[p]
           known == doc[DeviceOf[p]]
<1>1. /\ t \in Provider /\ Fit(t, known, Stored, Spare) /\ t.pc = "putBase"
      /\ sent[DeviceOf[p]] \subseteq Stored /\ manifest.entry.gone \subseteq Spare
  BY OfTab, OfSafe DEF UploadBase
<1>2. \A q \in Tabs \ {p} : tab'[q] = tab[q]
  BY StepOthers DEF Step
<1>3. /\ UNCHANGED <<deltas, manifest, doc, sent>>
      /\ \/ UNCHANGED base /\ Goes(p, Failed(t))
         \/ base' = [edits |-> t.whole, time |-> base.time + 1]
  BY DEF UploadBase, local
<1>4. \/ Fails(t, u)
      \/ /\ Saves(t, u) /\ t.job \in BaseJobs
         /\ u.entry = IF t.job = "verify" THEN NewBase(t.entry) ELSE ClearDeltas(t.entry)
  BY UploadBaseType
<1>5. CASE UNCHANGED base /\ Goes(p, Failed(t))
  <2>1. u = Failed(t)
    BY <1>5 DEF Goes, TypeInv, TypeOK
  <2>2. Fit(u, known, Stored, Spare)
    BY <1>1, <2>1, FailedType, EndFits DEF Fails
  <2> QED BY <1>2, <1>3, <1>5, <2>2, QuietIsSafe DEF cloud
<1>6. CASE base' = [edits |-> t.whole, time |-> base.time + 1]
  <2>1. Stored \subseteq t.whole /\ t.whole \subseteq known /\ t.batch \subseteq t.whole
    BY <1>1 DEF Fit
  <2>2. Stored' = t.whole /\ Spare' = DeltaIds
    <3>1. \A id \in DOMAIN deltas : deltas[id] \subseteq t.whole
      BY <2>1 DEF Stored
    <3>2. base'.edits = t.whole /\ deltas' = deltas
      BY <1>3, <1>6
    <3> QED BY <3>1, <3>2 DEF Stored, Spare
  <2>3. \A q \in Tabs : tab[q].entry.gone \union tab[q].got.content.gone \subseteq DeltaIds
    BY DEF Safe, Fit, Spare
  <2>4. manifest'.entry.gone \subseteq DeltaIds
    BY <1>1, <1>3 DEF Spare
  <2>5. Fit(u, known, t.whole, DeltaIds)
    <3>1. t.entry \in Manifest(DeltaIds) /\ t.got.content.gone \subseteq DeltaIds
      BY <1>1, <2>3 DEF Provider
    <3>2. NewBase(t.entry).gone \subseteq DeltaIds /\ ClearDeltas(t.entry).gone \subseteq DeltaIds
      BY <3>1, ClearType DEF Manifest
    <3>3. t.pending \subseteq known
      BY <1>1 DEF Fit
    <3> HIDE DEF t, u, known
    <3>4. CASE Fails(t, u)
      <4>1. t.entry.gone \subseteq DeltaIds /\ Unread.content.gone = {}
        BY <3>1 DEF Manifest, Unread, NoEntry
      <4> QED BY <3>3, <3>4, <4>1 DEF Fit, Fails
    <3>5. CASE /\ Saves(t, u)
               /\ u.entry = IF t.job = "verify" THEN NewBase(t.entry) ELSE ClearDeltas(t.entry)
      BY <2>1, <3>1, <3>2, <3>3, <3>5 DEF Fit, Saves
    <3> QED BY <1>4, <3>4, <3>5
  <2> QED
    BY <1>1, <1>2, <1>3, <2>1, <2>2, <2>3, <2>4, <2>5, TurnIsSafe
<1> QED
  BY <1>3, <1>5, <1>6

\* A new delta adds to the files what the document has, under a name that no
\* tombstone bears.
LEMMA UploadDeltaIsSafe ==
  ASSUME OneDevice, TypeInv, Grounded, Safe, NEW p \in Tabs, UploadDelta(p) PROVE Safe'
<1> DEFINE t == tab[p]
           u == tab'[p]
           known == doc[DeviceOf[p]]
           id == NewDelta
<1>1. /\ t \in Provider /\ Tab(t) /\ Fit(t, known, Stored, Spare) /\ t.pc = "putDelta"
      /\ sent[DeviceOf[p]] \subseteq Stored /\ manifest.entry.gone \subseteq Spare
      /\ Stored \subseteq known
  BY OfTab, OfSafe DEF UploadDelta
<1>2. \A q \in Tabs \ {p} : tab'[q] = tab[q]
  BY StepOthers DEF Step
<1>3. /\ UNCHANGED <<base, manifest, doc, sent>>
      /\ deltas' = [i \in DOMAIN deltas \union {id} |-> IF i = id THEN t.batch ELSE deltas[i]]
  BY DEF UploadDelta, local, NewDelta
<1>4. /\ id \in DeltaIds
      /\ \/ Fails(t, u)
         \/ Saves(t, u) /\ u.entry = AddDelta(t.entry, id) /\ u.job = "delta"
  BY UploadDeltaType
<1>5. id \notin DOMAIN deltas /\ id \notin manifest.entry.gone
  BY NewDeltaIsNew DEF Used
<1>6. \A q \in Tabs : id \notin tab[q].entry.gone \union tab[q].got.content.gone
  <2>1. \A q \in Tabs : Clear(tab[q], manifest.entry, DOMAIN deltas)
    BY DEF Grounded
  <2> QED BY <1>5, <2>1 DEF Clear
<1> HIDE DEF id
<1>7. Stored' = Stored \union t.batch /\ Spare \ {id} \subseteq Spare'
  <2>1. /\ DOMAIN deltas' = DOMAIN deltas \union {id} /\ deltas'[id] = t.batch
        /\ \A i \in DOMAIN deltas : deltas'[i] = deltas[i]
    BY <1>3, <1>5
  <2> HIDE DEF t
  <2> QED BY <1>3, <2>1 DEF Stored, Spare
<1>8. t.pending \subseteq known /\ t.batch \subseteq known /\ t.whole \subseteq Stored
  BY <1>1 DEF Fit, Tab
<1>9. Fit(u, known, Stored', Spare')
  <2>1. t.entry.gone \union t.got.content.gone \subseteq Spare'
    <3>1. t.entry.gone \union t.got.content.gone \subseteq Spare
      BY <1>1 DEF Fit
    <3> QED BY <1>6, <1>7, <3>1
  <2>2. t.entry \in Manifest(DeltaIds) /\ Unread.content.gone = {}
    BY <1>1 DEF Provider, Unread, NoEntry
  <2>3. AddDelta(t.entry, id).gone \subseteq t.entry.gone
    BY <1>4, <2>2, AddDeltaType
  <2>4. t.whole \subseteq known
    BY <1>1 DEF Fit
  <2> HIDE DEF t, u, known
  <2>5. CASE Fails(t, u)
    BY <1>8, <2>1, <2>2, <2>5 DEF Fails, Fit
  <2>6. CASE Saves(t, u) /\ u.entry = AddDelta(t.entry, id)
    BY <1>7, <1>8, <2>1, <2>3, <2>4, <2>6 DEF Saves, Fit
  <2> QED BY <1>4, <2>5, <2>6
<1>10. /\ Stored \subseteq Stored' /\ Stored' \subseteq known /\ sent'[DeviceOf[p]] \subseteq Stored'
       /\ manifest'.entry.gone \subseteq Spare'
  BY <1>1, <1>3, <1>5, <1>7, <1>8
<1>11. \A q \in Tabs \ {p} : tab[q].entry.gone \union tab[q].got.content.gone \subseteq Spare'
  <2>1. \A q \in Tabs : tab[q].entry.gone \union tab[q].got.content.gone \subseteq Spare
    BY DEF Safe, Fit
  <2> QED BY <1>6, <1>7, <2>1
<1> QED
  BY <1>1, <1>2, <1>3, <1>9, <1>10, <1>11, TurnIsSafe

\* A save that reads again learns of no tombstone that is not spare.
LEMMA SaveReadIsSafe ==
  ASSUME TypeInv, Safe, NEW p \in Tabs, NEW part \in Parts, SaveRead(p, part) PROVE Safe'
<1> DEFINE t == tab[p]
           a == Answered(t, part)
           u == tab'[p]
           known == doc[DeviceOf[p]]
<1>1. /\ t \in Provider /\ Fit(t, known, Stored, Spare) /\ t.pc = "save"
  BY OfTab, OfSafe DEF SaveRead
<1>2. \A q \in Tabs \ {p} : tab'[q] = tab[q]
  BY StepOthers DEF Step, Parts
<1>3. UNCHANGED <<cloud, doc, sent>>
  BY DEF SaveRead, local
<1>4. SUFFICES Fit(u, known, Stored, Spare)
  BY <1>2, <1>3, QuietIsSafe
<1>5. /\ a.got.content.gone \subseteq Spare
      /\ a.got.content \in Manifest(DeltaIds) /\ a.got.files \in Listing(DeltaIds)
  BY AnsweredFits
<1>6. \/ Fails(t, u)
      \/ /\ Rereads(t, u) /\ u.pc = "save" /\ u.entry = t.entry /\ u.got = a.got
      \/ /\ Rereads(t, u) /\ u.pc = "write" /\ u.got = Unread
         /\ u.entry = Join(a.got.content, t.entry, a.got.files)
  BY SaveReadType
<1> HIDE DEF t, a, u, known
<1>7. t.entry \in Manifest(DeltaIds) /\ t.entry.gone \subseteq Spare
  BY <1>1 DEF Provider, Fit
<1>8. CASE Fails(t, u)
  BY <1>1, <1>8, EndFits DEF Fails
<1>9. CASE Rereads(t, u) /\ u.pc = "save" /\ u.entry = t.entry /\ u.got = a.got
  BY <1>1, <1>5, <1>7, <1>9, OnFits DEF Rereads
<1>10. CASE /\ Rereads(t, u) /\ u.pc = "write" /\ u.got = Unread
            /\ u.entry = Join(a.got.content, t.entry, a.got.files)
  <2> DEFINE c == a.got.content
             f == a.got.files
  <2>1. c \in Manifest(DeltaIds) /\ f \in Listing(DeltaIds) /\ c.gone \subseteq Spare
        /\ u.entry = Join(c, t.entry, f)
    BY <1>5, <1>10
  <2> HIDE DEF c, f
  <2>2. Join(c, t.entry, f).gone = c.gone \union t.entry.gone
    BY <1>7, <2>1, JoinType, ZenonT(30)
  <2>3. Unread.content.gone = {}
    BY DEF Unread, NoEntry
  <2>4. u.entry.gone \union u.got.content.gone \subseteq Spare
    BY <1>7, <1>10, <2>1, <2>2, <2>3
  <2> QED BY <1>1, <1>10, <2>4, OnFits DEF Rereads
<1> QED
  BY <1>6, <1>8, <1>9, <1>10

\* What the end of an upload leaves of the queue and of the upload.
Leaves(t, u, edits) ==
  /\ u.pending \subseteq t.pending /\ u.batch \subseteq t.batch /\ u.pc # "putDelta"
  /\ IF u.pc = "putBase" THEN u.whole = edits ELSE u.whole \subseteq t.whole

\* A delta or a whole document that was uploaded is let go.
LEMMA UploadedLeaves ==
  ASSUME NEW t, NEW v \in Provider, v.pending = t.pending, v.batch = t.batch,
         NEW edits \in SUBSET Edits
  PROVE  Leaves(t, Compacted(Uploaded(v), edits), edits)
<1> DEFINE w == Uploaded(v)
           u == Compacted(w, edits)
<1>1. w \in Provider /\ w.pending \subseteq v.pending /\ w.batch = {} /\ w.whole = {}
  BY DEF Uploaded, Provider
<1> HIDE DEF w
<1>2. GoesOn(w, u) /\ IF u.pc = "putBase" THEN u.whole = edits ELSE u.whole = w.whole
  BY <1>1, CompactedType, CompactedWhole
<1> HIDE DEF u
<1>3. Leaves(t, u, edits)
  BY <1>1, <1>2 DEF GoesOn, Onward, Leaves
<1> QED
  BY <1>3 DEF u, w

\* So is a base file.
LEMMA BaseDoneLeaves ==
  ASSUME NEW t \in Provider, t.job \in BaseJobs, NEW edits \in SUBSET Edits
  PROVE  Leaves(t, BaseDone(t, edits), edits)
<1>1. CASE t.job = "full"
  <2> DEFINE v == [t EXCEPT !.version = t.next, !.have = {}]
  <2>1. v \in Provider /\ v.pending = t.pending /\ v.batch = t.batch
    BY DEF Provider
  <2>2. BaseDone(t, edits) = Compacted(Uploaded(v), edits)
    BY <1>1 DEF BaseDone
  <2> HIDE DEF v
  <2> QED BY <2>1, <2>2, UploadedLeaves
<1>2. CASE t.job = "verify"
  <2> DEFINE v == [t EXCEPT !.version = t.next]
  <2>1. v \in Provider /\ v.pending = t.pending /\ v.batch = t.batch
    BY DEF Provider
  <2>2. BaseDone(t, edits) = Compacted(Uploaded(v), edits)
    BY <1>2 DEF BaseDone
  <2> HIDE DEF v
  <2> QED BY <2>1, <2>2, UploadedLeaves
<1>3. CASE t.job = "compact"
  <2> DEFINE v == [t EXCEPT !.version = t.entry.version, !.have = {}, !.whole = {}]
  <2>1. t.entry.version \in Nat
    BY DEF Provider, Manifest
  <2>2. v \in Provider /\ v.pending = t.pending /\ v.batch = t.batch /\ v.whole = {}
    BY <2>1 DEF Provider
  <2>3. BaseDone(t, edits) = Finished(v)
    BY <1>3 DEF BaseDone
  <2> HIDE DEF v
  <2>4. GoesOn(v, Finished(v)) /\ Finished(v).pc # "putBase" /\ Finished(v).whole = v.whole
    BY <2>2, FinishedType, FinishedWhole
  <2> QED BY <2>2, <2>3, <2>4 DEF GoesOn, Onward, Leaves
<1> QED
  BY <1>1, <1>2, <1>3 DEF BaseJobs

\* And what a save of the manifest ends.
LEMMA SavedLeaves ==
  ASSUME NEW t \in Provider, t.job \in BaseJobs \union {"delta", "final"},
         t.job = "delta" => t.next \in DeltaIds, NEW edits \in SUBSET Edits
  PROVE  Leaves(t, Saved(t, edits), edits)
<1>1. CASE t.job = "final"
  <2>1. Saved(t, edits) = Finished(t)
    BY <1>1 DEF Saved
  <2>2. GoesOn(t, Finished(t)) /\ Finished(t).pc # "putBase" /\ Finished(t).whole = t.whole
    BY FinishedType, FinishedWhole
  <2> QED BY <2>1, <2>2 DEF GoesOn, Onward, Leaves
<1>2. CASE t.job = "delta"
  <2> DEFINE v == [t EXCEPT !.have = @ \union {t.next}]
  <2>1. v \in Provider /\ v.pending = t.pending /\ v.batch = t.batch
    BY <1>2 DEF Provider
  <2>2. Saved(t, edits) = Compacted(Uploaded(v), edits)
    BY <1>2 DEF Saved
  <2> HIDE DEF v
  <2> QED BY <2>1, <2>2, UploadedLeaves
<1>3. CASE t.job \in BaseJobs /\ t.drop # {}
  <2>1. Saved(t, edits) = [t EXCEPT !.pc = "delete"]
    BY <1>3 DEF Saved, BaseJobs
  <2> QED BY <2>1 DEF Leaves, Provider
<1>4. CASE t.job \in BaseJobs /\ t.drop = {}
  <2>1. Saved(t, edits) = BaseDone(t, edits)
    BY <1>4 DEF Saved, BaseJobs
  <2> QED BY <1>4, <2>1, BaseDoneLeaves
<1> QED
  BY <1>1, <1>2, <1>3, <1>4

\* A tab whose upload ended uploads the whole document next, or holds less.
LEMMA LeavesFits ==
  ASSUME NEW t, NEW u, NEW known, NEW held, NEW spare, Fit(t, known, held, spare),
         t.pc \notin {"putBase", "putDelta"}, held \subseteq known, t.batch \subseteq t.pending,
         Leaves(t, u, known), u.entry = t.entry, u.got = t.got
  PROVE  Fit(u, known, held, spare)
BY DEF Fit, Leaves

\* What the manifest is about to refer to is in the files when it is accepted.
LEMMA SaveWriteIsSafe ==
  ASSUME OneDevice, TypeInv, Grounded, Safe, NEW p \in Tabs, SaveWrite(p) PROVE Safe'
<1> DEFINE t == tab[p]
           u == tab'[p]
           known == doc[DeviceOf[p]]
           now == manifest.time + 1
           revision == Revision(now)
           s == [t EXCEPT !.seen = now, !.revision = revision, !.unsaved = FALSE]
           after == [sent EXCEPT ![DeviceOf[p]] = @ \union t.batch \union t.whole]
<1>1. /\ t \in Provider /\ Tab(t) /\ t.pc = "write" /\ known \in SUBSET Edits
      /\ t.job \in BaseJobs \union {"delta", "final"}
      /\ t.job = "delta" => t.next \in DeltaIds
      /\ Fit(t, known, Stored, Spare) /\ Stored \subseteq known
      /\ sent[DeviceOf[p]] \subseteq Stored /\ manifest.entry.gone \subseteq Spare
      /\ DeviceOf[p] \in Devices /\ sent \in [Devices -> SUBSET Edits]
  BY OfTab, OfSafe DEF SaveWrite, Tab, JobFits, TypeInv, TypeOK
<1>2. \A q \in Tabs \ {p} : tab'[q] = tab[q]
  BY StepOthers DEF Step
<1>3. /\ \/ Goes(p, Failed(t)) /\ UNCHANGED sent
         \/ Goes(p, Saved(s, known)) /\ sent' = after
      /\ UNCHANGED <<base, deltas, doc>>
  BY DEF SaveWrite, Lost, local
<1>4. manifest'.entry \in {manifest.entry, t.entry}
  BY SaveWriteType
<1>5. Stored' = Stored /\ Spare' = Spare
  BY <1>3 DEF Stored, Spare
<1>6. t.batch \subseteq t.pending /\ t.batch \subseteq Stored /\ t.whole \subseteq Stored
      /\ t.entry.gone \subseteq Spare
  BY <1>1 DEF Fit, Tab
<1>7. now \in Nat /\ revision \in Nat
  BY OfTab DEF Revision
<1>8. \A v : Goes(p, v) => tab'[p] = v
  BY DEF Goes, TypeInv, TypeOK
<1>9. Fit(u, known, Stored, Spare) /\ sent'[DeviceOf[p]] \subseteq Stored
  <2>1. CASE Goes(p, Failed(t)) /\ UNCHANGED sent
    <3>1. u = Failed(t)
      BY <1>8, <2>1
    <3> HIDE DEF u, t
    <3>2. Fails(t, u)
      BY <1>1, <3>1, FailedType
    <3>3. Fit(u, known, Stored, Spare)
      BY <1>1, <3>2, EndFits DEF Fails
    <3> QED BY <1>1, <2>1, <3>3
  <2>2. CASE Goes(p, Saved(s, known)) /\ sent' = after
    <3>1. u = Saved(s, known)
      BY <1>8, <2>2
    <3>2. sent'[DeviceOf[p]] \subseteq Stored
      BY <1>1, <1>6, <2>2
    <3> HIDE DEF u, t, known, now, revision
    <3>3. s \in Provider
      BY <1>1, <1>7 DEF Provider
    <3>4. /\ s.pending = t.pending /\ s.batch = t.batch /\ s.whole = t.whole /\ s.entry = t.entry
          /\ s.got = t.got /\ s.job = t.job /\ s.next = t.next /\ s.pc = t.pc
      BY <1>1 DEF Provider
    <3> HIDE DEF s
    <3>5. Leaves(s, u, known) /\ u.entry = s.entry /\ u.got = s.got
      <4>1. Resumes(s, u) \/ Deletes(s, u)
        BY <1>1, <3>1, <3>3, <3>4, SavedType
      <4>2. Leaves(s, u, known)
        BY <1>1, <3>1, <3>3, <3>4, SavedLeaves
      <4> QED BY <4>1, <4>2 DEF Resumes, Deletes, Keeps
    <3>6. Leaves(t, u, known) /\ u.entry = t.entry /\ u.got = t.got
      BY <3>4, <3>5 DEF Leaves
    <3>7. Fit(u, known, Stored, Spare)
      BY <1>1, <1>6, <3>6, LeavesFits
    <3> QED BY <3>2, <3>7
  <2> QED BY <1>3, <2>1, <2>2
<1>10. \A q \in Tabs \ {p} : tab[q].entry.gone \union tab[q].got.content.gone \subseteq Spare'
  BY <1>5 DEF Safe, Fit
<1>11. manifest'.entry.gone \subseteq Spare'
  BY <1>1, <1>4, <1>5, <1>6
<1> QED
  BY <1>1, <1>2, <1>3, <1>5, <1>9, <1>10, <1>11, TurnIsSafe

\* The base file contains what a deleted delta contained.
LEMMA DeleteDeltaIsSafe ==
  ASSUME OneDevice, TypeInv, Grounded, Safe, NEW p \in Tabs, NEW id \in DeltaIds,
         DeleteDelta(p, id)
  PROVE  Safe'
<1> DEFINE t == tab[p]
           u == tab'[p]
           known == doc[DeviceOf[p]]
           drop == t.drop \ {id}
           rest == [t EXCEPT !.drop = drop]
<1>1. /\ t \in Provider /\ Tab(t) /\ t.pc = "delete" /\ known \in SUBSET Edits
      /\ t.job \in BaseJobs /\ id \in t.drop
      /\ Fit(t, known, Stored, Spare) /\ Stored \subseteq known
      /\ sent[DeviceOf[p]] \subseteq Stored /\ manifest.entry.gone \subseteq Spare
  BY OfTab, OfSafe DEF DeleteDelta, Tab, JobFits
<1>2. \A q \in Tabs \ {p} : tab'[q] = tab[q]
  BY StepOthers DEF Step
<1>3. /\ u = BaseDone(rest, known) \/ u = rest
      /\ UNCHANGED deltas \/ deltas' = [i \in DOMAIN deltas \ {id} |-> deltas[i]]
      /\ UNCHANGED <<base, manifest, doc, sent>>
  BY DEF DeleteDelta, Goes, local, TypeInv, TypeOK
<1>4. id \in manifest.entry.gone
  <2>1. Clear(t, manifest.entry, DOMAIN deltas)
    BY OfGrounded
  <2> QED BY <1>1, <2>1 DEF Clear
<1>5. Stored' = Stored /\ Spare \subseteq Spare'
  <2>1. CASE UNCHANGED deltas
    BY <1>3, <2>1 DEF Stored, Spare
  <2>2. CASE deltas' = [i \in DOMAIN deltas \ {id} |-> deltas[i]]
    <3>1. id \in DOMAIN deltas => deltas[id] \subseteq base.edits
      BY <1>1, <1>4 DEF Spare
    <3>2. /\ DOMAIN deltas' = DOMAIN deltas \ {id}
          /\ \A i \in DOMAIN deltas \ {id} : deltas'[i] = deltas[i]
      BY <2>2
    <3> QED BY <1>3, <3>1, <3>2 DEF Stored, Spare
  <2> QED BY <1>3, <2>1, <2>2
<1>6. Fit(u, known, Stored, Spare)
  <2> HIDE DEF u, t, known
  <2>1. drop \in SUBSET DeltaIds
    BY <1>1 DEF Provider
  <2> HIDE DEF drop
  <2>2. rest \in Provider
    BY <1>1, <2>1 DEF Provider
  <2>3. /\ rest.pending = t.pending /\ rest.batch = t.batch /\ rest.whole = t.whole
        /\ rest.entry = t.entry /\ rest.got = t.got /\ rest.job = t.job /\ rest.pc = "delete"
    BY <1>1 DEF Provider
  <2> HIDE DEF rest
  <2>4. Leaves(t, u, known) /\ u.entry = t.entry /\ u.got = t.got
    <3>1. CASE u = rest
      BY <2>3, <3>1 DEF Leaves
    <3>2. CASE u = BaseDone(rest, known)
      <4>1. Leaves(rest, u, known) /\ Resumes(rest, u)
        BY <1>1, <2>2, <2>3, <3>2, BaseDoneLeaves, BaseDoneType
      <4> QED BY <2>3, <4>1 DEF Leaves, Resumes, Keeps
    <3> QED BY <1>3, <3>1, <3>2
  <2>5. t.batch \subseteq t.pending
    BY <1>1 DEF Tab
  <2> QED BY <1>1, <2>4, <2>5, LeavesFits
<1>7. Fit(u, known, Stored', Spare')
  BY <1>5, <1>6 DEF Fit
<1>8. \A q \in Tabs \ {p} : tab[q].entry.gone \union tab[q].got.content.gone \subseteq Spare'
  BY <1>5 DEF Safe, Fit
<1> QED
  BY <1>1, <1>2, <1>3, <1>5, <1>7, <1>8, TurnIsSafe

\* Every step keeps what was accepted.
LEMMA NextSafe ==
  ASSUME OneDevice, TypeInv, Grounded, Safe, [Next]_vars PROVE Safe'
<1>1. ASSUME NEW p \in Tabs, Step(p) PROVE Safe'
  <2>1. CASE \E part \in {"content", "files", "seen"} : Read(p, part) \/ SaveRead(p, part)
    BY <2>1, ReadingIsSafe, SaveReadIsSafe DEF Parts
  <2>2. CASE \E id \in DeltaIds : PullDelta(p, id) \/ DeleteDelta(p, id)
    BY <2>2, ReadingIsSafe, DeleteDeltaIsSafe
  <2> QED
    BY <1>1, <2>1, <2>2, ReadingIsSafe, PushIsSafe, UploadBaseIsSafe, UploadDeltaIsSafe,
       SaveWriteIsSafe DEF Step
<1>2. CASE UNCHANGED vars
  BY <1>2 DEF vars, cloud, local, Safe, Stored, Spare, Fit
<1>3. CASE Next
  BY <1>1, <1>3, EditIsSafe, SessionIsSafe, ReadingIsSafe DEF Next
<1> QED
  BY <1>2, <1>3

\* Nothing was accepted at the start.
LEMMA InitSafe == ASSUME Init PROVE Safe
<1>1. /\ base.edits = {} /\ deltas = << >> /\ manifest.entry.gone = {}
      /\ \A d \in Devices : doc[d] = {} /\ sent[d] = {}
      /\ \A p \in Tabs : tab[p] = Fresh
  BY DEF Init
<1>2. Stored = {}
  BY <1>1 DEF Stored
<1>3. \A p \in Tabs : /\ tab[p].pc = "idle" /\ tab[p].entry = NoEntry /\ tab[p].got = Unread
                      /\ tab[p].pending = {} /\ tab[p].batch = {} /\ tab[p].whole = {}
  BY <1>1 DEF Fresh
<1>4. \A p \in Tabs : Fit(tab[p], doc[DeviceOf[p]], Stored, Spare)
  BY <1>3 DEF Fit, Unread, NoEntry
<1> QED
  BY <1>1, <1>2, <1>4 DEF Safe

\* A tombstone hides nothing, so all that is in the files can be downloaded.
LEMMA StoredIsReadable == ASSUME TypeInv, Safe PROVE CloudEdits = Stored
<1>1. ASSUME NEW id \in DOMAIN deltas, id \in manifest.entry.gone PROVE deltas[id] \subseteq base.edits
  BY <1>1 DEF Safe, Spare, TypeInv, TypeOK
<1> QED
  BY <1>1 DEF CloudEdits, Stored

\* What is in a document was made, and the edits are numbered.
Known ==
  /\ \A d \in Devices : doc[d] \subseteq made[d]
  /\ Numbered(AllMade)

\* The next edit has a number of its own.
LEMMA EditIsNew ==
  ASSUME Numbered(AllMade)
  PROVE  /\ Cardinality(AllMade) + 1 \notin AllMade
         /\ Numbered(AllMade \union {Cardinality(AllMade) + 1})
<1>1. PICK k \in Nat : AllMade = 1..k
  BY DEF Numbered
<1>2. Cardinality(1..k) = k
  BY FS_Interval
<1>3. k + 1 \notin 1..k /\ (1..k) \union {k + 1} = 1..(k + 1) /\ k + 1 \in Nat
  OBVIOUS
<1> QED
  BY <1>1, <1>2, <1>3 DEF Numbered

\* Adding to a document what it has leaves the documents as they are.
LEMMA NothingNew ==
  ASSUME TypeInv, NEW d \in Devices, NEW edits, edits \subseteq doc[d]
  PROVE  [doc EXCEPT ![d] = @ \union edits] = doc
<1>1. doc \in [Devices -> SUBSET Edits] /\ doc[d] \union edits = doc[d]
  BY DEF TypeInv, TypeOK
<1> QED
  BY <1>1

\* The document changes with an edit only: there is nothing to download.
LEMMA OnlyEdits ==
  ASSUME TypeInv, Safe, [Next]_vars
  PROVE  UNCHANGED <<doc, made>> \/ \E p \in Tabs : Edit(p)
<1>1. ASSUME NEW p \in Tabs, PullBase(p) PROVE UNCHANGED <<doc, made>>
  <2>1. base.edits \subseteq doc[DeviceOf[p]]
    BY OfSafe DEF Stored
  <2>2. UNCHANGED doc \/ doc' = [doc EXCEPT ![DeviceOf[p]] = @ \union base.edits]
    BY <1>1 DEF PullBase
  <2>3. UNCHANGED made
    BY <1>1 DEF PullBase
  <2> QED BY <2>1, <2>2, <2>3, OfTab, NothingNew
<1>2. ASSUME NEW p \in Tabs, NEW id \in DeltaIds, PullDelta(p, id) PROVE UNCHANGED <<doc, made>>
  <2>1. id \in DOMAIN deltas => deltas[id] \subseteq doc[DeviceOf[p]]
    BY OfSafe DEF Stored
  <2>2. \/ UNCHANGED doc
        \/ id \in DOMAIN deltas /\ doc' = [doc EXCEPT ![DeviceOf[p]] = @ \union deltas[id]]
    BY <1>2 DEF PullDelta
  <2>3. UNCHANGED made
    BY <1>2 DEF PullDelta
  <2> QED BY <2>1, <2>2, <2>3, OfTab, NothingNew
<1>3. ASSUME NEW p \in Tabs, Step(p) PROVE UNCHANGED <<doc, made>>
  BY <1>1, <1>2, <1>3 DEF Step, Check, List, Body, Push, Read, SaveRead, DeleteDelta,
     UploadBase, UploadDelta, SaveWrite, Callback, Complete, local
<1>4. CASE UNCHANGED vars
  BY <1>4 DEF vars, local
<1>5. CASE Next
  BY <1>3, <1>5 DEF Next, Connect, Disconnect, Crash, Fail, Begin, local
<1> QED
  BY <1>4, <1>5

\* A device has no edit that was not made, and the numbers go on.
LEMMA NextKnown ==
  ASSUME OneDevice, TypeInv, Safe, Known, [Next]_vars PROVE Known'
<1>1. CASE UNCHANGED <<doc, made>>
  BY <1>1 DEF Known, AllMade, Numbered
<1>2. ASSUME NEW p \in Tabs, Edit(p) PROVE Known'
  <2> DEFINE d == DeviceOf[p]
             e == Cardinality(AllMade) + 1
  <2>1. d \in Devices /\ Devices = {d}
    BY OfTab DEF OneDevice
  <2>2. AllMade = made[d] /\ AllMade' = made'[d]
    BY <2>1 DEF AllMade
  <2>3. doc'[d] = doc[d] \union {e} /\ made'[d] = made[d] \union {e}
    BY <1>2, <2>1 DEF Edit, TypeInv, TypeOK
  <2>4. Numbered(made[d] \union {e})
    BY <2>2, EditIsNew DEF Known
  <2> HIDE DEF e
  <2> QED BY <2>1, <2>2, <2>3, <2>4 DEF Known, Numbered
<1> QED
  BY <1>1, <1>2, OnlyEdits

\* Nothing was made at the start.
LEMMA InitKnown == ASSUME Init PROVE Known
<1>1. \A d \in Devices : doc[d] = {} /\ made[d] = {}
  BY DEF Init
<1>2. AllMade = 1..0 /\ 0 \in Nat
  BY <1>1 DEF AllMade
<1> QED
  BY <1>1, <1>2 DEF Known, Numbered

\* Everything that makes one device sound.
Whole == TypeInv /\ Grounded /\ Safe /\ Evident /\ Known

\* Every step keeps it whole, with one tab that makes no edit while it connects.
LEMMA NextWhole ==
  ASSUME OneDevice, QuietConnect, Single, Whole, [Next]_vars PROVE Whole'
<1>1. TypeInv'
  BY NextType DEF Whole
<1>2. Grounded' /\ Safe'
  BY NextGrounded, NextSafe DEF Whole
<1>3. Evident'
  BY <1>1, NextEvident DEF Whole
<1>4. Known'
  BY NextKnown DEF Whole
<1> QED
  BY <1>1, <1>2, <1>3, <1>4 DEF Whole

\* It is whole from the start.
LEMMA InitWhole == ASSUME Init PROVE Whole
BY InitType, InitGrounded, InitSafe, InitEvident, InitKnown DEF Whole

\* In a workspace that is used in one tab of one device, with no edit while a
\* connection is set up, every edit is at the provider or has left a marker,
\* whatever requests fail or lose their answers, sessions end or the page is
\* closed between two requests, and with or without conditional replacement: an
\* edit stays in the files once it was accepted, because a base file that
\* replaces another is taken from a document that has all of them, and only
\* buried deltas are deleted.
THEOREM WorkStaysRecoverable ==
  ASSUME OneDevice, QuietConnect, Single PROVE Spec => []WorkIsRecoverable
<1>1. Init => Whole
  BY InitWhole
<1>2. Whole /\ [Next]_vars => Whole'
  BY NextWhole
<1>3. Whole => WorkIsRecoverable
  <2> SUFFICES ASSUME Whole, NEW d \in Devices
               PROVE  made[d] \subseteq CloudEdits \/ dirty[d] \/ parted[d]
    BY DEF WorkIsRecoverable
  <2>1. CloudEdits = Stored /\ sent[d] \subseteq Stored
    BY StoredIsReadable DEF Whole, Safe
  <2>2. made[d] \ sent[d] = {} \/ dirty[d] \/ parted[d]
    BY DEF Whole, Evident, Unsent
  <2> QED BY <2>1, <2>2
<1> QED
  BY <1>1, <1>2, <1>3, PTL DEF Spec

-----------------------------------------------------------------------------
(* The files and one device behave as a shared document.                   *)

\* Whether a device owes its whole document, and what it owes, as functions of
\* what it keeps.
All(t, marked, parting) ==
  \/ t.full
  \/ t.job = "full" /\ t.pc # "delete"
  \/ (t.pc = "idle" \/ Loading(t)) /\ marked /\ t.pending = {}
  \/ ~t.on /\ t.pc = "idle" /\ (parting \/ InMemory(t) \/ marked)

Due(t, known, marked, parting) == IF All(t, marked, parting) THEN known ELSE t.pending

\* A device with one tab owes what its tab says.
LEMMA OwedIsDue ==
  ASSUME Single, NEW p \in Tabs
  PROVE  LET d == DeviceOf[p]
         IN Owed(d) = Due(tab[p], doc[d], dirty[d], parted[d])
<1>1. {q \in Tabs : DeviceOf[q] = DeviceOf[p]} = {p}
  BY DEF Single
<1>2. OwesAll(p) <=> All(tab[p], dirty[DeviceOf[p]], parted[DeviceOf[p]])
  BY DEF OwesAll, All, Unsynced
<1>3. Owed(DeviceOf[p]) = IF OwesAll(p) THEN doc[DeviceOf[p]] ELSE tab[p].pending
  BY <1>1 DEF Owed
<1> QED
  BY <1>2, <1>3 DEF Due

\* An edit that the provider has not accepted is owed.
LEMMA UnsentIsDue ==
  ASSUME NEW t, NEW un, NEW known, NEW marked, NEW parting, NEW accepted,
         Owing(t, un, marked, accepted), un \subseteq known, t.pending \subseteq known,
         un = {} \/ marked \/ parting
  PROVE  un \subseteq Due(t, known, marked, parting)
<1>1. CASE t.on \/ t.pc # "idle"
  <2>1. CASE Loading(t)
    BY <2>1 DEF Owing, Due, All
  <2>2. CASE ~Loading(t)
    BY <1>1, <2>2 DEF Owing, Holds, Due, All
  <2> QED BY <2>1, <2>2
<1>2. CASE ~t.on /\ t.pc = "idle"
  BY <1>2 DEF Due, All
<1> QED
  BY <1>1, <1>2

\* A device has what the provider has and what it owes, and every edit it made is
\* at the provider or owed.
Covered ==
  \A p \in Tabs :
    LET d == DeviceOf[p]
    IN CloudEdits \union Owed(d) \subseteq doc[d] /\ made[d] \subseteq CloudEdits \union Owed(d)

LEMMA WholeCovers == ASSUME Single PROVE Whole => Covered
<1> SUFFICES ASSUME Whole, NEW p \in Tabs
             PROVE  LET d == DeviceOf[p]
                    IN /\ CloudEdits \union Owed(d) \subseteq doc[d]
                       /\ made[d] \subseteq CloudEdits \union Owed(d)
  BY DEF Covered
<1> DEFINE d == DeviceOf[p]
           t == tab[p]
<1>1. d \in Devices /\ Owed(d) = Due(t, doc[d], dirty[d], parted[d])
  BY OwedIsDue, OfTab DEF Whole
<1>2. Owing(t, Unsent(d), dirty[d], sent[d]) /\ Unsent(d) \subseteq doc[d]
      /\ (Unsent(d) = {} \/ dirty[d] \/ parted[d])
  BY <1>1 DEF Whole, Evident, Unsent
<1>3. t.pending \subseteq doc[d] /\ sent[d] \subseteq CloudEdits /\ CloudEdits \subseteq doc[d]
  BY OfSafe, StoredIsReadable DEF Whole, Fit
<1> HIDE DEF d, t
<1>4. Unsent(d) \subseteq Owed(d)
  BY <1>1, <1>2, <1>3, UnsentIsDue
<1>5. Owed(d) \subseteq doc[d]
  BY <1>1, <1>3 DEF Due
<1> QED
  BY <1>3, <1>4, <1>5 DEF Unsent, d

\* Every step is an edit, an exchange, or leaves the shared document alone.
LEMMA NextIsShared ==
  ASSUME OneDevice, Whole, Whole', Covered, Covered', [Next]_vars
  PROVE  [Shared!Next]_<<doc, [d \in Devices |-> Owed(d)], CloudEdits>>
<1>1. CASE UNCHANGED vars
  BY <1>1 DEF vars, cloud, local, CloudEdits, Owed, OwesAll, Unsynced, Loading, InMemory
<1>2. ASSUME NEW p \in Tabs, UNCHANGED <<doc, made>> \/ Edit(p) PROVE Shared!Next
  <2> DEFINE d == DeviceOf[p]
             owed == [c \in Devices |-> Owed(c)]
             due == Owed(d)'
  <2>1. d \in Devices /\ Devices = {d}
    BY OfTab DEF OneDevice, Whole
  <2>2. /\ doc \in [Devices -> SUBSET Edits] /\ doc' \in [Devices -> SUBSET Edits]
        /\ base \in [edits : SUBSET Edits, time : Nat]
    BY DEF Whole, TypeInv, TypeOK
  <2>3. CloudEdits \union Owed(d) \subseteq doc[d]
    BY DEF Covered
  <2>4. due \subseteq doc'[d] /\ made'[d] \subseteq due \union CloudEdits'
    BY DEF Covered
  <2>5. CloudEdits' \subseteq doc'[d]
    BY DEF Covered
  <2>6. doc[d] \subseteq made[d]
    BY <2>1 DEF Whole, Known
  <2>7. made[d] \subseteq made'[d]
    BY <1>2, <2>1 DEF Edit, Whole, TypeInv, TypeOK
  <2>8. owed' = [owed EXCEPT ![d] = due]
    BY <2>1
  <2>9. UNION {owed'[c] : c \in Devices} = due
    BY <2>1
  <2>10. owed[d] = Owed(d)
    BY <2>1
  <2>11. Shared!Owes(d, due)
    <3>1. owed[d] \ due \subseteq CloudEdits'
      BY <2>3, <2>4, <2>6, <2>7, <2>10
    <3> QED BY <2>4, <2>8, <3>1 DEF Shared!Owes
  <2>12. CloudEdits \ CloudEdits' \subseteq due
    BY <2>3, <2>4, <2>6, <2>7
  <2>13. due \in SUBSET Edits /\ CloudEdits \in SUBSET Edits /\ CloudEdits' \in SUBSET Edits
    BY <2>1, <2>2, <2>3, <2>4, <2>5
  <2> HIDE DEF owed, due
  <2>14. CASE UNCHANGED <<doc, made>>
    <3>1. doc' = [doc EXCEPT ![d] = @ \union {}]
      BY <2>1, <2>2, <2>14
    <3>2. CloudEdits' = (CloudEdits \ CloudEdits) \union CloudEdits'
      OBVIOUS
    <3>3. CloudEdits' \subseteq doc[d]
      BY <2>5, <2>14
    <3>4. CloudEdits \ CloudEdits' \subseteq UNION {owed'[c] : c \in Devices}
      BY <2>9, <2>12
    <3>5. Shared!Exchange(d)
      <4>1. {} \in SUBSET Edits /\ {} \subseteq CloudEdits
        OBVIOUS
      <4> QED
        BY <2>11, <2>13, <3>1, <3>2, <3>3, <3>4, <4>1 DEF Shared!Exchange, owed
    <3> QED BY <2>1, <3>5 DEF Shared!Next
  <2>15. CASE Edit(p)
    <3> DEFINE e == Cardinality(AllMade) + 1
    <3>1. e \in Edits /\ doc' = [doc EXCEPT ![d] = @ \union {e}] /\ UNCHANGED cloud
          /\ made' = [made EXCEPT ![d] = @ \union {e}]
      BY <2>15 DEF Edit
    <3>2. e \notin made[d]
      <4>1. AllMade = made[d]
        BY <2>1 DEF AllMade
      <4> QED BY <4>1, EditIsNew DEF Whole, Known
    <3> HIDE DEF e
    <3>3. \A c \in Devices : e \notin doc[c]
      BY <2>1, <2>6, <3>2
    <3>4. CloudEdits' = CloudEdits
      BY <3>1 DEF CloudEdits, cloud
    <3>5. e \in made'[d]
      BY <2>1, <3>1 DEF Whole, TypeInv, TypeOK
    <3>6. e \in due
      BY <2>1, <2>3, <2>4, <3>3, <3>4, <3>5
    <3>7. Shared!Edit(d)
      BY <2>11, <2>13, <3>1, <3>3, <3>4, <3>6 DEF Shared!Edit, owed
    <3> QED BY <2>1, <3>7 DEF Shared!Next
  <2> QED BY <1>2, <2>14, <2>15
<1>3. CASE Next
  <2>1. UNCHANGED <<doc, made>> \/ \E p \in Tabs : Edit(p)
    BY OnlyEdits DEF Whole
  <2>2. PICK p \in Tabs : TRUE
    BY <1>3 DEF Next
  <2> QED BY <1>2, <2>1, <2>2
<1> QED
  BY <1>1, <1>3

\* In a workspace that is used in one tab of one device, with no edit while a
\* connection is set up, the provider's files and the device implement one
\* shared document, whatever requests fail or lose their answers, sessions end or
\* the page is closed between two requests: the device forgets that it owes an
\* edit only when the provider has it, and a compaction or a deletion takes an
\* edit from the provider only while the device owes it.
THEOREM SyncRefinesShared ==
  ASSUME OneDevice, QuietConnect, Single PROVE Spec => ImplementsShared
<1>1. Init => Whole
  BY InitWhole
<1>2. Whole /\ [Next]_vars => Whole'
  BY NextWhole
<1>3. Init => Shared!Init
  <2> SUFFICES ASSUME Init PROVE Shared!Init
    OBVIOUS
  <2>1. doc = [d \in Devices |-> {}] /\ CloudEdits = {}
    BY DEF Init, CloudEdits
  <2>2. ASSUME NEW d \in Devices PROVE Owed(d) = {}
    <3>1. \A p \in Tabs : tab[p].pending = {}
      BY DEF Init, Fresh
    <3> QED BY <2>1, <2>2, <3>1 DEF Owed
  <2> QED BY <2>1, <2>2 DEF Shared!Init
<1>4. Whole => Covered
  BY WholeCovers
<1>5. Whole /\ Whole' /\ Covered /\ Covered' /\ [Next]_vars
        => [Shared!Next]_<<doc, [d \in Devices |-> Owed(d)], CloudEdits>>
  BY NextIsShared
<1> QED
  BY <1>1, <1>2, <1>3, <1>4, <1>5, PTL DEF Spec, ImplementsShared, Shared!Spec
=============================================================================
