--------------------------- MODULE CloudFiles_proofs ---------------------------
(***************************************************************************)
(* What CloudFiles promises for every number of ids, attempts, contents,   *)
(* deeds of other devices and failures, at either provider.                *)
(***************************************************************************)
EXTENDS CloudFiles, FiniteSetTheorems, TLAPS

Calls ==
  [pc : {"rest", "post", "patch", "list", "upload", "look", "stored", "failed"},
   body : Nat, id : Nat, tries : Nat, again : BOOLEAN]

TypeOK ==
  /\ brand \in {"google", "dropbox"}
  /\ DOMAIN files \subseteq Nat \ {0}
  /\ drawn \in Nat /\ pending \in Nat /\ pending <= MaxIds
  /\ known \in [id : Nat, fresh : BOOLEAN]
  /\ call \in Calls

\* A write at Google is one of Google's steps, and at Dropbox of Dropbox's.
StepsFit ==
  /\ call.pc \in {"post", "patch", "list"} => brand = "google"
  /\ call.pc = "upload" => brand = "dropbox"

\* Everything the files hold, or held while the write went on, was recorded, and
\* a write that is reported as done left its content in the file the cache names.
Recorded ==
  /\ Contents(files) \subseteq held
  /\ AcknowledgedIsStored

\* If there is a file of the name, the device knows its id or would be told: the
\* cache names it, the allocated id is that of the file, or the cache was
\* not loaded.  A creation is only under way with the allocated id, while the
\* cache says that there is no file.
OnlyFile ==
  /\ \A i, j \in DOMAIN files : i = j
  /\ pending # 0 => DOMAIN files \subseteq {pending}
  /\ known.id # 0 => DOMAIN files \subseteq {known.id}
  /\ known = NoFile => DOMAIN files \subseteq {pending}
  /\ call.pc \in {"post", "look"} => known = NoFile /\ pending # 0 /\ call.id = pending
  /\ call.pc = "patch" => known.id # 0 /\ call.id = known.id
  /\ call.pc = "list" => known = NoFile /\ pending = 0

\* At Dropbox the name is the file.
NameIsFile == DOMAIN files \subseteq {1} /\ pending = 0

FilesInv ==
  /\ TypeOK /\ StepsFit /\ Recorded
  /\ brand = "google" => OnlyFile
  /\ brand = "dropbox" => NameIsFile

-----------------------------------------------------------------------------
(* What the parts of a step do.                                            *)

\* Writing a file adds its id and its content to what was recorded.
LEMMA PutRecords ==
  ASSUME NEW id, NEW body, Put(id, body), Contents(files) \subseteq held
  PROVE  /\ DOMAIN files' = DOMAIN files \union {id}
         /\ Contents(files') \subseteq held' /\ <<id, body>> \in held'
BY DEF Put, Contents

\* Leaving the files alone leaves the record alone.
LEMMA SameRecords ==
  ASSUME Same, Contents(files) \subseteq held
  PROVE  files' = files /\ held' = held /\ Contents(files') \subseteq held'
BY DEF Same

\* A creation is refused at the bound, or goes on with the allocated id: that of
\* an earlier attempt if there is one.
LEMMA CreationGoesOn ==
  ASSUME ConstantsAssumption, TypeOK, NEW c \in Calls, c.again = FALSE, Creation(c)
  PROVE  /\ call' \in Calls /\ drawn' \in Nat /\ pending' \in Nat /\ pending' <= MaxIds
         /\ call'.pc \in {"post", "failed"}
         /\ pending # 0 => pending' = pending
         /\ call'.pc = "post" => pending' # 0 /\ call'.id = pending'
<1>1. MaxIds \in Nat
  BY DEF ConstantsAssumption
<1> DEFINE id == IF pending # 0 THEN pending ELSE drawn + 1
<1>2. id \in Nat /\ id # 0 /\ CreatesAs(id, c) /\ (pending # 0 => id = pending)
  BY DEF TypeOK, Creation
<1> HIDE DEF id
<1>3. CASE id <= MaxIds
  <2>1. /\ pending' = id /\ drawn' = IF id > drawn THEN id ELSE drawn
        /\ call' = [c EXCEPT !.pc = "post", !.id = id]
    BY <1>2, <1>3 DEF CreatesAs
  <2> QED
    BY <1>2, <1>3, <2>1 DEF TypeOK, Calls
<1>4. CASE ~(id <= MaxIds)
  <2>1. pending = 0 /\ pending' = 0 /\ drawn' = drawn /\ call' = [c EXCEPT !.pc = "failed"]
    BY <1>2, <1>4 DEF CreatesAs, TypeOK
  <2> QED
    BY <1>1, <2>1 DEF TypeOK, Calls
<1> QED
  BY <1>3, <1>4

\* The start of a write, as Begin, Patch and List make it.
LEMMA StartType ==
  ASSUME NEW body \in Nat
  PROVE  [Rest EXCEPT !.body = body] \in Calls /\ [Rest EXCEPT !.body = body].again = FALSE
BY DEF Rest, Calls

-----------------------------------------------------------------------------
(* Each step keeps the invariant.                                          *)

\* A write begins with what the files hold, and creates one only where the cache
\* says that there is none.
LEMMA BeginKeeps ==
  ASSUME ConstantsAssumption, FilesInv, NEW body \in 1..MaxBodies, Begin(body)
  PROVE  FilesInv'
<1> DEFINE c == [Rest EXCEPT !.body = body]
<1>1. c \in Calls /\ c.again = FALSE
  BY StartType, body \in Nat
<1>2. UNCHANGED <<brand, files, known>> /\ held' = Contents(files)
  BY DEF Begin
<1>3. CASE brand = "dropbox"
  <2>1. call' = [c EXCEPT !.pc = "upload", !.id = 1] /\ UNCHANGED <<drawn, pending>>
    BY <1>3 DEF Begin
  <2> HIDE DEF c
  <2> QED
    BY <1>1, <1>2, <1>3, <2>1
    DEF FilesInv, TypeOK, StepsFit, Recorded, AcknowledgedIsStored, NameIsFile, Calls
<1>4. CASE brand = "google" /\ known # NoFile
  <2>1. call' = [c EXCEPT !.pc = "patch", !.id = known.id] /\ UNCHANGED <<drawn, pending>>
    BY <1>4 DEF Begin
  <2>2. known.id # 0
    BY <1>4 DEF Begin, FilesInv, TypeOK, NoFile, Unlisted
  <2> HIDE DEF c
  <2> QED
    BY <1>1, <1>2, <1>4, <2>1, <2>2
    DEF FilesInv, TypeOK, StepsFit, Recorded, AcknowledgedIsStored, OnlyFile, Calls
<1>5. CASE brand = "google" /\ known = NoFile
  <2>1. Creation(c)
    BY <1>5 DEF Begin
  <2> HIDE DEF c
  <2>2. /\ call' \in Calls /\ drawn' \in Nat /\ pending' \in Nat /\ pending' <= MaxIds
        /\ call'.pc \in {"post", "failed"}
        /\ pending # 0 => pending' = pending
        /\ call'.pc = "post" => pending' # 0 /\ call'.id = pending'
    BY <1>1, <2>1, CreationGoesOn DEF FilesInv
  <2>3. DOMAIN files \subseteq {pending} /\ 0 \notin DOMAIN files
    BY <1>5 DEF FilesInv, OnlyFile, TypeOK
  <2> QED
    BY <1>2, <1>5, <2>2, <2>3
    DEF FilesInv, TypeOK, StepsFit, Recorded, AcknowledgedIsStored, OnlyFile, NoFile
<1> QED
  BY <1>3, <1>4, <1>5 DEF FilesInv, TypeOK

\* Looking into a write that failed, trying it again and giving it up all keep
\* the cache, and only move the write on.
LEMMA RetryKeeps ==
  ASSUME TypeOK, NEW pc \in {"post", "patch", "upload"}, Retry(pc)
  PROVE  /\ known' = known /\ pending' = pending
         /\ call' \in Calls /\ call'.pc \in {pc, "failed"} /\ call'.id = call.id
<1>1. \/ call' = [call EXCEPT !.pc = pc, !.tries = @ + 1]
      \/ call' = [call EXCEPT !.pc = "failed"]
  BY DEF Retry, Fails, Goto
<1>2. known' = known /\ pending' = pending
  BY DEF Retry, Fails, Goto, cache
<1>3. CASE call' = [call EXCEPT !.pc = pc, !.tries = @ + 1]
  <2> DEFINE n == call.tries + 1
  <2>1. n \in Nat /\ call \in Calls
    BY DEF TypeOK, Calls
  <2>2. call' = [call EXCEPT !.pc = pc, !.tries = n]
    BY <1>3
  <2> HIDE DEF n
  <2> QED
    BY <1>2, <2>1, <2>2 DEF Calls
<1>4. CASE call' = [call EXCEPT !.pc = "failed"]
  BY <1>2, <1>4 DEF TypeOK, Calls
<1> QED
  BY <1>1, <1>3, <1>4

\* Whatever an answer says, the step that looks into it only moves the write on.
LEMMA LookType ==
  ASSUME TypeOK, NEW again \in BOOLEAN, Look(again)
  PROVE  call' \in Calls /\ call'.pc = "look" /\ call'.id = call.id
BY DEF Look, TypeOK, Calls

\* The creation request, whether it arrives, is refused or its answer is lost.
LEMMA PostKeeps ==
  ASSUME ConstantsAssumption, FilesInv, Post
  PROVE  FilesInv'
<1>1. brand = "google" /\ brand' = brand /\ drawn' = drawn /\ TypeOK
  BY DEF FilesInv, StepsFit, Post, Unchanged
<1>2. /\ \A i, j \in DOMAIN files : i = j
      /\ DOMAIN files \subseteq {pending} /\ pending # 0
      /\ known = NoFile /\ call.id = pending /\ pending \in Nat
  BY <1>1 DEF FilesInv, OnlyFile, Post, TypeOK
<1>3. CASE /\ \E again \in BOOLEAN : Look(again)
           /\ UNCHANGED cache
           /\ Same \/ Put(call.id, call.body)
  <2>1. call' \in Calls /\ call'.pc = "look" /\ call'.id = pending
    BY <1>1, <1>2, <1>3, LookType
  <2>2. known' = NoFile /\ pending' = pending
    BY <1>2, <1>3 DEF cache
  <2>3. DOMAIN files' \subseteq {pending} /\ Contents(files') \subseteq held'
    BY <1>2, <1>3, PutRecords, SameRecords DEF FilesInv, Recorded
  <2> QED
    BY <1>1, <1>2, <2>1, <2>2, <2>3
    DEF FilesInv, TypeOK, StepsFit, Recorded, AcknowledgedIsStored, OnlyFile, NoFile
<1>4. CASE Put(call.id, call.body) /\ Created(call.id)
  <2>1. /\ DOMAIN files' = {pending}
        /\ Contents(files') \subseteq held' /\ <<call.id, call.body>> \in held'
    BY <1>2, <1>4, PutRecords DEF FilesInv, Recorded
  <2>2. /\ call' = [call EXCEPT !.pc = "stored", !.id = call.id]
        /\ known' = [id |-> call.id, fresh |-> TRUE] /\ pending' = 0
    BY <1>4 DEF Created, Stored, Cached
  <2>3. call' \in Calls /\ call'.pc = "stored" /\ call'.id = pending /\ call'.body = call.body
    BY <1>1, <1>2, <2>2 DEF TypeOK, Calls
  <2>4. MaxIds \in Nat /\ 0 <= MaxIds
    BY DEF ConstantsAssumption
  <2>5. TypeOK'
    BY <1>1, <1>2, <2>1, <2>2, <2>3, <2>4 DEF TypeOK
  <2>6. OnlyFile'
    BY <1>2, <2>1, <2>2, <2>3 DEF OnlyFile, NoFile
  <2>7. StepsFit' /\ Recorded'
    BY <1>1, <1>2, <2>1, <2>2, <2>3 DEF StepsFit, Recorded, AcknowledgedIsStored
  <2> QED
    BY <1>1, <2>5, <2>6, <2>7 DEF FilesInv
<1> QED
  BY <1>3, <1>4 DEF Post

\* A file with the allocated id was created by this write if it has its content.
LEMMA LookAtCreatedKeeps ==
  ASSUME ConstantsAssumption, FilesInv, LookAtCreated
  PROVE  FilesInv'
<1>1. brand = "google" /\ brand' = brand /\ drawn' = drawn /\ TypeOK /\ files' = files
      /\ Contents(files') \subseteq held' /\ held' = held /\ Contents(files) \subseteq held
  BY SameRecords DEF FilesInv, StepsFit, LookAtCreated, Unchanged, Recorded
<1>2. OnlyFile /\ DOMAIN files \subseteq {pending} /\ pending # 0 /\ call.id = pending
  BY <1>1 DEF FilesInv, OnlyFile, LookAtCreated
<1>3. CASE call.id \in DOMAIN files /\ files[call.id] = call.body /\ Created(call.id)
  <2>1. /\ call' = [call EXCEPT !.pc = "stored", !.id = call.id]
        /\ known' = [id |-> call.id, fresh |-> TRUE] /\ pending' = 0
    BY <1>3 DEF Created, Stored, Cached
  <2>2. call' \in Calls /\ call'.pc = "stored" /\ call'.id = pending /\ call'.body = call.body
    BY <1>1, <1>2, <2>1 DEF TypeOK, Calls
  <2>3. MaxIds \in Nat /\ 0 <= MaxIds
    BY DEF ConstantsAssumption
  <2>4. TypeOK'
    BY <1>1, <1>2, <2>1, <2>2, <2>3 DEF TypeOK
  <2>5. OnlyFile'
    BY <1>1, <1>2, <2>1, <2>2 DEF OnlyFile, NoFile
  <2>6. <<call.id, call.body>> \in held
    BY <1>1, <1>3 DEF Contents
  <2>7. StepsFit' /\ Recorded'
    BY <1>1, <1>2, <2>1, <2>2, <2>6 DEF StepsFit, Recorded, AcknowledgedIsStored
  <2> QED
    BY <1>1, <2>4, <2>5, <2>7 DEF FilesInv
<1>4. CASE Retry("post") \/ Fails
  <2>1. known' = known /\ pending' = pending
    BY <1>1, <1>4, RetryKeeps DEF Fails, cache
  <2>2. call' \in Calls /\ call'.pc \in {"post", "failed"} /\ call'.id = pending
    BY <1>1, <1>2, <1>4, RetryKeeps DEF Fails, Goto, TypeOK, Calls
  <2>3. known = NoFile
    BY <1>1 DEF FilesInv, OnlyFile, LookAtCreated
  <2> QED
    BY <1>1, <1>2, <2>1, <2>2, <2>3
    DEF FilesInv, TypeOK, StepsFit, Recorded, AcknowledgedIsStored, OnlyFile
<1> QED
  BY <1>3, <1>4 DEF LookAtCreated

\* A file that is gone leaves no file of the name.
LEMMA PatchKeeps ==
  ASSUME ConstantsAssumption, FilesInv, Patch
  PROVE  FilesInv'
<1>1. brand = "google" /\ brand' = brand /\ TypeOK
      /\ Contents(files) \subseteq held
  BY DEF FilesInv, StepsFit, Patch, Recorded
<1>2. OnlyFile /\ DOMAIN files \subseteq {known.id} /\ known.id # 0 /\ call.id = known.id
      /\ call.id \in Nat
  BY <1>1 DEF FilesInv, OnlyFile, Patch, TypeOK, Calls
<1>3. CASE Same /\ Retry("patch") /\ drawn' = drawn
  <2>1. known' = known /\ pending' = pending
        /\ call' \in Calls /\ call'.pc \in {"patch", "failed"} /\ call'.id = call.id
    BY <1>1, <1>3, RetryKeeps
  <2>2. files' = files /\ Contents(files') \subseteq held'
    BY <1>1, <1>3, SameRecords
  <2> QED
    BY <1>1, <1>2, <1>3, <2>1, <2>2
    DEF FilesInv, TypeOK, StepsFit, Recorded, AcknowledgedIsStored, OnlyFile
<1>4. CASE /\ call.id \in DOMAIN files /\ Put(call.id, call.body) /\ drawn' = drawn
           /\ (Stored(call.id) /\ pending' = pending) \/ Retry("patch")
  <2>1. DOMAIN files' = DOMAIN files /\ Contents(files') \subseteq held'
        /\ <<call.id, call.body>> \in held'
    BY <1>1, <1>4, PutRecords
  <2>2. CASE Stored(call.id) /\ pending' = pending
    <3>1. /\ call' = [call EXCEPT !.pc = "stored", !.id = call.id]
          /\ known' = [id |-> call.id, fresh |-> TRUE]
      BY <2>2 DEF Stored, Cached
    <3>2. call' \in Calls /\ call'.pc = "stored" /\ call'.id = call.id /\ call'.body = call.body
      BY <1>1, <1>2, <3>1 DEF TypeOK, Calls
    <3>3. TypeOK'
      BY <1>1, <1>2, <1>4, <2>1, <2>2, <3>1, <3>2 DEF TypeOK
    <3>4. OnlyFile'
      BY <1>2, <2>1, <2>2, <3>1, <3>2 DEF OnlyFile, NoFile
    <3>5. StepsFit' /\ Recorded'
      BY <1>1, <1>2, <2>1, <3>1, <3>2 DEF StepsFit, Recorded, AcknowledgedIsStored
    <3> QED
      BY <1>1, <3>3, <3>4, <3>5 DEF FilesInv
  <2>3. CASE Retry("patch")
    <3>1. known' = known /\ pending' = pending
          /\ call' \in Calls /\ call'.pc \in {"patch", "failed"} /\ call'.id = call.id
      BY <1>1, <2>3, RetryKeeps
    <3> QED
      BY <1>1, <1>2, <1>4, <2>1, <3>1
      DEF FilesInv, TypeOK, StepsFit, Recorded, AcknowledgedIsStored, OnlyFile
  <2> QED
    BY <1>4, <2>2, <2>3
<1>5. CASE /\ call.id \notin DOMAIN files /\ known' = NoFile /\ Same
           /\ IF call.again
              THEN Creation([Rest EXCEPT !.body = call.body])
              ELSE Goto("list") /\ pending' = 0 /\ drawn' = drawn
  <2> DEFINE c == [Rest EXCEPT !.body = call.body]
  <2>1. DOMAIN files = {} /\ files' = files /\ Contents(files') \subseteq held'
    BY <1>1, <1>2, <1>5, SameRecords
  <2>2. known' = [id |-> 0, fresh |-> TRUE]
    BY <1>5 DEF NoFile
  <2>3. CASE call.again
    <3>1. c \in Calls /\ c.again = FALSE
      BY <1>1, StartType DEF TypeOK, Calls
    <3>2. Creation(c)
      BY <1>5, <2>3
    <3> HIDE DEF c
    <3>3. /\ call' \in Calls /\ drawn' \in Nat /\ pending' \in Nat /\ pending' <= MaxIds
          /\ call'.pc \in {"post", "failed"}
          /\ call'.pc = "post" => pending' # 0 /\ call'.id = pending'
      BY <1>1, <3>1, <3>2, CreationGoesOn
    <3> QED
      BY <1>1, <2>1, <2>2, <3>3
      DEF FilesInv, TypeOK, StepsFit, Recorded, AcknowledgedIsStored, OnlyFile, NoFile
  <2>4. CASE ~call.again
    <3>1. call' = [call EXCEPT !.pc = "list"] /\ pending' = 0 /\ drawn' = drawn
      BY <1>5, <2>4 DEF Goto
    <3>2. call' \in Calls /\ call'.pc = "list"
      BY <1>1, <3>1 DEF TypeOK, Calls
    <3>3. MaxIds \in Nat /\ 0 <= MaxIds
      BY DEF ConstantsAssumption
    <3> QED
      BY <1>1, <2>1, <2>2, <3>1, <3>2, <3>3
      DEF FilesInv, TypeOK, StepsFit, Recorded, AcknowledgedIsStored, OnlyFile, NoFile
  <2> QED
    BY <2>3, <2>4
<1> QED
  BY <1>3, <1>4, <1>5 DEF Patch

\* What a listing in the middle of a write finds.
LEMMA ListKeeps ==
  ASSUME ConstantsAssumption, FilesInv, List
  PROVE  FilesInv'
<1>1. brand = "google" /\ brand' = brand /\ TypeOK /\ files' = files
      /\ Contents(files') \subseteq held'
  BY SameRecords DEF FilesInv, StepsFit, List, Recorded
<1>2. OnlyFile /\ known = NoFile /\ pending = 0 /\ DOMAIN files = {}
  BY <1>1 DEF FilesInv, OnlyFile, List, TypeOK
<1>3. CASE Creation([Rest EXCEPT !.body = call.body]) /\ known' = known
  <2> DEFINE c == [Rest EXCEPT !.body = call.body]
  <2>1. c \in Calls /\ c.again = FALSE
    BY <1>1, StartType DEF TypeOK, Calls
  <2>2. Creation(c)
    BY <1>3
  <2> HIDE DEF c
  <2>3. /\ call' \in Calls /\ drawn' \in Nat /\ pending' \in Nat /\ pending' <= MaxIds
        /\ call'.pc \in {"post", "failed"}
        /\ call'.pc = "post" => pending' # 0 /\ call'.id = pending'
    BY <1>1, <2>1, <2>2, CreationGoesOn
  <2> QED
    BY <1>1, <1>2, <1>3, <2>3
    DEF FilesInv, TypeOK, StepsFit, Recorded, AcknowledgedIsStored, OnlyFile, NoFile
<1>4. CASE Fails /\ drawn' = drawn
  <2>1. known' = known /\ pending' = pending /\ call' = [call EXCEPT !.pc = "failed"]
    BY <1>4 DEF Fails, Goto, cache
  <2>2. call' \in Calls /\ call'.pc = "failed"
    BY <1>1, <2>1 DEF TypeOK, Calls
  <2> QED
    BY <1>1, <1>2, <1>4, <2>1, <2>2
    DEF FilesInv, TypeOK, StepsFit, Recorded, AcknowledgedIsStored, OnlyFile
<1> QED
  BY <1>2, <1>3, <1>4 DEF List

\* The upload at Dropbox, whether it fits, arrives or is answered.
LEMMA UploadKeeps ==
  ASSUME ConstantsAssumption, FilesInv, Upload
  PROVE  FilesInv'
<1>1. brand = "dropbox" /\ brand' = brand /\ drawn' = drawn /\ pending' = pending /\ TypeOK
      /\ Contents(files) \subseteq held
  BY DEF FilesInv, StepsFit, Upload, Unchanged, Recorded
<1>2. NameIsFile
  BY <1>1 DEF FilesInv
<1>3. /\ DOMAIN files' \subseteq {1} /\ Contents(files') \subseteq held'
      /\ Put(1, call.body) => <<1, call.body>> \in held'
  BY <1>1, <1>2, PutRecords, SameRecords DEF Upload, NameIsFile
<1>4. CASE Put(1, call.body) /\ Stored(1)
  <2>1. /\ call' = [call EXCEPT !.pc = "stored", !.id = 1]
        /\ known' = [id |-> 1, fresh |-> TRUE]
    BY <1>4 DEF Stored, Cached
  <2>2. call' \in Calls /\ call'.pc = "stored" /\ call'.id = 1 /\ call'.body = call.body
    BY <1>1, <2>1 DEF TypeOK, Calls
  <2> QED
    BY <1>1, <1>2, <1>3, <1>4, <2>1, <2>2
    DEF FilesInv, TypeOK, StepsFit, Recorded, AcknowledgedIsStored, NameIsFile
<1>5. CASE (\E again \in BOOLEAN : Look(again)) /\ (known' = known \/ known' = Outdated)
  <2>1. call' \in Calls /\ call'.pc = "look"
    BY <1>1, <1>5, LookType
  <2>2. known' \in [id : Nat, fresh : BOOLEAN]
    BY <1>1, <1>5 DEF Outdated, TypeOK
  <2> QED
    BY <1>1, <1>2, <1>3, <2>1, <2>2
    DEF FilesInv, TypeOK, StepsFit, Recorded, AcknowledgedIsStored, NameIsFile
<1> QED
  BY <1>4, <1>5 DEF Upload

\* The hash of what the name holds tells whether the upload arrived.
LEMMA LookAtUploadedKeeps ==
  ASSUME ConstantsAssumption, FilesInv, LookAtUploaded
  PROVE  FilesInv'
<1>1. brand = "dropbox" /\ brand' = brand /\ drawn' = drawn /\ TypeOK /\ files' = files
      /\ held' = held /\ Contents(files) \subseteq held /\ NameIsFile
  BY SameRecords DEF FilesInv, LookAtUploaded, Unchanged, Recorded
<1>2. CASE 1 \in DOMAIN files /\ files[1] = call.body /\ Stored(1) /\ pending' = pending
  <2>1. /\ call' = [call EXCEPT !.pc = "stored", !.id = 1]
        /\ known' = [id |-> 1, fresh |-> TRUE]
    BY <1>2 DEF Stored, Cached
  <2>2. call' \in Calls /\ call'.pc = "stored" /\ call'.id = 1 /\ call'.body = call.body
    BY <1>1, <2>1 DEF TypeOK, Calls
  <2>3. <<1, call.body>> \in held
    BY <1>1, <1>2 DEF Contents
  <2> QED
    BY <1>1, <1>2, <2>1, <2>2, <2>3
    DEF FilesInv, TypeOK, StepsFit, Recorded, AcknowledgedIsStored, NameIsFile, Contents
<1>3. CASE Retry("upload") \/ Fails
  <2>1. known' = known /\ pending' = pending
    BY <1>1, <1>3, RetryKeeps DEF Fails, cache
  <2>2. call' \in Calls /\ call'.pc \in {"upload", "failed"}
    BY <1>1, <1>3, RetryKeeps DEF Fails, Goto, TypeOK, Calls
  <2> QED
    BY <1>1, <2>1, <2>2
    DEF FilesInv, TypeOK, StepsFit, Recorded, AcknowledgedIsStored, NameIsFile, Contents
<1> QED
  BY <1>2, <1>3 DEF LookAtUploaded

\* Nothing is being written, and the cache says what was listed.
LEMMA LoadKeeps ==
  ASSUME FilesInv, Load
  PROVE  FilesInv'
<1>1. /\ call' = Rest /\ UNCHANGED <<brand, files, drawn, pending, held>>
      /\ Rest \in Calls /\ Rest.pc = "rest"
  BY DEF Load, Rest, Calls
<1>2. /\ known' \in [id : Nat, fresh : BOOLEAN]
      /\ known'.id = 0 => DOMAIN files = {}
      /\ known'.id # 0 => known'.id \in DOMAIN files
  <2>1. CASE DOMAIN files = {}
    <3>1. known' = [id |-> 0, fresh |-> TRUE]
      BY <2>1 DEF Load, NoFile
    <3> QED
      BY <2>1, <3>1
  <2>2. CASE DOMAIN files # {}
    <3>1. PICK i \in DOMAIN files : known' = Cached(i)
      BY <2>2 DEF Load
    <3>2. i \in Nat /\ i # 0
      BY DEF FilesInv, TypeOK
    <3> QED
      BY <3>1, <3>2 DEF Cached
  <2> QED
    BY <2>1, <2>2
<1> QED
  BY <1>1, <1>2
  DEF FilesInv, TypeOK, StepsFit, Recorded, AcknowledgedIsStored, OnlyFile, NameIsFile, NoFile,
      Contents

\* What another device writes it writes into the file that is there.
LEMMA OtherWritesKeeps ==
  ASSUME FilesInv, NEW id \in Ids, OtherWrites(id)
  PROVE  FilesInv'
<1>1. /\ known' = Outdated /\ UNCHANGED <<brand, drawn, pending, call>>
      /\ id \in DOMAIN files /\ Put(id, 0)
  BY DEF OtherWrites
<1>2. /\ known' \in [id : Nat, fresh : BOOLEAN] /\ known'.id = known.id
      /\ brand = "google" => known' = known
  BY <1>1 DEF Outdated, FilesInv, TypeOK
<1>3. DOMAIN files' = DOMAIN files /\ Contents(files') \subseteq held' /\ held \subseteq held'
  BY <1>1, PutRecords DEF FilesInv, Recorded, Put
<1> QED
  BY <1>1, <1>2, <1>3
  DEF FilesInv, TypeOK, StepsFit, Recorded, AcknowledgedIsStored, OnlyFile, NameIsFile

\* An account that is emptied holds nothing that was not recorded.
LEMMA OtherWipesKeeps ==
  ASSUME FilesInv, OtherWipes
  PROVE  FilesInv'
<1>1. UNCHANGED <<brand, drawn, known, pending, call, held>> /\ brand = "google"
  BY DEF OtherWipes, cache
<1>2. DOMAIN files' = {} /\ Contents(files') = {}
  BY DEF OtherWipes, Contents
<1> QED
  BY <1>1, <1>2
  DEF FilesInv, TypeOK, StepsFit, Recorded, AcknowledgedIsStored, OnlyFile

\* A session that has just begun knows of no file, and does not take this for
\* there being none.
LEMMA ReloadKeeps ==
  ASSUME ConstantsAssumption, FilesInv, Reload
  PROVE  FilesInv'
<1>1. /\ call' = Rest /\ UNCHANGED <<brand, files, drawn, held>> /\ pending' = 0
      /\ known' = [id |-> 0, fresh |-> FALSE] /\ Rest \in Calls /\ Rest.pc = "rest"
  BY DEF Reload, Rest, Calls, Unlisted
<1>2. MaxIds \in Nat /\ 0 <= MaxIds
  BY DEF ConstantsAssumption
<1> QED
  BY <1>1, <1>2
  DEF FilesInv, TypeOK, StepsFit, Recorded, AcknowledgedIsStored, OnlyFile, NameIsFile, NoFile,
      Contents

\* A device that has not written anything meets an empty account.
LEMMA InitFilesInv == ConstantsAssumption /\ Init => FilesInv
<1> SUFFICES ASSUME ConstantsAssumption, Init PROVE FilesInv
  OBVIOUS
<1>1. brand \in {"google", "dropbox"} /\ MaxIds \in Nat /\ 0 <= MaxIds
  BY DEF Init, ConstantsAssumption
<1>2. /\ DOMAIN files = {} /\ Contents(files) = {} /\ drawn = 0 /\ pending = 0
      /\ known = [id |-> 0, fresh |-> FALSE] /\ call \in Calls /\ call.pc = "rest"
  BY DEF Init, Rest, Unlisted, Calls, Contents
<1> QED
  BY <1>1, <1>2
  DEF FilesInv, TypeOK, StepsFit, Recorded, AcknowledgedIsStored, OnlyFile, NameIsFile, NoFile

\* Every step keeps the invariant.
LEMMA NextFilesInv == ConstantsAssumption /\ FilesInv /\ [Next]_vars => FilesInv'
<1> SUFFICES ASSUME ConstantsAssumption, FilesInv, [Next]_vars PROVE FilesInv'
  OBVIOUS
<1>1. CASE UNCHANGED vars
  BY <1>1 DEF vars, cache, FilesInv, TypeOK, StepsFit, Recorded, AcknowledgedIsStored, OnlyFile,
              NameIsFile, Contents
<1>2. CASE Next
  BY <1>2, BeginKeeps, PostKeeps, LookAtCreatedKeeps, PatchKeeps, ListKeeps, UploadKeeps,
     LookAtUploadedKeeps, LoadKeeps, OtherWritesKeeps, OtherWipesKeeps, ReloadKeeps DEF Next
<1> QED
  BY <1>1, <1>2

-----------------------------------------------------------------------------
\* A write that the sync pass is told was done was done: since it began, the
\* file that the cache now names has held its content.  Whatever answers are
\* lost, however often it is tried, whoever else writes or wipes the files, and
\* at either provider.
THEOREM ReportedWritesAreDone ==
  ASSUME ConstantsAssumption
  PROVE  Spec => []AcknowledgedIsStored
<1>1. Init => FilesInv
  BY InitFilesInv
<1>2. FilesInv /\ [Next]_vars => FilesInv'
  BY NextFilesInv
<1>3. FilesInv => AcknowledgedIsStored
  BY DEF FilesInv, Recorded
<1> QED
  BY <1>1, <1>2, <1>3, PTL DEF Spec

\* However often a creation is tried again after an answer that was lost, a
\* reload or a wipe, this device makes one file of the name, although Google
\* Drive would take any number of them (pendingCreateIds).
THEOREM CreationsAreNotRepeated ==
  ASSUME ConstantsAssumption
  PROVE  Spec => []OneFilePerName
<1>1. Init => FilesInv
  BY InitFilesInv
<1>2. FilesInv /\ [Next]_vars => FilesInv'
  BY NextFilesInv
<1>3. FilesInv => OneFilePerName
  <2> SUFFICES ASSUME FilesInv PROVE Cardinality(DOMAIN files) <= 1
    BY DEF OneFilePerName
  <2>1. \A i, j \in DOMAIN files : i = j
    BY DEF FilesInv, TypeOK, OnlyFile, NameIsFile
  <2>2. CASE DOMAIN files = {}
    <3>1. Cardinality(DOMAIN files) = 0
      BY <2>2, FS_EmptySet
    <3> QED
      BY <3>1
  <2>3. CASE DOMAIN files # {}
    <3>1. PICK i : DOMAIN files = {i}
      BY <2>1, <2>3
    <3>2. Cardinality(DOMAIN files) = 1
      BY <3>1, FS_Singleton
    <3> QED
      BY <3>2
  <2> QED
    BY <2>2, <2>3
<1> QED
  BY <1>1, <1>2, <1>3, PTL DEF Spec
=============================================================================
