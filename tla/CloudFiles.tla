----------------------------- MODULE CloudFiles ------------------------------
(***************************************************************************)
(* Writing one named file at a cloud provider when answers get lost.  At   *)
(* Google a file is an id, names need not be unique, and nothing is        *)
(* conditional: a creation allocates the id first and keeps it until it    *)
(* knows what became of it.  At Dropbox the name is the file and a write   *)
(* names the revision it replaces.  Either way a write whose outcome is    *)
(* unknown looks at the file before it is tried again or reported.         *)
(*                                                                         *)
(* The device writes one file at a time (the lock of the sync pass).  A    *)
(* request that was given up is assumed not to be executed later.          *)
(***************************************************************************)
EXTENDS Naturals, FiniteSets

CONSTANTS
  Brands,      \* subset of {"google", "dropbox"}
  Retries,     \* attempts after the first (3 in the code)
  MaxIds,      \* bound: ids the provider allocates
  MaxBodies,   \* bound: contents this device writes
  MaxEvents,   \* bound: deeds of another device, and reloads
  MaxTroubles  \* bound: requests that fail or whose answer is lost

ConstantsAssumption ==
  /\ Brands \subseteq {"google", "dropbox"}
  /\ {Retries, MaxIds, MaxBodies, MaxEvents, MaxTroubles} \subseteq Nat

Ids == 1..MaxIds

VARIABLES
  brand,   \* the provider
  files,   \* its files of this name: the content of each id
  drawn,   \* the ids it has allocated
  known,   \* the file cache: an id, or 0, and whether the revision is still that of
           \* the file; or Unlisted
  pending, \* pendingCreateIds, or 0
  call,    \* the write: what it does next, its content, the file, attempts made
  newest,  \* the latest content of the document
  held,    \* bookkeeping: what the files have held since the write began
  events, mishaps  \* bookkeeping

cache == <<known, pending>>
vars == <<brand, files, drawn, cache, call, newest, held, events, mishaps>>

NoFile == [id |-> 0, fresh |-> TRUE]
Unlisted == [id |-> 0, fresh |-> FALSE]  \* a session that has not loaded the manifest
Cached(id) == [id |-> id, fresh |-> TRUE]
Rest == [pc |-> "rest", body |-> 0, id |-> 0, tries |-> 0, again |-> FALSE]

Contents(fs) == {<<i, fs[i]>> : i \in DOMAIN fs}

\* File id holds body from now on.
Put(id, body) ==
  /\ files' = [i \in DOMAIN files \union {id} |-> IF i = id THEN body ELSE files[i]]
  /\ held' = held \union {<<id, body>>}

Same == UNCHANGED <<files, held>>

\* ... in a revision that the cache does not know.
Outdated == [known EXCEPT !.fresh = @ /\ (brand = "google" \/ known.id = 0)]

\* A request fails on the way: the step is counted.
Trouble == mishaps < MaxTroubles /\ mishaps' = mishaps + 1
Calm == UNCHANGED mishaps

-----------------------------------------------------------------------------
(* How a write goes on.                                                    *)

Goto(pc) == call' = [call EXCEPT !.pc = pc]

Fails == Goto("failed") /\ UNCHANGED cache

\* The provider holds the content, and the cache names the file.
Stored(id) ==
  /\ call' = [call EXCEPT !.pc = "stored", !.id = id]
  /\ known' = Cached(id)

\* ... of a file that was created with the allocated id.
Created(id) == Stored(id) /\ pending' = 0

\* The next attempt, or the end.
Retry(pc) ==
  IF call.tries < Retries
  THEN call' = [call EXCEPT !.pc = pc, !.tries = @ + 1] /\ UNCHANGED cache
  ELSE Fails

\* With the allocated id; no id is allocated beyond the bound.
CreatesAs(id, c) ==
  IF id <= MaxIds
  THEN /\ pending' = id /\ drawn' = IF id > drawn THEN id ELSE drawn
       /\ call' = [c EXCEPT !.pc = "post", !.id = id]
  ELSE call' = [c EXCEPT !.pc = "failed"] /\ pending' = 0 /\ UNCHANGED drawn

\* Variant: every creation allocates an id.
Creation_NewId(c) == CreatesAs(drawn + 1, c)

\* createDirectFile: the id of an earlier attempt is used again.
Creation(c) == CreatesAs(IF pending # 0 THEN pending ELSE drawn + 1, c)

\* uploadFileWithRecovery, and the upload at Dropbox.
Begin(body) ==
  /\ call.pc \in {"rest", "stored", "failed"} /\ known # Unlisted
  /\ body \in {newest, newest + 1} \ {0} /\ body <= MaxBodies
  /\ newest' = body
  /\ held' = Contents(files)
  /\ LET c == [Rest EXCEPT !.body = body] IN
     IF brand = "dropbox"
     THEN call' = [c EXCEPT !.pc = "upload", !.id = 1] /\ UNCHANGED <<drawn, pending>>
     ELSE IF known # NoFile
     THEN call' = [c EXCEPT !.pc = "patch", !.id = known.id] /\ UNCHANGED <<drawn, pending>>
     ELSE Creation(c)
  /\ UNCHANGED <<brand, files, known, events, mishaps>>

-----------------------------------------------------------------------------
(* Google Drive.                                                           *)

Unchanged == UNCHANGED <<brand, drawn, newest, events>>

\* The creation request.  An id that was used is refused.  A network error is
\* looked into, and not tried again; a refusal or a server error is both.
Look(again) ==
  call' = [call EXCEPT !.pc = "look", !.again = again]

Post ==
  /\ call.pc = "post"
  /\ LET used == call.id \in DOMAIN files IN
     \/ used /\ Look(TRUE) /\ UNCHANGED cache /\ Same /\ Calm
     \/ ~used /\ Put(call.id, call.body) /\ Created(call.id) /\ Calm
     \/ /\ (\E again \in BOOLEAN : Look(again)) /\ UNCHANGED cache /\ Trouble
        /\ Same \/ (~used /\ Put(call.id, call.body))
  /\ Unchanged

\* Variant: the name is compared, the content is not.
LookAtCreated_ByName ==
  /\ call.pc = "look" /\ brand = "google"
  /\ \/ IF call.id \in DOMAIN files THEN Created(call.id) /\ Calm
        ELSE (IF call.again THEN Retry("post") ELSE Fails) /\ Calm
     \/ Fails /\ Trouble
  /\ Same /\ Unchanged

\* reconcileDirectCreate: metadata and content of the allocated id.
LookAtCreated ==
  /\ call.pc = "look" /\ brand = "google"
  /\ \/ IF call.id \in DOMAIN files
        THEN IF files[call.id] = call.body
             THEN Created(call.id) /\ Calm
             ELSE Fails /\ Calm
        ELSE (IF call.again THEN Retry("post") ELSE Fails) /\ Calm
     \/ Fails /\ Trouble
  /\ Same /\ Unchanged

\* replaceFile.  A file that is gone is forgotten; the first time the files are
\* listed, the second time it is created.
Patch ==
  /\ call.pc = "patch"
  /\ \/ /\ call.id \in DOMAIN files
        /\ Put(call.id, call.body)
        /\ \/ Stored(call.id) /\ UNCHANGED pending /\ Calm
           \/ Retry("patch") /\ Trouble
        /\ UNCHANGED drawn
     \/ Same /\ Retry("patch") /\ Trouble /\ UNCHANGED drawn
     \/ /\ call.id \notin DOMAIN files
        /\ known' = NoFile
        /\ IF call.again
           THEN Creation([Rest EXCEPT !.body = call.body])
           ELSE Goto("list") /\ pending' = 0 /\ UNCHANGED drawn
        /\ Same /\ Calm
  /\ UNCHANGED <<brand, newest, events>>

\* refreshFileCache and getFileIdWithFallback, in the middle of a write.
List ==
  /\ call.pc = "list"
  /\ \/ /\ IF DOMAIN files = {}
           THEN Creation([Rest EXCEPT !.body = call.body]) /\ UNCHANGED known
           ELSE \E i \in DOMAIN files :
                  /\ known' = Cached(i)
                  /\ call' = [Rest EXCEPT !.pc = "patch", !.body = call.body, !.id = i,
                                          !.again = TRUE]
                  /\ UNCHANGED <<pending, drawn>>
        /\ Calm
     \/ Fails /\ Trouble /\ UNCHANGED drawn
  /\ Same /\ UNCHANGED <<brand, newest, events>>

-----------------------------------------------------------------------------
(* Dropbox.                                                                *)

\* The upload adds the file or replaces the known revision, and nothing else.
Fits == known.fresh /\ (1 \in DOMAIN files <=> known.id = 1)

\* directUpload.  "again" is an attempt that may be repeated.
Upload ==
  /\ call.pc = "upload"
  /\ \/ Fits /\ Put(1, call.body) /\ Stored(1) /\ Calm
     \/ Fits /\ Put(1, call.body) /\ Look(TRUE) /\ known' = Outdated /\ Trouble
     \/ ~Fits /\ Look(FALSE) /\ UNCHANGED known /\ Same /\ Calm
     \/ Look(TRUE) /\ UNCHANGED known /\ Same /\ Trouble
  /\ UNCHANGED pending /\ Unchanged

\* reconcileWrite: the hash of what the name holds.  A lookup that fails ends the
\* write, unless the provider only asks for patience.
LookAtUploaded ==
  /\ call.pc = "look" /\ brand = "dropbox"
  /\ \/ IF 1 \in DOMAIN files /\ files[1] = call.body
        THEN Stored(1) /\ UNCHANGED pending /\ Calm
        ELSE (IF call.again THEN Retry("upload") ELSE Fails) /\ Calm
     \/ ((call.again /\ Retry("upload")) \/ Fails) /\ Trouble
  /\ Same /\ Unchanged

-----------------------------------------------------------------------------
(* Listings, other devices, reloads.                                       *)

\* CloudManifestManager.load and the listings of a pass.
Load ==
  /\ call.pc \in {"rest", "stored", "failed"}
  /\ call' = Rest
  /\ IF DOMAIN files = {} THEN known' = NoFile
     ELSE \E i \in DOMAIN files : known' = Cached(i)
  /\ UNCHANGED <<brand, files, drawn, pending, newest, held, events, mishaps>>

\* Another device writes the file, or empties the account.
OtherWrites(id) ==
  /\ events < MaxEvents /\ events' = events + 1
  /\ id \in DOMAIN files
  /\ Put(id, 0)
  /\ known' = Outdated
  /\ UNCHANGED <<brand, drawn, pending, call, newest, mishaps>>

OtherWipes ==
  /\ events < MaxEvents /\ events' = events + 1
  /\ brand = "google" /\ DOMAIN files # {}
  /\ files' = [i \in {} |-> files[i]]
  /\ UNCHANGED <<brand, drawn, cache, call, newest, held, mishaps>>

Reload ==
  /\ events < MaxEvents /\ events' = events + 1
  /\ call' = Rest /\ known' = Unlisted /\ pending' = 0
  /\ UNCHANGED <<brand, files, drawn, newest, held, mishaps>>

Init ==
  /\ brand \in Brands
  /\ files = [i \in {} |-> 0] /\ drawn = 0
  /\ known = Unlisted /\ pending = 0 /\ call = Rest
  /\ newest = 0 /\ held = {} /\ events = 0 /\ mishaps = 0

Next ==
  \/ \E body \in 1..MaxBodies : Begin(body)
  \/ Post \/ LookAtCreated \/ Patch \/ List
  \/ Upload \/ LookAtUploaded
  \/ Load \/ OtherWipes \/ Reload \/ (\E id \in Ids : OtherWrites(id))

Spec == Init /\ [][Next]_vars

-----------------------------------------------------------------------------
\* A write that is reported as done was done: since it began, the file that the
\* cache now names has held its content.
AcknowledgedIsStored ==
  call.pc = "stored" => known.id = call.id /\ <<call.id, call.body>> \in held

\* However often a creation is tried, this device makes one file of the name.
OneFilePerName == Cardinality(DOMAIN files) <= 1
=============================================================================
