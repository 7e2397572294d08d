# Verification of TaskTime in TLA+

TaskTime is a time tracker and invoicing application that runs in the browser.
It has no server of its own for the user's data: the workspace lives in Yjs
documents, is kept in IndexedDB and, if the user wants, is exchanged between
devices as files at Google Drive or Dropbox. Everything that a server would
make atomic (issuing an invoice, stopping a timer, moving to another provider)
is done here by steps over several documents that a closed tab, a second tab
or a second device can fall between. This directory models those protocols,
checks them with TLC and proves the most important results with TLAPS.

Paths below are relative to `src/src/` unless they start with `src/`.

## The system

### Data

| document | holds | written by |
|---|---|---|
| `core` | invoices, billing journal, timers, tasks, expenses, projects, templates, preferences | almost every command |
| `entries-active` | time entries of the current year | timers, manual entries, billing markers |
| `entries-YYYY` | archived entries | archival, billing markers of old work |
| `archived-*` | archived invoices, expenses, tasks | archival, billing |

Each document is persisted by `y-indexeddb` in a database of its own, in the
background (`stores/yjs/YjsDocManager.ts`). A Yjs transaction is atomic for one
document; nothing is atomic across two. A command runs in turns of the
JavaScript event loop: what it reads before an `await` may be stale after it.

### Components

| component | state | operations | what is hard | what makes it correct |
|---|---|---|---|---|
| Billing journal (`YjsStore.ts`, `domain/invoices/invoiceBillingOperation.ts`) | journaled operations, phase of each | commit, apply in six phases, replay at start-up and after a sync | crash between phases, stale replays, two documents | what is journaled gets done; replays repair and do not revive |
| Invoice planning and commands (`invoiceDraftOperations.ts`, `domain/invoices/*`, `useInvoices.ts`, `agent/commands/invoices.ts`) | invoice records, markers on work, cutoffs, number sequence | draft, refresh, delete, finalize, undo, cancel, pay, mark unpaid | two commands in flight, checks before awaits, cutoffs restored out of order | no double billing, distinct numbers, terminal cancellation |
| Timers (`timerOperations.ts`, `useTimers.ts`, `timerUpdates.ts`, `agent/commands/timers.ts`) | one timer per project, the entries | start, pause, resume, stop, clear, edit, reconcile orphans | entry and timer are in different documents; several devices | an entry exactly once, no ghost timer, no overlap |
| Documents and persistence (`YjsDocManager.ts`, `entityUtils.ts`) | loaded documents, databases | load, flush, destroy | load timeouts, write errors | memory is a later state of disk |
| Archival (`YjsStore.ts`) | active and year documents | move, reconcile | crash between the two writes; copies from other devices | no record lost or live twice |
| Cloud sync (`CloudSyncProvider.ts`, `ManifestManager.ts`) | pending changes, state files, deltas, manifest | push, pull, compact, bootstrap | several devices on files without transactions | convergence, no acknowledged change lost |
| Cloud file stores (`GoogleDriveFileStore.ts`, `DropboxFileStore.ts`) | file cache, allocated ids | list, read, write, delete | lost answers, retries, other devices | one file of a name, acknowledged is stored |
| Provider transfer (`CloudProviderTransferCoordinator.ts`, `cloudTransferJournal.ts`) | stage journal, markers at two providers | stage, verify, publish, switch, resume, abort | resumption at every stage, writers on both sides | one provider selected, nothing lost |
| Backup and restore (`BackupManager.ts`, `restoreJournal.ts`) | restore journal | back up, replace, recover | crash during replacement | one workspace or the other, whole |
| Deletion of records (`workspaceDeletion.ts`, `domain/deletions/*`) | cascade plan | plan, delete by phases | work added meanwhile | no orphans, no issued invoice lost |
| Cloud authorization (`cloudAuthRecovery.ts`, `useGoogleAuth.ts`, `useDropboxAuth.ts`) | attempts, tokens | recover, retry | retries against cancellation | bounded attempts, one owner |
| Invoice email (`emailService.ts`, `emailAttemptStorage.ts`) | attempts | send, check, rebind | lost answers, full store | not sent twice, outcome recorded once |
| Agent bridge (`agent/bridge/*`, `agent/transport/*`) | sessions, requests | connect, request, time out, resume | late answers, reconnects | one answer to one request |
| Agent approvals (`agent/browser/*`) | tokens | mint, consume, resume | replays | used once |
| Entitlements (`useBillingStatus.ts`, `billingStorage.ts`, `entitlementPolicy.ts`, `activeClientPolicy.ts`) | cached license, plan granted, active clients | hydrate, refresh, retry, expire, gate | account and connection change during requests; two tabs at the limit | no stale plan is granted, the service is heard |
| Entries, tasks, planner, expenses (`manualTimeEntryOperations.ts`, hooks) | the records | create, edit, recur | checks before awaits | cutoff and overlap rules |
| Reports and PDF | none | projections | none | arithmetic only |
| React contexts and components | view state | none | order of start-up | covered by the guards of the modelled commands |

Commands come from the user interface (hooks) and from an agent (through the
bridge), and both call the same planning functions and the same store methods.
The store calls the sync provider through document observers; the provider
calls the store back when a sync is complete, which settles the archives, then
reconciles the timers, and then starts a replay of the billing journal
(`YjsStore.ts:1302-1316`).

PROJECT.json lists every component with what is modelled of it, and every
hazard at the line where it bites.

## Modules

| module | what it is |
|---|---|
| `InvoiceBilling` | billing of work on one device: commands, journal, phases, replays, databases, crashes |
| `TimerLifecycle` | the timer of a project and its entries: several devices, databases, sync passes, crashes |
| `YMap` | one key of a Yjs map: items, order of concurrent items, deletion, merge (the library, as the store uses it) |
| `ArchiveTransitions` | a record between the active and the archive document, on several devices |
| `SyncManifest` | the manifest entry of a document: completed from a listing, joined, compacted |
| `CloudSync` | the exchange of one document through the files of a provider, request by request |
| `SharedDocument` | what that exchange promises, without files: replicas, owed edits, a store |
| `CloudTransfer` | the move of a workspace from one provider to another, with its journal and markers |
| `WorkspaceRestore` | replacing the workspace by a backup, its journal, rollback and recovery |
| `WorkspaceDeletion` | the cascades of deleting a task, a project or a client |
| `EmailDelivery` | sending an invoice by email: attempts, retries, checks, marking the invoice |
| `AgentBridge` | the connection of an agent to the tabs: election, commands, approvals, time limits |
| `CloudConnection` | the effect that connects a tab to the selected provider, and the recovery of its authorization |
| `CloudFiles` | writing one file at Google Drive or Dropbox when answers get lost |
| `BillingAccess` | the paid plan a tab grants: cached license, refreshes, refusals, the deadline |
| `RecurringExpenses` | the expenses of a recurrence and the callers that create them |
| `TaskOrder` | the manual order of tasks by rational ranks |
| `MCInvoiceBilling`, `MCTimerLifecycle`, `MCArchive`, `MCCloudSync`, `MCCloudTransfer` | small instances for TLC |
| `DeviceWork` | the nine modules on a single device, `WorkspaceRestore` to `TaskOrder`, side by side; a behaviour is one of one of them |
| `MCDevice` | a small instance of `DeviceWork` for TLC |
| `NumberFacts` | lemmas on greatest, least and free numbers |
| `InvoiceBilling_proofs` | type correctness of the billing; markers, numbers, and what stays of cancellations and payments |
| `BillingWork_proofs` | work is billed once, markers, links and cutoffs match invoices, a replay heals |
| `TimerLifecycle_proofs` | type correctness and three safety theorems of the timers, with the lemmas on `YMap` |
| `CloudFiles_proofs` | acknowledged writes are stored, and creations are not repeated |
| `CloudTransfer_proofs` | the fenced provider is complete, and a foreign one untouched |
| `DeviceWork_proofs` | safety theorems of the modules on one device |
| `CloudSync_proofs` | type correctness of the sync and marks of unsent edits for any number of devices; references to delta files, recoverability of edits and the refinement of `SharedDocument` for one device |

The parts interact at these places, and each module takes the others' side of it as
its environment: `YMap` is the meaning of a write and a merge for `TimerLifecycle`
and `ArchiveTransitions`, whose `Exchange` is the promise of `SharedDocument` made by
`CloudSync`; `CloudTransfer` takes the files of a provider as the set of edits that
`CloudSync` can rebuild from them; a request of `CloudSync` that writes is what `CloudFiles` says of one
file (a write that is acknowledged was done, with conditional writes at one
provider and without at the other); the callback of a pass is the settling of
`ArchiveTransitions`, the orphan reconciliation of `TimerLifecycle` and the replay of
`InvoiceBilling`, in that order (`YjsStore.ts:1302-1316`).

Bounds are named `Max...`, stand in guards only, and are given in the `.cfg` files.
`CHECK_DEADLOCK FALSE` is said where a system may really be at rest: users who have
used up their commands, or do nothing.

## InvoiceBilling

### State

| variable | code |
|---|---|
| `inv` | `store.invoices`: status, number, `billingSelectionSnapshot` (`sel`), `billingStateSnapshot` (`was`) |
| `ops` | `store.invoiceBillingOperations`, in the order of `createdAt` |
| `charges` | `invoiceId` of an expense and `quotedAmountBilling` of a task |
| `ents` | `billedInvoiceId` of a time entry, in `entries-active` |
| `cutoff`, `seq`, `linked` | `lastBilledAt` of a task, `currentSequentialNumber` of the template, `invoiceIds` of the project |
| `coreDisk`, `entsDisk` | the two IndexedDB databases |
| `calls` | commands that wait at an `await`, with what they read before it |
| `run` | the plan that `applyInvoiceBillingOperation` is applying, and its phase |
| `replay` | a run of `reconcileInvoiceBillingOperations`: what it read and has left |
| `born`, `crashes`, `quiet` | bookkeeping of the model: created invoices, crashes, and whether a full replay has passed since the last command |

### Actions

`SaveDraft`, `RefreshDraft`, `DeleteDraft` are the operations on drafts.
`PrepareFinalize`, `PrepareCancel` and `BeginUndo`/`PrepareUndo` are commands up
to the journal write: undo is split because it checks and reads before the
archives load and plans after. `ApplyOwn` is the command coming back from its
awaits; `ApplyEntries`, `ApplyExpenses`, `ApplyTasks`, `ApplyLinks`,
`ApplyInvoice` and `Complete` are the six phases, each a transaction of its own
which the databases and a crash can see. No command and no replay runs between
phases, because `applyInvoiceBillingOperation` does not await between them.
`Pay` and `MarkUnpaid` are the agent's payment commands, which check and write
in one turn; `BeginPay`/`FinishPay` are the browser's `markAsPaid`, which fetches
exchange rates in between. `StartReplay`, `ReplayNext` and `EndReplay` are the
replay after a sync; `CrashAndRestart` is the death of the tab together with the
start-up that reads the databases and replays pending operations before any
command is accepted. `PersistBoth`, `PersistCore` and `PersistEntries` are the
background writes.

### Abstractions

- Invoice ids are given in the order of `createdAt` and the id of an operation is
  its `createdAt`. Timestamps of entries are instants `1..Horizon`.
- Work is a set of entries, expenses and quotes; amounts and prices play no part.
  A selection is always strict: it is what the snapshot of the invoice names.
- Adjustment entries, archived documents, invoices without snapshots, manual
  numbers, emails and payment details are left out; so are the idempotency keys of
  the agent commands. `lastCompletedPhase` is written by the code and read by
  nothing, so it is not kept.
- One device and one tab. How the document that holds the journal travels between
  devices is the subject of `CloudSync`; two devices that replay each other's
  journals are not modelled.
- A database always holds a past state of its document. With `InOrder` the two
  hold past states of the same moment, because the code issues the writes in that
  order; without it each is written on its own.

### Runs

All runs use work on one task: two entries, an expense and a quote, with
selections that overlap pairwise. Two invoices are enough for two to compete for
the same work, number and cutoff; three or four operations are enough for
finalize, undo or cancel, and finalize again; one crash is enough for a state to
be lost and repaired, since a restart leads to a state that the run also reaches
without one. `MaxInFlight` is the number of commands that wait at the same time.
The bounds cap counters in guards only; `CHECK_DEADLOCK FALSE` because a user who
has used them up, or does nothing, leaves the system at rest.

| run | configuration | shows |
|---|---|---|
| `billing_local` | cancel, pay; two in flight; a crash | types, `NoDoubleBilling`, `ClaimsMatchInvoices`, `ClaimsAreJournaled`, `NumbersAreDistinct` |
| `billing_synced` | draft, cancel, undo, payments after rates; two in flight; replays after a sync | `ReplayHeals`, `CanceledStays`, `PaidStays` |
| `billing_unordered` | undo, cancel; one in flight; databases written in any order; a crash; fairness | `LinksMatchInvoices`, `CutoffCoversBilledWork`, `JournaledGetsDone` |
| `billing_late_payment` | cancel, payments after rates; two in flight; a crash | that `CanceledIsTerminal` is violated (a finding) |

`CanceledIsTerminal` is the rule of the domain (`src/rules/domain-invariants.md:84`): a canceled
invoice stays canceled whatever comes. The browser's payment breaks it. `CanceledStays` says
what the code does keep of it, under all commands, with the slow payments, and with
replays that run into them: once nobody who looked at the invoice before its cancellation
is still to write (a payment that waits for rates, an undo that waits or is journaled: `Rid`), it
stays canceled, and no payment or undo of it begins. `PaidStays` is the same of a paid
invoice that no earlier plan releases (`Safe`): it is at most marked unpaid, and nothing that
would cancel or remove it is planned while it is paid. With `billing_synced`, the largest of the
runs (8.1 million states), a crash does not fit into five minutes; the theorems on both
properties allow any number of them.

### Where the code departs from its documents

Each of these is a behaviour of the module with the `Features` named, found with the
property named.

- *Provisional numbers* ("draft"; `NumbersAreDistinct`): applying a finalization to a
  saved draft writes the updates of the invoice but not the number that was
  allocated (`YjsStore.ts:2457`), so two drafts saved before either is finalized are
  issued under one number. `src/spec/features/invoicing-quotes-and-payments.md:10-11`:
  "New automatic draft numbers are provisional; finalization allocates a current
  unused final number."
- *Late payments* (the run `billing_late_payment`; `CanceledIsTerminal`): `markAsPaid` waits
  for exchange rates and then writes without looking again
  (`hooks/useInvoices.ts:261-262`), over a cancellation made meanwhile. The invoice is paid
  and its work is free to be billed again; see `src/rules/domain-invariants.md:83-84`.
- *Paid, then canceled* ("cancel", "pay"): a cancellation journaled before a payment is
  applied after it (`YjsStore.ts:2422`), against `src/spec/requirements.md:84`.
  `PaidStays` therefore speaks of invoices that no earlier plan releases.
- *Rewound sequence* ("undo" with replays after a sync; `LinksMatchInvoices`): the replay
  of an old undo sets the sequence back past a number issued since
  (`YjsStore.ts:2395`); planning an undo refuses this (`utils/invoiceUtils.ts:1033`).
- *Stale replay* ("undo" with replays after a sync; `NoDoubleBilling`): a replay works on
  operations as it read them before its awaits (`YjsStore.ts:2046`) and applies one
  that was completed and undone since, which the comment at 2051-2052 rules out.

Where a property holds depends on the configuration, and the runs say no more
than the following. `CutoffCoversBilledWork` is claimed for one command at a time
without replays after a sync: an undo planned while a finalization waits restores a
cutoff that does not know of it. The run that leaves the order of the databases open has no
drafts, with which it fails. `LinksMatchInvoices` is claimed without drafts (a provisional number may lie
beyond the sequence) and for one command at a time. `NumbersAreDistinct` is claimed without
drafts, and without undo while two commands and replays meet; `NoDoubleBilling` and
`ClaimsMatchInvoices` are claimed without replays after a sync, and without cancellations beside
payments that wait for rates. With replays after a sync a stale replay can strand work; `ReplayHeals`
says that the next whole replay repairs it. Two cancellations in the order of issue leave the cutoff
later than any billed entry, which the properties do not forbid.

### Fairness

`JournaledGetsDone` assumes that an awaited load comes back and the turn that
follows runs (`SF ApplyOwn`: strong, because a replay takes the turn for a while
again and again and the event loop does not pass over a resolved promise), that a
turn runs to its end (`WF ApplyPhase`), that a replay goes on (`WF ReplayNext`,
`EndReplay`), and that IndexedDB writes are not put off for ever (`WF Persist`).
No fairness is assumed of users, syncs or crashes.

## TimerLifecycle

### State

| variable | code |
|---|---|
| `doc[d]` | the documents in the memory of a device: `core` (the project's key in `store.timers`, and the fields `startTime`, `paused`, `pausedElapsedTime` of each timer instance) and `entries` (`entries-active`, a key per entry) |
| `disk[d]` | the IndexedDB databases of the device |
| `cloud` | what the provider has of the two documents |
| `client[d]`, `drawn` | the random client ids of the Yjs documents of a session, and all ids drawn so far |
| `calls` | edits, stops and manual entries that wait, with what they read before |
| `pass[d]` | the documents that the current sync pass of the device has exchanged |
| `clock` | half seconds; a timer starts at the next whole second |
| `born`, `given`, `crashes` | bounds: ids, commands, crashes so far |
| `waived`, `pausedAt` | bookkeeping: what the user gave up on purpose; the instants at which an instance was paused |

A key of a Yjs map is what the library keeps: items linked to the item that was
last when they were written, so an item is the path of client ids that leads to
it, the last item in the lexicographic order is the value, and a deletion marks
the last item dead. Documents merge by union. This is why the order in which
devices draw client ids is part of the model: it decides who wins.

### Actions

`Start`, `Pause`, `Resume`, `Clear` and `DeleteEntry` check and write in one turn.
`BeginEdit`/`FinishEdit` is `updateTimerWithValidation`, which waits for archived
documents and then checks timer and entries again (`EditInPlace` is the same call
when the start does not change: it does not wait). `BeginStop`/`FinishStop` is
`stopTimer` and `stopTimerCommand`: the timer is checked again after the wait, the
entries are those read before it (`loadAllTimeEntries` collects the active entries
before its first await). The entry and the deletion of the timer are two
transactions in one turn of the event loop; no crash of the tab is visible in
memory between them, but their databases (`Persist`) and their uploads
(`Exchange`) are separate. `BeginManual`/`FinishManual` is `createManualEntry`.
`Exchange` is `syncDoc` for one document, in any order of the documents; `EndPass`
is the callback after a pass, `reconcileOrphanedTimers`. `Crash` restarts a device
from its databases with new client ids.

### Abstractions

- One project: timers of different projects have different keys and do not meet.
- Notes, `lastActive`, timers older than instance ids, and the operation ids of
  the agent are left out; so are edits of entries and the billing cutoff.
- An exchange pulls and pushes in one step. The real pass publishes the manifest
  at its end; showing the uploads earlier only adds behaviours.
- No two sessions draw the same client id (`ClientAssumption`); Yjs draws 32 random
  bits and takes it for granted too.
- `SavedFirst` states two orders the code does not enforce: the entries database is
  written before the core database (their writes are issued in that order), and a
  document is uploaded after it was written locally. Without it a stop can reach
  another device, or the disk, as a deletion without its entry; the hazards say so.

### Runs

| run | configuration | shows |
|---|---|---|
| `timers_local` | one device, all commands, five of them, one slow command at a time, two ids, a crash | `TypeOK`, `PauseEndIsReal`, `NoOverlap` |
| `timers_synced` | two devices, starts and stops, three of them, two timer instances, a crash of either device, fairness | `WorkIsKept`, `GhostsGo` |

Five commands are enough to start, pause, edit, resume and stop, or to start,
pause, and pause again under an edit; two ids for a timer and a manual entry, or a
timer and its successor. Three commands on two devices are a start and both stops,
or a start, a stop and the next start. The clock stands still in `timers_synced`,
since neither of its properties depends on time. One new session after a crash may
draw a client id below or above those of both devices.

With two slow commands at a time `NoOverlap` fails: each compares its entry with
those read before its own wait (`hooks/useTimers.ts:200`, `hooks/useTimeEntries.ts:181`),
so two that wait together both pass.

`PauseEndIsReal` and `NoOverlap` are claimed for one device. With two, a pause on
one and an edit of the start on the other merge field by field, and two devices
can record overlapping work while they are apart; nothing in the code prevents
either.

`GhostsGo` assumes that IndexedDB writes are not put off for ever and that sync
passes go on (`WF Persist`, `Exchange`, `EndPass`): in sync mode a visible tab starts a
pass at every interval (`updateSyncInterval`). Nothing is assumed of users or
crashes.

## ArchiveTransitions

A task is moved between the active document and the archive by the user, an
expense by the application at start-up when it is old and settled. A move writes the
copy with a transition (`archiveTransition`: where to, when) and deletes the
original; nothing makes the two documents durable, or visible to another device,
together.

### State and actions

| variable | code |
|---|---|
| `kind` | whether the record is a task or an expense |
| `mem[d]`, `disk[d]`, `cloud` | the active and the archive document in memory, in IndexedDB, at the provider |
| `client[d]`, `used` | client ids of the session (see `YMap`), and those drawn so far |
| `up[d]` | the store is not ready, ready, or has the archive document loaded |
| `pass[d]` | what the current sync pass of the device has exchanged |
| `clock` | the time of transitions and edits |

`Start` is `initialize` with `archiveOldExpenses`; `Load` opens the archive on demand
and settles duplicates (`reconcileTaskArchiveTransitions`, `reconcileOneWayArchive`);
`Move` and `Edit` are the user; `Save` is a background write of one document;
`Exchange` the exchange of one document in a pass, and `EndPass` the callback that
settles again; `Reload` a crash or a reload.

Abstractions: a version number stands for the fields of a record; entries and
invoices follow the one-way rule with another predicate and are not repeated; the
rule that a journaled cancellation wins over an archived copy is left out.
Assumptions, each named in a guard: the copy is saved before the deletion of the
original (the order in which the writes are issued), a document is saved before it
is exchanged, one device moves (`Movers`), clocks agree.

### Run

`archive_moves` (two devices, client ids in either order, two commands, a reload,
630,724 states) shows `SettlesInPlace` (every device that has the archive loaded ends with one
copy, a task where it was last moved, and the same documents as the others). Two
commands are enough to archive and restore, or to move and edit against each other.
Fairness: start-up, callbacks, saves and exchanges go on; none for users.

The run says nothing of more moves than that. That a record can always be read from
what is durable is not among its properties, since it does not hold in general: TLC finds a
record that is in neither document after four commands of one device, and after two if two
devices move it (the last item of this section). With three commands of one device and a reload it
finds none (7.7 million states).

### Where the code departs from its documents

- An edit of the active copy on one device is lost when another device archives
  the record concurrently: the edit is in a nested map that the deletion removes.
  The comment at `YjsStore.ts:878-880` says that edits made meanwhile are kept.
- `archiveOldExpenses` (1184-1231) writes an active copy over the archived one
  without comparing them, so a stale active duplicate replaces a fresher archived
  copy before `reconcileOneWayArchive` could see both.
- With two devices that move the same record at once it can be deleted from both
  documents: each deletes the copy that the other keeps. With one device that moves it
  three times the same happens when the other, which has seen the first move only,
  settles: settling writes and deletes as a move does, and which of two concurrent items
  is the last is decided by client ids.

## CloudSync, SyncManifest, SharedDocument

One synchronised document and its files: a base file (the whole document), delta
files, and the manifest, whose entry names the version and time of the base, the
deltas, and tombstones of deltas that a base has absorbed. Applying a Yjs update is
a union, so a document is the set of edits it contains.

### State and actions

| variable | code |
|---|---|
| `base`, `deltas`, `manifest` | the files at the provider, with a time that stands for `modifiedTime` and revision |
| `doc[d]` | the document of a device, in memory and IndexedDB |
| `dirty[d]`, `parted[d]` | markers in local storage: changes to upload, changes made while no provider was connected |
| `tab[p]` | the `CloudSyncProvider` of a tab: what it keeps between passes (pending edits, full-state and verification requests, cached entry and revision, versions pulled), and what a pass holds across its awaits |
| `made`, `sent` | bookkeeping: edits made on, and acknowledged to, a device |

`Edit`, `Connect`, `Disconnect` and `Crash` are the user and the session. `Begin` starts
a pass (`auto`: the timer or the debounce; `exit`: the page is hidden; `now`: Sync
Now), `Check` asks whether the manifest changed, `Read` and `List` read the manifest
and the listing, `Body` completes one from the other, `PullBase` and `PullDelta`
download, `Push` decides what to upload, `UploadBase` and `UploadDelta` upload,
`SaveRead` and `SaveWrite` are `ManifestManager`'s read, join and write, `DeleteDelta`
removes what a compaction replaced, `Callback` is `onSyncComplete`, `Complete` and
`Fail` end the pass. Every action is one request or one turn between two awaits;
requests of other devices run in between, a request may be lost before or after
it took effect (`Lost`), and the tab may die anywhere.

`SyncManifest` is the arithmetic of the entry: `Reconcile` (complete it from a
listing), `Join` (remote and local), `AddDelta`, `NewBase`, `ClearDeltas`.
`SharedDocument` is the abstract promise: replicas, what each device owes, one
store; a device forgets that it owes an edit only when the store has it, and the
store forgets an edit only while some device owes it. `CloudSync` implements it
under the mapping `replica <- doc`, `store <- CloudEdits` (base and deltas without a
tombstone), `owed <- Owed(d)`. A device owes the queue of its tab, or the whole document
where the provider would upload that: it was asked for or is under way, or the tab is idle
or has just connected and a marker of an earlier session is all that is left.

### Runs

| run | configuration | shows |
|---|---|---|
| `sync_serial` | sync mode, devices take turns, one session lost, fairness | `SyncedIsComplete`, `ImplementsShared`, `Converges` |
| `sync_overlap` | backup mode, passes of two devices overlap, conditional writes | `WorkIsRecoverable` |
| `sync_faults` | sync mode, devices take turns, one failed or unanswered request, one session lost, one Sync Now or page exit | `UnsentIsMarked`, `NoDanglingReference` |

Two edits, three deltas and a compaction at two (ten in the code) are enough for a
compaction to run into another device's delta and into the next edit. `Serial` and
`QuietConnect` are assumptions, not guards of the code: that passes of different
devices do not overlap, and that nothing is edited while a connection is set up. Passes of two
tabs of one device do not overlap in the code either, which takes a Web Lock for each pass.
The theorems do without `Serial` (see below): what several devices are claimed to do beyond
`TypeOK` and `UnsentIsMarked` is model-checked only.
Fairness (`FairSpec`): a pass goes on, a tab connects, and the timer starts passes,
as `updateSyncInterval` does in a visible tab in sync mode.

What is left out: Manual mode, starting offline, the first creation of files (two
devices that create the manifest at once at Google make two), several documents
in one pass, the cap of 512 tombstones.

### Where the code departs from its documents

Each is a behaviour of the module without the assumption or bound named.

- After a pass whose pull failed, the next one finds the manifest unchanged and
  reports that all is synchronised (`SyncedIsComplete` with one fault; `ImplementsShared`
  does not hold then either).
- Two tabs of one device share the marker of unsent changes: a tab whose queue is
  empty clears it for the other, whose edits are then lost with its session
  (`MCTabs` with `UnsentIsMarked`).
- A pass that only pushes compacts what it knows into a new base and deletes a
  delta another device wrote since (`Serial` off, `WorkIsRecoverable` in sync mode).
- At Dropbox the listing refreshes the cached revision between the read and the
  conditional write, so the write replaces a manifest that nobody has read.
- At Google nothing is conditional: a stale manifest is written over a newer one and
  its tombstones, and refers again to the deltas that a compaction deletes (`Serial` off,
  `NoDanglingReference`); with the item before, Dropbox is no better, in either mode; reconciling with the listing repairs most of it at the next read.
- An edit made while a connection is set up fills the queue and displaces the
  upload of the whole document that the marker asks for (`QuietConnect` off).

## CloudTransfer

The move of a workspace from one provider to the other, by one profile, while
another device goes on syncing with whichever provider it is connected to.

### State and actions

| variable | code |
|---|---|
| `journal` | the transfer journal in IndexedDB: operation, source, target, generation, stage |
| `life` | the storage lifecycle: active provider, generation, staged provider |
| `marker[p]` | the workspace binding at a provider: active, prepared, moved to another, of another workspace |
| `files[p]` | the edits that can be rebuilt from a provider's files; 0 is data of another workspace |
| `local`, `conn` | the documents of the profile, and the provider the store is connected to |
| `other` | the other device: home, what it has, whether it knows the manifest of now |
| `run` | the coordinator between two awaits |
| `linked` | the hosted service knows both providers as one owner |
| `owed`, `mishap` | bookkeeping |

The actions follow `CloudProviderTransferCoordinator` from await to await. Before the
fence: `OpenNew`/`OpenOld` read the source's marker and write the journal or take it up, `SyncSource`, `BindSource`, `Inspect` and
`MergeTarget` bring source and target together, `Prepare` writes the target's marker,
`Snapshot`, `Upload`, `MarkSettled`, `Fingerprint`, `Verify` and `Compare` verify the copy
(`Again` restarts it, up to `Attempts` times, when it does not match or one side
changed), `Recheck`
and `Link` end it, and `TargetAfterLink` and `SourceAfterLink` compare once more,
since the service that links the providers took its time. `Fence` writes `moved` to the source, after which
`RecordFence`, `Converge`, `CompareSettled`, `Activate`, `RecordActivated`, `Own`, `Switch`,
`Publish` and `ClearJournal` make the target the workspace. `Start` and `Resume` begin
at the stage that the journal names; `Fault` fails whatever request is out, `Crash`
reloads the profile, `Quit` signs out, `Reconnect` and `AutoSync` are the application,
`Claim` a profile that has no active provider and takes one; `OtherBegin`, `OtherPush` and
`OtherFollows` are the other device, which looks at the marker only when the
manifest changed.

Abstractions: the stages before the fence are one, since resuming from any of them
does the same; the fingerprint of a manifest is whether it was saved since it was
read; how edits travel is `CloudSync`'s subject; the handoff backup, and the
forced overwriting of a source that only pushes, are left out.

### Run

`transfer_resumed` (targets that are empty, ours, foreign, or unbound; two edits, one
transfer, one failed request, one reload, one sign-out; 691,000 states) shows
`FencedIsComplete` (what the profile held at its last check can be rebuilt from the
target once the source says "moved"), `ForeignIsUntouched` (a target that holds
something else is never changed, on resumption too) and `InterruptedFinishes`.
`Attempts` is 2 (3 in the code): a second attempt finds the first one's traces,
a third does the same. Fairness: requests are answered, the app reconnects, and a
user who is told that a transfer stopped resumes it. `InterruptedFinishes` is about
behaviours without a `mishap`, since the code has interruptions from which it does
not finish:

- Once the source is marked `moved`, a reload leaves the application unable to
  connect to the source, so the journal can be neither resumed nor cleared, against
  the provider-neutral storage specification (`:93`).
- After the activation a failed request leaves the journal where it is; the branch
  for a transfer that was already activated is not reachable on resumption.
- The fingerprint of the source is read after the pull (`:431`): a push in between is
  taken for verified (`blind` in the model), and is missing from the target.
- A `moved` marker's generation is compared with another profile's own counter
  (specification `:131`): a device with a higher one is not turned away, and one that
  sees no change of the manifest does not look.

## What happens on one device: DeviceWork

Nine protocols run on one device and share no state. Each is a module of its own;
`DeviceWork` sets them side by side (it extends `CloudFiles` and instantiates the
others), a behaviour is one of one
of them (`part`), `MCDevice` gives the constants small values, and `device_work`
checks them in one run (1,574,130 states).

| part | module | instance | states | shows |
|---|---|---|---|---|
| restore | `WorkspaceRestore` | one tab, two restores, an edit, three faults, three crashes | 7,654 | `HomeIsKept` |
| deletion | `WorkspaceDeletion` | ten records, one deletion, a crash, a failed flush | 163,673 | `NoOrphans` |
| email | `EmailDelivery` | one invoice, two attempts with room for one, one trouble | 99,494 | `NotSentTwice`, `DeliveredIsShown` |
| bridge | `AgentBridge` | two tabs, two connections, two sensitive commands | 126,277 | `CommandsFindATab`, `OnlyApprovedIsDone` |
| cloud | `CloudConnection` | two selections, four connections, two retries | 508,752 | `ShownIsReal` |
| files | `CloudFiles` | both providers, three contents, three lost requests, two deeds of others | 12,952 | `AcknowledgedIsStored`, `OneFilePerName` |
| access | `BillingAccess` | two accounts, four changes, refreshes or failures in all, one retry | 285,303 | `GrantedIsCurrent`, `StatusIsHeard` |
| expenses | `RecurringExpenses` | two recurrences, two days, one reload or deed | 153,484 | `EveryPeriodOnce` |
| order | `TaskOrder` | three tasks, two lists, three drops, a step of four | 216,541 | `OrderIsKept` |

Where the code lets a property fail in one way and keeps it in all others, the module has the
behaviour, a variable of its bookkeeping records that it happened, and the property
excuses that and no more. Each section below names these excuses as departures.

### WorkspaceRestore

`YjsStore.replaceAllDataWithBackup` and `restoreJournal.ts`. State: the records in the
databases (`db`), the journal, and for each tab what it does next (`pc`, `mode`), its
documents (`mem`), whether they are bound to the databases (`open`), `_isReady`
(`ready`) and the journal record it works with (`plan`). `Export` writes the present
workspace into the journal (`WriteJournal`), `Clear`, `Reopen`, `Import`, `Flush` and
`Commit` replace the databases document by document; a failure sends the tab
through the same steps with the journal's workspace (rollback), and `Start` finds a
journal after a crash (`recoverInterruptedRestore`). `HomeIsKept`: as long as there is a
journal, the workspace the user was last told to have is whole in the databases or
in the journal; without one the databases hold it and nothing else.
The export also replays pending billing operations, which is left out.

Departures: a restore that is tried again after a failed rollback overwrites the
journal, the only whole copy (`YjsStore.ts:2700`; `RetryAtOnce`); a second tab
opened during a restore takes its journal for a crash (two `Tabs`); edits of another
tab after the export are lost with a rollback; other tabs stay ready with
destroyed documents; `clearAllData` leaves the journal, so the next start brings the
old workspace back.

### WorkspaceDeletion

`deleteWorkspaceRecords` and the plans of `domain/deletions`. State: the records with
their ties (`work`), the databases (`saved`), the running `deletion`. `Ask` plans and
checks, `FlushDoc`/`FlushFails` are the flushes between phases, `DeleteDependents`,
`DeleteInvoices`, `DeleteTasks`, `DeleteParents` the phases, `Acknowledge` the answer;
`Add` is work added meanwhile, `PersistDoc` a background write, `Restart` a crash.
`NoOrphans`: what a deletion leaves names nothing that is gone, in memory and in the
databases. Tasks are nested two levels; `InOrder` assumes that the writes of a
document reach its database in the order of issue.

### EmailDelivery

`emailService.ts`, `emailAttemptStorage.ts`, `EmailPreviewModal`, `InvoicesList`. State: the
stored attempts (`store`), the invoices in memory and on disk, the dialog, the list's
block on the action (`list`), the operations that wait (`job`), what the worker
knows (`worker`), requests that may still arrive (`net`), the session (`life`). `Send`,
`StoreAttempt`, `Post`, `GiveUp`, `Settle` and `Answer` are a send with its retry;
`Ask`, `CheckFails`, `Told`, `Apply` and `Mark` a check by the dialog or the list;
`Discover`, `OpenDialog`, `LookUp`, `CloseDialog` the dialog; `Edit`, `Save`, `Reload`,
`Reconnect` the surroundings. An answer may be lost before or after the worker
accepted the email, and may come after a reload; a retry may be refused although the
first try was accepted. `NotSentTwice`: no version of an
invoice is delivered twice, but for a second delivery of which one attempt had lapsed.
`DeliveredIsShown`: a delivered invoice is again and
again shown as sent, was changed, or its attempt had lapsed. Which of several attempts is looked after is
decided by session and by the last update (`Chosen`), as `updatedAt` does. As fairness
it assumes that begun steps go on and that the list checks again, which it does with
a bound and whenever the window gets focus (`InvoicesList` 352-375).

`Lapsed` are the attempts which the worker had accepted when a refused retry made the device
let go of them, and those which were sent blindly. This is where the code delivers an invoice a
second time, against `src/rules/domain-invariants.md:163-169` and ENTL-7
(`src/spec/requirements.md:148-152`):

- A 401, 429 or 4xx answer to the retry releases an attempt whose first try may have been
  accepted (`emailService.ts:507-590`), and the next send is a new one.
- The dialog sends blindly: its look-up is an effect with two awaits, and the Send button
  does not wait for it (`EmailPreviewModal.jsx:570-597`).
- A check that began under a session which was replaced meanwhile may release the attempt
  that the list has rebound to the new session, and an attempt that a finished send hands
  over while another check runs is dropped (`EmailPreviewModal.jsx:379-384`); a send in a
  dialog that asked under the old session counts as blind.

In the run an attempt that lapsed uses up two of `MaxAttempts`, which bounds what is explored
after a failure that is excused anyway. With the part alone, four attempts and room for two,
`NotSentTwice` holds as well (5.8 million states).

Other departures: the dialog's effect (248-269) resets a send that is under way; after a mismatch the
dialog closes each time, so an edited invoice cannot be sent again until the attempt
expires; after a reconnection an unknown attempt is not looked at again by itself.

### AgentBridge

`agent/bridge/server.ts`, `agent/transport`, `agent/browser`. State of the bridge: its
connections (`clients`), the authoritative one (`chosen`), who is to answer a command
(`waiting`), the tabs it accepts (`trusted`), what the agent was told (`answers`); of the
tabs: `socket`, `queue`, `busy`, the question put to the user (`asked`), the progress of a
command (`run`); between them `link` and `wire`. `Pair`, `Resume`, `Reconnect`, `Prove`,
`Verified` establish a connection, `Dies`, `Drop`, `Leave`, `RevokeAll` end it, `Dispatch`,
`Receive`, `Start`, `Ask`, `Vouch`, `Decide`, `Finish`, `Answer` are a command, `TimeOut` and
`Slow` the two time limits. `CommandsFindATab`: while a tab with a session is connected
commands go to a connected tab, and none is waited for where it cannot be answered.
`OnlyApprovedIsDone`: a sensitive command runs only with the user's or a token's
approval of that command.

A socket may close while its proof is verified. The server does not look at the
client again after the await (`server.ts:692-724`) and may take it as the authoritative one
although it is gone: `Late` are the connections taken in that way, and
`CommandsFindATab` excuses a chosen connection among them. Other departures: a command that waits behind a slow one may run
after the agent was told that it timed out, and the question for its approval may
appear after the connection closed; a time-out in the tab answers with a null
`requestId`, so the agent waits for its own (120 s). The expiry of sessions, the
audit log, and what a reload does to a running command are left out.

### CloudConnection

The connection effect of `YjsContext`, `connectSelectedProvider`, `CloudAuthRecovery`.
State: what is selected (`wanted`), whether the effect has to run (`due`) and for what
it last ran (`view`), whether the tab is visible and online (`eligible`), every
connection begun and how far it is (`try`), and what context, store and recovery hold
(`app`). `ShownIsReal`: when nothing is under way, what the tab shows as connected is
what the store syncs with, and the recovery has one retry at a time.

A session that was refused is logged out first, which is awaited, and then the store is
disconnected from whatever it is connected to by then (`YjsContext.tsx:335-342,588`): the
effect may have begun another connection meanwhile, which is cut off and which the tab
may then show as connected. `cut` records that until something is begun again, and
`ShownIsReal` excuses it. Departures outside the property: a
provider that is dropped while it still connects becomes connected and keeps
syncing under its old mode (`CloudSyncProvider.ts:996` after 1176); after a workspace
was found moved an earlier attempt stays current; a wake-up within a second of a
timer that fired in a hidden tab is lost until the next signal
(`cloudAuthRecovery.ts:87,103`); the connection of a superseded provider clears the
evidence of changes made while disconnected (`YjsStore.ts:1336-1340`).

### CloudFiles

`GoogleDriveFileStore`, `DropboxFileStore`, and `CloudSyncProvider.uploadFileWithRecovery`
with the caches of `ManifestManager`. State: the provider's `files` of one name and the
ids it allocated (`drawn`), the file cache (`known`: an id, and whether its revision is
still current), the id kept for a creation (`pending`), the `call` under way. At Google
a file is an id and nothing is conditional: `Post` creates under an allocated id,
`LookAtCreated` finds out what became of a creation whose answer was lost, `Patch`
replaces, `List` is the recovery from an id that is gone. At Dropbox `Upload` adds a
file or replaces the known revision (`Fits`), and `LookAtUploaded` compares hashes.
`OtherWrites` and `OtherWipes` are other devices, `Load` a listing, `Reload` a new session.
`AcknowledgedIsStored`: a write reported as done was done since it began.
`OneFilePerName`: creations of this device leave one file, however often they are
tried. A request that was given up is assumed not to be executed later.

Departures outside the properties: when the lookup fails too, a later creation with
newer bytes finds the older ones under its id and reports a conflict until a listing
refreshes the cache (`GoogleDriveFileStore.ts:612-618`); with the worker as a proxy
nothing is looked up, and a lost answer leads to a second file of the name
(`createProxyFile`, 700-774).

### BillingAccess

`hooks/useBillingStatus.ts` and `utils/billingStorage.ts`. State: the options of the last
render (the account and `onlineRefreshEnabled`) and its `effects` that have to run, the
license that is granted, the retry timer, the functions in flight with whether their
epoch is current (`runs`), the cached license (`binding`) and deletions of it
(`clears`). `LifeEffect` starts over with another account and reads the cache
(`ReadCache`, `Hydrated`), `ReadyEffect` asks when the connection is back, `Answer`,
`Write` and `Publish` are the way of an answer, `RequestFails` and `RetryFires` the
failures, `Expire` the deadline. `GrantedIsCurrent`: the plan shown has not run out
and the last question about it was not refused. `StatusIsHeard`: when nothing is under
way and there is a connection, the service has answered since it is there, or has failed as
often as it is tried.

A window event may ask while the cache is read (`AskAgain`, `useBillingStatus.ts:429-457`). It
ends the hydration before that sets `hydratedLifecycle`, and a later reconnection then does not
ask (288, 308, 385): `reading` says that the reading was "overtaken" and then a
connection "missed", which `StatusIsHeard` excuses. Departures outside the properties:
the deletion after a refusal is not guarded and may take a binding that a newer
request has written (line 260); the one after a deadline may take a binding that is
written and not yet published; a failing write to IndexedDB counts as a refusal.
Signatures and clock rollbacks are left out; time is right and timers are prompt.

### RecurringExpenses

`useExpenseRecurrences`, `useExpenses`, `App.jsx`, `ExpenseModal`, the agent's command.
State: recurrences, active and archived expenses (`books`), the `day`, generations in
flight (`runs`), the day generated for (`doneFor`), the view and the dialog while they
wait, `events`. A period is a day; `Begin`, `Generate` and `GenerateFails` are
`generatePendingExpenses` of the application and of the expenses page, `View` and
`AddInDialog` create single periods, `AddByAgent`, `SetActive`, `DeleteRecurrence`,
`MarkPaid` and `DeleteExpense` are commands, `Reload` archives what is old.
`EveryPeriodOnce`: no period up to the last generated one is without its expense, unless
a view of a later one passed over it, and none has two. Left out: edits of a schedule, other devices, the
await of rates in `markAsPaid`.

Departures: a view creates the expense of its period and marks the recurrence with it,
whether or not the earlier periods have theirs (`App.jsx:609-632`), so that after a failed
generation these are skipped for good: `Passes` counts them as made; a reload between an expense and the recurrence's `last`
followed by the archival of the expense makes the generation fail with a conflict
until the expenses page loads the archive, and blocks the recurrences after it; a
failed generation is retried at once for ever, because each toast changes the value
of the toast context (`ToastContainer.jsx:61`); yesterday's slow run can set `last`
back; a deletion during a generation brings the instance back; monthly dates
without a `monthlyDay` drift to the shortest month.

### TaskOrder

`utils/taskOrderingUtils.ts` with `TaskTree`. State: `rank` (`sortOrder`), the list of a task
(`place`), `archived`, the order by last work (`recent`), and what the user saw or made
(`meant`). A rank is counted in least gaps, so that dropping between two neighbours
rounds, and a gap that is used up rebalances the list. `OrderIsKept`: a list is shown
in the order in which the user left it, with new tasks first and restored ones
anywhere. Concurrent drops on two devices merge field by field and are left out, and
so is a move to a parent whose archived children are not loaded, which fails
halfway (`useTasks.ts:83-89`).

## Not modelled

- *Billing across devices.* Two devices that replay each other's journals: the
  documents arrive one after the other and records merge field by field.
  `InvoiceBilling` has one device; the hazard at `YjsStore.ts:1941` has no property.
- *The limit of active clients.* `activeClientApplication.ts:53` takes a Web Lock, so
  two tabs count one after the other, but they share the document only by
  `BroadcastChannel` messages (`YjsDocManager.ts`), which the second tab may not have
  received. A model would have to assume when messages arrive, and with that
  assumption the limit holds by construction.
- *Backups in the cloud.* `BackupManager` writes files under new names and deletes the
  oldest: one device, no other state depends on it.
- *Sign-in.* `useGoogleAuth`, `useDropboxAuth`, the token providers: exchanges with
  servers under `credentials`; what they decide (a session, a refusal, a moved
  workspace) is input of `CloudConnection`.
- *The proxy transport* of the Google file store, upload sessions and the migration of
  names at Dropbox.
- *Entries, tasks, planner items and preferences* beyond what is named above: single
  writes after a check in one turn of the event loop, where nothing can come between.
- *The agent's tools* (`agent/bridge/mcpTools.ts`, `agent/commands/*`) translate arguments
  into the commands that the modules model, and format what comes back.
- *Reports, PDF, presentation*: projections of the documents and layout. They keep no
  state, and a model of their arithmetic would be the arithmetic again.
- *React rendering*: only effects that decide about stored state are modelled (the
  connection, the email dialog and list, approvals, the granted plan).
- *y-indexeddb and the browser.* A database is taken to hold a past state of its
  document and to write updates in the order of issue; quota errors that drop
  databases, and clocks that go backwards, are outside the modules.

The map covers a small share of the lines: most of the source are components that
render, forms, reports, and the commands' validation of arguments.
## What is proved

Each theorem holds for every value of the constants its module assumes (any number
of invoices, operations, commands in flight, devices, timers, client ids, ids of
files, attempts, crashes), under the hypotheses it names. The assumptions on
constants stand in the models, and TLC evaluates them on every run. A hypothesis of a
theorem says which commands are used, on how many devices, or that two writes keep their order;
where a property fails without it, the section of the module says how.

### Billing

- `TypeCorrect`: `Spec => []TypeOK`. `TypeOK` is not inductive: an application
  turns the number of an operation into a plan, so `TypeInv` adds that whatever is
  about to be applied is in the journal. That `FinalizeOp` always finds a number
  needs a counting argument (`FreeNumber`: among one more number than there are in
  use, one is free), which `NumberFacts` proves.
- `MarkersAreJournaled`: with databases written in order, `[]ClaimsAreJournaled`.
  The inductive invariant `ClaimsInv` says the same of memory and of the
  databases, and that a plan being applied agrees with the journal
  (`RunIsJournaled`). The argument: the journal only grows (`JournalGrows`), a phase
  gives work only to the invoice whose finalization claims it
  (`NewOwnerBacked`), and a write takes both documents from one state.
- `CanceledStaysCanceled` (`CanceledStays`) and `PaidStaysBilled` (`PaidStays`), action
  properties without hypotheses: all commands, the slow payments and undo among them, any number
  in flight, replays at any time, databases written in any order. The invariant `StandInv` adds to
  the types that an invoice that was not created is absent and in no plan (`NothingBeyond`), so
  that nothing is known of a number before it is given; the rest is what each step does to an
  invoice that is `Rid` or `Safe` (`RidStays`, `SafeStays`). The two theorems say where the code is
  right, and the run `billing_late_payment` where it is not.
- `NumbersAreGivenOnce`: without saved drafts and undo, `[]NumbersAreDistinct`,
  whatever the order of the writes and with replays after a sync. Provisional
  numbers are why drafts are excluded. The
  invariant `NumbersInv` says that finalizations in the journal have distinct
  numbers and invoices, that an issued invoice has the number of its
  finalization, and that a complete finalization has issued its invoice; so a new
  number that avoids the issued and the promised ones avoids all of them
  (`NewNumberIsFree`). It holds of the database too, which is why a crash cannot
  give a number a second time.
- `WorkIsBilledOnce` (`[]NoDoubleBilling`) and `MarkersMatchInvoices`
  (`[]ClaimsMatchInvoices`): with replays at start-up only, databases written in order,
  and not both cancellations and payments written after an await; any number of
  commands in flight. Neither property says enough to survive a step: a finalization
  that waits holds work that no marker shows yet. `WorkInv` therefore follows a
  plan through its life. Work has one holder, a charged invoice or a plan that is about
  to make one (`OneHolder`); an invoice is finalized by one plan, and not released
  meanwhile (`OnePlan`); a plan finds the work it claims free or its own (`PlansFit`);
  a charged invoice owns its work and an owner is charged for it, unless a plan that
  may have been applied in part accounts for the difference (`Marked`, `Accounted`);
  and a call, a run and a replay stand where the journal says (`CallsFit`, `RunFits`,
  `BootFirst`, `OnceEach`). It is said of memory and of the databases alike, since
  start-up goes on from the latter; the plans applied in part are, in memory, the one
  that runs and those start-up has left, and on disk all that are not complete. The last of the hypotheses
  is needed: a payment that lands on a canceled invoice revives it, after its work was
  released to others.
- `LinksFollowInvoices` (`[]LinksMatchInvoices`): without saved drafts; with undo, one command in
  flight and no replay after a sync. A plan links an entry before it writes the invoice, so
  `LinksFrom` says of memory and of the database that an entry names the invoice that holds it
  or one that a plan still to be applied is about to make or to free; `AllAwaited`
  and `UndoWaits` that such a plan is still coming and that what an undo found is still so;
  `RunHasLinked` what a run that stopped half-way has linked.
- `ReplaysHeal` (`[]ReplayHeals`): databases written in order, no undo; any number of
  commands in flight and replays after a sync. A replay that has gone through the
  journal leaves nothing half applied: `KeptFrom` relates a complete operation to what
  it wrote, `RunGivesUp` says what a run may skip, and `QuietHeals` that where nothing runs
  and start-up has ended the marks agree.
- `CutoffsCoverBilledWork` (`[]CutoffCoversBilledWork`): one command in flight, replays at start-up
  only, databases written in order, and not both cancellations and payments written after an await
  (which `WorkInv` needs). A finalization raises the cutoff from the one it read, and a
  release sets back only what nothing has moved since; both rest on no other plan coming
  between, which `CoverInv` states as `LonePlan`, `OneWait` and `PlansCover`, of memory and of
  the database, with `RunCovers` for the plan under way. TLC finds the property violated with
  two commands in flight, with a replay after a sync, and with drafts whose databases are written
  out of order.

### Timers

The lemmas on `YMap` come first: `Before` is a total order of paths, so that a
key has a last item (`ValueType`); a write puts its item last (`SetItem`), by a path that no
item has, since its client id is its own; a merge keeps what both sides have
and stays sound. They hold for paths of any length.

- `TimersAreWhole` (`[]TypeOK`) has no hypotheses. That a timer which is shown has
  its three fields does not follow from what one device does, since a merge takes
  each key on its own. `TypeInv` says of every copy (`Formed`) that an instance named
  by any item of the timer key has items in all of its fields, which a merge keeps,
  that ids not born yet are empty everywhere, and that two items with one path
  are one item on all copies (`Agree`), for which client ids must be distinct.
- `PausesAreReal` (`[]PauseEndIsReal`): devices that do not sync, any number of slow
  commands. `PausedInv` says the same of the databases, which a crash brings back; the
  argument is about the writes, an edit that shifts the start shifting the elapsed time
  with it (`SameEnd`).
- `EntriesAreApart` (`[]NoOverlap`): devices that do not sync, one slow command in
  flight. `FreeInv` carries the disjointness to the databases, and says that what a
  command saw before it waited has every entry that is there when it writes.
- `StoppedWorkIsKept` (`[]WorkIsKept`): with `SavedFirst`, any number of devices, crashes
  and passes. `KeptInv` says where the work of an ended timer is: durable (`Durable`:
  an entry on some disk or at the provider, or given up by the user) once the end is
  on a disk or at the provider, and at least in the memory of each device that shows
  the end (`Ended`); and the entries a waiting stop saw are still items of its
  document. That a stop writes its entry is not enough, for a merge and a
  crash carry the two documents apart.

### Cloud files

- `ReportedWritesAreDone` (`[]AcknowledgedIsStored`) and `CreationsAreNotRepeated`
  (`[]OneFilePerName`) hold with no hypotheses but the typing of the constants, at
  either provider. `FilesInv` says that all a file holds was recorded (`Recorded`), and at
  Google Drive, where a name may be given to many files, that any file of the name is
  the one the device has in its cache or the one whose id it has allocated, at every
  step of a call (`OnlyFile`).

### Cloud sync

Any number of edits and delta files, any threshold of compaction, both modes,
either kind of store, any closed tabs and lost sessions, lost answers, failed and explicit
requests. The hypotheses say how the application is used; none says that something keeps
the passes of different devices apart, since nothing does.

- `FilesAreWhole` (`[]TypeOK`) has no hypotheses: any number of devices and tabs, whose passes
  may overlap. An upload must fit the step of the pass
  and its reason (`JobFits`): what follows a base file depends on why it was uploaded,
  and a queue that does not contain the batch under way would lose edits when the batch
  leaves it.
- `ReferencesExist` (`[]NoDanglingReference`): a workspace that is used on one device
  (`OneDevice`), in any number of tabs, whose passes the Web Lock keeps apart
  (`CloudSyncProvider.ts:159-163`). The
  manifest says nothing of what a tab is about to write into it, so `Grounded` says of
  each tab what it may know (`Clear`): no entry, cached or read, has a name that was
  never given; a save has read the manifest and the listing as they are; what it is
  about to write forgets no tombstone and refers to existing files; and what is to be
  deleted is buried in the manifest. That a name is not given twice after its file
  was deleted (`NewDeltaIsNew`) is the place where tombstones are needed. A tab between
  two passes keeps an old entry, which is why `Clear` is a claim about names ever
  given (`Used`) and not about files that exist. With two devices whose passes overlap the
  property fails, as the section on the module says; with conditional writes too.
- `UnsentLeavesAMark` (`[]UnsentIsMarked`): no edit while a connection is set up
  (`QuietConnect`), one tab per device (`Single`); passes of devices may overlap. The
  marker is cleared at the end of a pass whose queue is empty, so the proof is
  about the queue. `Evident` says that a connected tab holds whatever was not accepted
  (`Holds`): it is queued, or the whole document is asked for, or it is in the whole
  document being uploaded; that a connection which has not read the manifest yet
  relies on the marker or on the request for the whole document (`Owing`); and that a
  batch leaves the queue when it was accepted. Both hypotheses are needed, as the section
  on the module says.

The other two follow edits through a compaction that may stop at any of its steps. Their
hypotheses are one device with one tab (`OneDevice`, `Single`) and no edit while it connects
(`QuietConnect`); whatever fails, gets lost or is asked for is allowed. This is how the application
is used by one person with one computer, and the case in which a backup that is not whole costs the most.
With two devices TLC violates both properties with one failed request even when they take turns, and
`WorkIsRecoverable` with overlapping passes (in Sync mode at either kind of store, in Backup mode
with conditional writes once one pass is requested). On one device an edit while connecting
violates both, and so do two tabs; without these nothing is violated (one failed
request, one requested pass, one lost session: 56,463 states).

The invariant is `Whole`: `TypeInv`, `Grounded` and `Evident` from above, `Safe`, and `Known`
(what is in a document was made). `Safe` says that the device has everything in the files
(`Stored`), that these have everything it saw accepted, and of each tab what fits that (`Fit`): what it
queues or uploads is in the document; a base that it is about to upload contains
everything in the files, so that replacing the old base loses nothing and absorbs every delta;
a batch that is about to count as accepted is in the files; and it knows tombstones of spare deltas only,
whose contents the base has (`Spare`), so that a reader that leaves them out misses nothing
(`StoredIsReadable`). A failed request leaves all of this as it was, whichever it was and whether
or not it took effect, which is why no hypothesis speaks of faults.

- `WorkStaysRecoverable` (`[]WorkIsRecoverable`) is `Evident` (what was not accepted is marked)
  with `Safe` (what was accepted is at the provider).
- `SyncRefinesShared` (`ImplementsShared`): `Init` maps to the initial states of `SharedDocument`,
  and every step to one of its actions or to a stutter (`NextIsShared`). `Covered`, a
  consequence of `Whole`, says that an edit is at the provider or owed by the device, and that the
  device has both; a step changes what the provider has, what is owed, or neither.

### Provider transfer

Any number of edits, transfers, attempts, failed requests, reloads and sign-outs, every kind
of target, and any steps of the other device. The two theorems have no hypotheses but
the typing of the constants.

- `TransferIsComplete` (`[]FencedIsComplete`): what the profile owes at the fence is what it
  held or could have pulled at the last comparison (`SourceAfterLink`), unless a push came
  between a pull and its fingerprint (`blind`, a departure above). The argument follows
  those edits through the run (`SourceIsKnown`): what was pulled is in the documents; a
  snapshot has what the source held as long as the source is the same; what was
  verified is at the target. After the fence the target may be written
  again, by a settling that replaces its base, so `SeenIsKept` says that what a settling has read
  there is in what it writes.
- `ForeignIsSafe` (`ForeignIsUntouched`, an action property): `ForeignIsApart` says that a
  provider with data of another workspace is never the active one, the connected one, the other
  device's home, the journal's source, nor the place that any marker tells to go to; and from
  the preparation on it is not the journal's target. A resumed run has only the journal and the
  lifecycle to go by, so `JournalFits`, `LifeFits` and `RunFits` say which of them go together
  with which step.

### What happens on one device

The parts share nothing, so each theorem is one about its module, for all behaviours of
`DeviceWork`; any number of attempts, tabs, records, failures and reloads, with what the
property excuses and with no assumption beyond those of the module's constants, except where
an item says so.

- `ApprovalSafety` (`[]OnlyApprovedIsDone`), `CommandsSafety` (`[]CommandsFindATab`).
  `OnlyApprovedWork` says that a sensitive command at work or done was
  approved. For the second theorem, `ChosenHasSession` says that the chosen connection has a
  session, or was taken in when it was gone, and that with none chosen no connection has one;
  `LiveIsKnown` that a connection whose socket lives is known to the bridge, and one that was
  taken in late is not;
  `WaitedWhereKnown` that a command is waited for where it can be answered or seen to fail.
- `ConnectionSafety` (`[]ShownIsReal`). At rest it relates the tab to
  the store; to get there `CloudInv` says of the connection that counts that it is
  under way with the store's provider unless a logout cut it off, and that without one
  the provider has come to its end (`AttemptIsProvider`); that it is for what the
  effect saw last (`AttemptIsViewed`); and that a retry that counts is the one the recovery
  waits for, without a timer (`RetryIsAlone`).
- `AccessSafety` (`[]GrantedIsCurrent`) and `StatusSafety` (`[]StatusIsHeard`).
  `AccessInv`: one function in flight belongs to the epoch (`OneIsCurrent`); unless a refresh
  overtakes it, the cache is read before anything is asked or granted (`CacheIsFirst`); what is
  granted lasts (`GrantLasts`); after a refusal no cached license is
  under way (`RefusalHolds`); the service has answered, or somebody is about to ask it, or
  nobody tries again (`AskedOrHeard`).
- `RestoreSafety` (`[]HomeIsKept`), one tab, a restore that waits for an outstanding rollback.
  `RestoreInv` goes through what the tab does: without a journal the databases are the home
  (`WithoutJournal`), a journal keeps the home and the edits that may still be
  written in the background (`WithJournal`), and a replacement, a rollback and a recovery go from
  empty databases to those that hold what is to be brought (`AtWork`), which is what allows the
  journal to be deleted.
- `ExpensesSafety` (`[]EveryPeriodOnce`). A generation works from what it
  read before its awaits. `RunsAreSound` says that what a run takes to be made was made, and that
  while it waits for the expense of a period those before it were made or passed over; both
  survive what others do since what was made only grows (`Grows`).
- `DeletionSafety` (`[]NoOrphans`), with `InOrder` and a schema of which record may name which.
  `DeletionInv` says that a tie goes with its record (`TiesAreHeld`), that memory and databases
  name nothing that is gone (`Whole`). The database of the entries and that of the rest are
  written apart, so what a stored entry names must be there in memory, since the other database may
  be written without it at any time (`EntriesHaveTheirTask`); after the flush no deleted
  entry is stored (`FlushedEntriesAreThere`), and no entry is billed on an invoice that is about
  to go (`InvoicesAreReleased`).

### What stays with TLC

- Liveness (`JournaledGetsDone`, `GhostsGo`, `Converges`, `SettlesInPlace`,
  `InterruptedFinishes`, `DeliveredIsShown`) rests on fairness and `ENABLED`, which the
  proof system does not handle.
- What several devices are claimed to do at the files of a provider beyond the two theorems for any number of
  them: `SyncedIsComplete`, and the other properties of `CloudSync` with two devices, hold in the
  runs' configurations, where passes take turns or the store refuses stale writes. Nothing in the
  code brings these about, so they are no hypotheses of a theorem.
- `NotSentTwice` of the email: it compares what the provider was asked to send with what two
  journals, of the device and of the server, remember of it. Its inductive invariant has to
  follow each attempt through both, and has not been written.
- `OrderIsKept` of the tasks: what sorting a sequence returns for any sequence is an
  induction over data.
- What a recursive definition computes for all data: `YMap` writes its order without
  recursion for this reason.

## What is left

- `NotSentTwice` as a theorem of `EmailDelivery`, by an invariant that relates the
  attempt on the device, its reservation on the server and what the provider was asked to send.
- The reports and the documents made for printing (see what is not modelled), which compute from
  the records and change none.
- The two hazards without a property: the merge of two devices' journals field by
  field, and two tabs that create a client at the limit of the plan. The first needs the
  documents of `YMap` under the journal of `InvoiceBilling`; the second is a matter of the
  count that the second tab reads before the lock.
