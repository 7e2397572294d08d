----------------------------- MODULE DeviceWork ------------------------------
(***************************************************************************)
(* What happens on one device: the restore of a backup, the deletion of a  *)
(* client, a project or a task, the sending of an invoice, the bridge to   *)
(* an agent, the connection to a cloud provider, the files kept there, the *)
(* plan the account has paid for, recurring expenses, the manual order of  *)
(* tasks.  They share no state, so a behaviour is one of one of them and   *)
(* the rest stands still.  CloudFiles is extended, the others are          *)
(* instances.                                                              *)
(***************************************************************************)
EXTENDS CloudFiles

CONSTANTS
  tab, None,
  MaxRestores, MaxEdits, MaxFaults, MaxCrashes,          \* WorkspaceRestore
  Records, Kind, Refs, TieOf, FirstRecords, FirstTies, Roots,
  MaxDeletions, MaxDeaths, MaxFailures,                  \* WorkspaceDeletion
  Invoices, Capacity, MaxAttempts, MaxLate,              \* EmailDelivery
  Tabs, Sensitive, MaxConns, MaxCommands,                \* AgentBridge
  Keys, Recoveries, MaxTries,                            \* CloudConnection
  Lives, Refreshes, MaxRuns, MaxChanges, MaxTime,         \* BillingAccess
  Count, Last, InDialog, AutoPaid, Batch, Age, MaxDay, MaxDeeds, \* RecurringExpenses
  Tasks, Lists, Step, MaxDrags                           \* TaskOrder

VARIABLES
  part,  \* the module of the behaviour
  db, journal, pc, mode, mem, open, ready, plan, home, told, edits, faults, crashes,
  work, saved, deletion, made, deletions, deaths, failures,
  store, invoice, disk, dialog, list, job, worker, net, life, troubles,
  clients, chosen, waiting, trusted, answers, link, wire, socket, queue, busy, asked, run, approved,
  wanted, due, view, eligible, try, app,
  account, linked, effects, granted, hydrated, retry, inFlight, clears, binding, now, heard,
  barred, reading, changes,
  books, day, runs, doneFor, viewing, adding, deeds,
  rank, place, archived, recent, meant, drags

restoreVars ==
  <<db, journal, pc, mode, mem, open, ready, plan, home, told, edits, faults, crashes>>
deletionVars == <<work, saved, deletion, made, deletions, deaths, failures>>
emailVars == <<store, invoice, disk, dialog, list, job, worker, net, life, troubles>>
bridgeVars ==
  <<clients, chosen, waiting, trusted, answers, link, wire, socket, queue, busy, asked, run,
    approved>>
cloudVars == <<wanted, due, view, eligible, try, app>>
accessVars ==
  <<account, linked, effects, granted, hydrated, retry, inFlight, clears, binding, now, heard,
    barred, reading, changes>>
expenseVars == <<books, day, runs, doneFor, viewing, adding, deeds>>
orderVars == <<rank, place, archived, recent, meant, drags>>
deviceVars ==
  <<part, restoreVars, deletionVars, emailVars, bridgeVars, cloudVars, vars, accessVars,
    expenseVars, orderVars>>

Restore == INSTANCE WorkspaceRestore WITH Tabs <- {tab}, RetryAtOnce <- FALSE

Deletion == INSTANCE WorkspaceDeletion WITH MaxCrashes <- MaxDeaths, MaxFaults <- MaxFailures

Email == INSTANCE EmailDelivery WITH MaxTroubles <- MaxLate

Bridge == INSTANCE AgentBridge WITH told <- answers

Cloud == INSTANCE CloudConnection WITH Retries <- Recoveries

Access == INSTANCE BillingAccess
          WITH Retries <- Refreshes, life <- account, ready <- linked,
               due <- effects, shown <- granted, runs <- inFlight

Expenses == INSTANCE RecurringExpenses
            WITH work <- books, events <- deeds, MaxEvents <- MaxDeeds

Order == INSTANCE TaskOrder WITH NoRank <- None, Nowhere <- None

ASSUME RestoreAssumption == Restore!ConstantsAssumption
ASSUME DeletionAssumption == Deletion!ConstantsAssumption
ASSUME EmailAssumption == Email!ConstantsAssumption
ASSUME BridgeAssumption == Bridge!ConstantsAssumption
ASSUME CloudAssumption == Cloud!ConstantsAssumption
ASSUME FilesAssumption == ConstantsAssumption
ASSUME AccessAssumption == Access!ConstantsAssumption
ASSUME ExpensesAssumption == Expenses!ConstantsAssumption
ASSUME OrderAssumption == Order!ConstantsAssumption

-----------------------------------------------------------------------------
DeviceInit ==
  /\ part \in {"restore", "deletion", "email", "bridge", "cloud", "files", "access",
               "expenses", "order"}
  /\ Restore!Init /\ Deletion!Init /\ Email!Init /\ Bridge!Init /\ Cloud!Init
  /\ Init /\ Access!Init /\ Expenses!Init /\ Order!Init

DeviceNext ==
  \/ /\ part = "restore" /\ Restore!Next
     /\ UNCHANGED <<part, deletionVars, emailVars, bridgeVars, cloudVars, vars,
                    accessVars, expenseVars, orderVars>>
  \/ /\ part = "deletion" /\ Deletion!Next
     /\ UNCHANGED <<part, restoreVars, emailVars, bridgeVars, cloudVars, vars,
                    accessVars, expenseVars, orderVars>>
  \/ /\ part = "email" /\ Email!Next
     /\ UNCHANGED <<part, restoreVars, deletionVars, bridgeVars, cloudVars, vars,
                    accessVars, expenseVars, orderVars>>
  \/ /\ part = "bridge" /\ Bridge!Next
     /\ UNCHANGED <<part, restoreVars, deletionVars, emailVars, cloudVars, vars,
                    accessVars, expenseVars, orderVars>>
  \/ /\ part = "cloud" /\ Cloud!Next
     /\ UNCHANGED <<part, restoreVars, deletionVars, emailVars, bridgeVars, vars,
                    accessVars, expenseVars, orderVars>>
  \/ /\ part = "files" /\ Next
     /\ UNCHANGED <<part, restoreVars, deletionVars, emailVars, bridgeVars, cloudVars,
                    accessVars, expenseVars, orderVars>>
  \/ /\ part = "access" /\ Access!Next
     /\ UNCHANGED <<part, restoreVars, deletionVars, emailVars, bridgeVars, cloudVars,
                    vars, expenseVars, orderVars>>
  \/ /\ part = "expenses" /\ Expenses!Next
     /\ UNCHANGED <<part, restoreVars, deletionVars, emailVars, bridgeVars, cloudVars,
                    vars, accessVars, orderVars>>
  \/ /\ part = "order" /\ Order!Next
     /\ UNCHANGED <<part, restoreVars, deletionVars, emailVars, bridgeVars, cloudVars,
                    vars, accessVars, expenseVars>>

\* What was begun in the tab goes on, a request is answered or given up, and the
\* list of invoices checks again whenever the user comes back to it.
EmailFairness ==
  /\ WF_emailVars(part = "email" /\ Email!Discover) /\ WF_emailVars(part = "email" /\ Email!SendGoesOn)
  /\ \A w \in {"dialog", "list"} : WF_emailVars(part = "email" /\ Email!CheckGoesOn(w))
  /\ SF_emailVars(part = "email" /\ Email!ListGoesOn)

DeviceSpec == DeviceInit /\ [][DeviceNext]_deviceVars /\ EmailFairness

-----------------------------------------------------------------------------
\* Whatever fails and whenever the tab dies, the workspace the user was last
\* told to have is whole in the databases or in the journal; and without a journal
\* the databases hold nothing of another (YjsStore.replaceAllDataWithBackup,
\* recoverInterruptedRestore).
HomeIsKept == part = "restore" => Restore!HomeIsKept

\* A deletion leaves no record behind that names what is gone, in memory or in
\* the databases (deleteWorkspaceRecords).
NoOrphans == part = "deletion" => Deletion!NoOrphans

\* No version of an invoice is delivered twice, whatever is lost or late and
\* whenever the tab is closed, but for an attempt that was taken back or sent
\* blindly (findUnreconciledEmailAttemptForRecovery).
NotSentTwice == part = "email" => Email!NotSentTwice

\* What was delivered is shown as sent in the end, unless the invoice was
\* changed or the attempt taken back (the reconciliation of EmailPreviewModal and InvoicesList).
DeliveredIsShown == Email!DeliveredIsShown

\* While a tab with a session is connected, the agent's commands have a tab to go
\* to, unless one was taken in after its socket had closed; and none is waited for
\* where it cannot be answered (electAuthoritativeClient).
CommandsFindATab == part = "bridge" => Bridge!CommandsFindATab

\* A sensitive command is executed only if an approval was given for it, however
\* late the command before it ends (onCommandApprovalRequest).
OnlyApprovedIsDone == part = "bridge" => Bridge!OnlyApprovedIsDone

\* What the tab shows as connected is the provider that the store syncs with,
\* whatever was begun before and answers late, unless the logout of a refused
\* session cut it off; and the recovery has one retry at a time
\* (connectSelectedProvider, CloudAuthRecovery).
ShownIsReal == part = "cloud" => Cloud!ShownIsReal

\* The plan that is granted has not run out, and what was asked last about it was
\* not refused (publishVerifiedStatus).
GrantedIsCurrent == part = "access" => Access!GrantedIsCurrent

\* When nothing is under way and the connection is there, the billing service has
\* answered since it is there or failed as often as it is tried, unless a refresh
\* had overtaken the reading of the cache (useBillingStatus).
StatusIsHeard == part = "access" => Access!StatusIsHeard

\* Every period of a recurrence that no view of a later one passed over has its
\* expense, and none has two, whichever callers make them and whatever fails
\* between (generatePendingExpenses).
EveryPeriodOnce == part = "expenses" => Expenses!EveryPeriodOnce

\* A list of tasks is shown in the order in which the user left it, however often
\* tasks are dropped into the same gap (buildTaskMoveOrderUpdates).
OrderIsKept == part = "order" => Order!OrderIsKept
=============================================================================
