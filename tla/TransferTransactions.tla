------------------------ MODULE TransferTransactions ------------------------
(***************************************************************************)
(* The transactions on one transfer, statement by statement, as PostgreSQL *)
(* runs them: READ COMMITTED, so every statement sees what was committed   *)
(* when it began, plus row locks held to the end of the transaction.       *)
(* Module Transfer takes each transaction as one step; this one asks what  *)
(* that hides.  The row variables are the committed rows; a transaction's  *)
(* own writes are in its record until it commits.                          *)
(*                                                                         *)
(* Taking a lock is a step of its own only where the transaction goes on   *)
(* to wait or to read: the last lock is taken with the commit, and the     *)
(* file-target rows, which only the holder of their file or a cancellation *)
(* about to commit locks, with those.                                      *)
(***************************************************************************)
EXTENDS TransferStatus

CONSTANTS
  Devices,      \* the target devices of the transfer
  Files,        \* its files, all due; empty for a text transfer
  Transactions, \* concurrent database transactions
  Reports       \* statuses a progress report may carry

ASSUME DevicesAssumption == Devices # {}
ASSUME ReportsAssumption == Reports \subseteq ReportableStatuses

VARIABLES
  task,      \* transfer_tasks.status
  status,    \* transfer_targets.status
  route,     \* transfer_targets.selected_route
  receipt,   \* delivery_status
  files,     \* files.status
  openFiles, \* files with an unfinished row in transfer_file_targets
  tx         \* what each transaction is doing

rowVars == <<task, status, route, receipt, files, openFiles>>
vars == <<rowVars, tx>>

Idle == [pc |-> "idle"]

NodeTargets == {d \in Devices : route[d] = "NODE"}

(***************************************************************************)
(* The type invariant.                                                     *)
(***************************************************************************)
TypeOK ==
  /\ task \in TransferStatuses
  /\ status \in [Devices -> TransferStatuses]
  /\ route \in [Devices -> {"LAN", "NODE"}]
  /\ receipt \in [Devices -> {"NONE", "DELIVERED", "READ"}]
  /\ files \in [Files -> {"UPLOADING", "AVAILABLE_ON_NODE", "EXPIRED"}]
  /\ openFiles \subseteq Files
  /\ tx \in [Transactions ->
       {Idle}
       \cup [pc : {"reported"}, device : Devices, report : Reports]
       \cup [pc : {"summing"}, device : Devices, report : Reports,
             seen : [Devices -> TransferStatuses]]
       \cup [pc : {"retried"}, device : Devices]
       \cup [pc : {"cancelled"}]
       \cup [pc : {"cancelling"}, todo : SUBSET Devices, hit : SUBSET Devices]
       \cup [pc : {"completing"}, file : Files, todo : SUBSET Devices,
             hit : SUBSET Devices]
       \cup [pc : {"marked"}, file : Files]
       \cup [pc : {"expiring"}, file : Files, todo : SUBSET Devices,
             hit : SUBSET Devices]]

\* A transfer just created over LAN or through the Node.
Init ==
  /\ task = "QUEUED"
  /\ route \in [Devices -> {"LAN", "NODE"}]
  /\ status = [d \in Devices |-> InitialStatus(route[d])]
  /\ receipt = [d \in Devices |-> "NONE"]
  /\ files = [f \in Files |-> "UPLOADING"]
  /\ openFiles = Files
  /\ tx = [t \in Transactions |-> Idle]

-----------------------------------------------------------------------------
(***************************************************************************)
(* Row locks, read off the transactions that hold them.                    *)
(***************************************************************************)
HoldsTarget(t, d) ==
  \/ tx[t].pc \in {"reported", "summing", "retried"} /\ tx[t].device = d
  \/ tx[t].pc \in {"cancelling", "completing", "expiring"} /\ d \in tx[t].hit

\* Mutant of HoldsTask: an expiry closes the task before the targets.
HoldsTaskEarly(t) == tx[t].pc \in {"cancelled", "cancelling", "expiring"}

HoldsTask(t) == tx[t].pc \in {"cancelled", "cancelling"}

\* The file's own row and its rows in transfer_file_targets.
HoldsFile(t, f) ==
  tx[t].pc \in {"completing", "marked", "expiring"} /\ tx[t].file = f

\* Mutant of TargetFree: the row is read without FOR UPDATE.
NoRowLock(d) == TRUE

TargetFree(d) == \A t \in Transactions : ~HoldsTarget(t, d)

TaskFree == \A t \in Transactions : ~HoldsTask(t)

FileFree(f) == \A t \in Transactions : ~HoldsFile(t, f)

-----------------------------------------------------------------------------
(***************************************************************************)
(* ReportTransferProgress.                                                 *)
(***************************************************************************)
\* SELECT ... FOR UPDATE OF target, the checks, and the UPDATE of the row.
ReportTarget(t, d, s) ==
  /\ tx[t] = Idle
  /\ TargetFree(d)
  /\ Accepts(status[d], s)
  /\ tx' = [tx EXCEPT ![t] = [pc |-> "reported", device |-> d, report |-> s]]
  /\ UNCHANGED rowVars

\* UPDATE transfer_tasks begins: its subqueries read this snapshot, even if
\* the statement then waits for the task row.
SnapshotTargets(t) ==
  /\ tx[t].pc = "reported"
  /\ tx' = [tx EXCEPT ![t] =
       [pc |-> "summing", device |-> @.device, report |-> @.report,
        seen |-> [status EXCEPT ![tx[t].device] = tx[t].report]]]
  /\ UNCHANGED rowVars

\* delivery_status upsert: a time already recorded is kept.
ReceiptAfter(current, s) ==
  CASE s = "READ" -> "READ"
    [] s = "DELIVERED" /\ current = "NONE" -> "DELIVERED"
    [] OTHER -> current

\* The task row is read and written behind its lock.
CommitReport(t) ==
  /\ tx[t].pc = "summing"
  /\ TaskFree
  /\ status' = [status EXCEPT ![tx[t].device] = tx[t].report]
  /\ receipt' = [receipt EXCEPT ![tx[t].device] = ReceiptAfter(@, tx[t].report)]
  /\ task' = TaskAfter(tx[t].seen, tx[t].report, task)
  /\ tx' = [tx EXCEPT ![t] = Idle]
  /\ UNCHANGED <<route, files, openFiles>>

(***************************************************************************)
(* ReadTransfer locks one row and touches no other target and no task.     *)
(***************************************************************************)
ReadTransfer(d) ==
  /\ TargetFree(d)
  /\ status[d] = "DELIVERED"
  /\ status' = [status EXCEPT ![d] = "READ"]
  /\ receipt' = [receipt EXCEPT ![d] = "READ"]
  /\ UNCHANGED <<task, route, files, openFiles, tx>>

-----------------------------------------------------------------------------
(***************************************************************************)
(* RetryTransferTarget: the target row, then the task row.                 *)
(***************************************************************************)
RetryTarget(t, d) ==
  /\ tx[t] = Idle
  /\ TargetFree(d)
  /\ status[d] \in {"FAILED", "PAUSED", "SOURCE_FILE_MISSING", "SOURCE_FILE_CHANGED"}
  /\ tx' = [tx EXCEPT ![t] = [pc |-> "retried", device |-> d]]
  /\ UNCHANGED rowVars

CommitRetry(t) ==
  /\ tx[t].pc = "retried"
  /\ TaskFree
  /\ status' = [status EXCEPT ![tx[t].device] = "CHECKING_ROUTE"]
  /\ task' = "CHECKING_ROUTE"
  /\ tx' = [tx EXCEPT ![t] = Idle]
  /\ UNCHANGED <<route, receipt, files, openFiles>>

-----------------------------------------------------------------------------
(***************************************************************************)
(* CancelTransfer: the task row first, then the target rows, then the      *)
(* unfinished file-target rows.  The second UPDATE finds its candidates in *)
(* its snapshot and checks each one again once it has the row.             *)
(***************************************************************************)
CancelTask(t) ==
  /\ tx[t] = Idle
  /\ TaskFree
  /\ task \notin Finished
  /\ tx' = [tx EXCEPT ![t] = [pc |-> "cancelled"]]
  /\ UNCHANGED rowVars

SnapshotUnfinished(t) ==
  /\ tx[t].pc = "cancelled"
  /\ tx' = [tx EXCEPT ![t] = [pc |-> "cancelling", hit |-> {},
       todo |-> {d \in Devices : status[d] \notin Finished}]]
  /\ UNCHANGED rowVars

StillUnfinished(d) == status[d] \notin Finished

CancelTarget(t, d) ==
  /\ tx[t].pc = "cancelling"
  /\ d \in tx[t].todo
  /\ TargetFree(d)
  /\ tx' = [tx EXCEPT ![t].todo = @ \ {d},
                      ![t].hit = IF StillUnfinished(d) THEN @ \cup {d} ELSE @]
  /\ UNCHANGED rowVars

CommitCancel(t) ==
  /\ tx[t].pc = "cancelling"
  /\ tx[t].todo = {}
  /\ \A f \in openFiles : FileFree(f)
  /\ status' = [d \in Devices |-> IF d \in tx[t].hit THEN "CANCELLED" ELSE status[d]]
  /\ task' = "CANCELLED"
  /\ openFiles' = {}
  /\ tx' = [tx EXCEPT ![t] = Idle]
  /\ UNCHANGED <<route, receipt, files>>

-----------------------------------------------------------------------------
(***************************************************************************)
(* CompleteFile, of a file uploaded for a NODE target: the file row, its   *)
(* file-target rows, then every target row on route NODE; never the task.  *)
(* (Transfer has the reports that change a route meanwhile, and files of   *)
(* size zero.)                                                             *)
(***************************************************************************)
UploadDone(t, f) ==
  /\ tx[t] = Idle
  /\ FileFree(f)
  /\ files[f] = "UPLOADING"
  /\ NodeTargets # {}
  /\ tx' = [tx EXCEPT ![t] =
       [pc |-> "completing", file |-> f, todo |-> NodeTargets, hit |-> {}]]
  /\ UNCHANGED rowVars

TakeTarget(t, d) ==
  /\ tx[t].pc \in {"completing", "expiring"}
  /\ d \in tx[t].todo
  /\ TargetFree(d)
  /\ tx' = [tx EXCEPT ![t].todo = @ \ {d}, ![t].hit = @ \cup {d}]
  /\ UNCHANGED rowVars

CommitComplete(t) ==
  /\ tx[t].pc = "completing"
  /\ tx[t].todo = {}
  /\ files' = [files EXCEPT ![tx[t].file] = "AVAILABLE_ON_NODE"]
  /\ openFiles' = openFiles \cup {tx[t].file}
  /\ status' = [d \in Devices |->
       IF d \in tx[t].hit THEN "AVAILABLE_ON_NODE" ELSE status[d]]
  /\ tx' = [tx EXCEPT ![t] = Idle]
  /\ UNCHANGED <<task, route, receipt>>

-----------------------------------------------------------------------------
(***************************************************************************)
(* MarkFileExpired: the file row and its file-target rows; the targets     *)
(* that the UPDATE's snapshot shows without a live file; the task if none  *)
(* of its targets is left.                                                 *)
(***************************************************************************)
MarkFile(t, f) ==
  /\ tx[t] = Idle
  /\ FileFree(f)
  /\ files[f] # "EXPIRED"
  /\ tx' = [tx EXCEPT ![t] = [pc |-> "marked", file |-> f]]
  /\ UNCHANGED rowVars

\* Mutant of LastLiveFile: the other files are not looked at.
AnyFile(f) == TRUE

LastLiveFile(f) == \A g \in Files \ {f} : files[g] = "EXPIRED"

SnapshotFiles(t) ==
  /\ tx[t].pc = "marked"
  /\ tx' = [tx EXCEPT ![t] =
       [pc |-> "expiring", file |-> @.file, hit |-> {},
        todo |-> IF LastLiveFile(@.file) THEN Devices ELSE {}]]
  /\ UNCHANGED rowVars

CommitExpiry(t) ==
  /\ tx[t].pc = "expiring"
  /\ tx[t].todo = {}
  /\ files' = [files EXCEPT ![tx[t].file] = "EXPIRED"]
  /\ openFiles' = openFiles \ {tx[t].file}
  /\ status' = [d \in Devices |-> IF d \in tx[t].hit THEN "EXPIRED" ELSE status[d]]
  /\ \/ tx[t].hit # Devices /\ task' = task
     \/ tx[t].hit = Devices /\ TaskFree /\ task' = "EXPIRED"
  /\ tx' = [tx EXCEPT ![t] = Idle]
  /\ UNCHANGED <<route, receipt>>

-----------------------------------------------------------------------------
\* PostgreSQL breaks a deadlock, the connection drops or the Node crashes.
Rollback(t) ==
  /\ tx[t] # Idle
  /\ tx' = [tx EXCEPT ![t] = Idle]
  /\ UNCHANGED rowVars

Begin(t) ==
  \/ \E d \in Devices, s \in Reports : ReportTarget(t, d, s)
  \/ \E d \in Devices : RetryTarget(t, d)
  \/ CancelTask(t)
  \/ \E f \in Files : UploadDone(t, f) \/ MarkFile(t, f)

Continue(t) ==
  \/ SnapshotTargets(t)
  \/ SnapshotUnfinished(t)
  \/ \E d \in Devices : CancelTarget(t, d) \/ TakeTarget(t, d)
  \/ SnapshotFiles(t)

Commit(t) ==
  \/ CommitReport(t)
  \/ CommitRetry(t)
  \/ CommitCancel(t)
  \/ CommitComplete(t)
  \/ CommitExpiry(t)

Next ==
  \/ \E t \in Transactions : Begin(t) \/ Continue(t) \/ Commit(t) \/ Rollback(t)
  \/ \E d \in Devices : ReadTransfer(d)

Spec == Init /\ [][Next]_vars

-----------------------------------------------------------------------------
(***************************************************************************)
(* Properties.                                                             *)
(***************************************************************************)
BodiesGone == Files # {} /\ \A f \in Files : files[f] = "EXPIRED"

(***************************************************************************)
(* Whatever reports, retries, cancellations, completions and expiries      *)
(* race, no decision taken on an older version of a row is written over a  *)
(* finished one: a finished target moves only from DELIVERED to READ, by a *)
(* retry of a failure, to AVAILABLE_ON_NODE when an upload for its route   *)
(* completes, or to EXPIRED with the last body.                            *)
(***************************************************************************)
FinishedStays ==
  [][\A d \in Devices :
       status[d] \in Finished /\ status'[d] # status[d] =>
         \/ status[d] = "DELIVERED" /\ status'[d] = "READ"
         \/ status[d] = "FAILED" /\ status'[d] = "CHECKING_ROUTE"
         \/ /\ status'[d] = "AVAILABLE_ON_NODE" /\ route[d] = "NODE"
            /\ \E f \in Files :
                 files[f] = "UPLOADING" /\ files'[f] = "AVAILABLE_ON_NODE"
         \/ status'[d] = "EXPIRED" /\ BodiesGone']_vars

(***************************************************************************)
(* A finished task row is backed, although each report summarises a        *)
(* snapshot that may be old when it is written: READ and DELIVERED by a    *)
(* receipt of every device, EXPIRED by the expiry of every target and      *)
(* body, and CANCELLED leaves no target at work but those a completion put *)
(* back.                                                                   *)
(***************************************************************************)
TaskBacked ==
  /\ task = "READ" => \A d \in Devices : receipt[d] = "READ"
  /\ task = "DELIVERED" => \A d \in Devices : receipt[d] # "NONE"
  /\ task = "EXPIRED" => BodiesGone /\ \A d \in Devices : status[d] = "EXPIRED"
  /\ task = "CANCELLED" =>
       \A d \in Devices : status[d] \in Finished \cup {"AVAILABLE_ON_NODE"}

(***************************************************************************)
(* Who can wait for whom.                                                  *)
(***************************************************************************)
WaitsFor(t, u) ==
  \/ /\ tx[t].pc \in {"cancelling", "completing", "expiring"}
     /\ \E d \in tx[t].todo : HoldsTarget(u, d)
  \/ tx[t].pc = "cancelling" /\ tx[t].todo = {} /\ \E f \in openFiles : HoldsFile(u, f)
  \/ tx[t].pc \in {"summing", "retried"} /\ HoldsTask(u)
  \/ tx[t].pc = "expiring" /\ tx[t].todo = {} /\ tx[t].hit = Devices /\ HoldsTask(u)

(***************************************************************************)
(* Reports and retries take their target and then the task, completions    *)
(* and expiries their file, the targets and then the task, so only a       *)
(* cancellation, which takes the task first, or two updates of several     *)
(* targets can close a circle of waiting transactions: a burst of progress *)
(* reports and retries never loses one to the deadlock detector.           *)
(***************************************************************************)
ReportsNeverDeadlock ==
  \A cycle \in SUBSET Transactions :
    (cycle # {} /\ \A t \in cycle : \E u \in cycle \ {t} : WaitsFor(t, u)) =>
      \/ \E t \in cycle : tx[t].pc = "cancelling"
      \/ \E t, u \in cycle : t # u /\ {tx[t].pc, tx[u].pc} \subseteq {"completing", "expiring"}

AllIdle == \A t \in Transactions : tx[t] = Idle

(***************************************************************************)
(* "PostgreSQL row-lock transactions protect every state update"           *)
(* (docs/data-model.md:9): when nothing is in flight and every target is   *)
(* delivered, the task says so.  Two reports that summarise each other's   *)
(* old status break it.                                                    *)
(***************************************************************************)
TaskNotBehind ==
  AllIdle /\ (\A d \in Devices : status[d] \in {"DELIVERED", "READ"}) =>
    task \in {"DELIVERED", "READ"}
=============================================================================
