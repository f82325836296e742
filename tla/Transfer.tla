------------------------------ MODULE Transfer ------------------------------
(***************************************************************************)
(* One transfer of the NexDrop Node: its task row, one target row per      *)
(* receiving device with its execution attempts and delivery receipt, its  *)
(* files and their per-device rows, and every store operation that changes *)
(* them (internal/postgres/store.go, internal/postgres/admin.go).  An      *)
(* action is one committed database transaction.  It holds the lock of the *)
(* row it starts from, so that row is as it was when the lock was taken;   *)
(* but under READ COMMITTED its later statements read the other rows in a  *)
(* snapshot of any moment since, and the commit may come later still.      *)
(* Three history variables keep what such a snapshot can show.             *)
(*                                                                         *)
(* A rejected request is rolled back, and a replayed idempotency key       *)
(* answers from the record of the first call, so neither is a step.        *)
(* Timeline and route-history rows, wrapped keys, message bodies, byte     *)
(* counters and timestamps are written by the same transactions and decide *)
(* nothing; they are left out.                                             *)
(***************************************************************************)
EXTENDS TransferStatus, Sequences, FiniteSets

CONSTANTS
  Devices,     \* the resolved target devices of the transfer
  Sender,      \* the sending device
  Owner,       \* the user of each device
  Files,       \* the files the transfer may carry
  EmptyFiles,  \* those of size zero, which need no chunk
  RetryKeys,   \* idempotency keys of retry requests
  Modes,       \* route modes a create request may ask for
  InGroup,     \* whether it may be a personal (FALSE) or group (TRUE) transfer
  Reports,     \* statuses a progress report may carry
  ReportRoutes \* routes a progress report may carry

ASSUME DevicesAssumption == Devices # {}
ASSUME FilesAssumption == EmptyFiles \subseteq Files
ASSUME RequestAssumption ==
  /\ Modes \subseteq RouteModes
  /\ InGroup \subseteq BOOLEAN
  /\ Reports \subseteq ReportableStatuses
  /\ ReportRoutes \subseteq ReportableRoutes

VARIABLES
  task,        \* transfer_tasks.status, or NoTask before creation
  route,       \* transfer_targets.selected_route
  status,      \* transfer_targets.status
  executions,  \* transfer_executions of each target, by attempt
  receipt,     \* delivery_status of each target
  files,       \* files.status, or NoFile
  fileRoute,   \* transfer_file_targets.selected_route
  fileStatus,  \* transfer_file_targets.status
  overdue,     \* expires_at has passed
  listed,      \* files a cleaner pass has selected and not yet marked
  hidden,      \* transfer_hidden_users
  group,       \* the transfer's group: none, live, or deleted
  targetsSeen, \* of each target: `status' since its row was last written
  liveSeen,    \* of each file: the live files since its row was last written
  routesSeen   \* `route' since the creation

taskVars == <<task, group, hidden>>
targetVars == <<route, status, executions, receipt>>
fileVars == <<files, fileRoute, fileStatus>>
cleanerVars == <<overdue, listed>>
seenVars == <<targetsSeen, liveSeen, routesSeen>>
vars == <<taskVars, targetVars, fileVars, cleanerVars, seenVars>>

NoTask == "NO_TASK"
NoFile == "NO_FILE"
NoKey == "NO_KEY"
Users == {Owner[d] : d \in Devices \cup {Sender}}

Execution == [status : TransferStatuses, key : RetryKeys \cup {NoKey}]

InTransfer == {f \in Files : files[f] # NoFile}

LiveFiles == {f \in Files : files[f] \notin {NoFile, "EXPIRED"}}

(***************************************************************************)
(* The type invariant.                                                     *)
(***************************************************************************)
TypeOK ==
  /\ task \in TransferStatuses \cup {NoTask}
  /\ route \in [Devices -> SelectedRoutes]
  /\ status \in [Devices -> TransferStatuses]
  /\ executions \in [Devices -> Seq(Execution)]
  /\ receipt \in [Devices -> {"NONE", "DELIVERED", "READ"}]
  /\ files \in [Files -> {NoFile, "UPLOADING", "AVAILABLE_ON_NODE", "EXPIRED"}]
  /\ fileRoute \in [Files -> [Devices -> SelectedRoutes]]
  /\ fileStatus \in [Files -> [Devices -> TransferStatuses]]
  /\ overdue \in BOOLEAN
  /\ listed \subseteq Files
  /\ hidden \subseteq Users
  /\ group \in {"NONE", "LIVE", "DELETED"}
  /\ targetsSeen \in [Devices -> SUBSET [Devices -> TransferStatuses]]
  /\ liveSeen \in [Files -> SUBSET SUBSET Files]
  /\ routesSeen \subseteq [Devices -> SelectedRoutes]

Init ==
  /\ task = NoTask
  /\ route = [d \in Devices |-> "NONE"]
  /\ status = [d \in Devices |-> "CREATED"]
  /\ executions = [d \in Devices |-> << >>]
  /\ receipt = [d \in Devices |-> "NONE"]
  /\ files = [f \in Files |-> NoFile]
  /\ fileRoute = [f \in Files |-> [d \in Devices |-> "NONE"]]
  /\ fileStatus = [f \in Files |-> [d \in Devices |-> "CREATED"]]
  /\ overdue = FALSE
  /\ listed = {}
  /\ hidden = {}
  /\ group = "NONE"
  /\ targetsSeen = [d \in Devices |-> {}]
  /\ liveSeen = [f \in Files |-> {}]
  /\ routesSeen = {}

-----------------------------------------------------------------------------
(***************************************************************************)
(* What later transactions may still read, once this one has written the   *)
(* rows of some targets and files: a transaction that locks a row starts   *)
(* after the row was last written.                                         *)
(***************************************************************************)
Written(targets, written) ==
  /\ targetsSeen' = [d \in Devices |->
       {status'} \cup (IF d \in targets THEN {} ELSE targetsSeen[d])]
  /\ liveSeen' = [f \in Files |->
       {LiveFiles'} \cup (IF f \in written THEN {} ELSE liveSeen[f])]
  /\ routesSeen' = routesSeen \cup {route'}

-----------------------------------------------------------------------------
(***************************************************************************)
(* Create.  The sender asks for a set of files, or for text when the set   *)
(* is empty; `lan' are the targets it reaches directly and `large' the     *)
(* files above the threshold.  The Node itself is available.               *)
(***************************************************************************)
TargetRoute(mode, lan, carried, large, allow, d) ==
  IF carried = {}
    THEN SelectRoute(mode, d \in lan, TRUE, FALSE, allow)
    ELSE OnlyRoute({SelectRoute(mode, d \in lan, TRUE, f \in large, allow) :
                      f \in carried})

Create(mode, lan, carried, large, allow, inGroup) ==
  LET RouteOf(d) == TargetRoute(mode, lan, carried, large, allow, d)
      FileRouteOf(f, d) ==
        SelectRoute(mode, d \in lan, TRUE, f \in large, allow)
  IN
  /\ task = NoTask
  /\ route' = [d \in Devices |-> RouteOf(d)]
  /\ status' = [d \in Devices |-> InitialStatus(RouteOf(d))]
  /\ executions' = [d \in Devices |->
       <<[status |-> InitialStatus(RouteOf(d)), key |-> NoKey]>>]
  /\ task' = AggregateStatus({InitialStatus(RouteOf(d)) : d \in Devices})
  /\ files' = [f \in Files |-> IF f \in carried THEN "UPLOADING" ELSE NoFile]
  /\ fileRoute' = [f \in Files |-> [d \in Devices |->
       IF f \in carried THEN FileRouteOf(f, d) ELSE "NONE"]]
  /\ fileStatus' = [f \in Files |-> [d \in Devices |->
       IF f \in carried THEN InitialStatus(FileRouteOf(f, d)) ELSE "CREATED"]]
  /\ group' = IF inGroup THEN "LIVE" ELSE "NONE"
  /\ UNCHANGED <<receipt, hidden, cleanerVars>>
  /\ Written(Devices, Files)

-----------------------------------------------------------------------------
(***************************************************************************)
(* ReportTransferProgress: a report of status s on route r for target d by *)
(* the target itself or by the sending device.  It locks the target row;   *)
(* the attempt it writes is the newest at that moment; its summary reads   *)
(* the other targets in the last statement's snapshot, `seen', and the     *)
(* task row as it finds it behind its lock.                                *)
(***************************************************************************)
\* Mutant of NextRoute: the empty route is stored.
StoreEmptyRoute(current, r) == r

NextRoute(current, r) == IF r = KeepRoute THEN current ELSE r

\* Mutant of SetLatest: the attempt is not updated.
SetNone(history, s) == history

SetLatest(history, s) == [history EXCEPT ![Len(history)].status = s]

\* Mutants of ReceiptAfter: no row for READ; a new row replaces the old.
DeliveredReceiptOnly(current, s) ==
  IF s = "DELIVERED" /\ current = "NONE" THEN "DELIVERED" ELSE current
OverwriteReceipt(current, s) ==
  IF s \in {"DELIVERED", "READ"} THEN s ELSE current

\* delivery_status upsert: a time already recorded is kept.
ReceiptAfter(current, s) ==
  CASE s = "READ" -> "READ"
    [] s = "DELIVERED" /\ current = "NONE" -> "DELIVERED"
    [] OTHER -> current

\* getTransfer, called inside the transaction: a user who hid the transfer,
\* and everyone after a group deletion, gets ErrNotFound and a rollback.
Visible(user) == user \notin hidden /\ group # "DELETED"

ReportProgress(actor, d, s, r) ==
  /\ task # NoTask
  /\ actor \in {d, Sender}
  /\ Accepts(status[d], s)
  /\ Visible(Owner[actor])
  /\ route' = [route EXCEPT ![d] = NextRoute(@, r)]
  /\ status' = [status EXCEPT ![d] = s]
  /\ executions' = [executions EXCEPT ![d] = SetLatest(@, s)]
  /\ receipt' = [receipt EXCEPT ![d] = ReceiptAfter(@, s)]
  /\ \E seen \in targetsSeen[d] :
       task' = TaskAfter([seen EXCEPT ![d] = s], s, task)
  /\ UNCHANGED <<group, hidden, fileVars, cleanerVars>>
  /\ Written({d}, {})

-----------------------------------------------------------------------------
(***************************************************************************)
(* RetryTransferTarget: a new execution under a fresh key.  A key already  *)
(* used for this target answers without a change.                          *)
(***************************************************************************)
RetryableStatuses ==
  {"FAILED", "PAUSED", "SOURCE_FILE_MISSING", "SOURCE_FILE_CHANGED"}

KeyUsed(history, key) == \E i \in DOMAIN history : history[i].key = key

NextAttempt(history, key) ==
  Append(history, [status |-> "CHECKING_ROUTE", key |-> key])

RetryTransferTarget(d, key) ==
  /\ task # NoTask
  /\ ~KeyUsed(executions[d], key)
  /\ status[d] \in RetryableStatuses
  /\ executions' = [executions EXCEPT ![d] = NextAttempt(@, key)]
  /\ status' = [status EXCEPT ![d] = "CHECKING_ROUTE"]
  /\ task' = "CHECKING_ROUTE"
  /\ UNCHANGED <<route, receipt, group, hidden, fileVars, cleanerVars>>
  /\ Written({d}, {})

(***************************************************************************)
(* CancelTransfer: the sender cancels what is not finished.  It locks the  *)
(* task row first, which every transaction that puts a target back to work *)
(* writes as well, except CompleteFile: a target that a completion puts    *)
(* back while the cancellation runs is as if the cancellation came first.  *)
(***************************************************************************)
Cancelled(s) == IF s \in Finished THEN s ELSE "CANCELLED"

CancelTransfer ==
  /\ task \notin Finished \cup {NoTask}
  /\ task' = "CANCELLED"
  /\ status' = [d \in Devices |-> Cancelled(status[d])]
  /\ fileStatus' = [f \in Files |-> [d \in Devices |->
       IF f \in InTransfer THEN Cancelled(fileStatus[f][d])
                           ELSE fileStatus[f][d]]]
  /\ UNCHANGED <<route, executions, receipt, files, fileRoute, group, hidden,
                 cleanerVars>>
  /\ Written({d \in Devices : status[d] \notin Finished}, {})

(***************************************************************************)
(* ReadTransfer: the receiving device marks its target read.  The task row *)
(* is not recomputed.                                                      *)
(***************************************************************************)
ReadTransfer(d) ==
  /\ status[d] = "DELIVERED"
  /\ status' = [status EXCEPT ![d] = "READ"]
  /\ receipt' = [receipt EXCEPT ![d] = "READ"]
  /\ executions' = [executions EXCEPT ![d] = SetLatest(@, "READ")]
  /\ UNCHANGED <<route, taskVars, fileVars, cleanerVars>>
  /\ Written({d}, {})

(***************************************************************************)
(* HideTransfer: the sender or an owner of a target removes the transfer   *)
(* from its own history.                                                   *)
(***************************************************************************)
HideTransfer(user) ==
  /\ task # NoTask
  /\ group # "DELETED"
  /\ user \notin hidden
  /\ hidden' = hidden \cup {user}
  /\ UNCHANGED <<task, group, targetVars, fileVars, cleanerVars, seenVars>>

-----------------------------------------------------------------------------
(***************************************************************************)
(* CompleteFile: the sender's upload of f is assembled and verified.  Only *)
(* a file with a NODE target can have been uploaded; an empty file needs   *)
(* no chunk.  It locks the file row; every target row that is on route     *)
(* NODE both in the UPDATE's snapshot and behind its lock becomes          *)
(* available, whatever its status.                                         *)
(***************************************************************************)

\* Mutant of Completable: the file's status is not checked.
CompletableAnyStatus(f) ==
  f \in EmptyFiles \/ \E d \in Devices : fileRoute[f][d] = "NODE"

Completable(f) ==
  /\ files[f] = "UPLOADING"
  /\ f \in EmptyFiles \/ \E d \in Devices : fileRoute[f][d] = "NODE"

CompleteFile(f) ==
  /\ Completable(f)
  /\ files' = [files EXCEPT ![f] = "AVAILABLE_ON_NODE"]
  /\ fileStatus' = [fileStatus EXCEPT ![f] = [d \in Devices |->
       IF fileRoute[f][d] = "NODE" THEN "AVAILABLE_ON_NODE" ELSE @[d]]]
  /\ \E seen \in routesSeen :
       LET hit == {d \in Devices : seen[d] = "NODE" /\ route[d] = "NODE"} IN
       /\ status' = [d \in Devices |->
            IF d \in hit THEN "AVAILABLE_ON_NODE" ELSE status[d]]
       /\ UNCHANGED <<route, executions, receipt, fileRoute, taskVars, cleanerVars>>
       /\ Written(hit, {f})

-----------------------------------------------------------------------------
(***************************************************************************)
(* The cleaner: RunOnce selects files (ExpiredFiles), removes their bodies *)
(* and marks each one (MarkFileExpired).  A file is due once its deadline  *)
(* has passed, or 24 hours after its last NODE target was delivered: that  *)
(* wait is a free choice of the scan.  Any error ends the pass.            *)
(***************************************************************************)
Lapse ==
  /\ task # NoTask
  /\ ~overdue
  /\ overdue' = TRUE
  /\ UNCHANGED <<taskVars, targetVars, fileVars, listed, seenVars>>

DeliveredEverywhere(f) ==
  /\ files[f] = "AVAILABLE_ON_NODE"
  /\ \E d \in Devices : fileRoute[f][d] = "NODE"
  /\ \A d \in Devices :
       fileRoute[f][d] = "NODE" => status[d] \in {"DELIVERED", "READ"}

Due(f) == f \in LiveFiles /\ (overdue \/ DeliveredEverywhere(f))

ExpiredFiles(f) ==
  /\ Due(f)
  /\ f \notin listed
  /\ listed' = listed \cup {f}
  /\ UNCHANGED <<overdue, taskVars, targetVars, fileVars, seenVars>>

\* Mutant of TargetsWithoutFile: the first expired file closes them all.
EveryTarget(live) == Devices

\* The targets MarkFileExpired closes: those left without a live file.
TargetsWithoutFile(live) == {d \in Devices : live = {}}

\* The file row is locked; the live files are those of a later snapshot.
MarkFileExpired(f) ==
  /\ f \in listed
  /\ files[f] # "EXPIRED"
  /\ listed' = listed \ {f}
  /\ files' = [files EXCEPT ![f] = "EXPIRED"]
  /\ fileStatus' = [fileStatus EXCEPT ![f] = [d \in Devices |-> "EXPIRED"]]
  /\ \E seen \in liveSeen[f] :
       LET closed == TargetsWithoutFile(seen \ {f}) IN
       /\ status' = [d \in Devices |->
            IF d \in closed THEN "EXPIRED" ELSE status[d]]
       /\ task' = IF \A d \in Devices : status'[d] = "EXPIRED"
                    THEN "EXPIRED" ELSE task
       /\ UNCHANGED <<route, executions, receipt, fileRoute, group, hidden, overdue>>
       /\ Written(closed, {f})

\* The pass ends early: a crash, a storage or database error, or
\* MarkFileExpired finding the file already expired.
AbandonPass ==
  /\ listed # {}
  /\ listed' = {}
  /\ UNCHANGED <<overdue, taskVars, targetVars, fileVars, seenVars>>

-----------------------------------------------------------------------------
(***************************************************************************)
(* Administration: DeleteAdminGroupContent deletes one group transfer,     *)
(* DeleteAdminGroup only detaches it from its group.  Neither touches the  *)
(* target rows.                                                            *)
(***************************************************************************)
DeleteAdminGroupContent ==
  /\ task # NoTask
  /\ group = "LIVE"
  /\ group' = "DELETED"
  /\ task' = "CANCELLED"
  /\ files' = [f \in Files |-> IF f \in InTransfer THEN "EXPIRED" ELSE NoFile]
  /\ UNCHANGED <<hidden, targetVars, fileRoute, fileStatus, cleanerVars>>
  /\ Written({}, Files)

DeleteAdminGroup ==
  /\ task # NoTask
  /\ group = "LIVE"
  /\ group' = "DELETED"
  /\ UNCHANGED <<task, hidden, targetVars, fileVars, cleanerVars, seenVars>>

-----------------------------------------------------------------------------
CreateSome ==
  \E mode \in Modes, lan \in SUBSET Devices, carried \in SUBSET Files,
     allow \in BOOLEAN, inGroup \in InGroup :
       \E large \in SUBSET carried : Create(mode, lan, carried, large, allow, inGroup)

TargetStep(d) ==
  \/ \E actor \in {d, Sender}, s \in Reports, r \in ReportRoutes :
       ReportProgress(actor, d, s, r)
  \/ \E key \in RetryKeys : RetryTransferTarget(d, key)
  \/ ReadTransfer(d)

FileStep(f) == CompleteFile(f) \/ ExpiredFiles(f) \/ MarkFileExpired(f)

Next ==
  \/ CreateSome
  \/ \E d \in Devices : TargetStep(d)
  \/ \E f \in Files : FileStep(f)
  \/ CancelTransfer
  \/ \E user \in Users : HideTransfer(user)
  \/ Lapse
  \/ AbandonPass
  \/ DeleteAdminGroupContent
  \/ DeleteAdminGroup

Spec == Init /\ [][Next]_vars

-----------------------------------------------------------------------------
(***************************************************************************)
(* Properties.                                                             *)
(***************************************************************************)
BodiesGone ==
  InTransfer # {} /\ \A f \in InTransfer : files[f] = "EXPIRED"

(***************************************************************************)
(* The task row claims no more than was delivered or stopped, although a   *)
(* report summarises a snapshot, ReadTransfer and CompleteFile never       *)
(* recompute the task, and a completion may put a delivered target back:   *)
(* READ and DELIVERED mean that every device has given that receipt, and   *)
(* CANCELLED that no target is at work but one a completion put back.      *)
(* Deleted group content, whose task row is overwritten, is exempt from    *)
(* the last part.                                                          *)
(***************************************************************************)
TaskBacked ==
  /\ task = "READ" => \A d \in Devices : receipt[d] = "READ"
  /\ task = "DELIVERED" => \A d \in Devices : receipt[d] # "NONE"
  /\ task = "CANCELLED" /\ group # "DELETED" =>
       \A d \in Devices : status[d] \in Finished \cup {"AVAILABLE_ON_NODE"}

(***************************************************************************)
(* Nothing is closed too early, though MarkFileExpired works file by file  *)
(* from snapshots and a pass may be abandoned between two files: a target  *)
(* is EXPIRED only when every body of the transfer is gone, and the task   *)
(* only when every target is.  (The converse fails: the last two files,    *)
(* expired by two passes, each see the other one live.)                    *)
(***************************************************************************)
ExpiryBacked ==
  /\ \A d \in Devices : status[d] = "EXPIRED" => BodiesGone
  /\ task = "EXPIRED" => \A d \in Devices : status[d] = "EXPIRED"

(***************************************************************************)
(* The latest execution attempt carries its target's status.  It may lag   *)
(* only behind the three statuses the server sets without touching the     *)
(* attempt: CancelTransfer, CompleteFile and MarkFileExpired.              *)
(***************************************************************************)
ExecutionTracksTarget ==
  task # NoTask =>
    \A d \in Devices :
      /\ executions[d] # << >>
      /\ \/ executions[d][Len(executions[d])].status = status[d]
         \/ status[d] \in {"CANCELLED", "AVAILABLE_ON_NODE", "EXPIRED"}

(***************************************************************************)
(* A retry never supersedes an attempt that was still at work, delivered   *)
(* or cancelled: every earlier attempt ended in a retryable status.        *)
(***************************************************************************)
SupersededAttempts ==
  \A d \in Devices : \A i \in 1 .. (Len(executions[d]) - 1) :
    executions[d][i].status \in
      {"FAILED", "PAUSED", "SOURCE_FILE_MISSING", "SOURCE_FILE_CHANGED"}

(***************************************************************************)
(* One execution per retry key, however often the request is repeated, and *)
(* only the first attempt has none ("only one execution exists for the     *)
(* retry key", docs/operations/transfer-events.md).                        *)
(***************************************************************************)
OneExecutionPerKey ==
  \A d \in Devices : \A i, j \in DOMAIN executions[d] :
    executions[d][i].key = executions[d][j].key => i = j

(***************************************************************************)
(* No target is shown DELIVERED or READ, now or in an execution attempt,   *)
(* without the matching delivery_status row.                               *)
(***************************************************************************)
ReceiptBacksStatus ==
  \A d \in Devices :
    /\ status[d] = "DELIVERED" => receipt[d] \in {"DELIVERED", "READ"}
    /\ status[d] = "READ" => receipt[d] = "READ"
    /\ receipt[d] = "NONE" =>
         \A i \in DOMAIN executions[d] :
           executions[d][i].status \notin {"DELIVERED", "READ"}

Record == INSTANCE DeliveryRecord WITH Statuses <- TransferStatuses, attempts <- executions

(***************************************************************************)
(* The execution and receipt rows are a delivery record as DeliveryRecord  *)
(* describes it ("Every retry creates or preserves an execution attempt;   *)
(* history is not overwritten", docs/reliability/transfer-state-machine.md *)
(* and "only one execution exists for the retry key",                      *)
(* docs/operations/transfer-events.md): no cancellation, late completion,  *)
(* expiry or deletion touches them, and no report reaches an attempt that  *)
(* a retry has superseded.                                                 *)
(***************************************************************************)
ImplementsRecord == Record!Spec

(***************************************************************************)
(* "Terminal states cannot return to execution, and delivered content can  *)
(* only become read" (docs/data-model.md:9), but for two exceptions that   *)
(* other documents make: a failed target may be retried, and delivered     *)
(* content may expire.  CompleteFile breaks it.                            *)
(***************************************************************************)
TerminalStays ==
  [][\A d \in Devices :
       /\ status[d] = "DELIVERED" => status'[d] \in {"DELIVERED", "READ", "EXPIRED"}
       /\ status[d] \in {"READ", "CANCELLED", "EXPIRED"} => IsTerminal(status'[d])]_vars

(***************************************************************************)
(* EXPIRED is final: no upload that completes late, no report and no retry *)
(* brings an expired target back.                                          *)
(***************************************************************************)
ExpiredIsFinal ==
  [][\A d \in Devices : status[d] = "EXPIRED" => status'[d] = "EXPIRED"]_vars
=============================================================================
