--------------------------- MODULE TransferStatus ---------------------------
(***************************************************************************)
(* The transfer status machine and the route decision of NexDrop's domain  *)
(* package (internal/domain/transfer.go, internal/domain/route.go), and    *)
(* the pure helpers of internal/transfer/service.go that turn a route into *)
(* the first status of a row.  Constant level: no state.                   *)
(***************************************************************************)
EXTENDS Naturals

(***************************************************************************)
(* Statuses of tasks, targets, file targets and executions.                *)
(***************************************************************************)
TransferStatuses ==
  { "CREATED", "CHECKING_ROUTE", "WAITING_FOR_TARGET", "WAITING_FOR_NODE",
    "WAITING_FOR_LAN", "QUEUED", "UPLOADING_TO_NODE", "AVAILABLE_ON_NODE",
    "DOWNLOADING_FROM_NODE", "TRANSFERRING_LAN", "PAUSED", "VERIFYING",
    "DELIVERED", "READ", "FAILED", "CANCELLED", "EXPIRED",
    "SOURCE_FILE_MISSING", "SOURCE_FILE_CHANGED" }

IsTerminal(s) == s \in {"READ", "FAILED", "CANCELLED", "EXPIRED"}

\* The statuses CancelTransfer leaves alone.
Finished == {"DELIVERED", "READ", "FAILED", "CANCELLED", "EXPIRED"}

(***************************************************************************)
(* The successors a progress report may move a target to.  A status with   *)
(* no entry in the Go map (PAUSED, WAITING_FOR_TARGET, WAITING_FOR_NODE    *)
(* and the terminal ones) has none.                                        *)
(***************************************************************************)
Successors(s) ==
  CASE s = "CREATED" -> {"CHECKING_ROUTE"}
    [] s = "CHECKING_ROUTE" ->
         {"TRANSFERRING_LAN", "QUEUED", "WAITING_FOR_TARGET",
          "WAITING_FOR_NODE", "WAITING_FOR_LAN", "FAILED", "CANCELLED"}
    [] s = "QUEUED" -> {"UPLOADING_TO_NODE", "CANCELLED", "EXPIRED"}
    [] s = "UPLOADING_TO_NODE" ->
         {"AVAILABLE_ON_NODE", "PAUSED", "FAILED", "CANCELLED"}
    [] s = "AVAILABLE_ON_NODE" ->
         {"DOWNLOADING_FROM_NODE", "EXPIRED", "CANCELLED"}
    [] s \in {"TRANSFERRING_LAN", "DOWNLOADING_FROM_NODE"} ->
         {"VERIFYING", "PAUSED", "FAILED", "CANCELLED"}
    [] s = "VERIFYING" -> {"DELIVERED", "FAILED"}
    [] s = "DELIVERED" -> {"READ"}
    [] s = "WAITING_FOR_LAN" ->
         {"CHECKING_ROUTE", "SOURCE_FILE_MISSING", "SOURCE_FILE_CHANGED",
          "PAUSED", "CANCELLED", "EXPIRED"}
    [] s \in {"SOURCE_FILE_MISSING", "SOURCE_FILE_CHANGED"} ->
         {"CHECKING_ROUTE"}
    [] OTHER -> {}

CanTransitionTo(s, t) == t \in Successors(s)

(***************************************************************************)
(* reportableStatus: what a client may report; CREATED, CANCELLED and      *)
(* EXPIRED are the server's own.                                           *)
(***************************************************************************)
ReportableStatuses == TransferStatuses \ {"CREATED", "CANCELLED", "EXPIRED"}

SelectedRoutes == {"NONE", "LAN", "NODE", "WAITING_LAN", "LOCAL_DRAFT", "MIXED"}

(***************************************************************************)
(* reportableRoute: the routes a report may carry.  Its empty value keeps  *)
(* the current route.                                                      *)
(***************************************************************************)
KeepRoute == ""
ReportableRoutes == {KeepRoute, "LAN", "NODE", "WAITING_LAN", "LOCAL_DRAFT"}

RouteModes == {"AUTOMATIC", "LAN_ONLY", "NODE_ONLY", "WAIT_LAN"}

(***************************************************************************)
(* SelectRoute.  `large` is "not text and above the threshold".            *)
(***************************************************************************)
SelectRoute(mode, lanAvailable, nodeAvailable, large, allowLarge) ==
  CASE mode \in {"LAN_ONLY", "WAIT_LAN"} ->
         IF lanAvailable THEN "LAN" ELSE "WAITING_LAN"
    [] mode = "NODE_ONLY" ->
         IF nodeAvailable /\ (large => allowLarge) THEN "NODE" ELSE "NONE"
    [] OTHER ->
         CASE lanAvailable -> "LAN"
           [] ~lanAvailable /\ nodeAvailable ->
                IF large => allowLarge THEN "NODE" ELSE "WAITING_LAN"
           [] OTHER -> IF large THEN "WAITING_LAN" ELSE "LOCAL_DRAFT"

InitialStatus(route) ==
  CASE route = "LAN" -> "TRANSFERRING_LAN"
    [] route = "NODE" -> "QUEUED"
    [] route = "WAITING_LAN" -> "WAITING_FOR_LAN"
    [] route = "LOCAL_DRAFT" -> "WAITING_FOR_NODE"
    [] route = "NONE" -> "FAILED"
    [] OTHER -> "CHECKING_ROUTE"

(***************************************************************************)
(* onlyRoute: the common route of a target's files, or MIXED.              *)
(***************************************************************************)
OnlyRoute(routes) ==
  IF \E r \in SelectedRoutes : routes = {r}
    THEN CHOOSE r \in SelectedRoutes : routes = {r}
    ELSE "MIXED"

(***************************************************************************)
(* aggregateStatus: the first status of a task, from those of its targets. *)
(***************************************************************************)
AggregateStatus(statuses) ==
  IF statuses \subseteq {"WAITING_FOR_LAN"} THEN "WAITING_FOR_LAN" ELSE "QUEUED"

(***************************************************************************)
(* The checks of ReportTransferProgress on a target's current status.  A   *)
(* repeated DELIVERED or terminal report answers without a change.         *)
(***************************************************************************)
Accepts(current, s) ==
  /\ ~IsTerminal(current)
  /\ current = "DELIVERED" => s = "READ"
  /\ ~(current \in {"SOURCE_FILE_MISSING", "SOURCE_FILE_CHANGED"}
        /\ s = "CHECKING_ROUTE")
  /\ s = current \/ CanTransitionTo(current, s)

(***************************************************************************)
(* The task status at the end of a report of s, from the new targets.      *)
(***************************************************************************)
\* Mutant of TaskAfter: one delivered target makes the task delivered.
FirstDelivered(targets, s, current) ==
  IF \E d \in DOMAIN targets : targets[d] \in {"DELIVERED", "READ"}
    THEN "DELIVERED" ELSE s

TaskAfter(targets, s, current) ==
  CASE \A d \in DOMAIN targets : targets[d] = "READ" -> "READ"
    [] /\ \A d \in DOMAIN targets : targets[d] \in {"DELIVERED", "READ"}
       /\ \E d \in DOMAIN targets : targets[d] # "READ" -> "DELIVERED"
    [] \A d \in DOMAIN targets : targets[d] \in {"FAILED", "CANCELLED", "EXPIRED"} ->
         "FAILED"
    [] OTHER -> IF s \in {"DELIVERED", "READ", "FAILED"} THEN current ELSE s
=============================================================================
