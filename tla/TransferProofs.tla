--------------------------- MODULE TransferProofs ---------------------------
(***************************************************************************)
(* Proofs about Transfer, for every set of devices, files and retry keys.  *)
(***************************************************************************)
EXTENDS Transfer, TLAPS

(***************************************************************************)
(* What the other invariants need to be inductive: before creation no row  *)
(* exists; after it the task is never CREATED; and the cleaner only holds  *)
(* files of the transfer.                                                  *)
(***************************************************************************)
Fresh ==
  /\ task = NoTask =>
       /\ \A d \in Devices : status[d] = "CREATED" /\ executions[d] = << >>
       /\ \A f \in Files : files[f] = NoFile
       /\ group = "NONE"
  /\ task # NoTask => \A d \in Devices : executions[d] # << >>
  /\ \A f \in listed : files[f] # NoFile

(***************************************************************************)
(* One target row, seen as its attempts h, its status s and its receipt r: *)
(* the parts of ExecutionTracksTarget, SupersededAttempts, OneExecution-   *)
(* PerKey and ReceiptBacksStatus that speak of one device.                 *)
(***************************************************************************)
Lagging == {"CANCELLED", "AVAILABLE_ON_NODE", "EXPIRED"}

Latest(h, s) == h # << >> => (h[Len(h)].status = s \/ s \in Lagging)

Superseded(h) == \A i \in 1 .. (Len(h) - 1) : h[i].status \in RetryableStatuses

DistinctKeys(h) == \A i, j \in 1 .. Len(h) : h[i].key = h[j].key => i = j

Receipted(h, s, r) ==
  /\ s = "DELIVERED" => r \in {"DELIVERED", "READ"}
  /\ s = "READ" => r = "READ"
  /\ r = "NONE" =>
       \A i \in 1 .. Len(h) : h[i].status \notin {"DELIVERED", "READ"}

RowOK(h, s, r) ==
  Latest(h, s) /\ Superseded(h) /\ DistinctKeys(h) /\ Receipted(h, s, r)

RowsOK == \A d \in Devices : RowOK(executions[d], status[d], receipt[d])

(***************************************************************************)
(* What a snapshot can show: types of the rows; no receipt that is not     *)
(* there any more; and every file that is live now.                        *)
(***************************************************************************)
RowTypes ==
  /\ task \in TransferStatuses \cup {NoTask}
  /\ route \in [Devices -> SelectedRoutes]
  /\ status \in [Devices -> TransferStatuses]
  /\ executions \in [Devices -> Seq(Execution)]
  /\ receipt \in [Devices -> {"NONE", "DELIVERED", "READ"}]
  /\ files \in [Files -> {NoFile, "UPLOADING", "AVAILABLE_ON_NODE", "EXPIRED"}]
  /\ fileRoute \in [Files -> [Devices -> SelectedRoutes]]
  /\ fileStatus \in [Files -> [Devices -> TransferStatuses]]
  /\ overdue \in BOOLEAN
  /\ listed \subseteq Files
  /\ hidden \subseteq Users
  /\ group \in {"NONE", "LIVE", "DELETED"}

Backed(v, r) ==
  \A e \in Devices : /\ v[e] \in {"DELIVERED", "READ"} => r[e] # "NONE"
                     /\ v[e] = "READ" => r[e] = "READ"

SeenOK ==
  /\ targetsSeen \in [Devices -> SUBSET [Devices -> TransferStatuses]]
  /\ liveSeen \in [Files -> SUBSET SUBSET Files]
  /\ routesSeen \subseteq [Devices -> SelectedRoutes]
  /\ \A d \in Devices : \A v \in targetsSeen[d] : Backed(v, receipt)
  /\ \A f \in Files : \A v \in liveSeen[f] : LiveFiles \subseteq v

IndInv == RowTypes /\ Fresh /\ TaskBacked /\ ExpiryBacked /\ RowsOK /\ SeenOK

-----------------------------------------------------------------------------
(***************************************************************************)
(* The route of a request is one of the six of route.go.                   *)
(***************************************************************************)
LEMMA SelectRouteType ==
  ASSUME NEW mode, NEW lan, NEW node, NEW large, NEW allow
  PROVE  SelectRoute(mode, lan, node, large, allow) \in SelectedRoutes
  BY DEF SelectRoute, SelectedRoutes

LEMMA OnlyRouteType ==
  ASSUME NEW routes
  PROVE  OnlyRoute(routes) \in SelectedRoutes
<1>1. CASE \E r \in SelectedRoutes : routes = {r}
  <2>1. PICK r \in SelectedRoutes : routes = {r}
    BY <1>1
  <2>2. (CHOOSE q \in SelectedRoutes : routes = {q}) \in SelectedRoutes
    BY <2>1
  <2>3. QED
    BY <1>1, <2>2 DEF OnlyRoute
<1>2. CASE ~ \E r \in SelectedRoutes : routes = {r}
  BY <1>2 DEF OnlyRoute, SelectedRoutes
<1>3. QED
  BY <1>1, <1>2

(***************************************************************************)
(* A row starts in one of six statuses, none of them delivered, read,      *)
(* cancelled or expired.                                                   *)
(***************************************************************************)
FirstStatuses ==
  {"TRANSFERRING_LAN", "QUEUED", "WAITING_FOR_LAN", "WAITING_FOR_NODE",
   "FAILED", "CHECKING_ROUTE"}

LEMMA InitialStatusType ==
  ASSUME NEW r
  PROVE  InitialStatus(r) \in FirstStatuses
  BY DEF InitialStatus, FirstStatuses

LEMMA FirstStatusesType == FirstStatuses \subseteq TransferStatuses
  BY DEF FirstStatuses, TransferStatuses

(***************************************************************************)
(* SetLatest changes the status of the last attempt and nothing else.      *)
(***************************************************************************)
LEMMA SetLatestFacts ==
  ASSUME NEW history \in Seq(Execution), history # << >>,
         NEW s \in TransferStatuses
  PROVE  /\ SetLatest(history, s) \in Seq(Execution)
         /\ Len(SetLatest(history, s)) = Len(history)
         /\ SetLatest(history, s) # << >>
         /\ SetLatest(history, s)[Len(history)].status = s
         /\ \A i \in 1 .. Len(history) :
              SetLatest(history, s)[i].key = history[i].key
         /\ \A i \in 1 .. (Len(history) - 1) :
              SetLatest(history, s)[i] = history[i]
<1> DEFINE n == Len(history)
           new == SetLatest(history, s)
<1>1. n \in Nat /\ n > 0 /\ DOMAIN history = 1 .. n
  OBVIOUS
<1>2. \A i \in 1 .. n : history[i] \in Execution
  BY <1>1
<1>3. new = [i \in 1 .. n |->
              IF i = n THEN [history[n] EXCEPT !.status = s] ELSE history[i]]
  BY <1>1 DEF SetLatest
<1>4. [history[n] EXCEPT !.status = s] \in Execution
  BY <1>1, <1>2 DEF Execution
<1>5. \A i \in 1 .. n : new[i] \in Execution
  BY <1>1, <1>2, <1>3, <1>4
<1>6. new \in Seq(Execution) /\ Len(new) = n
  BY <1>1, <1>3, <1>5
<1>7. new[n].status = s
  BY <1>1, <1>2, <1>3 DEF Execution
<1>8. \A i \in 1 .. n : new[i].key = history[i].key
  BY <1>1, <1>2, <1>3 DEF Execution
<1>9. \A i \in 1 .. (n - 1) : new[i] = history[i]
  BY <1>1, <1>3
<1>10. new # << >>
  BY <1>1, <1>6
<1>11. QED
  BY <1>6, <1>7, <1>8, <1>9, <1>10

(***************************************************************************)
(* NextAttempt adds one attempt at the end.                                *)
(***************************************************************************)
LEMMA NextAttemptFacts ==
  ASSUME NEW history \in Seq(Execution), NEW key \in RetryKeys
  PROVE  /\ NextAttempt(history, key) \in Seq(Execution)
         /\ Len(NextAttempt(history, key)) = Len(history) + 1
         /\ NextAttempt(history, key)[Len(history) + 1] =
              [status |-> "CHECKING_ROUTE", key |-> key]
         /\ \A i \in 1 .. Len(history) :
              NextAttempt(history, key)[i] = history[i]
  BY DEF NextAttempt, Execution, TransferStatuses

-----------------------------------------------------------------------------
(***************************************************************************)
(* The four ways a row changes: it is created, reported on (or read),      *)
(* retried, or set by the server behind its attempt's back.                *)
(***************************************************************************)
LEMMA RowCreated ==
  ASSUME NEW s \in FirstStatuses, NEW r
  PROVE  LET h == <<[status |-> s, key |-> NoKey]>>
         IN  h \in Seq(Execution) /\ h # << >> /\ RowOK(h, s, r)
<1> DEFINE h == <<[status |-> s, key |-> NoKey]>>
<1>1. [status |-> s, key |-> NoKey] \in Execution
  BY FirstStatusesType DEF Execution
<1>2. h \in Seq(Execution) /\ Len(h) = 1 /\ h # << >>
  BY <1>1
<1>3. h[1].status = s
  OBVIOUS
<1> HIDE DEF h
<1>4. Latest(h, s)
  BY <1>2, <1>3 DEF Latest
<1>5. Superseded(h)
  BY <1>2 DEF Superseded
<1>6. DistinctKeys(h)
  BY <1>2 DEF DistinctKeys
<1>7. Receipted(h, s, r)
  BY <1>2, <1>3 DEF Receipted, FirstStatuses
<1>8. QED
  BY <1>2, <1>4, <1>5, <1>6, <1>7 DEF RowOK, h

LEMMA RowReported ==
  ASSUME NEW h \in Seq(Execution), h # << >>, NEW s0, NEW s \in TransferStatuses,
         NEW r \in {"NONE", "DELIVERED", "READ"}, RowOK(h, s0, r)
  PROVE  RowOK(SetLatest(h, s), s, ReceiptAfter(r, s))
<1> DEFINE g == SetLatest(h, s)
<1>1. /\ g \in Seq(Execution) /\ Len(g) = Len(h)
      /\ g # << >>
      /\ g[Len(h)].status = s
      /\ \A i \in 1 .. Len(h) : g[i].key = h[i].key
      /\ \A i \in 1 .. (Len(h) - 1) : g[i] = h[i]
  BY SetLatestFacts
<1>2. Len(h) \in Nat
  OBVIOUS
<1> HIDE DEF g
<1>3. Latest(g, s)
  BY <1>1 DEF Latest
<1>4. Superseded(g)
  BY <1>1 DEF RowOK, Superseded
<1>5. DistinctKeys(g)
  BY <1>1 DEF RowOK, DistinctKeys
<1>6. Receipted(g, s, ReceiptAfter(r, s))
  <2>1. /\ s = "DELIVERED" => ReceiptAfter(r, s) \in {"DELIVERED", "READ"}
        /\ s = "READ" => ReceiptAfter(r, s) = "READ"
    BY DEF ReceiptAfter
  <2>2. ASSUME ReceiptAfter(r, s) = "NONE", NEW i \in 1 .. Len(g)
        PROVE  g[i].status \notin {"DELIVERED", "READ"}
    <3>1. r = "NONE" /\ s \notin {"DELIVERED", "READ"}
      BY <2>2 DEF ReceiptAfter
    <3>2. CASE i = Len(h)
      BY <3>1, <3>2, <1>1
    <3>3. CASE i # Len(h)
      <4>1. i \in 1 .. (Len(h) - 1) /\ i \in 1 .. Len(h)
        BY <1>1, <1>2, <2>2, <3>3
      <4>2. g[i] = h[i]
        BY <4>1, <1>1
      <4>3. h[i].status \notin {"DELIVERED", "READ"}
        BY <4>1, <3>1 DEF RowOK, Receipted
      <4>4. QED
        BY <4>2, <4>3
    <3>4. QED
      BY <3>2, <3>3
  <2>3. QED
    BY <2>1, <2>2 DEF Receipted
<1>7. QED
  BY <1>3, <1>4, <1>5, <1>6 DEF RowOK, g

LEMMA RowRetried ==
  ASSUME NEW h \in Seq(Execution), NEW s \in RetryableStatuses, NEW r,
         NEW key \in RetryKeys, RowOK(h, s, r), ~KeyUsed(h, key)
  PROVE  RowOK(NextAttempt(h, key), "CHECKING_ROUTE", r)
<1> DEFINE g == NextAttempt(h, key)
           n == Len(h)
<1>1. /\ g \in Seq(Execution) /\ Len(g) = n + 1
      /\ g[n + 1] = [status |-> "CHECKING_ROUTE", key |-> key]
      /\ \A i \in 1 .. n : g[i] = h[i]
  BY NextAttemptFacts
<1>2. n \in Nat /\ DOMAIN h = 1 .. n
  OBVIOUS
<1>3. g[n + 1].status = "CHECKING_ROUTE" /\ g[n + 1].key = key
  BY <1>1
<1>4. \A i \in 1 .. n : h[i].key # key
  BY <1>2 DEF KeyUsed
<1> HIDE DEF g
<1>5. Latest(g, "CHECKING_ROUTE")
  BY <1>1, <1>3 DEF Latest
<1>6. Superseded(g)
  <2> SUFFICES ASSUME NEW i \in 1 .. n
               PROVE  g[i].status \in RetryableStatuses
    BY <1>1, <1>2 DEF Superseded
  <2>1. CASE i = n
    <3>1. h # << >> /\ s \notin Lagging
      BY <2>1, <1>2 DEF RetryableStatuses, Lagging
    <3>2. h[n].status = s
      BY <3>1 DEF RowOK, Latest
    <3>3. QED
      BY <2>1, <3>2, <1>1
  <2>2. CASE i # n
    <3> HIDE DEF n
    <3>1. i \in 1 .. (n - 1)
      BY <2>2, <1>2
    <3>2. QED
      BY <3>1, <1>1 DEF RowOK, Superseded, n
  <2>3. QED
    BY <2>1, <2>2
<1>7. DistinctKeys(g)
  <2> SUFFICES ASSUME NEW i \in 1 .. (n + 1), NEW j \in 1 .. (n + 1),
                      g[i].key = g[j].key
               PROVE  i = j
    BY <1>1 DEF DistinctKeys
  <2>1. \A k \in 1 .. n : g[k].key # g[n + 1].key
    BY <1>1, <1>3, <1>4
  <2>2. CASE i \in 1 .. n /\ j \in 1 .. n
    BY <2>2, <1>1 DEF RowOK, DistinctKeys
  <2>3. CASE i = n + 1 \/ j = n + 1
    BY <2>1, <2>3, <1>2
  <2>4. QED
    BY <2>2, <2>3, <1>2
<1>8. Receipted(g, "CHECKING_ROUTE", r)
  <2>1. ASSUME r = "NONE", NEW i \in 1 .. (n + 1)
        PROVE  g[i].status \notin {"DELIVERED", "READ"}
    <3>1. CASE i = n + 1
      BY <3>1, <1>3
    <3>2. CASE i \in 1 .. n
      BY <3>2, <2>1, <1>1 DEF RowOK, Receipted
    <3>3. QED
      BY <3>1, <3>2, <1>2
  <2>2. QED
    BY <2>1, <1>1 DEF Receipted
<1>9. QED
  BY <1>5, <1>6, <1>7, <1>8 DEF RowOK, g

LEMMA RowSet ==
  ASSUME NEW h, NEW s0, NEW s \in Lagging, NEW r, RowOK(h, s0, r)
  PROVE  RowOK(h, s, r)
  BY DEF RowOK, Latest, Receipted, Lagging

-----------------------------------------------------------------------------
(***************************************************************************)
(* A committed transaction adds itself to what others may see: its         *)
(* receipts are there, receipts are never taken back and files never come  *)
(* back to life, so older snapshots remain as good as they were.           *)
(***************************************************************************)
ReceiptsKept ==
  \A e \in Devices : /\ receipt[e] # "NONE" => receipt'[e] # "NONE"
                     /\ receipt[e] = "READ" => receipt'[e] = "READ"

LEMMA WrittenSeen ==
  ASSUME SeenOK, RowTypes', RowsOK', NEW targets, NEW written,
         Written(targets, written),
         targets = Devices \/ ReceiptsKept,
         written = Files \/ LiveFiles' \subseteq LiveFiles
  PROVE  SeenOK'
<1>1. Backed(status', receipt')
  BY DEF Backed, RowTypes, RowsOK, RowOK, Receipted
<1>2. ASSUME NEW d \in Devices
      PROVE  /\ targetsSeen'[d] \subseteq [Devices -> TransferStatuses]
             /\ \A v \in targetsSeen'[d] : Backed(v, receipt')
  <2>1. /\ targetsSeen'[d] =
             {status'} \cup (IF d \in targets THEN {} ELSE targetsSeen[d])
        /\ status' \in [Devices -> TransferStatuses]
    BY DEF Written, RowTypes
  <2>2. CASE d \in targets
    BY <1>1, <2>1, <2>2
  <2>3. CASE d \notin targets
    <3>1. ReceiptsKept
      BY <2>3
    <3>2. /\ targetsSeen[d] \subseteq [Devices -> TransferStatuses]
          /\ \A v \in targetsSeen[d] : Backed(v, receipt)
      BY DEF SeenOK
    <3>3. \A v \in targetsSeen[d] : Backed(v, receipt')
      BY <3>1, <3>2 DEF ReceiptsKept, Backed
    <3>4. QED
      BY <1>1, <2>1, <2>3, <3>2, <3>3
  <2>4. QED
    BY <2>2, <2>3
<1>3. ASSUME NEW f \in Files
      PROVE  /\ liveSeen'[f] \subseteq SUBSET Files
             /\ \A v \in liveSeen'[f] : LiveFiles' \subseteq v
  <2>1. /\ liveSeen'[f] =
             {LiveFiles'} \cup (IF f \in written THEN {} ELSE liveSeen[f])
        /\ LiveFiles' \subseteq Files
    BY DEF Written, LiveFiles
  <2>2. /\ liveSeen[f] \subseteq SUBSET Files
        /\ \A v \in liveSeen[f] : LiveFiles \subseteq v
    BY DEF SeenOK
  <2>3. CASE f \in written
    BY <2>1, <2>3
  <2>4. CASE f \notin written
    BY <2>1, <2>2, <2>4
  <2>5. QED
    BY <2>3, <2>4
<1>4. targetsSeen' \in [Devices -> SUBSET [Devices -> TransferStatuses]]
  <2>1. targetsSeen' = [d \in Devices |-> targetsSeen'[d]]
    BY DEF Written
  <2>2. QED
    BY <1>2, <2>1
<1>5. liveSeen' \in [Files -> SUBSET SUBSET Files]
  <2>1. liveSeen' = [f \in Files |-> liveSeen'[f]]
    BY DEF Written
  <2>2. QED
    BY <1>3, <2>1
<1>6. routesSeen' \subseteq [Devices -> SelectedRoutes]
  BY DEF Written, SeenOK, RowTypes
<1>7. QED
  BY <1>2, <1>3, <1>4, <1>5, <1>6 DEF SeenOK

-----------------------------------------------------------------------------
(***************************************************************************)
(* Creation gives every target one attempt in the status of its row.       *)
(***************************************************************************)
LEMMA CreatePreserves ==
  ASSUME IndInv, NEW mode, NEW lan, NEW carried, NEW large, NEW allow,
         NEW inGroup, Create(mode, lan, carried, large, allow, inGroup)
  PROVE  IndInv'
<1> DEFINE first(d) == InitialStatus(TargetRoute(mode, lan, carried, large, allow, d))
<1>1. \A d \in Devices :
        TargetRoute(mode, lan, carried, large, allow, d) \in SelectedRoutes
  BY SelectRouteType, OnlyRouteType DEF TargetRoute
<1>2. \A d \in Devices : first(d) \in FirstStatuses
  BY InitialStatusType
<1>3. /\ task = NoTask
      /\ status' = [d \in Devices |-> first(d)]
      /\ executions' = [d \in Devices |-> <<[status |-> first(d), key |-> NoKey]>>]
  BY DEF Create
<1>4. task' \in {"WAITING_FOR_LAN", "QUEUED"}
  BY DEF Create, AggregateStatus
<1>5. \A d \in Devices : status'[d] \in FirstStatuses
  BY <1>2, <1>3
<1>6. \A d \in Devices :
        /\ executions'[d] \in Seq(Execution)
        /\ executions'[d] # << >>
        /\ RowOK(executions'[d], status'[d], receipt'[d])
  <2> SUFFICES ASSUME NEW d \in Devices
               PROVE  /\ executions'[d] \in Seq(Execution)
                      /\ executions'[d] # << >>
                      /\ RowOK(executions'[d], status'[d], receipt'[d])
    OBVIOUS
  <2>1. executions'[d] = <<[status |-> first(d), key |-> NoKey]>> /\ status'[d] = first(d)
    BY <1>3
  <2>2. first(d) \in FirstStatuses
    BY <1>2
  <2>3. QED
    BY <2>1, <2>2, RowCreated
<1>7. \A f \in Files : files'[f] \in {NoFile, "UPLOADING"}
  BY DEF Create
<1>8. RowTypes'
  <2>1. fileStatus' \in [Files -> [Devices -> TransferStatuses]]
    BY InitialStatusType, FirstStatusesType DEF Create, TransferStatuses
  <2>2. fileRoute' \in [Files -> [Devices -> SelectedRoutes]]
    BY SelectRouteType DEF Create, SelectedRoutes
  <2>3. route' \in [Devices -> SelectedRoutes]
    BY <1>1 DEF Create
  <2>4. status' \in [Devices -> TransferStatuses]
    BY <1>3, <1>5, FirstStatusesType
  <2>5. executions' \in [Devices -> Seq(Execution)]
    BY <1>3, <1>6
  <2>6. files' \in [Files -> {NoFile, "UPLOADING", "AVAILABLE_ON_NODE", "EXPIRED"}]
    BY DEF Create
  <2>7. /\ task' \in TransferStatuses \cup {NoTask}
        /\ group' \in {"NONE", "LIVE", "DELETED"}
    BY <1>4 DEF Create, TransferStatuses
  <2>8. UNCHANGED <<receipt, overdue, listed, hidden>>
    BY DEF Create, cleanerVars
  <2>9. QED
    BY <2>1, <2>2, <2>3, <2>4, <2>5, <2>6, <2>7, <2>8 DEF IndInv, RowTypes, Users
<1>9. Fresh'
  <2>1. listed = {}
    BY <1>3 DEF IndInv, Fresh, RowTypes
  <2>2. QED
    BY <1>4, <1>6, <2>1 DEF Fresh, NoTask, Create, cleanerVars
<1>10. TaskBacked'
  BY <1>4 DEF TaskBacked
<1>11. ExpiryBacked'
  BY <1>4, <1>5 DEF ExpiryBacked, FirstStatuses
<1>12. RowsOK'
  BY <1>6 DEF RowsOK
<1>13. SeenOK'
  BY <1>8, <1>12, WrittenSeen DEF Create, IndInv
<1>14. QED
  BY <1>8, <1>9, <1>10, <1>11, <1>12, <1>13 DEF IndInv

-----------------------------------------------------------------------------
(***************************************************************************)
(* What a progress report may find and what it leaves.                     *)
(***************************************************************************)
LEMMA AcceptsFacts ==
  ASSUME NEW c, NEW s, Accepts(c, s)
  PROVE  /\ c \notin {"READ", "FAILED", "CANCELLED", "EXPIRED"}
         /\ c = "DELIVERED" => s = "READ"
         /\ c = "AVAILABLE_ON_NODE" => s \notin {"DELIVERED", "READ", "FAILED"}
<1>1. c \notin {"READ", "FAILED", "CANCELLED", "EXPIRED"}
  BY DEF Accepts, IsTerminal
<1>2. c = "DELIVERED" => s = "READ"
  BY DEF Accepts
<1>3. ASSUME c = "AVAILABLE_ON_NODE"
      PROVE  s \notin {"DELIVERED", "READ", "FAILED"}
  <2>1. Successors("AVAILABLE_ON_NODE") =
          {"DOWNLOADING_FROM_NODE", "EXPIRED", "CANCELLED"}
    BY DEF Successors
  <2>2. QED
    BY <1>3, <2>1 DEF Accepts, CanTransitionTo
<1>4. QED
  BY <1>1, <1>2, <1>3

LEMMA ReportPreserves ==
  ASSUME IndInv, NEW actor, NEW d \in Devices, NEW s \in Reports,
         NEW r \in ReportRoutes, ReportProgress(actor, d, s, r)
  PROVE  IndInv'
<1>1. /\ task # NoTask
      /\ group # "DELETED"
      /\ route' = [route EXCEPT ![d] = NextRoute(@, r)]
      /\ status' = [status EXCEPT ![d] = s]
      /\ executions' = [executions EXCEPT ![d] = SetLatest(@, s)]
      /\ receipt' = [receipt EXCEPT ![d] = ReceiptAfter(@, s)]
      /\ UNCHANGED <<group, hidden, files, fileRoute, fileStatus, overdue, listed>>
      /\ Written({d}, {})
  BY DEF ReportProgress, Visible, fileVars, cleanerVars
<1>2. s \in TransferStatuses \ {"CREATED", "CANCELLED", "EXPIRED"}
  BY RequestAssumption DEF ReportableStatuses
<1>3. /\ status[d] \notin {"READ", "FAILED", "CANCELLED", "EXPIRED"}
      /\ status[d] = "DELIVERED" => s = "READ"
      /\ status[d] = "AVAILABLE_ON_NODE" => s \notin {"DELIVERED", "READ", "FAILED"}
  BY AcceptsFacts DEF ReportProgress
<1>4. RowTypes /\ Fresh /\ TaskBacked /\ ExpiryBacked /\ RowsOK /\ SeenOK
  BY DEF IndInv
<1>5. executions[d] \in Seq(Execution) /\ executions[d] # << >>
  BY <1>1, <1>4 DEF RowTypes, Fresh
<1>6. SetLatest(executions[d], s) \in Seq(Execution) /\ SetLatest(executions[d], s) # << >>
  BY <1>2, <1>5, SetLatestFacts
<1>7. task # "EXPIRED"
  BY <1>3, <1>4 DEF ExpiryBacked
<1>8. PICK seen \in targetsSeen[d] : task' = TaskAfter([seen EXCEPT ![d] = s], s, task)
  BY DEF ReportProgress
<1>9. \A e \in Devices :
        /\ status'[e] = IF e = d THEN s ELSE status[e]
        /\ receipt'[e] = IF e = d THEN ReceiptAfter(receipt[d], s) ELSE receipt[e]
  BY <1>1, <1>4 DEF RowTypes
<1>10. task' \in {"READ", "DELIVERED", "FAILED", task, s}
  BY <1>8 DEF TaskAfter
<1>11. RowTypes'
  <2>1. route' \in [Devices -> SelectedRoutes]
    BY <1>1, <1>4, RequestAssumption
    DEF RowTypes, NextRoute, ReportableRoutes, KeepRoute, SelectedRoutes
  <2>2. status' \in [Devices -> TransferStatuses]
    BY <1>1, <1>2, <1>4 DEF RowTypes
  <2>3. executions' \in [Devices -> Seq(Execution)]
    BY <1>1, <1>4, <1>6 DEF RowTypes
  <2>4. receipt' \in [Devices -> {"NONE", "DELIVERED", "READ"}]
    BY <1>1, <1>4 DEF RowTypes, ReceiptAfter
  <2>5. task' \in TransferStatuses \cup {NoTask}
    BY <1>2, <1>4, <1>10 DEF RowTypes, TransferStatuses
  <2>6. QED
    BY <1>1, <1>4, <2>1, <2>2, <2>3, <2>4, <2>5 DEF RowTypes, Users
<1>12. Fresh'
  <2>1. task' # NoTask
    BY <1>1, <1>2, <1>10 DEF TransferStatuses, NoTask
  <2>2. \A e \in Devices : executions'[e] # << >>
    BY <1>1, <1>4, <1>6 DEF RowTypes, Fresh
  <2>3. QED
    BY <1>1, <1>4, <2>1, <2>2 DEF Fresh
<1>13. TaskBacked'
  <2> DEFINE w == [seen EXCEPT ![d] = s]
  <2>1. /\ seen \in [Devices -> TransferStatuses]
        /\ Backed(seen, receipt)
    BY <1>4 DEF SeenOK
  <2>2. /\ DOMAIN w = Devices
        /\ \A e \in Devices : w[e] = IF e = d THEN s ELSE seen[e]
    BY <2>1
  <2>3. \A e \in Devices :
          /\ w[e] = "READ" => receipt'[e] = "READ"
          /\ w[e] = "DELIVERED" => receipt'[e] # "NONE"
    BY <1>9, <2>1, <2>2 DEF Backed, ReceiptAfter
  <2>4. ReceiptsKept
    BY <1>9 DEF ReceiptsKept, ReceiptAfter
  <2> HIDE DEF w
  <2>5. \/ task' = "READ" /\ \A e \in Devices : w[e] = "READ"
        \/ task' = "DELIVERED" /\ \A e \in Devices : w[e] \in {"DELIVERED", "READ"}
        \/ task' = "FAILED"
        \/ task' = IF s \in {"DELIVERED", "READ", "FAILED"} THEN task ELSE s
    BY <1>8, <2>2, DevicesAssumption DEF TaskAfter, w
  <2>6. CASE task' = "READ" /\ \A e \in Devices : w[e] = "READ"
    BY <2>3, <2>6 DEF TaskBacked
  <2>7. CASE task' = "DELIVERED" /\ \A e \in Devices : w[e] \in {"DELIVERED", "READ"}
    <3>1. \A e \in Devices : receipt'[e] # "NONE"
      BY <2>3, <2>7
    <3>2. QED
      BY <2>7, <3>1 DEF TaskBacked
  <2>8. CASE task' = "FAILED"
    BY <2>8 DEF TaskBacked
  <2>9. CASE task' = IF s \in {"DELIVERED", "READ", "FAILED"} THEN task ELSE s
    <3>1. CASE s \in {"DELIVERED", "READ", "FAILED"}
      BY <2>4, <2>9, <3>1, <1>1, <1>4, <1>9
      DEF TaskBacked, ReceiptsKept, Finished
    <3>2. CASE s \notin {"DELIVERED", "READ", "FAILED"}
      BY <2>9, <3>2, <1>2 DEF TaskBacked
    <3>3. QED
      BY <3>1, <3>2
  <2>10. QED
    BY <2>5, <2>6, <2>7, <2>8, <2>9
<1>14. ExpiryBacked'
  BY <1>1, <1>2, <1>4, <1>7, <1>9, <1>10 DEF ExpiryBacked, BodiesGone, InTransfer
<1>15. RowsOK'
  <2> SUFFICES ASSUME NEW e \in Devices
               PROVE  RowOK(executions'[e], status'[e], receipt'[e])
    BY DEF RowsOK
  <2>1. CASE e = d
    <3>1. /\ executions'[e] = SetLatest(executions[d], s)
          /\ status'[e] = s
          /\ receipt'[e] = ReceiptAfter(receipt[d], s)
      BY <2>1, <1>1, <1>4 DEF RowTypes
    <3>2. RowOK(executions[d], status[d], receipt[d])
      BY <1>4 DEF RowsOK
    <3>3. receipt[d] \in {"NONE", "DELIVERED", "READ"}
      BY <1>4 DEF RowTypes
    <3>4. RowOK(SetLatest(executions[d], s), s, ReceiptAfter(receipt[d], s))
      BY <1>2, <1>5, <3>2, <3>3, RowReported
    <3>5. QED
      BY <3>1, <3>4
  <2>2. CASE e # d
    <3>1. executions'[e] = executions[e] /\ status'[e] = status[e] /\ receipt'[e] = receipt[e]
      BY <2>2, <1>1, <1>4 DEF RowTypes
    <3>2. QED
      BY <1>4, <3>1 DEF RowsOK
  <2>3. QED
    BY <2>1, <2>2
<1>16. SeenOK'
  <2>1. ReceiptsKept
    BY <1>9 DEF ReceiptsKept, ReceiptAfter
  <2>2. LiveFiles' = LiveFiles
    BY <1>1 DEF LiveFiles
  <2>3. QED
    BY <1>1, <1>4, <1>11, <1>15, <2>1, <2>2, WrittenSeen
<1>17. QED
  BY <1>11, <1>12, <1>13, <1>14, <1>15, <1>16 DEF IndInv

-----------------------------------------------------------------------------
LEMMA RetryPreserves ==
  ASSUME IndInv, NEW d \in Devices, NEW key \in RetryKeys,
         RetryTransferTarget(d, key)
  PROVE  IndInv'
<1>1. /\ task # NoTask
      /\ ~KeyUsed(executions[d], key)
      /\ status[d] \in RetryableStatuses
      /\ executions' = [executions EXCEPT ![d] = NextAttempt(@, key)]
      /\ status' = [status EXCEPT ![d] = "CHECKING_ROUTE"]
      /\ task' = "CHECKING_ROUTE"
      /\ UNCHANGED <<route, receipt, group, hidden, files, fileRoute, fileStatus,
                     overdue, listed>>
      /\ Written({d}, {})
  BY DEF RetryTransferTarget, fileVars, cleanerVars
<1>2. RowTypes /\ Fresh /\ TaskBacked /\ ExpiryBacked /\ RowsOK /\ SeenOK
  BY DEF IndInv
<1>3. executions[d] \in Seq(Execution)
  BY <1>2 DEF RowTypes
<1>4. /\ NextAttempt(executions[d], key) \in Seq(Execution)
      /\ NextAttempt(executions[d], key) # << >>
  <2>1. /\ NextAttempt(executions[d], key) \in Seq(Execution)
        /\ Len(NextAttempt(executions[d], key)) = Len(executions[d]) + 1
    BY <1>3, NextAttemptFacts
  <2>2. Len(executions[d]) \in Nat
    BY <1>3
  <2>3. QED
    BY <2>1, <2>2
<1>5. \A e \in Devices : status'[e] = IF e = d THEN "CHECKING_ROUTE" ELSE status[e]
  BY <1>1, <1>2 DEF RowTypes
<1>6. RowTypes'
  <2>1. executions' \in [Devices -> Seq(Execution)]
    BY <1>1, <1>2, <1>4 DEF RowTypes
  <2>2. status' \in [Devices -> TransferStatuses] /\ task' \in TransferStatuses
    BY <1>1, <1>2 DEF RowTypes, TransferStatuses
  <2>3. QED
    BY <1>1, <1>2, <2>1, <2>2 DEF RowTypes, Users
<1>7. Fresh'
  <2>1. \A e \in Devices : executions'[e] # << >>
    BY <1>1, <1>2, <1>4 DEF RowTypes, Fresh
  <2>2. QED
    BY <1>1, <1>2, <2>1 DEF Fresh, NoTask
<1>8. TaskBacked'
  BY <1>1, <1>5 DEF TaskBacked
<1>9. ExpiryBacked'
  BY <1>1, <1>2, <1>5 DEF ExpiryBacked, BodiesGone, InTransfer, RetryableStatuses
<1>10. RowsOK'
  <2> SUFFICES ASSUME NEW e \in Devices
               PROVE  RowOK(executions'[e], status'[e], receipt'[e])
    BY DEF RowsOK
  <2>1. CASE e = d
    <3>1. /\ executions'[e] = NextAttempt(executions[d], key)
          /\ status'[e] = "CHECKING_ROUTE"
          /\ receipt'[e] = receipt[d]
      BY <2>1, <1>1, <1>2 DEF RowTypes
    <3>2. RowOK(executions[d], status[d], receipt[d])
      BY <1>2 DEF RowsOK
    <3>3. QED
      BY <1>1, <1>3, <3>1, <3>2, RowRetried
  <2>2. CASE e # d
    <3>1. executions'[e] = executions[e] /\ status'[e] = status[e] /\ receipt'[e] = receipt[e]
      BY <2>2, <1>1, <1>2 DEF RowTypes
    <3>2. QED
      BY <1>2, <3>1 DEF RowsOK
  <2>3. QED
    BY <2>1, <2>2
<1>11. SeenOK'
  BY <1>1, <1>2, <1>6, <1>10, WrittenSeen DEF ReceiptsKept, LiveFiles
<1>12. QED
  BY <1>6, <1>7, <1>8, <1>9, <1>10, <1>11 DEF IndInv

LEMMA ReadPreserves ==
  ASSUME IndInv, NEW d \in Devices, ReadTransfer(d)
  PROVE  IndInv'
<1>1. /\ status[d] = "DELIVERED"
      /\ status' = [status EXCEPT ![d] = "READ"]
      /\ receipt' = [receipt EXCEPT ![d] = "READ"]
      /\ executions' = [executions EXCEPT ![d] = SetLatest(@, "READ")]
      /\ UNCHANGED <<task, group, hidden, route, files, fileRoute, fileStatus,
                     overdue, listed>>
      /\ Written({d}, {})
  BY DEF ReadTransfer, taskVars, fileVars, cleanerVars
<1>2. RowTypes /\ Fresh /\ TaskBacked /\ ExpiryBacked /\ RowsOK /\ SeenOK
  BY DEF IndInv
<1>3. task # NoTask /\ executions[d] \in Seq(Execution) /\ executions[d] # << >>
  BY <1>1, <1>2 DEF RowTypes, Fresh
<1>4. /\ SetLatest(executions[d], "READ") \in Seq(Execution)
      /\ SetLatest(executions[d], "READ") # << >>
  BY <1>3, SetLatestFacts DEF TransferStatuses
<1>5. \A e \in Devices :
        /\ status'[e] = IF e = d THEN "READ" ELSE status[e]
        /\ receipt'[e] = IF e = d THEN "READ" ELSE receipt[e]
  BY <1>1, <1>2 DEF RowTypes
<1>6. RowTypes'
  <2>1. executions' \in [Devices -> Seq(Execution)]
    BY <1>1, <1>2, <1>4 DEF RowTypes
  <2>2. /\ status' \in [Devices -> TransferStatuses]
        /\ receipt' \in [Devices -> {"NONE", "DELIVERED", "READ"}]
    BY <1>1, <1>2 DEF RowTypes, TransferStatuses
  <2>3. QED
    BY <1>1, <1>2, <2>1, <2>2 DEF RowTypes, Users
<1>7. Fresh'
  <2>1. \A e \in Devices : executions'[e] # << >>
    BY <1>1, <1>2, <1>3, <1>4 DEF RowTypes, Fresh
  <2>2. QED
    BY <1>1, <1>2, <1>3, <2>1 DEF Fresh
<1>8. TaskBacked'
  BY <1>1, <1>2, <1>5 DEF TaskBacked, Finished
<1>9. ExpiryBacked'
  BY <1>1, <1>2, <1>5 DEF ExpiryBacked, BodiesGone, InTransfer
<1>10. RowsOK'
  <2> SUFFICES ASSUME NEW e \in Devices
               PROVE  RowOK(executions'[e], status'[e], receipt'[e])
    BY DEF RowsOK
  <2>1. CASE e = d
    <3>1. ReceiptAfter(receipt[d], "READ") = "READ"
      BY DEF ReceiptAfter
    <3>2. /\ executions'[e] = SetLatest(executions[d], "READ")
          /\ status'[e] = "READ"
          /\ receipt'[e] = ReceiptAfter(receipt[d], "READ")
      BY <2>1, <1>1, <1>2, <3>1 DEF RowTypes
    <3>3. RowOK(executions[d], status[d], receipt[d])
      BY <1>2 DEF RowsOK
    <3>4. receipt[d] \in {"NONE", "DELIVERED", "READ"} /\ "READ" \in TransferStatuses
      BY <1>2 DEF RowTypes, TransferStatuses
    <3>5. QED
      BY <1>3, <3>2, <3>3, <3>4, RowReported
  <2>2. CASE e # d
    <3>1. executions'[e] = executions[e] /\ status'[e] = status[e] /\ receipt'[e] = receipt[e]
      BY <2>2, <1>1, <1>2 DEF RowTypes
    <3>2. QED
      BY <1>2, <3>1 DEF RowsOK
  <2>3. QED
    BY <2>1, <2>2
<1>11. SeenOK'
  <2>1. ReceiptsKept
    BY <1>5 DEF ReceiptsKept
  <2>2. LiveFiles' = LiveFiles
    BY <1>1 DEF LiveFiles
  <2>3. QED
    BY <1>1, <1>2, <1>6, <1>10, <2>1, <2>2, WrittenSeen
<1>12. QED
  BY <1>6, <1>7, <1>8, <1>9, <1>10, <1>11 DEF IndInv

-----------------------------------------------------------------------------
(***************************************************************************)
(* The steps that set a target behind its attempt's back.                  *)
(***************************************************************************)
LEMMA SetRowsPreserved ==
  ASSUME RowsOK, UNCHANGED <<executions, receipt>>,
         \A d \in Devices : status'[d] = status[d] \/ status'[d] \in Lagging
  PROVE  RowsOK'
<1> SUFFICES ASSUME NEW d \in Devices
             PROVE  RowOK(executions[d], status'[d], receipt[d])
  BY DEF RowsOK
<1>1. RowOK(executions[d], status[d], receipt[d])
  BY DEF RowsOK
<1>2. CASE status'[d] = status[d]
  BY <1>1, <1>2
<1>3. CASE status'[d] \in Lagging
  BY <1>1, <1>3, RowSet
<1>4. QED
  BY <1>2, <1>3

LEMMA CancelPreserves ==
  ASSUME IndInv, CancelTransfer
  PROVE  IndInv'
<1>1. /\ task \notin Finished \cup {NoTask}
      /\ task' = "CANCELLED"
      /\ status' = [d \in Devices |-> Cancelled(status[d])]
      /\ UNCHANGED <<route, executions, receipt, files, fileRoute, group, hidden,
                     overdue, listed>>
      /\ Written({d \in Devices : status[d] \notin Finished}, {})
  BY DEF CancelTransfer, cleanerVars
<1>2. RowTypes /\ Fresh /\ TaskBacked /\ ExpiryBacked /\ RowsOK /\ SeenOK
  BY DEF IndInv
<1>3. \A d \in Devices :
        status'[d] = IF status[d] \in Finished THEN status[d] ELSE "CANCELLED"
  BY <1>1 DEF Cancelled
<1>4. RowTypes'
  <2>1. fileStatus' \in [Files -> [Devices -> TransferStatuses]]
    BY <1>2 DEF CancelTransfer, Cancelled, RowTypes, TransferStatuses
  <2>2. status' \in [Devices -> TransferStatuses] /\ task' \in TransferStatuses
    BY <1>1, <1>2, <1>3 DEF RowTypes, TransferStatuses
  <2>3. QED
    BY <1>1, <1>2, <2>1, <2>2 DEF RowTypes, Users
<1>5. Fresh'
  BY <1>1, <1>2 DEF Fresh, NoTask
<1>6. TaskBacked'
  BY <1>1, <1>3 DEF TaskBacked, Finished
<1>7. ExpiryBacked'
  BY <1>1, <1>2, <1>3 DEF ExpiryBacked, BodiesGone, InTransfer, Finished
<1>8. RowsOK'
  BY <1>1, <1>2, <1>3, SetRowsPreserved DEF Lagging
<1>9. SeenOK'
  BY <1>1, <1>2, <1>4, <1>8, WrittenSeen DEF ReceiptsKept, LiveFiles
<1>10. QED
  BY <1>4, <1>5, <1>6, <1>7, <1>8, <1>9 DEF IndInv

LEMMA CompletePreserves ==
  ASSUME IndInv, NEW f \in Files, CompleteFile(f)
  PROVE  IndInv'
<1>0. PICK hit \in SUBSET Devices :
        /\ files[f] = "UPLOADING"
        /\ files' = [files EXCEPT ![f] = "AVAILABLE_ON_NODE"]
        /\ status' = [d \in Devices |->
             IF d \in hit THEN "AVAILABLE_ON_NODE" ELSE status[d]]
        /\ UNCHANGED <<task, group, hidden, route, executions, receipt, fileRoute,
                       overdue, listed>>
        /\ Written(hit, {f})
  <2>1. PICK seen \in routesSeen :
          LET hit == {d \in Devices : seen[d] = "NODE" /\ route[d] = "NODE"} IN
          /\ status' = [d \in Devices |->
               IF d \in hit THEN "AVAILABLE_ON_NODE" ELSE status[d]]
          /\ UNCHANGED <<route, executions, receipt, fileRoute, taskVars, cleanerVars>>
          /\ Written(hit, {f})
    BY DEF CompleteFile
  <2>2. {d \in Devices : seen[d] = "NODE" /\ route[d] = "NODE"} \in SUBSET Devices
    OBVIOUS
  <2>3. QED
    BY <2>1, <2>2 DEF CompleteFile, Completable, taskVars, cleanerVars
<1>1. /\ files[f] = "UPLOADING"
      /\ files' = [files EXCEPT ![f] = "AVAILABLE_ON_NODE"]
      /\ status' = [d \in Devices |->
           IF d \in hit THEN "AVAILABLE_ON_NODE" ELSE status[d]]
      /\ UNCHANGED <<task, group, hidden, route, executions, receipt, fileRoute,
                     overdue, listed>>
      /\ Written(hit, {f})
  BY <1>0
<1>2. RowTypes /\ Fresh /\ TaskBacked /\ ExpiryBacked /\ RowsOK /\ SeenOK
  BY DEF IndInv
<1>3. task # NoTask
  BY <1>1, <1>2 DEF Fresh, NoFile
<1>4. /\ \A d \in Devices :
           status'[d] = status[d] \/ status'[d] = "AVAILABLE_ON_NODE"
      /\ \A g \in Files : files'[g] = NoFile <=> files[g] = NoFile
      /\ files'[f] = "AVAILABLE_ON_NODE"
  BY <1>1, <1>2 DEF RowTypes, NoFile
<1>5. f \in InTransfer /\ f \in InTransfer'
  BY <1>1, <1>4 DEF InTransfer, NoFile
<1>6. ~BodiesGone /\ ~BodiesGone'
  BY <1>1, <1>4, <1>5 DEF BodiesGone
<1>7. RowTypes'
  <2>1. fileStatus' \in [Files -> [Devices -> TransferStatuses]]
    BY <1>2 DEF CompleteFile, RowTypes, TransferStatuses
  <2>2. status' \in [Devices -> TransferStatuses]
    BY <1>1, <1>2 DEF RowTypes, TransferStatuses
  <2>3. files' \in [Files -> {NoFile, "UPLOADING", "AVAILABLE_ON_NODE", "EXPIRED"}]
    BY <1>1, <1>2 DEF RowTypes
  <2>4. QED
    BY <1>1, <1>2, <2>1, <2>2, <2>3 DEF RowTypes, Users
<1>8. Fresh'
  BY <1>1, <1>2, <1>3, <1>4 DEF Fresh, RowTypes
<1>9. TaskBacked'
  BY <1>1, <1>2, <1>4 DEF TaskBacked
<1>10. ExpiryBacked'
  <2>1. \A d \in Devices : status[d] # "EXPIRED" /\ status'[d] # "EXPIRED"
    BY <1>2, <1>4, <1>6 DEF ExpiryBacked
  <2>2. task' # "EXPIRED"
    BY <1>1, <1>2, <2>1, DevicesAssumption DEF ExpiryBacked
  <2>3. QED
    BY <2>1, <2>2 DEF ExpiryBacked
<1>11. RowsOK'
  BY <1>1, <1>2, <1>4, SetRowsPreserved DEF Lagging
<1>12. SeenOK'
  <2>1. LiveFiles' \subseteq LiveFiles
    BY <1>1, <1>2 DEF LiveFiles, RowTypes, NoFile
  <2>2. ReceiptsKept
    BY <1>1 DEF ReceiptsKept
  <2>3. QED
    BY <1>1, <1>2, <1>7, <1>11, <2>1, <2>2, WrittenSeen
<1>13. QED
  BY <1>7, <1>8, <1>9, <1>10, <1>11, <1>12 DEF IndInv

LEMMA MarkPreserves ==
  ASSUME IndInv, NEW f \in Files, MarkFileExpired(f)
  PROVE  IndInv'
<1>0. PICK seen \in liveSeen[f] :
        LET closed == TargetsWithoutFile(seen \ {f}) IN
        /\ status' = [d \in Devices |->
             IF d \in closed THEN "EXPIRED" ELSE status[d]]
        /\ task' = IF \A d \in Devices : status'[d] = "EXPIRED" THEN "EXPIRED" ELSE task
        /\ UNCHANGED <<route, executions, receipt, fileRoute, group, hidden, overdue>>
        /\ Written(closed, {f})
  BY DEF MarkFileExpired
<1> DEFINE closed == TargetsWithoutFile(seen \ {f})
<1>1. /\ f \in listed
      /\ files[f] # "EXPIRED"
      /\ listed' = listed \ {f}
      /\ files' = [files EXCEPT ![f] = "EXPIRED"]
      /\ status' = [d \in Devices |-> IF d \in closed THEN "EXPIRED" ELSE status[d]]
      /\ task' = IF \A d \in Devices : status'[d] = "EXPIRED" THEN "EXPIRED" ELSE task
      /\ UNCHANGED <<group, hidden, route, executions, receipt, fileRoute, overdue>>
      /\ Written(closed, {f})
  BY <1>0 DEF MarkFileExpired
<1>2. RowTypes /\ Fresh /\ TaskBacked /\ ExpiryBacked /\ RowsOK /\ SeenOK
  BY DEF IndInv
<1>3. files[f] # NoFile /\ task # NoTask
  BY <1>1, <1>2 DEF Fresh
<1>4. /\ \A g \in Files : files'[g] = NoFile <=> files[g] = NoFile
      /\ files'[f] = "EXPIRED"
  BY <1>1, <1>2, <1>3 DEF RowTypes, NoFile
<1>5. f \in InTransfer /\ InTransfer' = InTransfer
  BY <1>3, <1>4 DEF InTransfer
<1>6. ~BodiesGone
  BY <1>1, <1>5 DEF BodiesGone
<1>7. \A d \in Devices : status[d] # "EXPIRED"
  BY <1>2, <1>6 DEF ExpiryBacked
<1>8. \/ closed = Devices /\ seen \subseteq {f}
      \/ closed = {}
  BY DEF TargetsWithoutFile
<1> HIDE DEF closed
<1>9. \/ /\ BodiesGone'
         /\ \A d \in Devices : status'[d] = "EXPIRED"
         /\ task' = "EXPIRED"
      \/ /\ \A d \in Devices : status'[d] = status[d]
         /\ task' = task
  <2>1. CASE closed = Devices /\ seen \subseteq {f}
    <3>1. LiveFiles \subseteq {f}
      BY <1>2, <2>1 DEF SeenOK
    <3>2. \A g \in Files : files'[g] \in {NoFile, "EXPIRED"}
      BY <1>1, <1>2, <3>1 DEF LiveFiles, RowTypes
    <3>3. BodiesGone'
      BY <1>5, <3>2 DEF BodiesGone, InTransfer
    <3>4. QED
      BY <1>1, <2>1, <3>3
  <2>2. CASE closed = {}
    <3>1. \A d \in Devices : status'[d] = status[d]
      BY <2>2, <1>1
    <3>2. QED
      BY <3>1, <1>1, <1>7, DevicesAssumption
  <2>3. QED
    BY <1>8, <2>1, <2>2
<1>10. RowTypes'
  <2>1. fileStatus' \in [Files -> [Devices -> TransferStatuses]]
    BY <1>2 DEF MarkFileExpired, RowTypes, TransferStatuses
  <2>2. status' \in [Devices -> TransferStatuses]
    BY <1>1, <1>2 DEF RowTypes, TransferStatuses
  <2>3. files' \in [Files -> {NoFile, "UPLOADING", "AVAILABLE_ON_NODE", "EXPIRED"}]
    BY <1>1, <1>2 DEF RowTypes
  <2>4. task' \in TransferStatuses \cup {NoTask}
    BY <1>2, <1>9 DEF RowTypes, TransferStatuses
  <2>5. QED
    BY <1>1, <1>2, <2>1, <2>2, <2>3, <2>4 DEF RowTypes, Users
<1>11. Fresh'
  BY <1>1, <1>2, <1>3, <1>4, <1>9 DEF Fresh, NoTask, RowTypes
<1>12. TaskBacked'
  BY <1>1, <1>2, <1>9 DEF TaskBacked
<1>13. ExpiryBacked'
  BY <1>1, <1>2, <1>7, <1>9, DevicesAssumption DEF ExpiryBacked
<1>14. RowsOK'
  BY <1>1, <1>2, <1>9, SetRowsPreserved DEF Lagging
<1>15. SeenOK'
  <2>1. LiveFiles' \subseteq LiveFiles
    BY <1>1, <1>2 DEF LiveFiles, RowTypes
  <2>2. ReceiptsKept
    BY <1>1 DEF ReceiptsKept
  <2>3. QED
    BY <1>1, <1>2, <1>10, <1>14, <2>1, <2>2, WrittenSeen
<1>16. QED
  BY <1>10, <1>11, <1>12, <1>13, <1>14, <1>15 DEF IndInv

-----------------------------------------------------------------------------
(***************************************************************************)
(* The steps that leave every target row alone.                            *)
(***************************************************************************)
LEMMA CleanerPreserves ==
  ASSUME IndInv,
         \/ Lapse
         \/ AbandonPass
         \/ \E f \in Files : ExpiredFiles(f)
         \/ \E user \in Users : HideTransfer(user)
         \/ UNCHANGED vars
  PROVE  IndInv'
<1>1. /\ UNCHANGED <<task, group, route, status, executions, receipt, files,
                     fileRoute, fileStatus, targetsSeen, liveSeen, routesSeen>>
      /\ overdue' \in BOOLEAN
      /\ listed' \subseteq Files
      /\ hidden' \subseteq Users
      /\ \A f \in listed' : files[f] # NoFile
  BY DEF IndInv, Lapse, AbandonPass, ExpiredFiles, Due, HideTransfer, RowTypes, Fresh,
     vars, taskVars, targetVars, fileVars, cleanerVars, seenVars, LiveFiles, NoFile
<1>2. RowTypes'
  BY <1>1 DEF IndInv, RowTypes, Users
<1>3. Fresh'
  BY <1>1 DEF IndInv, Fresh
<1>4. TaskBacked' /\ ExpiryBacked'
  BY <1>1 DEF IndInv, TaskBacked, ExpiryBacked, BodiesGone, InTransfer
<1>5. RowsOK'
  BY <1>1, SetRowsPreserved DEF IndInv
<1>6. SeenOK'
  BY <1>1 DEF IndInv, SeenOK, Backed, LiveFiles
<1>7. QED
  BY <1>2, <1>3, <1>4, <1>5, <1>6 DEF IndInv

LEMMA AdminPreserves ==
  ASSUME IndInv, DeleteAdminGroupContent \/ DeleteAdminGroup
  PROVE  IndInv'
<1>1. /\ task # NoTask
      /\ group' = "DELETED"
      /\ task' \in {"CANCELLED", task}
      /\ UNCHANGED <<hidden, route, status, executions, receipt, fileRoute,
                     fileStatus, overdue, listed>>
  BY DEF DeleteAdminGroupContent, DeleteAdminGroup, targetVars, fileVars, cleanerVars
<1>2. RowTypes /\ Fresh /\ TaskBacked /\ ExpiryBacked /\ RowsOK /\ SeenOK
  BY DEF IndInv
<1>3. /\ files' \in [Files -> {NoFile, "UPLOADING", "AVAILABLE_ON_NODE", "EXPIRED"}]
      /\ \A f \in Files : files'[f] = NoFile <=> files[f] = NoFile
      /\ \A f \in Files : files[f] = "EXPIRED" => files'[f] = "EXPIRED"
  BY <1>2 DEF DeleteAdminGroupContent, DeleteAdminGroup, fileVars, InTransfer, RowTypes,
     NoFile
<1>4. RowTypes'
  BY <1>1, <1>2, <1>3 DEF RowTypes, Users, TransferStatuses
<1>5. Fresh'
  BY <1>1, <1>2, <1>3 DEF Fresh, NoTask, RowTypes
<1>6. TaskBacked'
  BY <1>1, <1>2 DEF TaskBacked
<1>7. ExpiryBacked'
  BY <1>1, <1>2, <1>3 DEF ExpiryBacked, BodiesGone, InTransfer
<1>8. RowsOK'
  BY <1>1, <1>2, SetRowsPreserved
<1>9. SeenOK'
  <2>1. CASE DeleteAdminGroupContent
    BY <1>1, <1>2, <1>4, <1>8, <2>1, WrittenSeen
    DEF DeleteAdminGroupContent, ReceiptsKept
  <2>2. CASE DeleteAdminGroup
    BY <1>1, <1>2, <2>2
    DEF DeleteAdminGroup, fileVars, seenVars, SeenOK, Backed, LiveFiles
  <2>3. QED
    BY <2>1, <2>2
<1>10. QED
  BY <1>4, <1>5, <1>6, <1>7, <1>8, <1>9 DEF IndInv

-----------------------------------------------------------------------------
LEMMA InitEstablishes ==
  ASSUME Init
  PROVE  IndInv
<1>1. RowTypes
  <2>1. executions \in [Devices -> Seq(Execution)]
    <3>1. << >> \in Seq(Execution)
      OBVIOUS
    <3>2. QED
      BY <3>1 DEF Init
  <2>2. fileRoute \in [Files -> [Devices -> SelectedRoutes]]
    BY DEF Init, SelectedRoutes
  <2>3. fileStatus \in [Files -> [Devices -> TransferStatuses]]
    BY DEF Init, TransferStatuses
  <2>4. QED
    BY <2>1, <2>2, <2>3 DEF Init, RowTypes, TransferStatuses, SelectedRoutes
<1>2. Fresh
  BY DEF Init, Fresh
<1>3. TaskBacked
  BY DevicesAssumption DEF Init, TaskBacked, NoTask
<1>4. ExpiryBacked
  BY DEF Init, ExpiryBacked, BodiesGone, InTransfer, NoTask
<1>5. RowsOK
  BY DEF Init, RowsOK, RowOK, Latest, Superseded, DistinctKeys, Receipted
<1>6. SeenOK
  BY DEF Init, SeenOK
<1>7. QED
  BY <1>1, <1>2, <1>3, <1>4, <1>5, <1>6 DEF IndInv

LEMMA NextPreserves ==
  ASSUME IndInv, [Next]_vars
  PROVE  IndInv'
<1>1. CASE CreateSome
  BY <1>1, CreatePreserves DEF CreateSome
<1>2. ASSUME NEW d \in Devices, TargetStep(d) PROVE IndInv'
  BY <1>2, ReportPreserves, RetryPreserves, ReadPreserves DEF TargetStep
<1>3. ASSUME NEW f \in Files, FileStep(f) PROVE IndInv'
  BY <1>3, CompletePreserves, CleanerPreserves, MarkPreserves DEF FileStep
<1>4. CASE CancelTransfer
  BY <1>4, CancelPreserves
<1>5. CASE (\E user \in Users : HideTransfer(user)) \/ Lapse \/ AbandonPass \/ UNCHANGED vars
  BY <1>5, CleanerPreserves
<1>6. CASE DeleteAdminGroupContent \/ DeleteAdminGroup
  BY <1>6, AdminPreserves
<1>7. QED
  BY <1>1, <1>2, <1>3, <1>4, <1>5, <1>6 DEF Next

(***************************************************************************)
(* The rows' invariant is the one the runs check.                          *)
(***************************************************************************)
LEMMA RowsImply ==
  ASSUME RowTypes, Fresh, RowsOK
  PROVE  /\ ExecutionTracksTarget
         /\ SupersededAttempts
         /\ OneExecutionPerKey
         /\ ReceiptBacksStatus
<1>1. \A d \in Devices : DOMAIN executions[d] = 1 .. Len(executions[d])
  BY DEF RowTypes
<1>2. ExecutionTracksTarget
  BY DEF Fresh, RowsOK, RowOK, Latest, Lagging, ExecutionTracksTarget
<1>3. SupersededAttempts
  BY DEF RowsOK, RowOK, Superseded, RetryableStatuses, SupersededAttempts
<1>4. OneExecutionPerKey
  BY <1>1 DEF RowsOK, RowOK, DistinctKeys, OneExecutionPerKey
<1>5. ReceiptBacksStatus
  BY <1>1 DEF RowsOK, RowOK, Receipted, ReceiptBacksStatus
<1>6. QED
  BY <1>2, <1>3, <1>4, <1>5

(***************************************************************************)
(* The invariant of the Node's transfer rows, for every set of devices,    *)
(* files and retry keys.                                                   *)
(***************************************************************************)
THEOREM Inductive == Spec => []IndInv
<1>1. Init => IndInv
  BY InitEstablishes
<1>2. IndInv /\ [Next]_vars => IndInv'
  BY NextPreserves
<1>3. QED
  BY <1>1, <1>2, PTL DEF Spec

(***************************************************************************)
(* Every row keeps its type, so no report stores a status or a route the   *)
(* columns do not know.                                                    *)
(***************************************************************************)
THEOREM TypeCorrect == Spec => []TypeOK
<1>1. IndInv => TypeOK
  BY DEF IndInv, RowTypes, SeenOK, TypeOK
<1>2. QED
  BY <1>1, Inductive, PTL

(***************************************************************************)
(* The task row claims no receipt that was not given, whichever snapshots  *)
(* the reports summarise, and a cancelled one leaves no target at work but *)
(* those a completion puts back.                                           *)
(***************************************************************************)
THEOREM TaskIsBacked == Spec => []TaskBacked
<1>1. IndInv => TaskBacked
  BY DEF IndInv
<1>2. QED
  BY <1>1, Inductive, PTL

(***************************************************************************)
(* Nothing is closed before the last body is gone, whichever snapshots the *)
(* expiries of the files decide from.                                      *)
(***************************************************************************)
THEOREM ExpiryIsBacked == Spec => []ExpiryBacked
<1>1. IndInv => ExpiryBacked
  BY DEF IndInv
<1>2. QED
  BY <1>1, Inductive, PTL

(***************************************************************************)
(* The latest attempt carries its target's status.                         *)
(***************************************************************************)
THEOREM AttemptsTrack == Spec => []ExecutionTracksTarget
<1>1. IndInv => ExecutionTracksTarget
  BY RowsImply DEF IndInv
<1>2. QED
  BY <1>1, Inductive, PTL

(***************************************************************************)
(* A retry supersedes only attempts that have stopped, and one retry key   *)
(* makes one attempt.                                                      *)
(***************************************************************************)
THEOREM AttemptsKept == Spec => [](SupersededAttempts /\ OneExecutionPerKey)
<1>1. IndInv => SupersededAttempts /\ OneExecutionPerKey
  BY RowsImply DEF IndInv
<1>2. QED
  BY <1>1, Inductive, PTL

(***************************************************************************)
(* Nothing is shown as delivered or read without its receipt row.          *)
(***************************************************************************)
THEOREM ReceiptsBack == Spec => []ReceiptBacksStatus
<1>1. IndInv => ReceiptBacksStatus
  BY RowsImply DEF IndInv
<1>2. QED
  BY <1>1, Inductive, PTL

(***************************************************************************)
(* EXPIRED is final for a target: a late upload cannot complete, because   *)
(* an expired target means that every body is expired.                     *)
(***************************************************************************)
THEOREM ExpiredStays == Spec => ExpiredIsFinal
<1>1. ASSUME IndInv, [Next]_vars, NEW d \in Devices, status[d] = "EXPIRED"
      PROVE  status'[d] = "EXPIRED"
  <2>1. RowTypes /\ Fresh /\ BodiesGone /\ task # NoTask
    BY <1>1 DEF IndInv, ExpiryBacked, Fresh
  <2>2. ASSUME NEW e \in Devices, TargetStep(e) PROVE status'[d] = "EXPIRED"
    <3>1. CASE \E actor \in {e, Sender}, s \in Reports, r \in ReportRoutes :
                 ReportProgress(actor, e, s, r)
      BY <1>1, <2>1, <3>1 DEF ReportProgress, Accepts, IsTerminal, RowTypes
    <3>2. CASE \E key \in RetryKeys : RetryTransferTarget(e, key)
      BY <1>1, <2>1, <3>2 DEF RetryTransferTarget, RetryableStatuses, RowTypes
    <3>3. CASE ReadTransfer(e)
      BY <1>1, <2>1, <3>3 DEF ReadTransfer, RowTypes
    <3>4. QED
      BY <2>2, <3>1, <3>2, <3>3 DEF TargetStep
  <2>3. ASSUME NEW f \in Files, FileStep(f) PROVE status'[d] = "EXPIRED"
    BY <1>1, <2>1, <2>3
    DEF FileStep, CompleteFile, Completable, ExpiredFiles, MarkFileExpired, BodiesGone,
        InTransfer, NoFile, targetVars
  <2>4. CASE CancelTransfer
    BY <1>1, <2>4 DEF CancelTransfer, Cancelled, Finished
  <2>5. CASE \/ \E user \in Users : HideTransfer(user)
             \/ Lapse \/ AbandonPass \/ DeleteAdminGroupContent \/ DeleteAdminGroup
             \/ UNCHANGED vars
    BY <1>1, <2>5
    DEF HideTransfer, Lapse, AbandonPass, DeleteAdminGroupContent, DeleteAdminGroup,
        targetVars, vars
  <2>6. CASE CreateSome
    BY <2>1, <2>6 DEF CreateSome, Create
  <2>7. QED
    BY <1>1, <2>2, <2>3, <2>4, <2>5, <2>6 DEF Next
<1>2. IndInv /\ [Next]_vars =>
        [\A d \in Devices : status[d] = "EXPIRED" => status'[d] = "EXPIRED"]_vars
  BY <1>1
<1>3. QED
  BY <1>2, Inductive, PTL DEF Spec, ExpiredIsFinal

-----------------------------------------------------------------------------
(***************************************************************************)
(* Transfer implements DeliveryRecord: Create is Open; ReportProgress and *)
(* ReadTransfer are Advance; RetryTransferTarget is Retry, because the     *)
(* latest attempt has the retryable status of its target; every other step *)
(* leaves the record alone.                                                *)
(***************************************************************************)
RecordVars == <<executions, receipt>>

LEMMA CreateOpens ==
  ASSUME IndInv, CreateSome
  PROVE  Record!Open
<1>1. PICK mode \in Modes, lan \in SUBSET Devices, carried \in SUBSET Files,
           allow \in BOOLEAN, inGroup \in InGroup :
        \E large \in SUBSET carried : Create(mode, lan, carried, large, allow, inGroup)
  BY DEF CreateSome
<1>2. PICK large \in SUBSET carried : Create(mode, lan, carried, large, allow, inGroup)
  BY <1>1
<1> DEFINE first == [d \in Devices |->
                       InitialStatus(TargetRoute(mode, lan, carried, large, allow, d))]
<1>3. /\ task = NoTask
      /\ executions' = [d \in Devices |-> <<[status |-> first[d], key |-> NoKey]>>]
      /\ receipt' = receipt
  BY <1>2 DEF Create
<1>4. first \in [Devices -> TransferStatuses \ Record!Receipts]
  BY InitialStatusType, FirstStatusesType DEF FirstStatuses, Record!Receipts
<1>5. \A d \in Devices : executions[d] = << >>
  BY <1>3 DEF IndInv, Fresh
<1>6. QED
  BY <1>3, <1>4, <1>5 DEF Record!Open

LEMMA ReportAdvances ==
  ASSUME IndInv, NEW actor, NEW d \in Devices, NEW s \in Reports,
         NEW r \in ReportRoutes, ReportProgress(actor, d, s, r)
  PROVE  s \in TransferStatuses /\ Record!Advance(d, s)
<1>1. /\ task # NoTask
      /\ executions' = [executions EXCEPT ![d] = SetLatest(@, s)]
      /\ receipt' = [receipt EXCEPT ![d] = ReceiptAfter(@, s)]
  BY DEF ReportProgress
<1>2. s \in TransferStatuses
  BY RequestAssumption DEF ReportableStatuses
<1>3. executions[d] # << >>
  BY <1>1 DEF IndInv, Fresh
<1>4. receipt[d] \in {"NONE", "DELIVERED", "READ"}
  BY DEF IndInv, RowTypes
<1>5. ReceiptAfter(receipt[d], s) =
        IF s \in Record!Receipts /\ receipt[d] # "READ" THEN s ELSE receipt[d]
  BY <1>4 DEF ReceiptAfter, Record!Receipts
<1>6. receipt' = [receipt EXCEPT ![d] =
                    IF s \in Record!Receipts /\ @ # "READ" THEN s ELSE @]
  BY <1>1, <1>5
<1>7. QED
  BY <1>1, <1>2, <1>3, <1>6 DEF Record!Advance, SetLatest

LEMMA ReadAdvances ==
  ASSUME IndInv, NEW d \in Devices, ReadTransfer(d)
  PROVE  "READ" \in TransferStatuses /\ Record!Advance(d, "READ")
<1>1. /\ status[d] = "DELIVERED"
      /\ executions' = [executions EXCEPT ![d] = SetLatest(@, "READ")]
      /\ receipt' = [receipt EXCEPT ![d] = "READ"]
  BY DEF ReadTransfer
<1>2. executions[d] # << >>
  BY <1>1 DEF IndInv, Fresh
<1>3. receipt' = [receipt EXCEPT ![d] =
                    IF "READ" \in Record!Receipts /\ @ # "READ" THEN "READ" ELSE @]
  BY <1>1 DEF Record!Receipts
<1>4. QED
  BY <1>1, <1>2, <1>3 DEF Record!Advance, SetLatest, TransferStatuses

LEMMA RetryRetries ==
  ASSUME IndInv, NEW d \in Devices, NEW key \in RetryKeys, RetryTransferTarget(d, key)
  PROVE  Record!Retry(d, key)
<1>1. /\ task # NoTask
      /\ ~KeyUsed(executions[d], key)
      /\ status[d] \in RetryableStatuses
      /\ executions' = [executions EXCEPT ![d] = NextAttempt(@, key)]
      /\ receipt' = receipt
  BY DEF RetryTransferTarget
<1>2. executions[d] # << >> /\ Latest(executions[d], status[d])
  BY <1>1 DEF IndInv, Fresh, RowsOK, RowOK
<1>3. executions[d][Len(executions[d])].status \in Record!Stopped
  BY <1>1, <1>2 DEF Latest, Lagging, RetryableStatuses, Record!Stopped
<1>4. QED
  BY <1>1, <1>2, <1>3 DEF Record!Retry, Record!Last, KeyUsed, NextAttempt

LEMMA StepRecords ==
  ASSUME IndInv, [Next]_vars
  PROVE  [Record!Next]_RecordVars
<1>1. CASE CreateSome
  BY <1>1, CreateOpens DEF Record!Next
<1>2. ASSUME NEW d \in Devices, TargetStep(d) PROVE Record!Next
  <2>1. CASE \E actor \in {d, Sender}, s \in Reports, r \in ReportRoutes :
               ReportProgress(actor, d, s, r)
    BY <2>1, ReportAdvances DEF Record!Next
  <2>2. CASE \E key \in RetryKeys : RetryTransferTarget(d, key)
    BY <2>2, RetryRetries DEF Record!Next
  <2>3. CASE ReadTransfer(d)
    BY <2>3, ReadAdvances DEF Record!Next
  <2>4. QED
    BY <1>2, <2>1, <2>2, <2>3 DEF TargetStep
<1>3. CASE (\E f \in Files : FileStep(f)) \/ CancelTransfer
  BY <1>3
  DEF FileStep, CompleteFile, ExpiredFiles, MarkFileExpired, CancelTransfer, targetVars,
      RecordVars
<1>4. CASE \/ \E user \in Users : HideTransfer(user)
           \/ Lapse \/ AbandonPass \/ DeleteAdminGroupContent \/ DeleteAdminGroup
           \/ UNCHANGED vars
  BY <1>4
  DEF HideTransfer, Lapse, AbandonPass, DeleteAdminGroupContent, DeleteAdminGroup,
      targetVars, vars, RecordVars
<1>5. QED
  BY <1>1, <1>2, <1>3, <1>4 DEF Next

(***************************************************************************)
(* The record of delivery is append-only and its receipts are never taken  *)
(* back, for any number of devices, files, keys and any order of reports,  *)
(* retries, cancellations, completions, expiries and deletions.            *)
(***************************************************************************)
THEOREM Implements == Spec => ImplementsRecord
<1>1. Init => Record!Init
  BY DEF Init, Record!Init
<1>2. IndInv /\ [Next]_vars => [Record!Next]_<<executions, receipt>>
  BY StepRecords DEF RecordVars
<1>3. QED
  BY <1>1, <1>2, Inductive, PTL DEF Spec, ImplementsRecord, Record!Spec
=============================================================================
