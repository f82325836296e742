--------------------- MODULE TransferTransactionsProofs ---------------------
(***************************************************************************)
(* Proofs about TransferTransactions, for any number of targets, files and *)
(* concurrent transactions: what the row locks are worth.  They rest on    *)
(* one remark.  While a transaction is under way the rows may change under *)
(* it, but only where it holds no lock, receipts only grow, expired files  *)
(* stay expired, and while a cancellation has the task no finished target  *)
(* goes back to work.  Fits says what each transaction may still count on, *)
(* and Apart that no row has two holders.                                  *)
(***************************************************************************)
EXTENDS TransferTransactions, TLAPS

ReportRow == [pc : {"reported"}, device : Devices, report : Reports]
SumRow == [pc : {"summing"}, device : Devices, report : Reports,
           seen : [Devices -> TransferStatuses]]
RetryRow == [pc : {"retried"}, device : Devices]
CancelRow == [pc : {"cancelling"}, todo : SUBSET Devices, hit : SUBSET Devices]
CompleteRow == [pc : {"completing"}, file : Files, todo : SUBSET Devices, hit : SUBSET Devices]
MarkRow == [pc : {"marked"}, file : Files]
ExpireRow == [pc : {"expiring"}, file : Files, todo : SUBSET Devices, hit : SUBSET Devices]
TxRow == {Idle} \cup ReportRow \cup SumRow \cup RetryRow \cup [pc : {"cancelled"}]
         \cup CancelRow \cup CompleteRow \cup MarkRow \cup ExpireRow

Receipts == {"NONE", "DELIVERED", "READ"}
FileStatuses == {"UPLOADING", "AVAILABLE_ON_NODE", "EXPIRED"}

(***************************************************************************)
(* The locks of a transaction, read off its record r.                      *)
(***************************************************************************)
LocksTarget(r, d) ==
  \/ r.pc \in {"reported", "summing", "retried"} /\ r.device = d
  \/ r.pc \in {"cancelling", "completing", "expiring"} /\ d \in r.hit

LocksTask(r) == r.pc \in {"cancelled", "cancelling"}

LocksFile(r, f) == r.pc \in {"completing", "marked", "expiring"} /\ r.file = f

(***************************************************************************)
(* What it counts on when the committed rows are k (the task), st (its     *)
(* targets), rt (their routes), rc (their receipts) and fl (the files).    *)
(***************************************************************************)
Restartable == {"FAILED", "PAUSED", "SOURCE_FILE_MISSING", "SOURCE_FILE_CHANGED"}

\* What a target of a cancelled task may be.
Settled == Finished \cup {"AVAILABLE_ON_NODE"}

\* The status s of a target is backed by the receipt c.
Receipted(s, c) == (s = "READ" => c = "READ") /\ (s = "DELIVERED" => c # "NONE")

FitsReport(r, st, rc) ==
  /\ r.pc \in {"reported", "summing"} => Accepts(st[r.device], r.report)
  /\ r.pc = "summing" =>
       /\ r.seen[r.device] = r.report
       /\ \A e \in Devices : e # r.device => Receipted(r.seen[e], rc[e])

FitsRetry(r, st) == r.pc = "retried" => st[r.device] \in Restartable

FitsCancel(r, k, st) ==
  /\ r.pc \in {"cancelled", "cancelling"} => k \notin Finished
  /\ r.pc = "cancelling" =>
       \A d \in Devices :
         /\ d \in r.hit => st[d] \notin Finished
         /\ d \notin r.hit /\ d \notin r.todo => st[d] \in Settled

FitsComplete(r, rt, fl) ==
  r.pc = "completing" =>
    /\ fl[r.file] = "UPLOADING"
    /\ \A d \in Devices : d \in r.todo \/ d \in r.hit => rt[d] = "NODE"

LastLive(f, fl) == \A g \in Files \ {f} : fl[g] = "EXPIRED"

FitsExpiry(r, fl) ==
  r.pc = "expiring" =>
    \/ r.todo = {} /\ r.hit = {}
    \/ r.todo \cup r.hit = Devices /\ LastLive(r.file, fl)

Fits(r, k, st, rt, rc, fl) ==
  /\ FitsReport(r, st, rc)
  /\ FitsRetry(r, st)
  /\ FitsCancel(r, k, st)
  /\ FitsComplete(r, rt, fl)
  /\ FitsExpiry(r, fl)

\* No row is locked by both of two transactions.
Apart(r, q) ==
  /\ \A d \in Devices : ~(LocksTarget(r, d) /\ LocksTarget(q, d))
  /\ ~(LocksTask(r) /\ LocksTask(q))
  /\ \A f \in Files : ~(LocksFile(r, f) /\ LocksFile(q, f))

IndInv ==
  /\ TypeOK
  /\ \A t \in Transactions : Fits(tx[t], task, status, route, receipt, files)
  /\ \A t, u \in Transactions : t # u => Apart(tx[t], tx[u])
  /\ \A d \in Devices : Receipted(status[d], receipt[d])
  /\ TaskBacked

LEMMA TypedState ==
  TypeOK <=> /\ task \in TransferStatuses
             /\ status \in [Devices -> TransferStatuses]
             /\ route \in [Devices -> {"LAN", "NODE"}]
             /\ receipt \in [Devices -> Receipts]
             /\ files \in [Files -> FileStatuses]
             /\ openFiles \subseteq Files
             /\ tx \in [Transactions -> TxRow]
  BY DEF TypeOK, TxRow, ReportRow, SumRow, RetryRow, CancelRow, CompleteRow, MarkRow, ExpireRow,
         Receipts, FileStatuses

-----------------------------------------------------------------------------
(***************************************************************************)
(* Transaction records.                                                    *)
(***************************************************************************)
LEMMA RowKinds ==
  ASSUME NEW r \in TxRow
  PROVE  /\ r.pc \in {"idle", "reported", "summing", "retried", "cancelled", "cancelling",
                      "completing", "marked", "expiring"}
         /\ r.pc = "idle" <=> r = Idle
         /\ r.pc = "reported" <=> r \in ReportRow
         /\ r.pc = "summing" <=> r \in SumRow
         /\ r.pc = "retried" <=> r \in RetryRow
         /\ r.pc = "cancelling" <=> r \in CancelRow
         /\ r.pc = "completing" <=> r \in CompleteRow
         /\ r.pc = "marked" <=> r \in MarkRow
         /\ r.pc = "expiring" <=> r \in ExpireRow
<1> USE DEF Idle, ReportRow, SumRow, RetryRow, CancelRow, CompleteRow, MarkRow, ExpireRow
<1>1. CASE r = Idle
  BY <1>1
<1>2. CASE r \in ReportRow
  BY <1>2
<1>3. CASE r \in SumRow
  BY <1>3
<1>4. CASE r \in RetryRow
  BY <1>4
<1>5. CASE r \in [pc : {"cancelled"}]
  BY <1>5
<1>6. CASE r \in CancelRow
  BY <1>6
<1>7. CASE r \in CompleteRow
  BY <1>7
<1>8. CASE r \in MarkRow
  BY <1>8
<1>9. CASE r \in ExpireRow
  BY <1>9
<1> HIDE DEF Idle, ReportRow, SumRow, RetryRow, CancelRow, CompleteRow, MarkRow, ExpireRow
<1>10. QED
  BY <1>1, <1>2, <1>3, <1>4, <1>5, <1>6, <1>7, <1>8, <1>9 DEF TxRow

\* An idle transaction locks nothing and counts on nothing.
LEMMA IdleFits ==
  ASSUME NEW k, NEW st, NEW rt, NEW rc, NEW fl
  PROVE  /\ Idle \in TxRow
         /\ Fits(Idle, k, st, rt, rc, fl)
         /\ \A q \in TxRow : Apart(Idle, q)
  BY DEF TxRow, Idle, Fits, FitsReport, FitsRetry, FitsCancel, FitsComplete, FitsExpiry,
         Apart, LocksTarget, LocksTask, LocksFile

LEMMA ApartSymmetric ==
  ASSUME NEW r, NEW q, Apart(r, q)
  PROVE  Apart(q, r)
  BY DEF Apart

\* The free rows of the model, by record.
LEMMA FreeRows ==
  /\ \A d : TargetFree(d) <=> \A u \in Transactions : ~LocksTarget(tx[u], d)
  /\ TaskFree <=> \A u \in Transactions : ~LocksTask(tx[u])
  /\ \A f : FileFree(f) <=> \A u \in Transactions : ~LocksFile(tx[u], f)
  BY DEF TargetFree, HoldsTarget, LocksTarget, TaskFree, HoldsTask, LocksTask,
         FileFree, HoldsFile, LocksFile

LEMMA AcceptedOpen ==
  ASSUME NEW s, NEW s1, Accepts(s, s1)
  PROVE  s # "EXPIRED" /\ (s \in Finished => s = "DELIVERED" /\ s1 = "READ")
  BY DEF Accepts, IsTerminal, Finished

(***************************************************************************)
(* A statement that changes no committed row keeps the invariant if what   *)
(* its transaction then counts on holds and it took only free locks.       *)
(***************************************************************************)
LEMMA StatementPreserves ==
  ASSUME IndInv, NEW t \in Transactions, NEW r \in TxRow,
         tx' = [tx EXCEPT ![t] = r], UNCHANGED rowVars,
         Fits(r, task, status, route, receipt, files),
         \A u \in Transactions : u # t => Apart(r, tx[u])
  PROVE  IndInv'
<1>1. tx \in [Transactions -> TxRow]
  BY TypedState DEF IndInv
<1>2. /\ tx' \in [Transactions -> TxRow]
      /\ \A u \in Transactions : tx'[u] = IF u = t THEN r ELSE tx[u]
  BY <1>1
<1>3. /\ task' = task /\ status' = status /\ route' = route
      /\ receipt' = receipt /\ files' = files /\ openFiles' = openFiles
  BY DEF rowVars
<1>4. TypeOK'
  BY <1>2, <1>3, TypedState
     DEF IndInv, TypeOK, TxRow, ReportRow, SumRow, RetryRow, CancelRow, CompleteRow, MarkRow, ExpireRow
<1>5. \A u \in Transactions : Fits(tx'[u], task', status', route', receipt', files')
  BY <1>2, <1>3 DEF IndInv
<1>6. \A u, v \in Transactions : u # v => Apart(tx'[u], tx'[v])
  BY <1>2, ApartSymmetric DEF IndInv
<1>7. TaskBacked' /\ \A d \in Devices : Receipted(status'[d], receipt'[d])
  BY <1>3 DEF IndInv, TaskBacked, BodiesGone
<1>8. QED
  BY <1>4, <1>5, <1>6, <1>7 DEF IndInv

\* So does a statement that only ends its transaction.
LEMMA RollbackPreserves ==
  ASSUME IndInv, NEW t \in Transactions, Rollback(t)
  PROVE  IndInv'
<1>1. tx \in [Transactions -> TxRow]
  BY TypedState DEF IndInv
<1>2. /\ Idle \in TxRow /\ Fits(Idle, task, status, route, receipt, files)
      /\ \A u \in Transactions : Apart(Idle, tx[u])
  BY <1>1, IdleFits
<1>3. QED
  BY <1>2, StatementPreserves DEF Rollback

(***************************************************************************)
(* What another transaction q is spared by a step that changes rows, and   *)
(* what such a step never undoes.                                          *)
(***************************************************************************)
Spared(q) ==
  /\ \A d \in Devices : LocksTarget(q, d) => status'[d] = status[d]
  /\ LocksTask(q) =>
       /\ task' = task
       /\ \A d \in Devices : status[d] \in Settled => status'[d] \in Settled
  /\ \A f \in Files : LocksFile(q, f) => files'[f] = files[f]

Lasting ==
  /\ route' = route
  /\ \A d \in Devices : /\ receipt[d] = "READ" => receipt'[d] = "READ"
                        /\ receipt[d] # "NONE" => receipt'[d] # "NONE"
  /\ \A f \in Files : files[f] = "EXPIRED" => files'[f] = "EXPIRED"

LEMMA SparedFits ==
  ASSUME NEW q \in TxRow, Fits(q, task, status, route, receipt, files), Spared(q), Lasting
  PROVE  Fits(q, task', status', route', receipt', files')
<1>1. q.pc \in {"reported", "summing", "retried"} =>
        q.device \in Devices /\ status'[q.device] = status[q.device]
  BY RowKinds DEF Spared, LocksTarget, ReportRow, SumRow, RetryRow
<1>2. FitsReport(q, status', receipt')
  BY <1>1 DEF Fits, FitsReport, Lasting, Receipted
<1>3. FitsRetry(q, status')
  BY <1>1 DEF Fits, FitsRetry
<1>4. FitsCancel(q, task', status')
  BY DEF Fits, FitsCancel, Spared, LocksTask, LocksTarget
<1>5. FitsComplete(q, route', files')
  <2>1. q.pc = "completing" => q.file \in Files /\ files'[q.file] = files[q.file]
    BY RowKinds DEF Spared, LocksFile, CompleteRow
  <2>2. QED
    BY <2>1 DEF Fits, FitsComplete, Lasting
<1>6. FitsExpiry(q, files')
  BY DEF Fits, FitsExpiry, LastLive, Lasting
<1>7. QED
  BY <1>2, <1>3, <1>4, <1>5, <1>6 DEF Fits

\* A step that changes rows, and ends transactions or lets them be.
LEMMA RowsPreserve ==
  ASSUME IndInv, Lasting,
         task' \in TransferStatuses, status' \in [Devices -> TransferStatuses],
         receipt' \in [Devices -> Receipts], files' \in [Files -> FileStatuses],
         openFiles' \subseteq Files, tx' \in [Transactions -> TxRow],
         \A u \in Transactions : tx'[u] = Idle \/ (tx'[u] = tx[u] /\ Spared(tx[u])),
         \A d \in Devices : Receipted(status'[d], receipt'[d]),
         TaskBacked'
  PROVE  IndInv'
<1>1. tx \in [Transactions -> TxRow]
  BY TypedState DEF IndInv
<1>2. TypeOK'
  <2>1. route' \in [Devices -> {"LAN", "NODE"}]
    BY TypedState DEF IndInv, Lasting
  <2>2. QED
    BY <2>1 DEF TypeOK, TxRow, ReportRow, SumRow, RetryRow, CancelRow, CompleteRow, MarkRow,
                ExpireRow, Receipts, FileStatuses
<1>3. ASSUME NEW u \in Transactions PROVE Fits(tx'[u], task', status', route', receipt', files')
  <2>1. CASE tx'[u] = Idle
    BY <2>1, IdleFits
  <2>2. CASE tx'[u] = tx[u] /\ Spared(tx[u])
    <3>1. tx[u] \in TxRow /\ Fits(tx[u], task, status, route, receipt, files)
      BY <1>1 DEF IndInv
    <3>2. Fits(tx[u], task', status', route', receipt', files')
      BY <2>2, <3>1, SparedFits
    <3>3. QED
      BY <2>2, <3>2
  <2>3. QED
    BY <2>1, <2>2
<1>4. \A u, v \in Transactions : u # v => Apart(tx'[u], tx'[v])
  BY <1>1, IdleFits, ApartSymmetric DEF IndInv
<1>5. QED
  BY <1>2, <1>3, <1>4 DEF IndInv

-----------------------------------------------------------------------------
(***************************************************************************)
(* The statements of a report and of a retry.                              *)
(***************************************************************************)
LEMMA ReportTargetPreserves ==
  ASSUME IndInv, NEW t \in Transactions, NEW d \in Devices, NEW s \in Reports, ReportTarget(t, d, s)
  PROVE  IndInv'
<1> DEFINE r == [pc |-> "reported", device |-> d, report |-> s]
<1>1. r \in ReportRow /\ r.pc = "reported" /\ r.device = d /\ r.report = s
  BY DEF ReportRow
<1>2. tx' = [tx EXCEPT ![t] = r] /\ UNCHANGED rowVars /\ Accepts(status[d], s)
  BY DEF ReportTarget
<1>3. \A u \in Transactions : ~LocksTarget(tx[u], d)
  BY FreeRows DEF ReportTarget
<1> HIDE DEF r
<1>4. r \in TxRow /\ Fits(r, task, status, route, receipt, files)
  BY <1>1, <1>2 DEF TxRow, Fits, FitsReport, FitsRetry, FitsCancel, FitsComplete, FitsExpiry
<1>5. \A u \in Transactions : Apart(r, tx[u])
  BY <1>1, <1>3 DEF Apart, LocksTarget, LocksTask, LocksFile
<1>6. QED
  BY <1>2, <1>4, <1>5, StatementPreserves

LEMMA SnapshotTargetsPreserves ==
  ASSUME IndInv, NEW t \in Transactions, SnapshotTargets(t)
  PROVE  IndInv'
<1> DEFINE d == tx[t].device
           s == tx[t].report
           seen == [status EXCEPT ![d] = s]
           r == [pc |-> "summing", device |-> d, report |-> s, seen |-> seen]
<1>1. tx \in [Transactions -> TxRow] /\ status \in [Devices -> TransferStatuses]
  BY TypedState DEF IndInv
<1>2. tx[t] \in ReportRow /\ tx[t].pc = "reported"
  BY <1>1, RowKinds DEF SnapshotTargets
<1>3. d \in Devices /\ s \in Reports /\ s \in TransferStatuses
  BY <1>2, ReportsAssumption DEF ReportRow, ReportableStatuses
<1>4. Accepts(status[d], s)
  BY <1>2 DEF IndInv, Fits, FitsReport
<1>5. tx' = [tx EXCEPT ![t] = r] /\ UNCHANGED rowVars
  BY <1>1 DEF SnapshotTargets
<1>6. /\ seen \in [Devices -> TransferStatuses]
      /\ \A e \in Devices : seen[e] = IF e = d THEN s ELSE status[e]
  BY <1>1, <1>3
<1> HIDE DEF seen
<1>7. r \in SumRow /\ r.pc = "summing" /\ r.device = d /\ r.report = s /\ r.seen = seen
  BY <1>3, <1>6 DEF SumRow
<1> HIDE DEF r, d, s
<1>8. r \in TxRow
  BY <1>7 DEF TxRow
<1>9. FitsReport(r, status, receipt)
  BY <1>3, <1>4, <1>6, <1>7 DEF FitsReport, IndInv
<1>10. Fits(r, task, status, route, receipt, files)
  BY <1>7, <1>9 DEF Fits, FitsRetry, FitsCancel, FitsComplete, FitsExpiry
<1>11. ASSUME NEW u \in Transactions, u # t PROVE Apart(r, tx[u])
  <2>1. Apart(tx[t], tx[u])
    BY <1>11 DEF IndInv
  <2>2. QED
    BY <1>2, <1>7, <2>1 DEF d, Apart, LocksTarget, LocksTask, LocksFile
<1>12. QED
  BY <1>5, <1>8, <1>10, <1>11, StatementPreserves

LEMMA RetryTargetPreserves ==
  ASSUME IndInv, NEW t \in Transactions, NEW d \in Devices, RetryTarget(t, d)
  PROVE  IndInv'
<1> DEFINE r == [pc |-> "retried", device |-> d]
<1>1. r \in RetryRow /\ r.pc = "retried" /\ r.device = d
  BY DEF RetryRow
<1>2. tx' = [tx EXCEPT ![t] = r] /\ UNCHANGED rowVars /\ status[d] \in Restartable
  BY DEF RetryTarget, Restartable
<1>3. \A u \in Transactions : ~LocksTarget(tx[u], d)
  BY FreeRows DEF RetryTarget
<1> HIDE DEF r
<1>4. r \in TxRow /\ Fits(r, task, status, route, receipt, files)
  BY <1>1, <1>2 DEF TxRow, Fits, FitsReport, FitsRetry, FitsCancel, FitsComplete, FitsExpiry
<1>5. \A u \in Transactions : Apart(r, tx[u])
  BY <1>1, <1>3 DEF Apart, LocksTarget, LocksTask, LocksFile
<1>6. QED
  BY <1>2, <1>4, <1>5, StatementPreserves

-----------------------------------------------------------------------------
(***************************************************************************)
(* The statements of a cancellation.                                       *)
(***************************************************************************)
LEMMA CancelTaskPreserves ==
  ASSUME IndInv, NEW t \in Transactions, CancelTask(t)
  PROVE  IndInv'
<1> DEFINE r == [pc |-> "cancelled"]
<1>1. r \in TxRow /\ r.pc = "cancelled"
  BY DEF TxRow
<1>2. tx' = [tx EXCEPT ![t] = r] /\ UNCHANGED rowVars /\ task \notin Finished
  BY DEF CancelTask
<1>3. \A u \in Transactions : ~LocksTask(tx[u])
  BY FreeRows DEF CancelTask
<1> HIDE DEF r
<1>4. Fits(r, task, status, route, receipt, files)
  BY <1>1, <1>2 DEF Fits, FitsReport, FitsRetry, FitsCancel, FitsComplete, FitsExpiry
<1>5. \A u \in Transactions : Apart(r, tx[u])
  BY <1>1, <1>3 DEF Apart, LocksTarget, LocksTask, LocksFile
<1>6. QED
  BY <1>1, <1>2, <1>4, <1>5, StatementPreserves

LEMMA SnapshotUnfinishedPreserves ==
  ASSUME IndInv, NEW t \in Transactions, SnapshotUnfinished(t)
  PROVE  IndInv'
<1> DEFINE todo == {d \in Devices : status[d] \notin Finished}
           r == [pc |-> "cancelling", hit |-> {}, todo |-> todo]
<1>1. todo \in SUBSET Devices /\ \A d \in Devices : d \notin todo => status[d] \in Settled
  BY DEF Settled
<1>2. tx' = [tx EXCEPT ![t] = r] /\ UNCHANGED rowVars /\ tx[t].pc = "cancelled"
  BY DEF SnapshotUnfinished
<1> HIDE DEF todo
<1>3. r \in CancelRow /\ r.pc = "cancelling" /\ r.hit = {} /\ r.todo = todo
  BY <1>1 DEF CancelRow
<1> HIDE DEF r
<1>4. task \notin Finished
  BY <1>2 DEF IndInv, Fits, FitsCancel
<1>5. r \in TxRow /\ Fits(r, task, status, route, receipt, files)
  BY <1>1, <1>3, <1>4 DEF TxRow, Fits, FitsReport, FitsRetry, FitsCancel, FitsComplete, FitsExpiry
<1>6. ASSUME NEW u \in Transactions, u # t PROVE Apart(r, tx[u])
  <2>1. Apart(tx[t], tx[u])
    BY <1>6 DEF IndInv
  <2>2. QED
    BY <1>2, <1>3, <2>1 DEF Apart, LocksTarget, LocksTask, LocksFile
<1>7. QED
  BY <1>2, <1>5, <1>6, StatementPreserves

LEMMA CancelTargetPreserves ==
  ASSUME IndInv, NEW t \in Transactions, NEW d \in Devices, CancelTarget(t, d)
  PROVE  IndInv'
<1> DEFINE hit == IF StillUnfinished(d) THEN tx[t].hit \cup {d} ELSE tx[t].hit
           r == [tx[t] EXCEPT !.todo = tx[t].todo \ {d}, !.hit = hit]
<1>1. tx \in [Transactions -> TxRow]
  BY TypedState DEF IndInv
<1>2. tx[t] \in CancelRow /\ tx[t].pc = "cancelling"
  BY <1>1, RowKinds DEF CancelTarget
<1>3. tx[t].hit \in SUBSET Devices /\ tx[t].todo \in SUBSET Devices
  BY <1>2 DEF CancelRow
<1>4. /\ hit \in SUBSET Devices
      /\ \A e \in Devices : e \in hit <=> e \in tx[t].hit \/ (e = d /\ status[d] \notin Finished)
  BY <1>3 DEF StillUnfinished
<1>5. tx' = [tx EXCEPT ![t] = r] /\ UNCHANGED rowVars
  BY <1>1 DEF CancelTarget
<1> HIDE DEF hit
<1>6. r \in CancelRow /\ r.pc = "cancelling" /\ r.todo = tx[t].todo \ {d} /\ r.hit = hit
  BY <1>2, <1>3, <1>4 DEF CancelRow
<1> HIDE DEF r
<1>7. FitsCancel(tx[t], task, status)
  BY DEF IndInv, Fits
<1>8. FitsCancel(r, task, status)
  BY <1>2, <1>4, <1>6, <1>7 DEF FitsCancel, Settled
<1>9. r \in TxRow /\ Fits(r, task, status, route, receipt, files)
  BY <1>6, <1>8 DEF TxRow, Fits, FitsReport, FitsRetry, FitsComplete, FitsExpiry
<1>10. ASSUME NEW u \in Transactions, u # t PROVE Apart(r, tx[u])
  <2>1. Apart(tx[t], tx[u])
    BY <1>10 DEF IndInv
  <2>2. ~LocksTarget(tx[u], d)
    BY FreeRows DEF CancelTarget
  <2>3. \A e \in Devices : LocksTarget(r, e) => e = d \/ LocksTarget(tx[t], e)
    BY <1>2, <1>4, <1>6 DEF LocksTarget
  <2>4. QED
    BY <1>2, <1>6, <2>1, <2>2, <2>3 DEF Apart, LocksTask, LocksFile
<1>11. QED
  BY <1>5, <1>9, <1>10, StatementPreserves

-----------------------------------------------------------------------------
(***************************************************************************)
(* The statements of a completion and of an expiry.                        *)
(***************************************************************************)
LEMMA UploadDonePreserves ==
  ASSUME IndInv, NEW t \in Transactions, NEW f \in Files, UploadDone(t, f)
  PROVE  IndInv'
<1> DEFINE r == [pc |-> "completing", file |-> f, todo |-> NodeTargets, hit |-> {}]
<1>1. NodeTargets \in SUBSET Devices /\ \A d \in NodeTargets : route[d] = "NODE"
  BY DEF NodeTargets
<1>2. /\ r \in CompleteRow /\ r.pc = "completing" /\ r.file = f
      /\ r.todo = NodeTargets /\ r.hit = {}
  BY <1>1 DEF CompleteRow
<1>3. tx' = [tx EXCEPT ![t] = r] /\ UNCHANGED rowVars /\ files[f] = "UPLOADING"
  BY DEF UploadDone
<1>4. \A u \in Transactions : ~LocksFile(tx[u], f)
  BY FreeRows DEF UploadDone
<1> HIDE DEF r
<1>5. r \in TxRow /\ Fits(r, task, status, route, receipt, files)
  BY <1>1, <1>2, <1>3 DEF TxRow, Fits, FitsReport, FitsRetry, FitsCancel, FitsComplete, FitsExpiry
<1>6. \A u \in Transactions : Apart(r, tx[u])
  BY <1>2, <1>4 DEF Apart, LocksTarget, LocksTask, LocksFile
<1>7. QED
  BY <1>3, <1>5, <1>6, StatementPreserves

LEMMA MarkFilePreserves ==
  ASSUME IndInv, NEW t \in Transactions, NEW f \in Files, MarkFile(t, f)
  PROVE  IndInv'
<1> DEFINE r == [pc |-> "marked", file |-> f]
<1>1. r \in MarkRow /\ r.pc = "marked" /\ r.file = f
  BY DEF MarkRow
<1>2. tx' = [tx EXCEPT ![t] = r] /\ UNCHANGED rowVars
  BY DEF MarkFile
<1>3. \A u \in Transactions : ~LocksFile(tx[u], f)
  BY FreeRows DEF MarkFile
<1> HIDE DEF r
<1>4. r \in TxRow /\ Fits(r, task, status, route, receipt, files)
  BY <1>1 DEF TxRow, Fits, FitsReport, FitsRetry, FitsCancel, FitsComplete, FitsExpiry
<1>5. \A u \in Transactions : Apart(r, tx[u])
  BY <1>1, <1>3 DEF Apart, LocksTarget, LocksTask, LocksFile
<1>6. QED
  BY <1>2, <1>4, <1>5, StatementPreserves

LEMMA SnapshotFilesPreserves ==
  ASSUME IndInv, NEW t \in Transactions, SnapshotFiles(t)
  PROVE  IndInv'
<1> DEFINE f == tx[t].file
           todo == IF LastLiveFile(f) THEN Devices ELSE {}
           r == [pc |-> "expiring", file |-> f, hit |-> {}, todo |-> todo]
<1>1. tx \in [Transactions -> TxRow]
  BY TypedState DEF IndInv
<1>2. tx[t] \in MarkRow /\ tx[t].pc = "marked"
  BY <1>1, RowKinds DEF SnapshotFiles
<1>3. f \in Files
  BY <1>2 DEF MarkRow
<1>4. todo \in SUBSET Devices /\ (todo = {} \/ (todo = Devices /\ LastLive(f, files)))
  BY DEF LastLiveFile, LastLive
<1>5. tx' = [tx EXCEPT ![t] = r] /\ UNCHANGED rowVars
  BY <1>1 DEF SnapshotFiles
<1> HIDE DEF todo
<1>6. r \in ExpireRow /\ r.pc = "expiring" /\ r.file = f /\ r.hit = {} /\ r.todo = todo
  BY <1>3, <1>4 DEF ExpireRow
<1> HIDE DEF r, f
<1>7. r \in TxRow /\ Fits(r, task, status, route, receipt, files)
  BY <1>4, <1>6 DEF TxRow, Fits, FitsReport, FitsRetry, FitsCancel, FitsComplete, FitsExpiry
<1>8. ASSUME NEW u \in Transactions, u # t PROVE Apart(r, tx[u])
  <2>1. Apart(tx[t], tx[u])
    BY <1>8 DEF IndInv
  <2>2. QED
    BY <1>2, <1>6, <2>1 DEF f, Apart, LocksTarget, LocksTask, LocksFile
<1>9. QED
  BY <1>5, <1>7, <1>8, StatementPreserves

LEMMA TakeTargetPreserves ==
  ASSUME IndInv, NEW t \in Transactions, NEW d \in Devices, TakeTarget(t, d)
  PROVE  IndInv'
<1> DEFINE r == [tx[t] EXCEPT !.todo = tx[t].todo \ {d}, !.hit = tx[t].hit \cup {d}]
<1>1. tx \in [Transactions -> TxRow]
  BY TypedState DEF IndInv
<1>2. /\ tx[t] \in CompleteRow \/ tx[t] \in ExpireRow
      /\ tx[t].pc \in {"completing", "expiring"} /\ d \in tx[t].todo
  BY <1>1, RowKinds DEF TakeTarget
<1>3. tx[t].hit \in SUBSET Devices /\ tx[t].todo \in SUBSET Devices
  BY <1>2 DEF CompleteRow, ExpireRow
<1>4. tx' = [tx EXCEPT ![t] = r] /\ UNCHANGED rowVars
  BY <1>1 DEF TakeTarget
<1>5. /\ r \in TxRow /\ r.pc = tx[t].pc /\ r.file = tx[t].file
      /\ r.todo = tx[t].todo \ {d} /\ r.hit = tx[t].hit \cup {d}
  BY <1>2, <1>3 DEF TxRow, CompleteRow, ExpireRow
<1> HIDE DEF r
<1>6. FitsComplete(tx[t], route, files) /\ FitsExpiry(tx[t], files)
  BY DEF IndInv, Fits
<1>7. \A e \in Devices : (e \in r.todo \/ e \in r.hit) <=> (e \in tx[t].todo \/ e \in tx[t].hit)
  BY <1>2, <1>5
<1>8. r.todo \cup r.hit = tx[t].todo \cup tx[t].hit
  BY <1>2, <1>3, <1>5
<1>9. FitsComplete(r, route, files) /\ FitsExpiry(r, files)
  BY <1>2, <1>5, <1>6, <1>7, <1>8 DEF FitsComplete, FitsExpiry
<1>10. Fits(r, task, status, route, receipt, files)
  BY <1>2, <1>5, <1>9 DEF Fits, FitsReport, FitsRetry, FitsCancel
<1>11. ASSUME NEW u \in Transactions, u # t PROVE Apart(r, tx[u])
  <2>1. Apart(tx[t], tx[u])
    BY <1>11 DEF IndInv
  <2>2. ~LocksTarget(tx[u], d)
    BY FreeRows DEF TakeTarget
  <2>3. \A e \in Devices : LocksTarget(r, e) => e = d \/ LocksTarget(tx[t], e)
    BY <1>2, <1>5 DEF LocksTarget
  <2>4. QED
    BY <1>2, <1>5, <2>1, <2>2, <2>3 DEF Apart, LocksTask, LocksFile
<1>12. QED
  BY <1>4, <1>5, <1>10, <1>11, StatementPreserves

-----------------------------------------------------------------------------
(***************************************************************************)
(* Commits change only rows their transaction holds, so they spare the     *)
(* others.                                                                 *)
(***************************************************************************)
LEMMA CommitSpares ==
  ASSUME IndInv, NEW t \in Transactions, tx' = [tx EXCEPT ![t] = Idle],
         \A d \in Devices : status'[d] # status[d] => LocksTarget(tx[t], d),
         \A f \in Files : files'[f] # files[f] => LocksFile(tx[t], f),
         \/ \A u \in Transactions : u # t => ~LocksTask(tx[u])
         \/ task' = task /\ \A d \in Devices : status[d] \in Settled => status'[d] \in Settled
  PROVE  /\ tx' \in [Transactions -> TxRow]
         /\ \A u \in Transactions : tx'[u] = Idle \/ (tx'[u] = tx[u] /\ Spared(tx[u]))
<1>1. tx \in [Transactions -> TxRow]
  BY TypedState DEF IndInv
<1>2. /\ tx' \in [Transactions -> TxRow]
      /\ \A u \in Transactions : tx'[u] = IF u = t THEN Idle ELSE tx[u]
  BY <1>1, IdleFits
<1>3. ASSUME NEW u \in Transactions, u # t PROVE Spared(tx[u])
  <2>1. Apart(tx[t], tx[u])
    BY <1>3 DEF IndInv
  <2>2. QED
    BY <1>3, <2>1 DEF Apart, Spared
<1>4. QED
  BY <1>2, <1>3

LEMMA CommitReportEffect ==
  ASSUME IndInv, NEW t \in Transactions, CommitReport(t)
  PROVE  /\ status' \in [Devices -> TransferStatuses]
         /\ receipt' \in [Devices -> Receipts]
         /\ \A d \in Devices : status'[d] # status[d] =>
              LocksTarget(tx[t], d) /\ Accepts(status[d], status'[d])
         /\ Lasting
         /\ \A d \in Devices : Receipted(status'[d], receipt'[d])
         /\ task # "EXPIRED"
<1> DEFINE d == tx[t].device
           s == tx[t].report
<1>1. /\ status \in [Devices -> TransferStatuses] /\ receipt \in [Devices -> Receipts]
      /\ tx \in [Transactions -> TxRow]
  BY TypedState DEF IndInv
<1>2. tx[t] \in SumRow /\ tx[t].pc = "summing"
  BY <1>1, RowKinds DEF CommitReport
<1>3. d \in Devices /\ s \in TransferStatuses
  BY <1>2, ReportsAssumption DEF SumRow, ReportableStatuses
<1>4. Accepts(status[d], s) /\ LocksTarget(tx[t], d)
  BY <1>2 DEF IndInv, Fits, FitsReport, LocksTarget
<1>5. /\ status' = [status EXCEPT ![d] = s]
      /\ receipt' = [receipt EXCEPT ![d] = ReceiptAfter(receipt[d], s)]
      /\ route' = route /\ files' = files
  BY <1>1, <1>3 DEF CommitReport
<1> HIDE DEF d, s
<1>6. ReceiptAfter(receipt[d], s) \in Receipts
  BY <1>1, <1>3 DEF ReceiptAfter, Receipts
<1>7. /\ status' \in [Devices -> TransferStatuses] /\ receipt' \in [Devices -> Receipts]
      /\ \A e \in Devices : /\ status'[e] = IF e = d THEN s ELSE status[e]
                            /\ receipt'[e] = IF e = d THEN ReceiptAfter(receipt[d], s) ELSE receipt[e]
  BY <1>1, <1>3, <1>5, <1>6
<1>8. Lasting
  BY <1>3, <1>5, <1>7 DEF Lasting, ReceiptAfter
<1>9. Receipted(s, ReceiptAfter(receipt[d], s))
  BY DEF Receipted, ReceiptAfter
<1>10. \A e \in Devices : Receipted(status'[e], receipt'[e])
  BY <1>7, <1>9 DEF IndInv
<1>11. task # "EXPIRED"
  BY <1>3, <1>4, AcceptedOpen DEF IndInv, TaskBacked
<1>12. QED
  BY <1>4, <1>7, <1>8, <1>10, <1>11

(***************************************************************************)
(* The summary of an old snapshot is backed by receipts all the same.      *)
(***************************************************************************)
LEMMA SummaryBacked ==
  ASSUME IndInv, NEW t \in Transactions, CommitReport(t)
  PROVE  task' \in TransferStatuses /\ TaskBacked'
<1> DEFINE d == tx[t].device
           s == tx[t].report
           seen == tx[t].seen
<1>1. /\ status \in [Devices -> TransferStatuses] /\ receipt \in [Devices -> Receipts]
      /\ task \in TransferStatuses /\ tx \in [Transactions -> TxRow]
  BY TypedState DEF IndInv
<1>2. tx[t] \in SumRow /\ tx[t].pc = "summing"
  BY <1>1, RowKinds DEF CommitReport
<1>3. d \in Devices /\ s \in ReportableStatuses /\ seen \in [Devices -> TransferStatuses]
  BY <1>2, ReportsAssumption DEF SumRow
<1>4. seen[d] = s /\ \A e \in Devices : e # d => Receipted(seen[e], receipt[e])
  BY <1>2 DEF IndInv, Fits, FitsReport
<1>5. /\ status' = [status EXCEPT ![d] = s]
      /\ receipt' = [receipt EXCEPT ![d] = ReceiptAfter(receipt[d], s)]
      /\ task' = TaskAfter(seen, s, task)
  BY <1>1, <1>3 DEF CommitReport
<1> HIDE DEF d, s, seen
<1>6. \A e \in Devices : /\ status'[e] = IF e = d THEN s ELSE status[e]
                         /\ receipt'[e] = IF e = d THEN ReceiptAfter(receipt[d], s) ELSE receipt[e]
  BY <1>1, <1>3, <1>5
<1>7. \A e \in Devices : Receipted(seen[e], receipt'[e])
  BY <1>3, <1>4, <1>6 DEF Receipted, ReceiptAfter
<1>8. task # "EXPIRED" /\ Lasting
  BY CommitReportEffect
<1>9. DOMAIN seen = Devices
  BY <1>3
<1> DEFINE Read == \A e \in Devices : seen[e] = "READ"
           Arrived == \A e \in Devices : seen[e] \in {"DELIVERED", "READ"}
           Lost == \A e \in Devices : seen[e] \in {"FAILED", "CANCELLED", "EXPIRED"}
<1>10. CASE Read
  <2>1. task' = "READ"
    BY <1>3, <1>5, <1>9, <1>10 DEF TaskAfter
  <2>2. QED
    BY <1>7, <1>10, <2>1 DEF TaskBacked, Receipted, TransferStatuses
<1>11. CASE ~Read /\ Arrived
  <2>1. task' = "DELIVERED"
    BY <1>3, <1>5, <1>9, <1>11 DEF TaskAfter
  <2>2. \A e \in Devices : receipt'[e] # "NONE"
    BY <1>7, <1>11 DEF Receipted
  <2>3. QED
    BY <2>1, <2>2 DEF TaskBacked, TransferStatuses
<1>12. CASE ~Arrived /\ Lost
  <2>1. task' = "FAILED"
    BY <1>3, <1>5, <1>9, <1>12 DEF TaskAfter
  <2>2. QED
    BY <2>1 DEF TaskBacked, TransferStatuses
<1>13. CASE ~Arrived /\ ~Lost
  <2>1. task' = IF s \in {"DELIVERED", "READ", "FAILED"} THEN task ELSE s
    BY <1>3, <1>5, <1>9, <1>13 DEF TaskAfter
  <2>2. CASE s \notin {"DELIVERED", "READ", "FAILED"}
    BY <1>3, <2>1, <2>2 DEF TaskBacked, ReportableStatuses
  <2>3. CASE s \in {"DELIVERED", "READ", "FAILED"}
    <3>1. task = "CANCELLED" => \A e \in Devices : status'[e] \in Finished \cup {"AVAILABLE_ON_NODE"}
      BY <1>6, <2>3 DEF IndInv, TaskBacked, Finished
    <3>2. task = "READ" => \A e \in Devices : receipt'[e] = "READ"
      BY <1>8 DEF IndInv, TaskBacked, Lasting
    <3>3. task = "DELIVERED" => \A e \in Devices : receipt'[e] # "NONE"
      BY <1>8 DEF IndInv, TaskBacked, Lasting
    <3>4. task' = task
      BY <2>1, <2>3
    <3>5. QED
      BY <1>1, <1>8, <3>1, <3>2, <3>3, <3>4 DEF TaskBacked
  <2>4. QED
    BY <2>2, <2>3
<1>14. QED
  BY <1>10, <1>11, <1>12, <1>13

LEMMA CommitReportPreserves ==
  ASSUME IndInv, NEW t \in Transactions, CommitReport(t)
  PROVE  IndInv'
<1>1. files \in [Files -> FileStatuses] /\ openFiles \subseteq Files
  BY TypedState DEF IndInv
<1>2. files' = files /\ openFiles' = openFiles /\ tx' = [tx EXCEPT ![t] = Idle]
  BY DEF CommitReport
<1>3. \A u \in Transactions : ~LocksTask(tx[u])
  BY FreeRows DEF CommitReport
<1>4. /\ tx' \in [Transactions -> TxRow]
      /\ \A u \in Transactions : tx'[u] = Idle \/ (tx'[u] = tx[u] /\ Spared(tx[u]))
  BY <1>2, <1>3, CommitReportEffect, CommitSpares
<1>5. QED
  BY <1>1, <1>2, <1>4, CommitReportEffect, SummaryBacked, RowsPreserve

LEMMA CommitRetryEffect ==
  ASSUME IndInv, NEW t \in Transactions, CommitRetry(t)
  PROVE  /\ status' \in [Devices -> TransferStatuses]
         /\ \A d \in Devices : status'[d] # status[d] =>
              /\ LocksTarget(tx[t], d)
              /\ status[d] \in Restartable /\ status'[d] = "CHECKING_ROUTE"
<1>1. status \in [Devices -> TransferStatuses] /\ tx \in [Transactions -> TxRow]
  BY TypedState DEF IndInv
<1>2. tx[t] \in RetryRow /\ tx[t].pc = "retried"
  BY <1>1, RowKinds DEF CommitRetry
<1>3. tx[t].device \in Devices
  BY <1>2 DEF RetryRow
<1>4. status[tx[t].device] \in Restartable /\ LocksTarget(tx[t], tx[t].device)
  BY <1>2 DEF IndInv, Fits, FitsRetry, LocksTarget
<1>5. status' = [status EXCEPT ![tx[t].device] = "CHECKING_ROUTE"]
  BY DEF CommitRetry
<1>6. QED
  BY <1>1, <1>3, <1>4, <1>5 DEF TransferStatuses

LEMMA CommitRetryPreserves ==
  ASSUME IndInv, NEW t \in Transactions, CommitRetry(t)
  PROVE  IndInv'
<1>1. /\ receipt \in [Devices -> Receipts] /\ files \in [Files -> FileStatuses]
      /\ openFiles \subseteq Files
  BY TypedState DEF IndInv
<1>2. /\ route' = route /\ receipt' = receipt /\ files' = files /\ openFiles' = openFiles
      /\ tx' = [tx EXCEPT ![t] = Idle] /\ task' = "CHECKING_ROUTE"
  BY DEF CommitRetry
<1>3. \A u \in Transactions : ~LocksTask(tx[u])
  BY FreeRows DEF CommitRetry
<1>4. /\ tx' \in [Transactions -> TxRow]
      /\ \A u \in Transactions : tx'[u] = Idle \/ (tx'[u] = tx[u] /\ Spared(tx[u]))
  BY <1>2, <1>3, CommitRetryEffect, CommitSpares
<1>5. TaskBacked' /\ task' \in TransferStatuses /\ Lasting
  BY <1>2 DEF TaskBacked, TransferStatuses, Lasting
<1>6. \A d \in Devices : Receipted(status'[d], receipt'[d])
  BY <1>2, CommitRetryEffect DEF IndInv, Receipted
<1>7. QED
  BY <1>1, <1>2, <1>4, <1>5, <1>6, CommitRetryEffect, RowsPreserve

LEMMA CommitCancelEffect ==
  ASSUME IndInv, NEW t \in Transactions, CommitCancel(t)
  PROVE  /\ status' \in [Devices -> TransferStatuses]
         /\ \A d \in Devices : status'[d] # status[d] =>
              LocksTarget(tx[t], d) /\ status[d] \notin Finished /\ status'[d] = "CANCELLED"
         /\ \A d \in Devices : status'[d] \in Settled
         /\ LocksTask(tx[t])
<1>1. status \in [Devices -> TransferStatuses] /\ tx \in [Transactions -> TxRow]
  BY TypedState DEF IndInv
<1>2. tx[t] \in CancelRow /\ tx[t].pc = "cancelling" /\ tx[t].todo = {}
  BY <1>1, RowKinds DEF CommitCancel
<1>3. /\ \A d \in Devices : d \in tx[t].hit => status[d] \notin Finished
      /\ \A d \in Devices : d \notin tx[t].hit => status[d] \in Settled
  BY <1>2 DEF IndInv, Fits, FitsCancel
<1>4. /\ status' \in [Devices -> TransferStatuses]
      /\ \A d \in Devices : status'[d] = IF d \in tx[t].hit THEN "CANCELLED" ELSE status[d]
  BY <1>1 DEF CommitCancel, TransferStatuses
<1>5. LocksTask(tx[t]) /\ \A d \in Devices : d \in tx[t].hit => LocksTarget(tx[t], d)
  BY <1>2 DEF LocksTask, LocksTarget
<1>6. QED
  BY <1>3, <1>4, <1>5 DEF Settled, Finished

LEMMA CommitCancelPreserves ==
  ASSUME IndInv, NEW t \in Transactions, CommitCancel(t)
  PROVE  IndInv'
<1>1. receipt \in [Devices -> Receipts] /\ files \in [Files -> FileStatuses]
  BY TypedState DEF IndInv
<1>2. /\ route' = route /\ receipt' = receipt /\ files' = files /\ openFiles' = {}
      /\ tx' = [tx EXCEPT ![t] = Idle] /\ task' = "CANCELLED"
  BY DEF CommitCancel
<1>3. \A u \in Transactions : u # t => ~LocksTask(tx[u])
  BY CommitCancelEffect DEF IndInv, Apart
<1>4. /\ tx' \in [Transactions -> TxRow]
      /\ \A u \in Transactions : tx'[u] = Idle \/ (tx'[u] = tx[u] /\ Spared(tx[u]))
  BY <1>2, <1>3, CommitCancelEffect, CommitSpares
<1>5. TaskBacked' /\ task' \in TransferStatuses /\ Lasting
  BY <1>2, CommitCancelEffect DEF TaskBacked, Settled, TransferStatuses, Lasting
<1>6. \A d \in Devices : Receipted(status'[d], receipt'[d])
  BY <1>2, CommitCancelEffect DEF IndInv, Receipted
<1>7. openFiles' \subseteq Files
  BY <1>2
<1>8. QED
  BY <1>1, <1>2, <1>4, <1>5, <1>6, <1>7, CommitCancelEffect, RowsPreserve

LEMMA CommitCompleteEffect ==
  ASSUME IndInv, NEW t \in Transactions, CommitComplete(t)
  PROVE  /\ status' \in [Devices -> TransferStatuses]
         /\ \A d \in Devices : status'[d] # status[d] =>
              /\ LocksTarget(tx[t], d)
              /\ route[d] = "NODE" /\ status'[d] = "AVAILABLE_ON_NODE"
         /\ files' \in [Files -> FileStatuses]
         /\ \A f \in Files : files'[f] # files[f] => LocksFile(tx[t], f)
         /\ \A f \in Files : files[f] = "EXPIRED" => files'[f] = "EXPIRED"
         /\ \E f \in Files : files[f] = "UPLOADING" /\ files'[f] = "AVAILABLE_ON_NODE"
         /\ openFiles' \subseteq Files
<1>1. /\ status \in [Devices -> TransferStatuses] /\ tx \in [Transactions -> TxRow]
      /\ files \in [Files -> FileStatuses] /\ openFiles \subseteq Files
  BY TypedState DEF IndInv
<1>2. tx[t] \in CompleteRow /\ tx[t].pc = "completing"
  BY <1>1, RowKinds DEF CommitComplete
<1>3. tx[t].file \in Files
  BY <1>2 DEF CompleteRow
<1>4. /\ files[tx[t].file] = "UPLOADING"
      /\ \A d \in Devices : d \in tx[t].hit => route[d] = "NODE"
  BY <1>2 DEF IndInv, Fits, FitsComplete
<1>5. /\ LocksFile(tx[t], tx[t].file)
      /\ \A d \in Devices : d \in tx[t].hit => LocksTarget(tx[t], d)
  BY <1>2 DEF LocksFile, LocksTarget
<1>6. /\ status' \in [Devices -> TransferStatuses]
      /\ \A d \in Devices : status'[d] = IF d \in tx[t].hit THEN "AVAILABLE_ON_NODE" ELSE status[d]
  BY <1>1 DEF CommitComplete, TransferStatuses
<1>7. /\ files' \in [Files -> FileStatuses]
      /\ \A f \in Files : files'[f] = IF f = tx[t].file THEN "AVAILABLE_ON_NODE" ELSE files[f]
  BY <1>1, <1>3 DEF CommitComplete, FileStatuses
<1>8. openFiles' \subseteq Files
  BY <1>1, <1>3 DEF CommitComplete
<1>9. QED
  BY <1>3, <1>4, <1>5, <1>6, <1>7, <1>8

LEMMA CommitCompletePreserves ==
  ASSUME IndInv, NEW t \in Transactions, CommitComplete(t)
  PROVE  IndInv'
<1>1. receipt \in [Devices -> Receipts] /\ task \in TransferStatuses
  BY TypedState DEF IndInv
<1>2. /\ route' = route /\ receipt' = receipt /\ task' = task
      /\ tx' = [tx EXCEPT ![t] = Idle]
  BY DEF CommitComplete
<1>3. \A d \in Devices : status'[d] = status[d] \/ status'[d] = "AVAILABLE_ON_NODE"
  BY CommitCompleteEffect
<1>4. \A d \in Devices : status[d] \in Settled => status'[d] \in Settled
  BY <1>3 DEF Settled
<1>5. /\ tx' \in [Transactions -> TxRow]
      /\ \A u \in Transactions : tx'[u] = Idle \/ (tx'[u] = tx[u] /\ Spared(tx[u]))
  BY <1>2, <1>4, CommitCompleteEffect, CommitSpares
<1>6. Lasting
  BY <1>2, CommitCompleteEffect DEF Lasting
<1>7. \A d \in Devices : Receipted(status'[d], receipt'[d])
  BY <1>2, <1>3 DEF IndInv, Receipted
<1>8. ~BodiesGone
  BY CommitCompleteEffect DEF BodiesGone
<1>9. TaskBacked'
  BY <1>2, <1>3, <1>8 DEF IndInv, TaskBacked
<1>10. QED
  BY <1>1, <1>2, <1>5, <1>6, <1>7, <1>9, CommitCompleteEffect, RowsPreserve

LEMMA CommitExpiryEffect ==
  ASSUME IndInv, NEW t \in Transactions, CommitExpiry(t)
  PROVE  /\ status' \in [Devices -> TransferStatuses]
         /\ \A d \in Devices : status'[d] # status[d] => LocksTarget(tx[t], d)
         /\ \/ status' = status /\ task' = task
            \/ /\ \A d \in Devices : status'[d] = "EXPIRED"
               /\ BodiesGone' /\ TaskFree /\ task' = "EXPIRED"
         /\ files' \in [Files -> FileStatuses]
         /\ \A f \in Files : files'[f] # files[f] => LocksFile(tx[t], f)
         /\ \A f \in Files : files[f] = "EXPIRED" => files'[f] = "EXPIRED"
<1>1. /\ status \in [Devices -> TransferStatuses] /\ tx \in [Transactions -> TxRow]
      /\ files \in [Files -> FileStatuses]
  BY TypedState DEF IndInv
<1>2. tx[t] \in ExpireRow /\ tx[t].pc = "expiring" /\ tx[t].todo = {}
  BY <1>1, RowKinds DEF CommitExpiry
<1>3. tx[t].file \in Files /\ tx[t].hit \in SUBSET Devices
  BY <1>2 DEF ExpireRow
<1>4. tx[t].hit = {} \/ (tx[t].hit = Devices /\ LastLive(tx[t].file, files))
  <2>1. FitsExpiry(tx[t], files)
    BY DEF IndInv, Fits
  <2>2. {} \cup tx[t].hit = tx[t].hit
    OBVIOUS
  <2>3. QED
    BY <1>2, <2>1, <2>2 DEF FitsExpiry
<1>5. /\ LocksFile(tx[t], tx[t].file)
      /\ \A d \in Devices : d \in tx[t].hit => LocksTarget(tx[t], d)
  BY <1>2 DEF LocksFile, LocksTarget
<1>6. /\ status' \in [Devices -> TransferStatuses]
      /\ \A d \in Devices : status'[d] = IF d \in tx[t].hit THEN "EXPIRED" ELSE status[d]
  BY <1>1 DEF CommitExpiry, TransferStatuses
<1>7. /\ files' \in [Files -> FileStatuses]
      /\ \A f \in Files : files'[f] = IF f = tx[t].file THEN "EXPIRED" ELSE files[f]
  BY <1>1, <1>3 DEF CommitExpiry, FileStatuses
<1>8. CASE tx[t].hit = {}
  <2>1. status' = status
    BY <1>1, <1>6, <1>8
  <2>2. task' = task
    BY <1>8, DevicesAssumption DEF CommitExpiry
  <2>3. QED
    BY <1>1, <1>5, <1>7, <2>1, <2>2
<1>9. CASE tx[t].hit = Devices /\ LastLive(tx[t].file, files)
  <2>1. BodiesGone'
    BY <1>3, <1>7, <1>9 DEF LastLive, BodiesGone
  <2>2. task' = "EXPIRED" /\ TaskFree
    BY <1>9 DEF CommitExpiry
  <2>3. QED
    BY <1>5, <1>6, <1>7, <1>9, <2>1, <2>2
<1>10. QED
  BY <1>4, <1>8, <1>9

LEMMA CommitExpiryPreserves ==
  ASSUME IndInv, NEW t \in Transactions, CommitExpiry(t)
  PROVE  IndInv'
<1>1. /\ receipt \in [Devices -> Receipts] /\ task \in TransferStatuses
      /\ openFiles \subseteq Files
  BY TypedState DEF IndInv
<1>2. /\ route' = route /\ receipt' = receipt /\ openFiles' = openFiles \ {tx[t].file}
      /\ tx' = [tx EXCEPT ![t] = Idle]
  BY DEF CommitExpiry
<1>3. /\ tx' \in [Transactions -> TxRow]
      /\ \A u \in Transactions : tx'[u] = Idle \/ (tx'[u] = tx[u] /\ Spared(tx[u]))
  BY <1>2, FreeRows, CommitExpiryEffect, CommitSpares
<1>4. Lasting
  BY <1>2, CommitExpiryEffect DEF Lasting
<1>5. \A d \in Devices : Receipted(status'[d], receipt'[d])
  BY <1>2, CommitExpiryEffect DEF IndInv, Receipted
<1>6. task' \in TransferStatuses
  BY <1>1, CommitExpiryEffect DEF TransferStatuses
<1>7. TaskBacked'
  <2>1. CASE status' = status /\ task' = task
    BY <1>2, <2>1, <1>4 DEF IndInv, TaskBacked, BodiesGone, Lasting
  <2>2. CASE (\A d \in Devices : status'[d] = "EXPIRED") /\ BodiesGone' /\ task' = "EXPIRED"
    BY <2>2 DEF TaskBacked
  <2>3. QED
    BY <2>1, <2>2, CommitExpiryEffect
<1>8. openFiles' \subseteq Files
  BY <1>1, <1>2
<1>9. QED
  BY <1>1, <1>2, <1>3, <1>4, <1>5, <1>6, <1>7, <1>8, CommitExpiryEffect, RowsPreserve

LEMMA ReadTransferPreserves ==
  ASSUME IndInv, NEW d \in Devices, ReadTransfer(d)
  PROVE  IndInv'
<1>1. /\ task \in TransferStatuses /\ status \in [Devices -> TransferStatuses]
      /\ receipt \in [Devices -> Receipts] /\ files \in [Files -> FileStatuses]
      /\ openFiles \subseteq Files /\ tx \in [Transactions -> TxRow]
  BY TypedState DEF IndInv
<1>2. /\ task' = task /\ route' = route /\ files' = files /\ openFiles' = openFiles
      /\ tx' = tx /\ status[d] = "DELIVERED"
  BY DEF ReadTransfer
<1>3. /\ status' \in [Devices -> TransferStatuses] /\ receipt' \in [Devices -> Receipts]
      /\ \A e \in Devices : /\ status'[e] = IF e = d THEN "READ" ELSE status[e]
                            /\ receipt'[e] = IF e = d THEN "READ" ELSE receipt[e]
  BY <1>1 DEF ReadTransfer, TransferStatuses, Receipts
<1>4. Lasting
  BY <1>2, <1>3 DEF Lasting
<1>5. ASSUME NEW u \in Transactions PROVE tx'[u] = tx[u] /\ Spared(tx[u])
  <2>1. \A e \in Devices : LocksTarget(tx[u], e) => status'[e] = status[e]
    BY <1>3, FreeRows DEF ReadTransfer
  <2>2. \A e \in Devices : status[e] \in Settled => status'[e] \in Settled
    BY <1>3 DEF Settled, Finished
  <2>3. QED
    BY <1>2, <2>1, <2>2 DEF Spared
<1>6. \A e \in Devices : Receipted(status'[e], receipt'[e])
  BY <1>3 DEF IndInv, Receipted
<1>7. TaskBacked'
  <2>1. task # "EXPIRED"
    BY <1>2 DEF IndInv, TaskBacked
  <2>2. QED
    BY <1>2, <1>3, <1>4, <2>1 DEF IndInv, TaskBacked, Finished, Lasting
<1>8. QED
  BY <1>1, <1>2, <1>3, <1>4, <1>5, <1>6, <1>7, RowsPreserve

-----------------------------------------------------------------------------
LEMMA InitHolds ==
  ASSUME Init
  PROVE  IndInv
<1>1. /\ task = "QUEUED" /\ route \in [Devices -> {"LAN", "NODE"}]
      /\ status \in [Devices -> {"TRANSFERRING_LAN", "QUEUED"}]
      /\ receipt \in [Devices -> Receipts] /\ files \in [Files -> FileStatuses]
      /\ openFiles \subseteq Files
      /\ tx \in [Transactions -> TxRow] /\ \A t \in Transactions : tx[t] = Idle
  <2>1. \A d \in Devices : InitialStatus(route[d]) \in {"TRANSFERRING_LAN", "QUEUED"}
    BY DEF Init, InitialStatus
  <2>2. QED
    BY <2>1, IdleFits DEF Init, Receipts, FileStatuses
<1>2. TypeOK
  BY <1>1, TypedState DEF TransferStatuses
<1>3. TaskBacked /\ \A d \in Devices : Receipted(status[d], receipt[d])
  BY <1>1 DEF TaskBacked, Receipted
<1>4. \A t \in Transactions : Fits(tx[t], task, status, route, receipt, files)
  BY <1>1, IdleFits
<1>5. \A t, u \in Transactions : t # u => Apart(tx[t], tx[u])
  BY <1>1, IdleFits
<1>6. QED
  BY <1>2, <1>3, <1>4, <1>5 DEF IndInv

LEMMA NextPreserves ==
  ASSUME IndInv, [Next]_vars
  PROVE  IndInv'
<1>1. CASE UNCHANGED vars
  BY <1>1 DEF vars, rowVars, IndInv, TypeOK, TaskBacked, BodiesGone
<1>2. ASSUME NEW t \in Transactions, Begin(t) PROVE IndInv'
  BY <1>2, ReportTargetPreserves, RetryTargetPreserves, CancelTaskPreserves, UploadDonePreserves,
     MarkFilePreserves, Zenon DEF Begin
<1>3. ASSUME NEW t \in Transactions, Continue(t) PROVE IndInv'
  BY <1>3, SnapshotTargetsPreserves, SnapshotUnfinishedPreserves, CancelTargetPreserves,
     TakeTargetPreserves, SnapshotFilesPreserves, Zenon DEF Continue
<1>4. ASSUME NEW t \in Transactions, Commit(t) PROVE IndInv'
  BY <1>4, CommitReportPreserves, CommitRetryPreserves, CommitCancelPreserves,
     CommitCompletePreserves, CommitExpiryPreserves, Zenon DEF Commit
<1>5. QED
  BY <1>1, <1>2, <1>3, <1>4, RollbackPreserves, ReadTransferPreserves DEF Next

LEMMA Invariance == Spec => []IndInv
<1>1. Init => IndInv
  BY InitHolds
<1>2. IndInv /\ [Next]_vars => IndInv'
  BY NextPreserves
<1>3. QED
  BY <1>1, <1>2, PTL DEF Spec

-----------------------------------------------------------------------------
(***************************************************************************)
(* The rows and the transactions' records keep their types.                *)
(***************************************************************************)
THEOREM TypeCorrect == Spec => []TypeOK
<1>1. IndInv => TypeOK
  BY DEF IndInv
<1>2. QED
  BY <1>1, Invariance, PTL

(***************************************************************************)
(* However many reports, retries, cancellations, completions and expiries  *)
(* race on one transfer, and however old the snapshot a report summarises, *)
(* the task row of ReportTransferProgress, CancelTransfer and              *)
(* MarkFileExpired is DELIVERED or READ only with the receipts, and        *)
(* EXPIRED only with all targets and bodies.                               *)
(***************************************************************************)
THEOREM TaskIsBacked == Spec => []TaskBacked
<1>1. IndInv => TaskBacked
  BY DEF IndInv
<1>2. QED
  BY <1>1, Invariance, PTL

(***************************************************************************)
(* The row locks do protect a finished target, for any number of           *)
(* transactions: it moves only from DELIVERED to READ, by a retry of a     *)
(* failure, by the completion of an upload on its route, or to EXPIRED     *)
(* once the last body is gone.                                             *)
(***************************************************************************)
THEOREM FinishedTargets == Spec => FinishedStays
<1> DEFINE Moved == \A d \in Devices :
                      status[d] \in Finished /\ status'[d] # status[d] =>
                        \/ status[d] = "DELIVERED" /\ status'[d] = "READ"
                        \/ status[d] = "FAILED" /\ status'[d] = "CHECKING_ROUTE"
                        \/ /\ status'[d] = "AVAILABLE_ON_NODE" /\ route[d] = "NODE"
                           /\ \E f \in Files :
                                files[f] = "UPLOADING" /\ files'[f] = "AVAILABLE_ON_NODE"
                        \/ status'[d] = "EXPIRED" /\ BodiesGone'
<1>1. IndInv /\ [Next]_vars => [Moved]_vars
  <2> SUFFICES ASSUME IndInv, Next PROVE Moved
    OBVIOUS
  <2>1. ASSUME NEW t \in Transactions, Begin(t) \/ Continue(t) \/ Rollback(t) PROVE status' = status
    BY <2>1 DEF Begin, ReportTarget, RetryTarget, CancelTask, UploadDone, MarkFile, Continue,
                SnapshotTargets, SnapshotUnfinished, CancelTarget, TakeTarget, SnapshotFiles,
                Rollback, rowVars
  <2>2. ASSUME NEW t \in Transactions, Commit(t) PROVE Moved
    <3>1. CASE CommitReport(t)
      BY <3>1, CommitReportEffect, AcceptedOpen
    <3>2. CASE CommitRetry(t)
      BY <3>2, CommitRetryEffect DEF Restartable, Finished
    <3>3. CASE CommitCancel(t)
      BY <3>3, CommitCancelEffect
    <3>4. CASE CommitComplete(t)
      BY <3>4, CommitCompleteEffect
    <3>5. CASE CommitExpiry(t)
      BY <3>5, CommitExpiryEffect
    <3>6. QED
      BY <2>2, <3>1, <3>2, <3>3, <3>4, <3>5 DEF Commit
  <2>3. ASSUME NEW e \in Devices, ReadTransfer(e) PROVE Moved
    <3>1. status \in [Devices -> TransferStatuses]
      BY TypedState DEF IndInv
    <3>2. QED
      BY <2>3, <3>1 DEF ReadTransfer
  <2>4. QED
    BY <2>1, <2>2, <2>3 DEF Next
<1>2. QED
  BY <1>1, Invariance, PTL DEF Spec, FinishedStays
=============================================================================
