------------------------------ MODULE Admission -----------------------------
(***************************************************************************)
(* How a new transfer is admitted: CreateTransfer with its idempotency key *)
(* and enforceTransferQuotas (postgres/store.go), statement by statement.  *)
(*                                                                         *)
(* Concurrent requests are serialised by two advisory locks: one on device *)
(* and idempotency key, one on the number 730042 for every transfer with a *)
(* file on route NODE.  Limits and usage are read in different statements, *)
(* while administrators change limits, files expire and days begin.        *)
(* Sizes are counted in units; int64 is a word of MaxInt's width.          *)
(***************************************************************************)
EXTENDS Integers, Sequences, FiniteSets

CONSTANTS
  Submissions,   \* requests clients send: user, key, group, sizes of the files on route NODE
  Requests,      \* requests the Node serves at a time
  Tasks,         \* identifiers of transfer rows
  NoKey,         \* a submission without idempotency key
  NoTask,        \* no submission in a request, no row yet
  UserLimits, NodeLimits,    \* byte limits an administrator may set
  GroupLimit, DailyLimit,    \* limits nobody changes
  SingleFileLimit, StopPercent,
  MaxInt,        \* largest value of the integer type
  MaxDay         \* bound: days that pass

ASSUME AdmissionAssumption ==
  /\ MaxInt \in Nat
  /\ MaxDay \in Nat
  /\ StopPercent \in 1..100
  /\ SingleFileLimit \in Nat
  /\ GroupLimit \in 0..MaxInt
  /\ DailyLimit \in 0..MaxInt
  /\ UserLimits \subseteq 0..MaxInt
  /\ NodeLimits \subseteq 1..MaxInt
  /\ \A s \in Submissions : s.files \in Seq(0..MaxInt) /\ s.group \in BOOLEAN
  /\ NoTask \notin Submissions
  /\ IsFiniteSet(Tasks)

VARIABLES
  tasks,     \* committed transfer rows
  limits,    \* user quota and cache limit in force
  requests,  \* progress of each request
  day        \* today

vars == <<tasks, limits, requests, day>>

Idle == [pc |-> "idle", submission |-> NoTask, day |-> 0, user |-> 0, node |-> 0]

Init ==
  /\ tasks = [t \in Tasks |-> NoTask]
  /\ limits \in [user : UserLimits, node : NodeLimits]
  /\ requests = [r \in Requests |-> Idle]
  /\ day = 0

(***************************************************************************)
(* Arithmetic of the quota check.                                          *)
(***************************************************************************)
\* Two's complement of the sum or product of two values.
Wrap(x) == ((x + MaxInt + 1) % (2 * (MaxInt + 1))) - (MaxInt + 1)

\* Go's division truncates towards zero.
Quotient(x, y) == IF x >= 0 THEN x \div y ELSE -((-x) \div y)

NodeStopLimit(nodeLimit) == Quotient(Wrap(nodeLimit * StopPercent), 100)

Exceeds(current, requested, limit) ==
  limit < 0 \/ requested > limit \/ current > Wrap(limit - requested)

(***************************************************************************)
(* Usage: the files on the Node that have not expired.  A sum of sizes is  *)
(* the number of units the files are made of.                              *)
(***************************************************************************)
Stored == {t \in Tasks : tasks[t] # NoTask /\ tasks[t].live}
Units(files) == UNION {{i} \X (1..files[i]) : i \in DOMAIN files}
Bytes(files) == Cardinality(Units(files))
Usage(T) == Cardinality(UNION {{t} \X Units(tasks[t].files) : t \in T})

UserUsage(u) == Usage({t \in Stored : tasks[t].user = u})
DailyUsage(u, since) == Usage({t \in Stored : tasks[t].user = u /\ tasks[t].day >= since})
NodeUsage == Usage(Stored)
GroupUsage(since) == Usage({t \in Stored : tasks[t].group /\ tasks[t].day >= since})

(***************************************************************************)
(* A request.                                                              *)
(***************************************************************************)
Sub(r) == requests[r].submission
SetRequest(r, pc) == requests' = [requests EXCEPT ![r].pc = pc]
End(r) == requests' = [requests EXCEPT ![r] = Idle]
\* Mutant of QuotaFree: the quota is read without the advisory lock.
Unlocked(r) == TRUE

\* transfer.Service.Create: validation, resolution of the targets and the time
\* of creation come before the transaction.
Submit(r, s) ==
  /\ requests[r].pc = "idle"
  /\ requests' = [requests EXCEPT ![r].pc = "prepared", ![r].submission = s, ![r].day = day]
  /\ UNCHANGED <<tasks, limits, day>>

KeyLocked == {"keyed", "limited", "admitted"}
KeyFree(r) ==
  \/ Sub(r).key = NoKey
  \/ \A q \in Requests : requests[q].pc \in KeyLocked => Sub(q).key # Sub(r).key

SameKey(s) == {t \in Tasks : tasks[t] # NoTask /\ s.key # NoKey /\ tasks[t].key = s.key}

\* Under the key's lock: a row with the key answers the request, as the same
\* transfer or as a conflict; otherwise the request goes on.
LockKey(r) ==
  /\ requests[r].pc = "prepared"
  /\ KeyFree(r)
  /\ IF SameKey(Sub(r)) # {} THEN End(r) ELSE SetRequest(r, "keyed")
  /\ UNCHANGED <<tasks, limits, day>>

OnNode(s) == s.files # <<>>

QuotaFree(r) == \A q \in Requests : ~(requests[q].pc \in {"limited", "admitted"} /\ OnNode(Sub(q)))

\* A transfer without a file on the Node meets no quota and no lock.
SkipQuota(r) ==
  /\ requests[r].pc = "keyed"
  /\ ~OnNode(Sub(r))
  /\ SetRequest(r, "admitted")
  /\ UNCHANGED <<tasks, limits, day>>

FilesFit(s) ==
  /\ \A i \in DOMAIN s.files : s.files[i] <= SingleFileLimit
  /\ Bytes(s.files) <= MaxInt

\* Under the lock of all quotas; the limits are read in statements before usage.
LockQuota(r) ==
  /\ requests[r].pc = "keyed"
  /\ OnNode(Sub(r))
  /\ QuotaFree(r)
  /\ FilesFit(Sub(r))
  /\ requests' = [requests EXCEPT ![r].pc = "limited", ![r].user = limits.user, ![r].node = limits.node]
  /\ UNCHANGED <<tasks, limits, day>>

Refused(r) ==
  LET s == Sub(r)
      size == Bytes(s.files)
      today == requests[r].day
  IN
  \/ Exceeds(UserUsage(s.user), size, requests[r].user)
  \/ Exceeds(DailyUsage(s.user, today), size, DailyLimit)
  \/ Exceeds(NodeUsage, size, NodeStopLimit(requests[r].node))
  \/ s.group /\ ( \/ Exceeds(GroupUsage(0), size, GroupLimit)
                  \/ Exceeds(GroupUsage(today), size, DailyLimit) )

EnforceTransferQuotas(r) ==
  /\ requests[r].pc = "limited"
  /\ IF Refused(r) THEN End(r) ELSE SetRequest(r, "admitted")
  /\ UNCHANGED <<tasks, limits, day>>

CreateTransfer(r, t) ==
  LET s == Sub(r) IN
  /\ requests[r].pc = "admitted"
  /\ tasks[t] = NoTask
  /\ tasks' = [tasks EXCEPT ![t] = [user |-> s.user, key |-> s.key, group |-> s.group,
                 files |-> s.files, day |-> requests[r].day, live |-> OnNode(s)]]
  /\ End(r)
  /\ UNCHANGED <<limits, day>>

\* An error, a refusal of a file that is too large, or a cancelled request.
Rollback(r) ==
  /\ requests[r].pc # "idle"
  /\ End(r)
  /\ UNCHANGED <<tasks, limits, day>>

(***************************************************************************)
(* What goes on beside the requests, without their locks.                  *)
(***************************************************************************)
SetAdminQuota(value) ==
  /\ limits' = [limits EXCEPT !.user = value]
  /\ UNCHANGED <<tasks, requests, day>>

UpdateAdminNodeSettings(value) ==
  /\ limits' = [limits EXCEPT !.node = value]
  /\ UNCHANGED <<tasks, requests, day>>

MarkFileExpired(t) ==
  /\ t \in Stored
  /\ tasks' = [tasks EXCEPT ![t].live = FALSE]
  /\ UNCHANGED <<limits, requests, day>>

\* DeleteAdminGroup takes the transfers out of the group's usage.
DeleteAdminGroup ==
  /\ \E t \in Tasks : tasks[t] # NoTask /\ tasks[t].group
  /\ tasks' = [t \in Tasks |-> IF tasks[t] # NoTask THEN [tasks[t] EXCEPT !.group = FALSE] ELSE NoTask]
  /\ UNCHANGED <<limits, requests, day>>

NewDay ==
  /\ day < MaxDay
  /\ day' = day + 1
  /\ UNCHANGED <<tasks, limits, requests>>

Request(r) ==
  \/ \E s \in Submissions : Submit(r, s)
  \/ LockKey(r) \/ SkipQuota(r) \/ LockQuota(r) \/ EnforceTransferQuotas(r)
  \/ \E t \in Tasks : CreateTransfer(r, t)
  \/ Rollback(r)

Next ==
  \/ \E r \in Requests : Request(r)
  \/ \E value \in UserLimits : SetAdminQuota(value)
  \/ \E value \in NodeLimits : UpdateAdminNodeSettings(value)
  \/ \E t \in Tasks : MarkFileExpired(t)
  \/ DeleteAdminGroup
  \/ NewDay

Spec == Init /\ [][Next]_vars

-----------------------------------------------------------------------------
\* Rows and requests have their types.
TypeOK ==
  /\ \A t \in Tasks : tasks[t] = NoTask \/ tasks[t].files \in Seq(0..SingleFileLimit)
  /\ limits \in [user : UserLimits, node : NodeLimits]
  /\ requests \in [Requests -> [pc : {"idle", "prepared", "keyed", "limited", "admitted"},
                                submission : Submissions \cup {NoTask}, day : 0..MaxDay,
                                user : UserLimits \cup {0}, node : NodeLimits \cup {0}]]
  /\ day \in 0..MaxDay

\* No matter how many requests are admitted at the same time, a transfer that
\* enforceTransferQuotas let pass leaves user, day, group and Node within the
\* limits it had read, and within the share of the cache that StopPercent
\* stands for even where the product overflows.
WithinLimits(s, since, userLimit, nodeLimit) ==
  /\ UserUsage(s.user)' <= userLimit
  /\ DailyUsage(s.user, since)' <= DailyLimit
  /\ 100 * NodeUsage' <= nodeLimit * StopPercent
  /\ s.group => GroupUsage(0)' <= GroupLimit /\ GroupUsage(since)' <= DailyLimit

Commits(r) == requests[r].pc = "admitted" /\ requests'[r].pc = "idle" /\ tasks' # tasks

QuotasKept ==
  [][\A r \in Requests : Commits(r) /\ OnNode(Sub(r)) =>
       \E q \in {requests[r]} : WithinLimits(q.submission, q.day, q.user, q.node)]_vars
=============================================================================
