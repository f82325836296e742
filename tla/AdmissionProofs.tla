-------------------------- MODULE AdmissionProofs ---------------------------
(***************************************************************************)
(* What Admission promises for every set of requests, rows and limits.     *)
(*                                                                         *)
(* QuotasKept is about the instant of the commit, while the check is some  *)
(* steps earlier.  Its invariant, Room, says that a request let pass keeps *)
(* its room until it commits: the lock of all quotas admits one request at *)
(* a time, and everything the other steps do to the rows only makes usage  *)
(* smaller.  Usage is the cardinality of a set of units, so the sums are   *)
(* compared by inclusion and disjoint union of finite sets.                *)
(***************************************************************************)
EXTENDS Admission, FiniteSetTheorems, TLAPS

Row == [user : {s.user : s \in Submissions}, key : {s.key : s \in Submissions},
        group : BOOLEAN, files : Seq(0..MaxInt), day : 0..MaxDay, live : BOOLEAN]

Table == [Tasks -> Row \cup {NoTask}]

RequestRecord == [pc : {"idle", "prepared", "keyed", "limited", "admitted"},
                  submission : Submissions \cup {NoTask}, day : 0..MaxDay,
                  user : UserLimits \cup {0}, node : NodeLimits \cup {0}]

\* Past validation a request has a submission; past LockQuota it has limits.
WellFormed(q) ==
  /\ q.pc # "idle" => q.submission \in Submissions
  /\ q.pc \in {"limited", "admitted"} /\ OnNode(q.submission) => q.node \in NodeLimits

RowsTyped ==
  /\ tasks \in Table
  /\ limits \in [user : UserLimits, node : NodeLimits]
  /\ requests \in [Requests -> RequestRecord]
  /\ day \in 0..MaxDay
  /\ \A r \in Requests : WellFormed(requests[r])

\* The locks, held to the end of the transaction.
QuotaHeld(q) == q.pc \in {"limited", "admitted"} /\ OnNode(q.submission)
KeyHeld(q) == q.pc \in KeyLocked /\ q.submission.key # NoKey

Locks ==
  /\ \A r, q \in Requests : QuotaHeld(requests[r]) /\ QuotaHeld(requests[q]) => r = q
  /\ \A r, q \in Requests :
       KeyHeld(requests[r]) /\ KeyHeld(requests[q]) /\ Sub(r).key = Sub(q).key => r = q

(***************************************************************************)
(* One idempotency key makes one transfer: "the same key" of two rows, or  *)
(* of a row and of a request past LockKey, never happens.                  *)
(***************************************************************************)
OneRowPerKey ==
  \A t, u \in Tasks :
    tasks[t] # NoTask /\ tasks[u] # NoTask /\ tasks[t].key # NoKey /\ tasks[t].key = tasks[u].key =>
      t = u

KeysUnused ==
  \A r \in Requests : KeyHeld(requests[r]) =>
    \A t \in Tasks : tasks[t] # NoTask => tasks[t].key # Sub(r).key

-----------------------------------------------------------------------------
(***************************************************************************)
(* Usage as an operator of the table of rows.                              *)
(***************************************************************************)
Live(table) == {t \in Tasks : table[t] # NoTask /\ table[t].live}
Held(table, T) == UNION {{t} \X Units(table[t].files) : t \in T}
Cost(table, T) == Cardinality(Held(table, T))

OfUser(table, u) == {t \in Live(table) : table[t].user = u}
OfDay(table, u, since) == {t \in Live(table) : table[t].user = u /\ table[t].day >= since}
OfGroup(table, since) == {t \in Live(table) : table[t].group /\ table[t].day >= since}

\* Room for a further size: the limits hold with it.
Fits(table, s, since, userLimit, nodeLimit, size) ==
  /\ Cost(table, OfUser(table, s.user)) + size <= userLimit
  /\ Cost(table, OfDay(table, s.user, since)) + size <= DailyLimit
  /\ 100 * (Cost(table, Live(table)) + size) <= nodeLimit * StopPercent
  /\ s.group => /\ Cost(table, OfGroup(table, 0)) + size <= GroupLimit
                /\ Cost(table, OfGroup(table, since)) + size <= DailyLimit

RoomFor(table, q) ==
  Fits(table, q.submission, q.day, q.user, q.node, Bytes(q.submission.files))

Granted(q) == q.pc = "admitted" /\ OnNode(q.submission)

Room ==
  \A r \in Requests : Granted(requests[r]) => RoomFor(tasks, requests[r])

IndInv == RowsTyped /\ Locks /\ OneRowPerKey /\ KeysUnused /\ Room

-----------------------------------------------------------------------------
(***************************************************************************)
(* Integer arithmetic of the check.                                        *)
(***************************************************************************)
LEMMA WrapWithin ==
  ASSUME NEW x \in 0..MaxInt
  PROVE  Wrap(x) = x
<1> DEFINE w == MaxInt + 1
<1>1. w \in Nat /\ w > 0 /\ x \in Nat /\ x + w < 2 * w /\ 0 <= x + w /\ 2 * w \in Nat /\ 2 * w > 0
  BY AdmissionAssumption
<1>2. \A a, b \in Nat : a < b => a % b = a
  OBVIOUS
<1>3. (x + w) % (2 * w) = x + w
  BY <1>1, <1>2
<1>4. Wrap(x) = ((x + w) % (2 * w)) - w
  BY AdmissionAssumption DEF Wrap
<1> HIDE DEF w
<1>5. QED
  BY <1>1, <1>3, <1>4

LEMMA WrapBelow ==
  ASSUME NEW x \in Nat
  PROVE  Wrap(x) \in Int /\ Wrap(x) <= x /\ Wrap(x) <= MaxInt
<1> DEFINE w == MaxInt + 1
<1>1. w \in Nat /\ w > 0 /\ x + w \in Nat /\ 2 * w \in Nat /\ 2 * w > 0
  BY AdmissionAssumption
<1>2. \A a, b \in Nat : b > 0 => a % b \in Nat /\ a % b <= a /\ a % b < b
  OBVIOUS
<1>3. (x + w) % (2 * w) \in Nat /\ (x + w) % (2 * w) <= x + w /\ (x + w) % (2 * w) < 2 * w
  BY <1>1, <1>2
<1>4. Wrap(x) = ((x + w) % (2 * w)) - w /\ MaxInt = w - 1
  BY AdmissionAssumption DEF Wrap
<1> DEFINE m == (x + w) % (2 * w)
<1>5. m \in Nat /\ m <= x + w /\ m < 2 * w /\ Wrap(x) = m - w
  BY <1>3, <1>4
<1> HIDE DEF w, m
<1>6. QED
  BY <1>1, <1>4, <1>5

LEMMA QuotientBelow ==
  ASSUME NEW y \in Int
  PROVE  /\ Quotient(y, 100) \in Int
         /\ y >= 0 => 100 * Quotient(y, 100) <= y /\ Quotient(y, 100) <= y
         /\ y < 0 => Quotient(y, 100) <= 0
<1>1. CASE y >= 0
  BY <1>1 DEF Quotient
<1>2. CASE y < 0
  BY <1>2 DEF Quotient
<1>3. QED
  BY <1>1, <1>2

(***************************************************************************)
(* The share of the cache: where the product overflows, the limit is       *)
(* smaller than the share it stands for, or it is not positive.            *)
(***************************************************************************)
LEMMA StopLimit ==
  ASSUME NEW n \in 1..MaxInt
  PROVE  /\ NodeStopLimit(n) \in Int
         /\ NodeStopLimit(n) <= MaxInt
         /\ NodeStopLimit(n) >= 0 => 100 * NodeStopLimit(n) <= n * StopPercent
<1> DEFINE p == n * StopPercent
<1> DEFINE y == Wrap(p)
<1>1. p \in Nat /\ MaxInt \in Nat
  BY AdmissionAssumption
<1> HIDE DEF p
<1>2. y \in Int /\ y <= p /\ y <= MaxInt
  BY <1>1, WrapBelow
<1> HIDE DEF y
<1> DEFINE z == Quotient(y, 100)
<1>3. /\ z \in Int
      /\ y >= 0 => 100 * z <= y /\ z <= y
      /\ y < 0 => z <= 0
  BY <1>2, QuotientBelow
<1> HIDE DEF z
<1>4. z <= MaxInt /\ (z >= 0 => 100 * z <= p)
  BY <1>1, <1>2, <1>3
<1>5. NodeStopLimit(n) = z
  BY DEF NodeStopLimit, z, y, p
<1>6. QED
  BY <1>3, <1>4, <1>5 DEF p

\* "exceeds" compares without overflow.
LEMMA NotExceeded ==
  ASSUME NEW current \in Nat, NEW requested \in Nat, NEW limit \in Int,
         limit <= MaxInt, ~Exceeds(current, requested, limit)
  PROVE  current + requested <= limit /\ limit >= 0
<1>1. limit >= 0 /\ requested <= limit /\ MaxInt \in Nat
  BY AdmissionAssumption DEF Exceeds
<1>2. limit - requested \in 0..MaxInt
  BY <1>1
<1>3. Wrap(limit - requested) = limit - requested
  BY <1>2, WrapWithin
<1>4. current <= limit - requested
  BY <1>1, <1>3 DEF Exceeds
<1>5. QED
  BY <1>1, <1>4

-----------------------------------------------------------------------------
(***************************************************************************)
(* Usage as a finite set of units.                                         *)
(***************************************************************************)
LEMMA UnitsFinite ==
  ASSUME NEW files \in Seq(0..MaxInt)
  PROVE  IsFiniteSet(Units(files)) /\ Bytes(files) \in Nat
<1>1. DOMAIN files = 1..Len(files) /\ Len(files) \in Nat /\ MaxInt \in Nat
  BY AdmissionAssumption
<1>2. \A i \in DOMAIN files : files[i] \in 0..MaxInt
  BY <1>1
<1>3. Units(files) \subseteq (1..Len(files)) \X (1..MaxInt)
  BY <1>1, <1>2 DEF Units
<1>4. IsFiniteSet(1..Len(files)) /\ IsFiniteSet(1..MaxInt)
  BY <1>1, FS_Interval
<1>5. IsFiniteSet((1..Len(files)) \X (1..MaxInt))
  BY <1>4, FS_Product
<1>6. IsFiniteSet(Units(files))
  BY <1>3, <1>5, FS_Subset
<1>7. QED
  BY <1>6, FS_CardinalityType DEF Bytes

LEMMA HeldFinite ==
  ASSUME NEW table, NEW T \in SUBSET Tasks, \A t \in T : table[t] \in Row
  PROVE  IsFiniteSet(Held(table, T)) /\ Cost(table, T) \in Nat
<1> DEFINE part == [t \in T |-> {t} \X Units(table[t].files)]
           Parts == {{t} \X Units(table[t].files) : t \in T}
<1>1. IsFiniteSet(T)
  BY AdmissionAssumption, FS_Subset
<1>2. part \in Surjection(T, Parts)
  BY DEF Surjection
<1>3. IsFiniteSet(Parts)
  BY <1>1, <1>2, FS_Surjection
<1>4. ASSUME NEW t \in T
      PROVE  IsFiniteSet({t} \X Units(table[t].files))
  <2>1. IsFiniteSet(Units(table[t].files))
    BY UnitsFinite DEF Row
  <2>2. IsFiniteSet({t})
    BY FS_Singleton
  <2>3. QED
    BY <2>1, <2>2, FS_Product
<1>5. \A part_ \in Parts : IsFiniteSet(part_)
  BY <1>4
<1>6. Held(table, T) = UNION Parts
  BY DEF Held
<1>7. IsFiniteSet(Held(table, T))
  BY <1>3, <1>5, <1>6, FS_UNION
<1>8. QED
  BY <1>7, FS_CardinalityType DEF Cost

LEMMA CostShrinks ==
  ASSUME NEW table, NEW later, NEW T \in SUBSET Tasks, NEW S \in SUBSET T,
         \A t \in T : table[t] \in Row,
         \A t \in S : later[t].files = table[t].files
  PROVE  Cost(later, S) <= Cost(table, T)
<1>1. Held(later, S) \subseteq Held(table, T)
  BY DEF Held
<1>2. QED
  BY <1>1, HeldFinite, FS_Subset DEF Cost

LEMMA CostGrows ==
  ASSUME NEW table, NEW later, NEW T \in SUBSET Tasks, NEW u \in Tasks,
         NEW S \in SUBSET (T \cup {u}), NEW files \in Seq(0..MaxInt),
         \A t \in T : table[t] \in Row,
         \A t \in S \ {u} : later[t].files = table[t].files,
         later[u].files = files
  PROVE  Cost(later, S) <= Cost(table, T) + Bytes(files)
<1> DEFINE new == {u} \X Units(files)
           old == Held(table, T)
<1>1. Held(later, S) \subseteq old \cup new
  BY DEF Held
<1>2. IsFiniteSet(old) /\ Cardinality(old) \in Nat /\ Cardinality(old) = Cost(table, T)
  BY HeldFinite DEF Cost
<1>3. IsFiniteSet(Units(files)) /\ Bytes(files) \in Nat
  BY UnitsFinite
<1>4. IsFiniteSet({u}) /\ Cardinality({u}) = 1
  BY FS_Singleton
<1>5. IsFiniteSet(new) /\ Cardinality(new) = 1 * Bytes(files)
  BY <1>3, <1>4, FS_Product DEF Bytes
<1>6. Cardinality(new) = Bytes(files)
  BY <1>3, <1>5
<1> HIDE DEF new, old
<1>7. /\ IsFiniteSet(old \cup new)
      /\ Cardinality(old \cup new) = Cardinality(old) + Cardinality(new) - Cardinality(old \cap new)
  BY <1>2, <1>5, FS_Union
<1>8. IsFiniteSet(old \cap new)
  BY <1>2, FS_Intersection
<1>9. Cardinality(old \cap new) \in Nat
  BY <1>8, FS_CardinalityType
<1>10. IsFiniteSet(Held(later, S)) /\ Cost(later, S) <= Cardinality(old \cup new)
  BY <1>1, <1>7, FS_Subset DEF Cost
<1>11. Cost(later, S) \in Nat
  BY <1>10, FS_CardinalityType DEF Cost
<1>12. QED
  BY <1>2, <1>3, <1>6, <1>7, <1>9, <1>10, <1>11

-----------------------------------------------------------------------------
(***************************************************************************)
(* How the five usages of a check follow the table.                        *)
(***************************************************************************)
LEMMA UsageIs ==
  ASSUME NEW u, NEW since
  PROVE  /\ UserUsage(u) = Cost(tasks, OfUser(tasks, u))
         /\ DailyUsage(u, since) = Cost(tasks, OfDay(tasks, u, since))
         /\ NodeUsage = Cost(tasks, Live(tasks))
         /\ GroupUsage(since) = Cost(tasks, OfGroup(tasks, since))
         /\ UserUsage(u)' = Cost(tasks', OfUser(tasks', u))
         /\ DailyUsage(u, since)' = Cost(tasks', OfDay(tasks', u, since))
         /\ NodeUsage' = Cost(tasks', Live(tasks'))
         /\ GroupUsage(since)' = Cost(tasks', OfGroup(tasks', since))
BY Zenon DEF UserUsage, DailyUsage, NodeUsage, GroupUsage, Usage, Stored, Cost, Held,
             OfUser, OfDay, OfGroup, Live

LEMMA LiveRows ==
  ASSUME NEW table \in Table, NEW u, NEW since
  PROVE  /\ Live(table) \in SUBSET Tasks
         /\ \A t \in Live(table) : table[t] \in Row
         /\ OfUser(table, u) \in SUBSET Live(table)
         /\ OfDay(table, u, since) \in SUBSET Live(table)
         /\ OfGroup(table, since) \in SUBSET Live(table)
BY DEF Table, Live, OfUser, OfDay, OfGroup

LEMMA CostType ==
  ASSUME NEW table \in Table, NEW u, NEW since
  PROVE  /\ Cost(table, Live(table)) \in Nat
         /\ Cost(table, OfUser(table, u)) \in Nat
         /\ Cost(table, OfDay(table, u, since)) \in Nat
         /\ Cost(table, OfGroup(table, since)) \in Nat
<1>1. \A T \in SUBSET Live(table) : Cost(table, T) \in Nat
  <2> TAKE T \in SUBSET Live(table)
  <2>1. T \in SUBSET Tasks /\ \A t \in T : table[t] \in Row
    BY LiveRows
  <2>2. QED
    BY <2>1, HeldFinite
<1>2. QED
  BY <1>1, LiveRows

\* Nothing a transaction does to the rows of others makes usage grow.
Fades(table, later) ==
  \A t \in Live(later) :
    /\ t \in Live(table)
    /\ later[t].user = table[t].user
    /\ later[t].files = table[t].files
    /\ later[t].day = table[t].day
    /\ later[t].group => table[t].group

LEMMA CostFades ==
  ASSUME NEW table \in Table, NEW later \in Table, Fades(table, later),
         NEW u, NEW since
  PROVE  /\ Cost(later, Live(later)) <= Cost(table, Live(table))
         /\ Cost(later, OfUser(later, u)) <= Cost(table, OfUser(table, u))
         /\ Cost(later, OfDay(later, u, since)) <= Cost(table, OfDay(table, u, since))
         /\ Cost(later, OfGroup(later, since)) <= Cost(table, OfGroup(table, since))
<1>1. ASSUME NEW T \in SUBSET Live(table), NEW S \in SUBSET T, S \subseteq Live(later)
      PROVE  Cost(later, S) <= Cost(table, T)
  <2>1. T \in SUBSET Tasks /\ \A t \in T : table[t] \in Row
    BY LiveRows
  <2>2. \A t \in S : later[t].files = table[t].files
    BY <1>1 DEF Fades
  <2>3. QED
    BY <2>1, <2>2, CostShrinks
<1>2. /\ Live(later) \in SUBSET Live(table)
      /\ OfUser(later, u) \in SUBSET OfUser(table, u)
      /\ OfDay(later, u, since) \in SUBSET OfDay(table, u, since)
      /\ OfGroup(later, since) \in SUBSET OfGroup(table, since)
  BY DEF Fades, OfUser, OfDay, OfGroup
<1>3. /\ OfUser(later, u) \subseteq Live(later)
      /\ OfDay(later, u, since) \subseteq Live(later)
      /\ OfGroup(later, since) \subseteq Live(later)
      /\ Live(table) \in SUBSET Live(table)
  BY LiveRows
<1>4. QED
  BY <1>1, <1>2, <1>3, LiveRows

\* A request whose limits have been read.
Checked == {q \in RequestRecord : q.submission \in Submissions /\ q.node \in NodeLimits}

LEMMA CheckedType ==
  ASSUME NEW q \in Checked
  PROVE  /\ q.submission \in Submissions
         /\ q.submission.files \in Seq(0..MaxInt)
         /\ Bytes(q.submission.files) \in Nat
         /\ q.user \in 0..MaxInt
         /\ q.node \in 1..MaxInt
         /\ q.node * StopPercent \in Nat
         /\ q.day \in Nat
         /\ DailyLimit \in Nat
         /\ GroupLimit \in Nat
<1>1. q.submission \in Submissions /\ q.submission.files \in Seq(0..MaxInt)
  BY AdmissionAssumption DEF Checked
<1>2. q.user \in 0..MaxInt /\ q.node \in 1..MaxInt /\ q.day \in Nat
  <2>1. q.user \in UserLimits \cup {0} /\ q.node \in NodeLimits /\ q.day \in 0..MaxDay
    BY DEF Checked, RequestRecord
  <2>2. /\ UserLimits \subseteq 0..MaxInt /\ NodeLimits \subseteq 1..MaxInt
        /\ MaxInt \in Nat /\ MaxDay \in Nat
    BY AdmissionAssumption
  <2>3. q.user \in 0..MaxInt
    <3>1. UserLimits \cup {0} \subseteq 0..MaxInt
      BY <2>2
    <3>2. QED
      BY <2>1, <3>1, Zenon
  <2>4. q.node \in 1..MaxInt
    BY <2>1, <2>2
  <2>5. q.day \in Nat
    BY <2>1
  <2>6. QED
    BY <2>3, <2>4, <2>5
<1>3. StopPercent \in Nat /\ DailyLimit \in Nat /\ GroupLimit \in Nat
  BY AdmissionAssumption
<1>4. \A a, b \in Nat : a * b \in Nat
  OBVIOUS
<1>5. q.node * StopPercent \in Nat
  BY <1>2, <1>3, <1>4
<1>6. QED
  BY <1>1, <1>2, <1>3, <1>5, UnitsFinite

LEMMA RoomStays ==
  ASSUME NEW table \in Table, NEW later \in Table, Fades(table, later),
         NEW q \in Checked, RoomFor(table, q)
  PROVE  RoomFor(later, q)
<1> DEFINE s == q.submission
           size == Bytes(s.files)
           share == q.node * StopPercent
<1>1. /\ size \in Nat /\ share \in Nat /\ q.user \in Nat
      /\ DailyLimit \in Nat /\ GroupLimit \in Nat
  BY CheckedType
<1>2. /\ Cost(later, Live(later)) \in Nat
      /\ Cost(later, OfUser(later, s.user)) \in Nat
      /\ Cost(later, OfDay(later, s.user, q.day)) \in Nat
      /\ Cost(later, OfGroup(later, 0)) \in Nat
      /\ Cost(later, OfGroup(later, q.day)) \in Nat
  BY CostType
<1>3. /\ Cost(table, Live(table)) \in Nat
      /\ Cost(table, OfUser(table, s.user)) \in Nat
      /\ Cost(table, OfDay(table, s.user, q.day)) \in Nat
      /\ Cost(table, OfGroup(table, 0)) \in Nat
      /\ Cost(table, OfGroup(table, q.day)) \in Nat
  BY CostType
<1>4. /\ Cost(later, Live(later)) <= Cost(table, Live(table))
      /\ Cost(later, OfUser(later, s.user)) <= Cost(table, OfUser(table, s.user))
      /\ Cost(later, OfDay(later, s.user, q.day)) <= Cost(table, OfDay(table, s.user, q.day))
      /\ Cost(later, OfGroup(later, 0)) <= Cost(table, OfGroup(table, 0))
      /\ Cost(later, OfGroup(later, q.day)) <= Cost(table, OfGroup(table, q.day))
  BY CostFades
<1>5. /\ Cost(table, OfUser(table, s.user)) + size <= q.user
      /\ Cost(table, OfDay(table, s.user, q.day)) + size <= DailyLimit
      /\ 100 * (Cost(table, Live(table)) + size) <= share
      /\ s.group => /\ Cost(table, OfGroup(table, 0)) + size <= GroupLimit
                    /\ Cost(table, OfGroup(table, q.day)) + size <= DailyLimit
  BY DEF RoomFor, Fits
<1> HIDE DEF s, size, share
<1>6. /\ Cost(later, OfUser(later, s.user)) + size <= q.user
      /\ Cost(later, OfDay(later, s.user, q.day)) + size <= DailyLimit
      /\ 100 * (Cost(later, Live(later)) + size) <= share
      /\ s.group => /\ Cost(later, OfGroup(later, 0)) + size <= GroupLimit
                    /\ Cost(later, OfGroup(later, q.day)) + size <= DailyLimit
  BY <1>1, <1>2, <1>3, <1>4, <1>5
<1>7. QED
  BY <1>6 DEF RoomFor, Fits, s, size, share

\* What a request may spend it has: its row leaves the limits as they are.
LEMMA RoomSpent ==
  ASSUME NEW table \in Table, NEW u \in Tasks, NEW row \in Row,
         NEW later \in Table, later = [table EXCEPT ![u] = row], table[u] = NoTask,
         NEW q \in Checked, RoomFor(table, q), row.files = q.submission.files
  PROVE  Fits(later, q.submission, q.day, q.user, q.node, 0)
<1> DEFINE s == q.submission
           size == Bytes(s.files)
           share == q.node * StopPercent
<1>1. /\ size \in Nat /\ share \in Nat /\ q.user \in Nat
      /\ DailyLimit \in Nat /\ GroupLimit \in Nat
      /\ s.files \in Seq(0..MaxInt)
  BY CheckedType
<1>2. later[u] = row /\ \A t \in Tasks \ {u} : later[t] = table[t]
  BY DEF Table
<1>3. ASSUME NEW T \in SUBSET Live(table), NEW S \in SUBSET (T \cup {u})
      PROVE  Cost(later, S) <= Cost(table, T) + size
  <2>1. T \in SUBSET Tasks /\ \A t \in T : table[t] \in Row
    BY LiveRows
  <2>2. \A t \in S \ {u} : later[t].files = table[t].files
    BY <1>2, <2>1
  <2>3. later[u].files = s.files
    BY <1>2
  <2>4. QED
    BY <1>1, <2>1, <2>2, <2>3, CostGrows
<1>4. ASSUME NEW since
      PROVE  /\ Live(later) \in SUBSET (Live(table) \cup {u})
             /\ OfUser(later, s.user) \in SUBSET (OfUser(table, s.user) \cup {u})
             /\ OfDay(later, s.user, since) \in SUBSET (OfDay(table, s.user, since) \cup {u})
             /\ OfGroup(later, since) \in SUBSET (OfGroup(table, since) \cup {u})
  BY <1>2 DEF Live, OfUser, OfDay, OfGroup
<1>5. /\ Cost(later, Live(later)) <= Cost(table, Live(table)) + size
      /\ Cost(later, OfUser(later, s.user)) <= Cost(table, OfUser(table, s.user)) + size
      /\ Cost(later, OfDay(later, s.user, q.day)) <= Cost(table, OfDay(table, s.user, q.day)) + size
      /\ Cost(later, OfGroup(later, 0)) <= Cost(table, OfGroup(table, 0)) + size
      /\ Cost(later, OfGroup(later, q.day)) <= Cost(table, OfGroup(table, q.day)) + size
  BY <1>3, <1>4, LiveRows
<1>6. /\ Cost(later, Live(later)) \in Nat
      /\ Cost(later, OfUser(later, s.user)) \in Nat
      /\ Cost(later, OfDay(later, s.user, q.day)) \in Nat
      /\ Cost(later, OfGroup(later, 0)) \in Nat
      /\ Cost(later, OfGroup(later, q.day)) \in Nat
      /\ Cost(table, Live(table)) \in Nat
      /\ Cost(table, OfUser(table, s.user)) \in Nat
      /\ Cost(table, OfDay(table, s.user, q.day)) \in Nat
      /\ Cost(table, OfGroup(table, 0)) \in Nat
      /\ Cost(table, OfGroup(table, q.day)) \in Nat
  BY CostType
<1>7. /\ Cost(table, OfUser(table, s.user)) + size <= q.user
      /\ Cost(table, OfDay(table, s.user, q.day)) + size <= DailyLimit
      /\ 100 * (Cost(table, Live(table)) + size) <= share
      /\ s.group => /\ Cost(table, OfGroup(table, 0)) + size <= GroupLimit
                    /\ Cost(table, OfGroup(table, q.day)) + size <= DailyLimit
  BY DEF RoomFor, Fits
<1> HIDE DEF s, size, share
<1>8. /\ Cost(later, OfUser(later, s.user)) + 0 <= q.user
      /\ Cost(later, OfDay(later, s.user, q.day)) + 0 <= DailyLimit
      /\ 100 * (Cost(later, Live(later)) + 0) <= share
      /\ s.group => /\ Cost(later, OfGroup(later, 0)) + 0 <= GroupLimit
                    /\ Cost(later, OfGroup(later, q.day)) + 0 <= DailyLimit
  <2>1. \A a, b, l \in Nat : a <= b + size /\ b + size <= l => a + 0 <= l
    BY <1>1
  <2>2. \A a, b \in Nat : a <= b + size /\ 100 * (b + size) <= share => 100 * (a + 0) <= share
    BY <1>1
  <2>3. Cost(later, OfUser(later, s.user)) + 0 <= q.user
    BY <1>1, <1>5, <1>6, <1>7, <2>1
  <2>4. Cost(later, OfDay(later, s.user, q.day)) + 0 <= DailyLimit
    BY <1>1, <1>5, <1>6, <1>7, <2>1
  <2>5. 100 * (Cost(later, Live(later)) + 0) <= share
    BY <1>5, <1>6, <1>7, <2>2
  <2>6. ASSUME s.group
        PROVE  /\ Cost(later, OfGroup(later, 0)) + 0 <= GroupLimit
               /\ Cost(later, OfGroup(later, q.day)) + 0 <= DailyLimit
    BY <1>1, <1>5, <1>6, <1>7, <2>1, <2>6
  <2>7. QED
    BY <2>3, <2>4, <2>5, <2>6
<1>9. QED
  BY <1>8 DEF Fits, s, share

-----------------------------------------------------------------------------
(***************************************************************************)
(* The steps.  A step of a request replaces its record, at most one row    *)
(* appears with it; the other steps change rows, limits or the day.        *)
(***************************************************************************)
LEMMA GrantedIsChecked ==
  ASSUME RowsTyped, NEW r \in Requests, Granted(requests[r])
  PROVE  requests[r] \in Checked
<1>1. requests[r] \in RequestRecord /\ WellFormed(requests[r])
  BY DEF RowsTyped
<1>2. requests[r].submission \in Submissions /\ requests[r].node \in NodeLimits
  BY <1>1 DEF WellFormed, Granted
<1>3. QED
  BY <1>1, <1>2 DEF Checked

LEMMA RequestMoves ==
  ASSUME IndInv, NEW r \in Requests, NEW q \in RequestRecord, WellFormed(q),
         requests' = [requests EXCEPT ![r] = q],
         UNCHANGED <<tasks, limits, day>>,
         QuotaHeld(q) => \A p \in Requests \ {r} : ~QuotaHeld(requests[p]),
         KeyHeld(q) =>
           /\ \A p \in Requests \ {r} :
                KeyHeld(requests[p]) => requests[p].submission.key # q.submission.key
           /\ \A t \in Tasks : tasks[t] # NoTask => tasks[t].key # q.submission.key,
         Granted(q) => RoomFor(tasks, q)
  PROVE  IndInv'
<1>1. RowsTyped /\ Locks /\ OneRowPerKey /\ KeysUnused /\ Room
  BY DEF IndInv
<1>2. requests'[r] = q /\ \A p \in Requests \ {r} : requests'[p] = requests[p]
  BY <1>1 DEF RowsTyped
<1>3. RowsTyped'
  BY <1>1, <1>2 DEF RowsTyped
<1>4. Locks'
  <2>1. ASSUME NEW p \in Requests, NEW o \in Requests,
               QuotaHeld(requests'[p]), QuotaHeld(requests'[o])
        PROVE  p = o
    BY <1>1, <1>2, <2>1 DEF Locks
  <2>2. ASSUME NEW p \in Requests, NEW o \in Requests,
               KeyHeld(requests'[p]), KeyHeld(requests'[o]),
               requests'[p].submission.key = requests'[o].submission.key
        PROVE  p = o
    <3>1. CASE p = r \/ o = r
      BY <1>2, <2>2, <3>1
    <3>2. CASE p # r /\ o # r
      BY <1>1, <1>2, <2>2, <3>2 DEF Locks, Sub
    <3>3. QED
      BY <3>1, <3>2
  <2>3. QED
    BY <2>1, <2>2 DEF Locks, Sub
<1>5. OneRowPerKey'
  BY <1>1 DEF OneRowPerKey
<1>6. KeysUnused'
  BY <1>1, <1>2 DEF KeysUnused, Sub
<1>7. Room'
  BY <1>1, <1>2 DEF Room
<1>8. QED
  BY <1>3, <1>4, <1>5, <1>6, <1>7 DEF IndInv

LEMMA TableFades ==
  ASSUME IndInv, UNCHANGED requests,
         limits' \in [user : UserLimits, node : NodeLimits], day' \in 0..MaxDay,
         tasks' \in Table, Fades(tasks, tasks'),
         \A t \in Tasks : tasks'[t] # NoTask => tasks[t] # NoTask /\ tasks'[t].key = tasks[t].key
  PROVE  IndInv'
<1>1. RowsTyped /\ Locks /\ OneRowPerKey /\ KeysUnused /\ Room
  BY DEF IndInv
<1>2. RowsTyped'
  BY <1>1 DEF RowsTyped
<1>3. Locks'
  BY <1>1 DEF Locks, Sub
<1>4. OneRowPerKey' /\ KeysUnused'
  BY <1>1 DEF OneRowPerKey, KeysUnused, Sub
<1>5. Room'
  <2>1. ASSUME NEW r \in Requests, Granted(requests[r])
        PROVE  RoomFor(tasks', requests[r])
    <3>1. RoomFor(tasks, requests[r]) /\ requests[r] \in Checked
      BY <1>1, <2>1, GrantedIsChecked DEF Room
    <3>2. tasks \in Table
      BY <1>1 DEF RowsTyped
    <3>3. QED
      BY <3>1, <3>2, RoomStays
  <2>2. QED
    BY <2>1 DEF Room
<1>6. QED
  BY <1>2, <1>3, <1>4, <1>5 DEF IndInv

LEMMA SubmitPreserves ==
  ASSUME IndInv, NEW r \in Requests, NEW s \in Submissions, Submit(r, s)
  PROVE  IndInv'
<1>1. requests[r] \in RequestRecord /\ day \in 0..MaxDay
  BY DEF IndInv, RowsTyped
<1>2. PICK q : q = [[[requests[r] EXCEPT !.pc = "prepared"] EXCEPT !.submission = s]
                      EXCEPT !.day = day]
  OBVIOUS
<1>3. q \in RequestRecord /\ q.pc = "prepared" /\ q.submission = s
  BY <1>1, <1>2 DEF RequestRecord
<1>4. requests' = [requests EXCEPT ![r] = q]
  BY <1>1, <1>2 DEF Submit, IndInv, RowsTyped
<1>5. UNCHANGED <<tasks, limits, day>>
  BY DEF Submit
<1>6. WellFormed(q) /\ ~QuotaHeld(q) /\ ~KeyHeld(q) /\ ~Granted(q)
  BY <1>3 DEF WellFormed, QuotaHeld, KeyHeld, KeyLocked, Granted
<1>7. QED
  BY <1>3, <1>4, <1>5, <1>6, RequestMoves

\* The transaction ends: nothing is held any more.
LEMMA EndPreserves ==
  ASSUME IndInv, NEW r \in Requests, End(r), UNCHANGED <<tasks, limits, day>>
  PROVE  IndInv'
<1>1. Idle \in RequestRecord
  BY AdmissionAssumption DEF Idle, RequestRecord
<1>2. requests' = [requests EXCEPT ![r] = Idle]
  BY DEF End
<1>3. WellFormed(Idle) /\ ~QuotaHeld(Idle) /\ ~KeyHeld(Idle) /\ ~Granted(Idle)
  BY DEF Idle, WellFormed, QuotaHeld, KeyHeld, KeyLocked, Granted
<1>4. QED
  BY <1>1, <1>2, <1>3, RequestMoves

\* A step that only moves the request on.
LEMMA PcFacts ==
  ASSUME IndInv, NEW r \in Requests, NEW pc \in {"keyed", "limited", "admitted"},
         SetRequest(r, pc), requests[r].pc # "idle"
  PROVE  \E q \in RequestRecord :
           /\ requests' = [requests EXCEPT ![r] = q]
           /\ q.pc = pc
           /\ q.submission = Sub(r) /\ q.submission \in Submissions
           /\ q.day = requests[r].day /\ q.user = requests[r].user /\ q.node = requests[r].node
<1>1. requests[r] \in RequestRecord /\ Sub(r) \in Submissions
  BY DEF IndInv, RowsTyped, WellFormed, Sub
<1>2. PICK q : q = [requests[r] EXCEPT !.pc = pc]
  OBVIOUS
<1>3. /\ q \in RequestRecord /\ q.pc = pc /\ q.submission = requests[r].submission
      /\ q.day = requests[r].day /\ q.user = requests[r].user /\ q.node = requests[r].node
  BY <1>1, <1>2 DEF RequestRecord
<1>4. requests' = [requests EXCEPT ![r] = q]
  BY <1>2 DEF SetRequest
<1>5. QED
  BY <1>1, <1>3, <1>4 DEF Sub

LEMMA LockKeyPreserves ==
  ASSUME IndInv, NEW r \in Requests, LockKey(r)
  PROVE  IndInv'
<1>1. requests[r].pc = "prepared" /\ KeyFree(r) /\ UNCHANGED <<tasks, limits, day>>
  BY DEF LockKey
<1>2. CASE SameKey(Sub(r)) # {}
  BY <1>1, <1>2, EndPreserves DEF LockKey
<1>3. CASE SameKey(Sub(r)) = {}
  <2>1. SetRequest(r, "keyed")
    BY <1>3 DEF LockKey
  <2>2. PICK q \in RequestRecord :
          /\ requests' = [requests EXCEPT ![r] = q]
          /\ q.pc = "keyed"
          /\ q.submission = Sub(r) /\ q.submission \in Submissions
    BY <1>1, <2>1, PcFacts
  <2>3. WellFormed(q) /\ ~QuotaHeld(q) /\ ~Granted(q)
    BY <2>2 DEF WellFormed, QuotaHeld, Granted
  <2>4. ASSUME KeyHeld(q)
        PROVE  /\ \A p \in Requests \ {r} :
                    KeyHeld(requests[p]) => requests[p].submission.key # q.submission.key
               /\ \A t \in Tasks : tasks[t] # NoTask => tasks[t].key # q.submission.key
    <3>1. Sub(r).key # NoKey
      BY <2>2, <2>4 DEF KeyHeld
    <3>2. \A p \in Requests : requests[p].pc \in KeyLocked => Sub(p).key # Sub(r).key
      BY <1>1, <3>1 DEF KeyFree
    <3>3. \A t \in Tasks : tasks[t] # NoTask => tasks[t].key # Sub(r).key
      BY <1>3, <3>1 DEF SameKey
    <3>4. QED
      BY <2>2, <3>2, <3>3 DEF KeyHeld, Sub
  <2>5. QED
    BY <1>1, <2>2, <2>3, <2>4, RequestMoves
<1>4. QED
  BY <1>2, <1>3

\* What the key's holder keeps on its way to the commit.
LEMMA KeyKept ==
  ASSUME IndInv, NEW r \in Requests, requests[r].pc \in KeyLocked,
         NEW q \in RequestRecord, q.submission = Sub(r), KeyHeld(q)
  PROVE  /\ \A p \in Requests \ {r} :
              KeyHeld(requests[p]) => requests[p].submission.key # q.submission.key
         /\ \A t \in Tasks : tasks[t] # NoTask => tasks[t].key # q.submission.key
<1>1. KeyHeld(requests[r])
  BY DEF KeyHeld, Sub
<1>2. QED
  BY <1>1 DEF IndInv, Locks, KeysUnused, Sub

LEMMA SkipQuotaPreserves ==
  ASSUME IndInv, NEW r \in Requests, SkipQuota(r)
  PROVE  IndInv'
<1>1. /\ requests[r].pc = "keyed" /\ ~OnNode(Sub(r)) /\ SetRequest(r, "admitted")
      /\ UNCHANGED <<tasks, limits, day>>
  BY DEF SkipQuota
<1>2. PICK q \in RequestRecord :
        /\ requests' = [requests EXCEPT ![r] = q]
        /\ q.pc = "admitted"
        /\ q.submission = Sub(r) /\ q.submission \in Submissions
  BY <1>1, PcFacts
<1>3. ~OnNode(q.submission)
  BY <1>1, <1>2
<1>4. WellFormed(q) /\ ~QuotaHeld(q) /\ ~Granted(q)
  BY <1>2, <1>3 DEF WellFormed, QuotaHeld, Granted
<1>5. requests[r].pc \in KeyLocked
  BY <1>1 DEF KeyLocked
<1>6. QED
  BY <1>1, <1>2, <1>4, <1>5, KeyKept, RequestMoves

LEMMA LockQuotaPreserves ==
  ASSUME IndInv, NEW r \in Requests, LockQuota(r)
  PROVE  IndInv'
<1>1. /\ requests[r].pc = "keyed" /\ QuotaFree(r)
      /\ requests' = [requests EXCEPT ![r].pc = "limited", ![r].user = limits.user,
                                      ![r].node = limits.node]
      /\ UNCHANGED <<tasks, limits, day>>
  BY DEF LockQuota
<1>2. /\ requests \in [Requests -> RequestRecord] /\ requests[r] \in RequestRecord
      /\ WellFormed(requests[r]) /\ limits \in [user : UserLimits, node : NodeLimits]
  BY DEF IndInv, RowsTyped
<1>3. PICK q : q = [[[requests[r] EXCEPT !.pc = "limited"] EXCEPT !.user = limits.user]
                      EXCEPT !.node = limits.node]
  OBVIOUS
<1>4. /\ q \in RequestRecord /\ q.pc = "limited"
      /\ q.submission = requests[r].submission /\ q.node = limits.node
  BY <1>2, <1>3 DEF RequestRecord
<1>5. requests' = [requests EXCEPT ![r] = q]
  BY <1>1, <1>2, <1>3
<1>6. WellFormed(q) /\ ~Granted(q)
  BY <1>1, <1>2, <1>4 DEF WellFormed, Granted
<1>7. \A p \in Requests \ {r} : ~QuotaHeld(requests[p])
  BY <1>1 DEF QuotaFree, QuotaHeld, Sub
<1>8. requests[r].pc \in KeyLocked /\ q.submission = Sub(r)
  BY <1>1, <1>4 DEF KeyLocked, Sub
<1>9. KeyHeld(q) =>
        /\ \A p \in Requests \ {r} :
             KeyHeld(requests[p]) => requests[p].submission.key # q.submission.key
        /\ \A t \in Tasks : tasks[t] # NoTask => tasks[t].key # q.submission.key
  BY <1>4, <1>8, KeyKept
<1>10. q \in RequestRecord /\ UNCHANGED <<tasks, limits, day>>
  BY <1>1, <1>4
<1>11. QED
  BY <1>5, <1>6, <1>7, <1>9, <1>10, RequestMoves

(***************************************************************************)
(* The check itself: what is not refused fits.                             *)
(***************************************************************************)
LEMMA CheckGrants ==
  ASSUME RowsTyped, NEW r \in Requests, requests[r] \in Checked, ~Refused(r)
  PROVE  RoomFor(tasks, requests[r])
<1> DEFINE s == requests[r].submission
           size == Bytes(s.files)
           today == requests[r].day
           user == requests[r].user
           stop == NodeStopLimit(requests[r].node)
           share == requests[r].node * StopPercent
<1>1. /\ size \in Nat /\ user \in 0..MaxInt /\ share \in Nat
      /\ DailyLimit \in 0..MaxInt /\ GroupLimit \in 0..MaxInt /\ MaxInt \in Nat
  BY CheckedType, AdmissionAssumption
<1>2. requests[r].node \in 1..MaxInt
  BY CheckedType
<1>3. stop \in Int /\ stop <= MaxInt /\ (stop >= 0 => 100 * stop <= share)
  BY <1>2, StopLimit
<1>4. tasks \in Table
  BY DEF RowsTyped
<1>5. /\ Cost(tasks, OfUser(tasks, s.user)) \in Nat
      /\ Cost(tasks, OfDay(tasks, s.user, today)) \in Nat
      /\ Cost(tasks, Live(tasks)) \in Nat
      /\ Cost(tasks, OfGroup(tasks, 0)) \in Nat
      /\ Cost(tasks, OfGroup(tasks, today)) \in Nat
  BY <1>4, CostType
<1>6. /\ ~Exceeds(Cost(tasks, OfUser(tasks, s.user)), size, user)
      /\ ~Exceeds(Cost(tasks, OfDay(tasks, s.user, today)), size, DailyLimit)
      /\ ~Exceeds(Cost(tasks, Live(tasks)), size, stop)
      /\ s.group => /\ ~Exceeds(Cost(tasks, OfGroup(tasks, 0)), size, GroupLimit)
                    /\ ~Exceeds(Cost(tasks, OfGroup(tasks, today)), size, DailyLimit)
  BY UsageIs DEF Refused, Sub
<1> HIDE DEF s, size, today, user, stop, share
<1>7. Cost(tasks, OfUser(tasks, s.user)) + size <= user
  BY <1>1, <1>5, <1>6, NotExceeded
<1>8. Cost(tasks, OfDay(tasks, s.user, today)) + size <= DailyLimit
  BY <1>1, <1>5, <1>6, NotExceeded
<1>9. 100 * (Cost(tasks, Live(tasks)) + size) <= share
  <2>1. Cost(tasks, Live(tasks)) + size <= stop /\ stop >= 0
    BY <1>1, <1>3, <1>5, <1>6, NotExceeded
  <2>2. \A a, b, c \in Int : a <= b /\ 100 * b <= c => 100 * a <= c
    OBVIOUS
  <2>3. Cost(tasks, Live(tasks)) + size \in Int
    BY <1>1, <1>5
  <2>4. QED
    BY <1>1, <1>3, <2>1, <2>2, <2>3
<1>10. ASSUME s.group
       PROVE  /\ Cost(tasks, OfGroup(tasks, 0)) + size <= GroupLimit
              /\ Cost(tasks, OfGroup(tasks, today)) + size <= DailyLimit
  BY <1>1, <1>5, <1>6, <1>10, NotExceeded
<1>11. QED
  BY <1>7, <1>8, <1>9, <1>10 DEF RoomFor, Fits, s, size, today, user, share

LEMMA EnforcePreserves ==
  ASSUME IndInv, NEW r \in Requests, EnforceTransferQuotas(r)
  PROVE  IndInv'
<1>1. requests[r].pc = "limited" /\ UNCHANGED <<tasks, limits, day>>
  BY DEF EnforceTransferQuotas
<1>2. CASE Refused(r)
  BY <1>1, <1>2, EndPreserves DEF EnforceTransferQuotas
<1>3. CASE ~Refused(r)
  <2>1. SetRequest(r, "admitted")
    BY <1>3 DEF EnforceTransferQuotas
  <2>2. PICK q \in RequestRecord :
          /\ requests' = [requests EXCEPT ![r] = q]
          /\ q.pc = "admitted"
          /\ q.submission = Sub(r) /\ q.submission \in Submissions
          /\ q.day = requests[r].day /\ q.user = requests[r].user
          /\ q.node = requests[r].node
    BY <1>1, <2>1, PcFacts
  <2>3. RowsTyped /\ WellFormed(requests[r]) /\ requests[r] \in RequestRecord
    BY DEF IndInv, RowsTyped
  <2>4. OnNode(q.submission) => q.node \in NodeLimits
    BY <1>1, <2>2, <2>3 DEF WellFormed, Sub
  <2>5. WellFormed(q)
    BY <2>2, <2>4 DEF WellFormed
  <2>6. ASSUME QuotaHeld(q)
        PROVE  \A p \in Requests \ {r} : ~QuotaHeld(requests[p])
    <3>1. QuotaHeld(requests[r])
      BY <1>1, <2>2, <2>6 DEF QuotaHeld, Sub
    <3>2. QED
      BY <3>1 DEF IndInv, Locks
  <2>7. ASSUME Granted(q)
        PROVE  RoomFor(tasks, q)
    <3>1. requests[r] \in Checked
      BY <2>2, <2>3, <2>4, <2>7 DEF Granted, Checked, Sub
    <3>2. RoomFor(tasks, requests[r])
      BY <1>3, <2>3, <3>1, CheckGrants
    <3>3. QED
      BY <2>2, <3>2 DEF RoomFor, Sub
  <2>8. requests[r].pc \in KeyLocked
    BY <1>1 DEF KeyLocked
  <2>9. QED
    BY <1>1, <2>2, <2>5, <2>6, <2>7, <2>8, KeyKept, RequestMoves
<1>4. QED
  BY <1>2, <1>3

(***************************************************************************)
(* The commit: the row of r appears and its locks go.                      *)
(***************************************************************************)
LEMMA CommitFacts ==
  ASSUME IndInv, NEW r \in Requests, NEW t \in Tasks, CreateTransfer(r, t)
  PROVE  \E row \in Row :
           /\ tasks[t] = NoTask
           /\ tasks' = [tasks EXCEPT ![t] = row] /\ tasks' \in Table
           /\ requests[r].pc = "admitted"
           /\ requests' = [requests EXCEPT ![r] = Idle]
           /\ row.key = Sub(r).key /\ row.files = Sub(r).files
           /\ row.live = OnNode(Sub(r))
           /\ UNCHANGED <<limits, day>>
<1>1. PICK row : row = [user |-> Sub(r).user, key |-> Sub(r).key, group |-> Sub(r).group,
                        files |-> Sub(r).files, day |-> requests[r].day,
                        live |-> OnNode(Sub(r))]
  OBVIOUS
<1>2. /\ requests[r].pc = "admitted" /\ tasks[t] = NoTask
      /\ tasks' = [tasks EXCEPT ![t] = row]
      /\ requests' = [requests EXCEPT ![r] = Idle]
      /\ UNCHANGED <<limits, day>>
  BY <1>1 DEF CreateTransfer, End
<1>3. Sub(r) \in Submissions /\ requests[r].day \in 0..MaxDay
  BY <1>2 DEF IndInv, RowsTyped, WellFormed, Sub, RequestRecord
<1>4. Sub(r).files \in Seq(0..MaxInt) /\ Sub(r).group \in BOOLEAN
  BY <1>3, AdmissionAssumption
<1>5. OnNode(Sub(r)) \in BOOLEAN
  BY DEF OnNode
<1>6. row \in Row
  BY <1>1, <1>3, <1>4, <1>5 DEF Row
<1>7. tasks' \in Table
  BY <1>2, <1>6 DEF IndInv, RowsTyped, Table
<1>8. QED
  BY <1>1, <1>2, <1>6, <1>7

LEMMA CreatePreserves ==
  ASSUME IndInv, NEW r \in Requests, NEW t \in Tasks, CreateTransfer(r, t)
  PROVE  IndInv'
<1>1. PICK row \in Row :
        /\ tasks[t] = NoTask
        /\ tasks' = [tasks EXCEPT ![t] = row] /\ tasks' \in Table
        /\ requests[r].pc = "admitted"
        /\ requests' = [requests EXCEPT ![r] = Idle]
        /\ row.key = Sub(r).key /\ row.files = Sub(r).files
        /\ row.live = OnNode(Sub(r))
        /\ UNCHANGED <<limits, day>>
  BY CommitFacts
<1>2. RowsTyped /\ Locks /\ OneRowPerKey /\ KeysUnused /\ Room
  BY DEF IndInv
<1>3. /\ tasks'[t] = row /\ \A u \in Tasks \ {t} : tasks'[u] = tasks[u]
      /\ requests'[r] = Idle /\ \A p \in Requests \ {r} : requests'[p] = requests[p]
  BY <1>1, <1>2 DEF RowsTyped, Table
<1>4. /\ Idle \in RequestRecord
      /\ WellFormed(Idle) /\ ~QuotaHeld(Idle) /\ ~KeyHeld(Idle) /\ ~Granted(Idle)
  BY AdmissionAssumption
  DEF Idle, RequestRecord, WellFormed, QuotaHeld, KeyHeld, KeyLocked, Granted
<1>5. RowsTyped'
  BY <1>1, <1>2, <1>3, <1>4 DEF RowsTyped
<1>6. Locks'
  BY <1>2, <1>3, <1>4 DEF Locks, Sub
<1>7. row.key # NoKey => KeyHeld(requests[r])
  BY <1>1 DEF KeyHeld, KeyLocked, Sub
<1>8. OneRowPerKey'
  <2>1. \A u \in Tasks \ {t} : row.key # NoKey /\ tasks[u] # NoTask => tasks[u].key # row.key
    BY <1>1, <1>2, <1>7 DEF KeysUnused
  <2>2. ASSUME NEW u \in Tasks, NEW v \in Tasks, tasks'[u] # NoTask, tasks'[v] # NoTask,
               tasks'[u].key # NoKey, tasks'[u].key = tasks'[v].key
        PROVE  u = v
    <3>1. CASE u = t \/ v = t
      BY <1>3, <2>1, <2>2, <3>1
    <3>2. CASE u # t /\ v # t
      BY <1>2, <1>3, <2>2, <3>2 DEF OneRowPerKey
    <3>3. QED
      BY <3>1, <3>2
  <2>3. QED
    BY <2>2 DEF OneRowPerKey
<1>9. KeysUnused'
  <2>1. ASSUME NEW p \in Requests, KeyHeld(requests'[p]), NEW u \in Tasks, tasks'[u] # NoTask
        PROVE  tasks'[u].key # requests'[p].submission.key
    <3>1. p # r /\ requests'[p] = requests[p] /\ KeyHeld(requests[p])
      BY <1>3, <1>4, <2>1
    <3>2. CASE u = t
      BY <1>1, <1>2, <1>3, <1>7, <3>1, <3>2 DEF Locks, KeyHeld, Sub
    <3>3. CASE u # t
      BY <1>2, <1>3, <2>1, <3>1, <3>3 DEF KeysUnused, Sub
    <3>4. QED
      BY <3>2, <3>3
  <2>2. QED
    BY <2>1 DEF KeysUnused, Sub
<1>10. Room'
  <2>1. ASSUME NEW p \in Requests, Granted(requests'[p])
        PROVE  RoomFor(tasks', requests'[p])
    <3>1. p # r /\ requests'[p] = requests[p] /\ Granted(requests[p])
      BY <1>3, <1>4, <2>1
    <3>2. ~OnNode(Sub(r))
      BY <1>1, <1>2, <3>1 DEF Locks, QuotaHeld, Granted, Sub
    <3>3. Fades(tasks, tasks')
      BY <1>1, <1>3, <3>2 DEF Fades, Live
    <3>4. requests[p] \in Checked /\ RoomFor(tasks, requests[p])
      BY <1>2, <3>1, GrantedIsChecked DEF Room
    <3>5. tasks \in Table
      BY <1>2 DEF RowsTyped
    <3>6. RoomFor(tasks', requests[p])
      BY <1>1, <3>3, <3>4, <3>5, RoomStays
    <3>7. QED
      BY <3>1, <3>6
  <2>2. QED
    BY <2>1 DEF Room
<1>11. QED
  BY <1>5, <1>6, <1>8, <1>9, <1>10 DEF IndInv

LEMMA MarkPreserves ==
  ASSUME IndInv, NEW t \in Tasks, MarkFileExpired(t)
  PROVE  IndInv'
<1>1. /\ tasks[t] # NoTask
      /\ tasks' = [tasks EXCEPT ![t] = [tasks[t] EXCEPT !.live = FALSE]]
      /\ UNCHANGED <<limits, requests, day>>
  BY DEF MarkFileExpired, Stored
<1>2. /\ tasks \in Table /\ limits \in [user : UserLimits, node : NodeLimits]
      /\ day \in 0..MaxDay
  BY DEF IndInv, RowsTyped
<1>3. tasks[t] \in Row
  BY <1>1, <1>2 DEF Table
<1>4. PICK row : row = [tasks[t] EXCEPT !.live = FALSE]
  OBVIOUS
<1>5. row \in Row /\ row.live = FALSE /\ row.key = tasks[t].key
  BY <1>3, <1>4 DEF Row
<1>6. tasks' = [tasks EXCEPT ![t] = row]
  BY <1>1, <1>4
<1>7. tasks' \in Table /\ tasks'[t] = row /\ \A u \in Tasks \ {t} : tasks'[u] = tasks[u]
  BY <1>2, <1>5, <1>6 DEF Table
<1>8. Fades(tasks, tasks')
  BY <1>5, <1>7 DEF Fades, Live
<1>9. \A u \in Tasks : tasks'[u] # NoTask => tasks[u] # NoTask /\ tasks'[u].key = tasks[u].key
  BY <1>1, <1>5, <1>7
<1>10. QED
  BY <1>1, <1>2, <1>7, <1>8, <1>9, TableFades

LEMMA DeleteGroupPreserves ==
  ASSUME IndInv, DeleteAdminGroup
  PROVE  IndInv'
<1>1. /\ tasks' = [t \in Tasks |-> IF tasks[t] # NoTask THEN [tasks[t] EXCEPT !.group = FALSE]
                                                        ELSE NoTask]
      /\ UNCHANGED <<limits, requests, day>>
  BY DEF DeleteAdminGroup
<1>2. /\ tasks \in Table /\ limits \in [user : UserLimits, node : NodeLimits]
      /\ day \in 0..MaxDay
  BY DEF IndInv, RowsTyped
<1>3. ASSUME NEW t \in Tasks
      PROVE  /\ tasks'[t] \in Row \cup {NoTask}
             /\ tasks'[t] # NoTask =>
                  /\ tasks[t] # NoTask
                  /\ tasks'[t].key = tasks[t].key /\ tasks'[t].user = tasks[t].user
                  /\ tasks'[t].files = tasks[t].files /\ tasks'[t].day = tasks[t].day
                  /\ tasks'[t].live = tasks[t].live /\ ~tasks'[t].group
  <2>1. CASE tasks[t] = NoTask
    BY <1>1, <2>1
  <2>2. CASE tasks[t] # NoTask
    <3>1. tasks[t] \in Row
      BY <1>2, <2>2 DEF Table
    <3>2. PICK row : row = [tasks[t] EXCEPT !.group = FALSE]
      OBVIOUS
    <3>3. /\ row \in Row /\ row.key = tasks[t].key /\ row.user = tasks[t].user
          /\ row.files = tasks[t].files /\ row.day = tasks[t].day
          /\ row.live = tasks[t].live /\ row.group = FALSE
      BY <3>1, <3>2 DEF Row
    <3>4. tasks'[t] = row
      BY <1>1, <2>2, <3>2
    <3>5. QED
      BY <2>2, <3>3, <3>4
  <2>3. QED
    BY <2>1, <2>2
<1>4. tasks' \in Table
  BY <1>1, <1>3 DEF Table
<1>5. Fades(tasks, tasks')
  BY <1>3 DEF Fades, Live
<1>6. QED
  BY <1>1, <1>2, <1>3, <1>4, <1>5, TableFades

LEMMA LimitsPreserve ==
  ASSUME IndInv, UNCHANGED <<tasks, requests>>,
         limits' \in [user : UserLimits, node : NodeLimits], day' \in 0..MaxDay
  PROVE  IndInv'
<1>1. tasks' = tasks /\ requests' = requests /\ tasks' \in Table
  BY DEF IndInv, RowsTyped
<1>2. Fades(tasks, tasks')
  BY <1>1 DEF Fades
<1>3. QED
  BY <1>1, <1>2, TableFades

LEMMA RequestPreserves ==
  ASSUME IndInv, NEW r \in Requests, Request(r)
  PROVE  IndInv'
<1>1. CASE \E s \in Submissions : Submit(r, s)
  BY <1>1, SubmitPreserves
<1>2. CASE \E t \in Tasks : CreateTransfer(r, t)
  BY <1>2, CreatePreserves
<1>3. CASE Rollback(r)
  BY <1>3, EndPreserves DEF Rollback
<1>4. QED
  BY <1>1, <1>2, <1>3, LockKeyPreserves, SkipQuotaPreserves, LockQuotaPreserves,
     EnforcePreserves DEF Request

LEMMA NextPreserves ==
  ASSUME IndInv, [Next]_vars
  PROVE  IndInv'
<1>1. limits \in [user : UserLimits, node : NodeLimits] /\ day \in 0..MaxDay /\ MaxDay \in Nat
  BY AdmissionAssumption DEF IndInv, RowsTyped
<1>2. CASE \E r \in Requests : Request(r)
  BY <1>2, RequestPreserves
<1>3. CASE \/ \E value \in UserLimits : SetAdminQuota(value)
           \/ \E value \in NodeLimits : UpdateAdminNodeSettings(value)
  <2>1. limits' \in [user : UserLimits, node : NodeLimits]
    BY <1>1, <1>3 DEF SetAdminQuota, UpdateAdminNodeSettings
  <2>2. UNCHANGED <<tasks, requests, day>>
    BY <1>3 DEF SetAdminQuota, UpdateAdminNodeSettings
  <2>3. QED
    BY <1>1, <2>1, <2>2, LimitsPreserve
<1>4. CASE \E t \in Tasks : MarkFileExpired(t)
  BY <1>4, MarkPreserves
<1>5. CASE DeleteAdminGroup
  BY <1>5, DeleteGroupPreserves
<1>6. CASE NewDay
  BY <1>1, <1>6, LimitsPreserve DEF NewDay
<1>7. CASE UNCHANGED vars
  BY <1>1, <1>7, LimitsPreserve DEF vars
<1>8. QED
  BY <1>2, <1>3, <1>4, <1>5, <1>6, <1>7 DEF Next

LEMMA InitEstablishes ==
  ASSUME Init
  PROVE  IndInv
<1>1. /\ tasks = [t \in Tasks |-> NoTask] /\ day = 0
      /\ limits \in [user : UserLimits, node : NodeLimits]
      /\ requests = [r \in Requests |-> Idle]
  BY DEF Init
<1>2. /\ Idle \in RequestRecord
      /\ WellFormed(Idle) /\ ~QuotaHeld(Idle) /\ ~KeyHeld(Idle) /\ ~Granted(Idle)
  BY AdmissionAssumption
  DEF Idle, RequestRecord, WellFormed, QuotaHeld, KeyHeld, KeyLocked, Granted
<1>3. RowsTyped
  BY <1>1, <1>2, AdmissionAssumption DEF RowsTyped, Table
<1>4. Locks /\ OneRowPerKey /\ KeysUnused /\ Room
  BY <1>1, <1>2 DEF Locks, OneRowPerKey, KeysUnused, Room
<1>5. QED
  BY <1>3, <1>4 DEF IndInv

-----------------------------------------------------------------------------
(***************************************************************************)
(* The invariant of admission, for every set of requests, transfers and    *)
(* limits and every width of the integers.                                 *)
(***************************************************************************)
THEOREM Inductive == Spec => []IndInv
<1>1. Init => IndInv
  BY InitEstablishes
<1>2. IndInv /\ [Next]_vars => IndInv'
  BY NextPreserves
<1>3. QED
  BY <1>1, <1>2, PTL DEF Spec

(***************************************************************************)
(* Retried creations: however many requests with one idempotency key run   *)
(* at the same time, CreateTransfer inserts one row for it.                *)
(***************************************************************************)
THEOREM KeyOnce == Spec => []OneRowPerKey
<1>1. IndInv => OneRowPerKey
  BY DEF IndInv
<1>2. QED
  BY <1>1, Inductive, PTL

(***************************************************************************)
(* No matter how many requests are admitted at the same time, the limits   *)
(* that enforceTransferQuotas compared with hold when the row is committed.*)
(***************************************************************************)
THEOREM QuotasHold == Spec => QuotasKept
<1>1. ASSUME IndInv, [Next]_vars, NEW r \in Requests, Commits(r), OnNode(Sub(r)),
             NEW q, q = requests[r]
      PROVE  WithinLimits(q.submission, q.day, q.user, q.node)
  <2>1. requests[r].pc = "admitted" /\ requests'[r].pc = "idle" /\ tasks' # tasks
    BY <1>1 DEF Commits
  <2>2. requests \in [Requests -> RequestRecord] /\ tasks \in Table /\ RowsTyped
    BY <1>1 DEF IndInv, RowsTyped
  <2>3. PICK p \in Requests : Request(p)
    BY <1>1, <2>1
    DEF Next, SetAdminQuota, UpdateAdminNodeSettings, MarkFileExpired, DeleteAdminGroup,
        NewDay, vars
  <2>4. PICK t \in Tasks : CreateTransfer(p, t)
    BY <2>1, <2>3
    DEF Request, Submit, LockKey, SkipQuota, LockQuota, EnforceTransferQuotas, Rollback
  <2>5. PICK row \in Row :
          /\ tasks[t] = NoTask
          /\ tasks' = [tasks EXCEPT ![t] = row] /\ tasks' \in Table
          /\ requests' = [requests EXCEPT ![p] = Idle]
          /\ row.files = Sub(p).files
    BY <1>1, <2>4, CommitFacts
  <2>6. p = r
    BY <2>1, <2>2, <2>5
  <2>7. Granted(requests[r])
    BY <1>1, <2>1 DEF Granted, Sub
  <2>8. q \in Checked /\ RoomFor(tasks, q)
    BY <1>1, <2>2, <2>7, GrantedIsChecked DEF IndInv, Room
  <2>9. Fits(tasks', q.submission, q.day, q.user, q.node, 0)
    BY <1>1, <2>2, <2>5, <2>6, <2>8, RoomSpent DEF Sub
  <2>10. /\ Cost(tasks', OfUser(tasks', q.submission.user)) \in Nat
         /\ Cost(tasks', OfDay(tasks', q.submission.user, q.day)) \in Nat
         /\ Cost(tasks', Live(tasks')) \in Nat
         /\ Cost(tasks', OfGroup(tasks', 0)) \in Nat
         /\ Cost(tasks', OfGroup(tasks', q.day)) \in Nat
    BY <2>5, CostType
  <2>11. /\ UserUsage(q.submission.user)' <= q.user
         /\ DailyUsage(q.submission.user, q.day)' <= DailyLimit
         /\ 100 * NodeUsage' <= q.node * StopPercent
         /\ q.submission.group => /\ GroupUsage(0)' <= GroupLimit
                                  /\ GroupUsage(q.day)' <= DailyLimit
    BY <2>9, <2>10, UsageIs DEF Fits
  <2>12. QED
    BY <2>11 DEF WithinLimits
<1>2. ASSUME IndInv, [Next]_vars
      PROVE  \A r \in Requests : Commits(r) /\ OnNode(Sub(r)) =>
               \E q \in {requests[r]} : WithinLimits(q.submission, q.day, q.user, q.node)
  BY <1>1, <1>2
<1>3. IndInv /\ [Next]_vars =>
        [\A r \in Requests : Commits(r) /\ OnNode(Sub(r)) =>
           \E q \in {requests[r]} : WithinLimits(q.submission, q.day, q.user, q.node)]_vars
  BY <1>2
<1>4. QED
  BY <1>3, Inductive, PTL DEF Spec, QuotasKept

=============================================================================
