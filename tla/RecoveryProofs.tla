--------------------------- MODULE RecoveryProofs ---------------------------
(***************************************************************************)
(* Proofs about Recovery, for every number of items and coordinators and   *)
(* every limit of retries and faults.                                      *)
(***************************************************************************)
EXTENDS Recovery, FiniteSetTheorems, TLAPS

Working(c) == passes[c].pc \in {"resume", "release"}

(***************************************************************************)
(* A lease is held for every item at work unless it lapsed meanwhile, and  *)
(* until then no second coordinator is at work on the item.  ReleaseLease  *)
(* names no holder, so the second part is what makes the first inductive.  *)
(***************************************************************************)
LeasedWork ==
  \A c \in Coordinators : Working(c) =>
    /\ passes[c].item \in Items
    /\ passes[c].item \notin lapsed => passes[c].item \in leases

Alone ==
  \A c, e \in Coordinators :
    Working(c) /\ Working(e) /\ passes[c].item = passes[e].item /\ passes[c].item \notin lapsed => c = e

IndInv == TypeOK /\ LeasedWork /\ Alone

Row == [status : {"PENDING", "COMPLETED", "DEAD_LETTER"}, retries : 0..MaxRetries,
        due : BOOLEAN, error : Remembered]
Work == [item : Items, retries : 0..MaxRetries, error : Remembered]
Pass == [pc : {"idle", "pass", "resume", "release"}, todo : SUBSET Work,
         item : Items \cup {Nothing}, retries : 0..MaxRetries, error : Remembered]

LEMMA TypedState ==
  ASSUME TypeOK
  PROVE  /\ rows \in [Items -> Row]
         /\ leases \in SUBSET Items
         /\ passes \in [Coordinators -> Pass]
         /\ lapsed \in SUBSET Items
         /\ faults \in 0..MaxFaults
  BY DEF TypeOK, Row, Work, Pass

-----------------------------------------------------------------------------
(***************************************************************************)
(* Classification and marks.                                               *)
(***************************************************************************)
LEMMA ResultTyped ==
  ASSUME NEW previous \in Remembered, NEW result \in Results[previous]
  PROVE  /\ result.error \in Remembered
         /\ result.class \in {"Completed", "WaitForReceiver", "ReconcileState", "RetryWithBackoff",
                              "RetryImmediately", "TerminalFailure"}
<1>1. PICK o \in Outcomes :
        result = [class |-> Classify(previous, o), error |-> Remember(StableError(o)), repaired |-> o.repaired]
  BY DEF Results
<1>2. Remember(StableError(o)) \in Remembered
  BY DEF Remember, Remembered
<1>3. Classify(previous, o) \in {"Completed", "WaitForReceiver", "ReconcileState", "RetryWithBackoff",
                                 "RetryImmediately", "TerminalFailure"}
  BY DEF Classify, ClassifyCode
<1>4. QED
  BY <1>1, <1>2, <1>3

LEMMA MarkTyped ==
  ASSUME rows \in [Items -> Row], NEW i \in Items, NEW row \in Row, Mark(i, row)
  PROVE  rows' \in [Items -> Row]
  BY DEF Mark

LEMMA SettleTyped ==
  ASSUME rows \in [Items -> Row], NEW i \in Items, NEW status \in {"COMPLETED", "DEAD_LETTER"},
         Settle(i, status)
  PROVE  rows' \in [Items -> Row]
<1>1. [rows[i] EXCEPT !.status = status, !.due = FALSE] \in Row
  BY DEF Row
<1>2. QED
  BY <1>1, MarkTyped DEF Settle

LEMMA WaitTyped ==
  ASSUME rows \in [Items -> Row], NEW i \in Items, NEW due \in BOOLEAN, NEW error \in Remembered,
         NEW retries \in 0..MaxRetries, Wait(i, due, error, retries)
  PROVE  rows' \in [Items -> Row]
<1>1. [rows[i] EXCEPT !.due = due, !.error = error, !.retries = retries] \in Row
  BY DEF Row
<1>2. QED
  BY <1>1, MarkTyped DEF Wait

LEMMA ApplyTyped ==
  ASSUME rows \in [Items -> Row], NEW i \in Items, NEW retries \in 0..MaxRetries,
         NEW previous \in Remembered, NEW result \in Results[previous], Apply(i, retries, result)
  PROVE  rows' \in [Items -> Row]
<1>1. /\ result.error \in Remembered
      /\ result.class \in {"Completed", "WaitForReceiver", "ReconcileState", "RetryWithBackoff",
                           "RetryImmediately", "TerminalFailure"}
  BY ResultTyped
<1>2. ~Exhausted(retries) => retries + 1 \in 0..MaxRetries
  BY RecoveryAssumption DEF Exhausted
<1>3. "OTHER" \in Remembered /\ TRUE \in BOOLEAN /\ FALSE \in BOOLEAN
  BY DEF Remembered
<1>4. CASE result.class \in {"Completed", "TerminalFailure"}
  BY <1>4, SettleTyped DEF Apply
<1>5. CASE result.class = "RetryWithBackoff"
  BY <1>1, <1>2, <1>3, <1>5, SettleTyped, WaitTyped DEF Apply
<1>6. CASE result.class = "RetryImmediately"
  BY <1>1, <1>3, <1>6, WaitTyped DEF Apply
<1>7. CASE result.class = "WaitForReceiver"
  BY <1>1, <1>3, <1>7, WaitTyped DEF Apply
<1>8. CASE result.class = "ReconcileState"
  BY <1>1, <1>3, <1>8, WaitTyped DEF Apply
<1>9. QED
  BY <1>1, <1>4, <1>5, <1>6, <1>7, <1>8

-----------------------------------------------------------------------------
LEMMA InitIndInv == Init => IndInv
<1> SUFFICES ASSUME Init PROVE IndInv
  OBVIOUS
<1>1. TypeOK
  BY RecoveryAssumption DEF Init, TypeOK, Remembered
<1>2. LeasedWork /\ Alone
  BY DEF Init, LeasedWork, Alone, Working
<1>3. QED
  BY <1>1, <1>2 DEF IndInv

\* A coordinator that goes on without taking or releasing a lease.
LEMMA PassMoves ==
  ASSUME IndInv, NEW c \in Coordinators, NEW p \in Pass, passes' = [passes EXCEPT ![c] = p],
         rows' \in [Items -> Row],
         faults' \in 0..MaxFaults, UNCHANGED <<leases, lapsed>>,
         \/ p.pc \in {"idle", "pass"}
         \/ p.pc = "release" /\ passes[c].pc = "resume" /\ p.item = passes[c].item
  PROVE  IndInv'
<1>1. passes \in [Coordinators -> Pass] /\ leases \in SUBSET Items /\ lapsed \in SUBSET Items
  BY TypedState DEF IndInv
<1>2. /\ passes' \in [Coordinators -> Pass]
      /\ \A e \in Coordinators : passes'[e] = IF e = c THEN p ELSE passes[e]
  BY <1>1
<1>3. TypeOK'
  BY <1>1, <1>2 DEF TypeOK, Row, Work, Pass
<1>4. LeasedWork' /\ Alone'
  BY <1>2 DEF IndInv, LeasedWork, Alone, Working
<1>5. QED
  BY <1>3, <1>4 DEF IndInv

LEMMA ListRecoverablePreserves ==
  ASSUME IndInv, NEW c \in Coordinators, ListRecoverable(c)
  PROVE  IndInv'
<1>1. /\ rows \in [Items -> Row] /\ passes \in [Coordinators -> Pass] /\ faults \in 0..MaxFaults
  BY TypedState DEF IndInv
<1>2. PICK listing \in SUBSET Work :
        passes' = [passes EXCEPT ![c].pc = "pass", ![c].todo = listing]
  <2>1. Listing \in SUBSET Work
    BY <1>1 DEF Listing, Recoverable, Work, Row
  <2>2. QED
    BY <2>1 DEF ListRecoverable, Listings
<1> DEFINE p == [passes[c] EXCEPT !.pc = "pass", !.todo = listing]
<1>3. p \in Pass /\ p.pc = "pass"
  BY <1>1 DEF Pass
<1>4. passes' = [passes EXCEPT ![c] = p]
  BY <1>1, <1>2
<1> HIDE DEF p
<1>5. QED
  BY <1>1, <1>3, <1>4, PassMoves DEF ListRecoverable

\* A lease that is granted was free: nobody is at work on the item under one.
LEMMA TryLeasePreserves ==
  ASSUME IndInv, NEW c \in Coordinators, TryLease(c)
  PROVE  IndInv'
<1>1. /\ rows \in [Items -> Row] /\ passes \in [Coordinators -> Pass]
      /\ leases \in SUBSET Items /\ lapsed \in SUBSET Items /\ faults \in 0..MaxFaults
  BY TypedState DEF IndInv
<1>2. passes[c].pc = "pass" /\ UNCHANGED <<rows, lapsed, faults>>
  BY DEF TryLease
<1>3. PICK work \in passes[c].todo :
        \/ /\ Leasable(work.item)
           /\ leases' = leases \cup {work.item}
           /\ passes' = [passes EXCEPT ![c] = [pc |-> "resume", todo |-> passes[c].todo \ {work},
                item |-> work.item, retries |-> work.retries, error |-> work.error]]
        \/ /\ passes' = [passes EXCEPT ![c].todo = passes[c].todo \ {work}]
           /\ UNCHANGED leases
  BY <1>1 DEF TryLease
<1>4. work \in Work /\ passes[c].todo \ {work} \in SUBSET Work
  BY <1>1, <1>3 DEF Pass
<1>5. CASE /\ Leasable(work.item)
           /\ leases' = leases \cup {work.item}
           /\ passes' = [passes EXCEPT ![c] = [pc |-> "resume", todo |-> passes[c].todo \ {work},
                item |-> work.item, retries |-> work.retries, error |-> work.error]]
  <2> DEFINE p == [pc |-> "resume", todo |-> passes[c].todo \ {work},
                   item |-> work.item, retries |-> work.retries, error |-> work.error]
  <2>1. p \in Pass /\ p.pc = "resume" /\ p.item = work.item /\ work.item \in Items
    BY <1>4 DEF Pass, Work
  <2> HIDE DEF p
  <2>2. /\ passes' \in [Coordinators -> Pass]
        /\ \A e \in Coordinators : passes'[e] = IF e = c THEN p ELSE passes[e]
    BY <1>1, <1>5, <2>1 DEF p
  <2>3. TypeOK'
    BY <1>1, <1>2, <1>5, <2>1, <2>2 DEF TypeOK, Row, Work, Pass
  <2>4. LeasedWork' /\ Alone'
    BY <1>2, <1>5, <2>1, <2>2 DEF IndInv, LeasedWork, Alone, Working, Leasable
  <2>5. QED
    BY <2>3, <2>4 DEF IndInv
<1>6. CASE passes' = [passes EXCEPT ![c].todo = passes[c].todo \ {work}] /\ UNCHANGED leases
  <2> DEFINE p == [passes[c] EXCEPT !.todo = passes[c].todo \ {work}]
  <2>1. p \in Pass /\ p.pc = "pass"
    BY <1>1, <1>2, <1>4 DEF Pass
  <2>2. passes' = [passes EXCEPT ![c] = p]
    BY <1>6
  <2> HIDE DEF p
  <2>3. QED
    BY <1>1, <1>2, <1>6, <2>1, <2>2, PassMoves
<1>7. QED
  BY <1>3, <1>5, <1>6

LEMMA ResumePreserves ==
  ASSUME IndInv, NEW c \in Coordinators, Resume(c)
  PROVE  IndInv'
<1> DEFINE p == [passes[c] EXCEPT !.pc = "release"]
<1>1. /\ rows \in [Items -> Row] /\ passes \in [Coordinators -> Pass] /\ faults \in 0..MaxFaults
  BY TypedState DEF IndInv
<1>2. passes[c].pc = "resume" /\ passes[c].item \in Items
  BY DEF Resume, IndInv, LeasedWork, Working
<1>3. p \in Pass /\ p.pc = "release" /\ p.item = passes[c].item
  BY <1>1 DEF Pass
<1>4. passes' = [passes EXCEPT ![c] = p]
  BY <1>1 DEF Resume
<1>5. rows' \in [Items -> Row]
  <2>1. passes[c].error \in Remembered /\ passes[c].retries \in 0..MaxRetries
    BY <1>1 DEF Pass
  <2>2. PICK result \in Results[passes[c].error] : Apply(passes[c].item, passes[c].retries, result)
    BY DEF Resume
  <2>3. QED
    BY <1>1, <1>2, <2>1, <2>2, ApplyTyped
<1> HIDE DEF p
<1>6. QED
  BY <1>1, <1>2, <1>3, <1>4, <1>5, PassMoves DEF Resume

\* The pass of a coordinator that has let its item go.
Cleared(q) == [q EXCEPT !.pc = "pass", !.item = Nothing, !.retries = 0, !.error = "OTHER"]

LEMMA ClearedTyped ==
  ASSUME NEW q \in Pass
  PROVE  Cleared(q) \in Pass /\ Cleared(q).pc = "pass"
<1> DEFINE q1 == [q EXCEPT !.pc = "pass"]
           q2 == [q1 EXCEPT !.item = Nothing]
           q3 == [q2 EXCEPT !.retries = 0]
           q4 == [q3 EXCEPT !.error = "OTHER"]
<1>1. q1 \in Pass /\ q1.pc = "pass"
  BY DEF Pass
<1> HIDE DEF q1
<1>2. q2 \in Pass /\ q2.pc = "pass"
  BY <1>1 DEF Pass
<1> HIDE DEF q2
<1>3. q3 \in Pass /\ q3.pc = "pass"
  BY <1>2, RecoveryAssumption DEF Pass
<1> HIDE DEF q3
<1>4. q4 \in Pass /\ q4.pc = "pass"
  BY <1>3 DEF Pass, Remembered
<1>5. QED
  BY <1>4 DEF q1, q2, q3, Cleared

\* The lease that goes is the coordinator's own unless it has lapsed.
LEMMA ReleaseLeasePreserves ==
  ASSUME IndInv, NEW c \in Coordinators, ReleaseLease(c)
  PROVE  IndInv'
<1> DEFINE p == Cleared(passes[c])
<1>1. /\ rows \in [Items -> Row] /\ passes \in [Coordinators -> Pass]
      /\ leases \in SUBSET Items /\ lapsed \in SUBSET Items /\ faults \in 0..MaxFaults
  BY TypedState DEF IndInv
<1>2. p \in Pass /\ p.pc = "pass"
  BY <1>1, ClearedTyped
<1>3. /\ passes[c].pc = "release" /\ leases' = leases \ {passes[c].item}
      /\ UNCHANGED <<rows, lapsed, faults>>
      /\ passes' = [passes EXCEPT ![c] = p]
  BY <1>1 DEF ReleaseLease, Cleared
<1> HIDE DEF p
<1>4. /\ passes' \in [Coordinators -> Pass]
      /\ \A e \in Coordinators : passes'[e] = IF e = c THEN p ELSE passes[e]
  BY <1>1, <1>2, <1>3
<1>5. TypeOK'
  BY <1>1, <1>3, <1>4 DEF TypeOK, Row, Work, Pass
<1>6. LeasedWork' /\ Alone'
  BY <1>2, <1>3, <1>4 DEF IndInv, LeasedWork, Alone, Working
<1>7. QED
  BY <1>5, <1>6 DEF IndInv

LEMMA EndPassPreserves ==
  ASSUME IndInv, NEW c \in Coordinators, EndPass(c) \/ Abandon(c)
  PROVE  IndInv'
<1>1. /\ rows \in [Items -> Row] /\ passes \in [Coordinators -> Pass] /\ faults \in 0..MaxFaults
  BY TypedState DEF IndInv
<1>2. faults' \in 0..MaxFaults
  BY <1>1, RecoveryAssumption DEF EndPass, Abandon
<1>3. PICK p \in Pass : p.pc = "idle" /\ passes' = [passes EXCEPT ![c] = p]
  <2>1. CASE EndPass(c)
    <3>1. [passes[c] EXCEPT !.pc = "idle"] \in Pass /\ [passes[c] EXCEPT !.pc = "idle"].pc = "idle"
      BY <1>1 DEF Pass
    <3>2. passes' = [passes EXCEPT ![c] = [passes[c] EXCEPT !.pc = "idle"]]
      BY <1>1, <2>1 DEF EndPass
    <3>3. QED
      BY <3>1, <3>2
  <2>2. CASE Abandon(c)
    <3> DEFINE p == [pc |-> "idle", todo |-> {}, item |-> Nothing, retries |-> 0, error |-> "OTHER"]
    <3>1. p \in Pass /\ p.pc = "idle"
      BY RecoveryAssumption DEF Pass, Remembered
    <3>2. passes' = [passes EXCEPT ![c] = p]
      BY <2>2 DEF Abandon
    <3>3. QED
      BY <3>1, <3>2
  <2>3. QED
    BY <2>1, <2>2
<1>4. QED
  BY <1>1, <1>2, <1>3, PassMoves DEF EndPass, Abandon

\* A lease that lapses under a coordinator is remembered.
LEMMA TimePreserves ==
  ASSUME IndInv, NEW i \in Items, TimeStep(i)
  PROVE  IndInv'
<1>1. /\ rows \in [Items -> Row] /\ passes \in [Coordinators -> Pass]
      /\ leases \in SUBSET Items /\ lapsed \in SUBSET Items /\ faults \in 0..MaxFaults
  BY TypedState DEF IndInv
<1>2. UNCHANGED <<passes, faults>>
  BY DEF TimeStep, BecomeDue, LapseLease
<1>3. CASE BecomeDue(i)
  <2>1. rows' \in [Items -> Row]
    BY <1>1, <1>3 DEF BecomeDue, Row
  <2>2. TypeOK'
    BY <1>1, <1>2, <1>3, <2>1 DEF BecomeDue, TypeOK, Row, Work, Pass
  <2>3. QED
    BY <1>3, <2>2 DEF BecomeDue, IndInv, LeasedWork, Alone, Working
<1>4. CASE LapseLease(i)
  <2>1. TypeOK'
    BY <1>1, <1>2, <1>4 DEF LapseLease, TypeOK, Row, Work, Pass
  <2>2. (\E c \in Coordinators : Working(c) /\ passes[c].item = i) => i \in lapsed'
    BY <1>4 DEF LapseLease, AtWork, Working
  <2>3. LeasedWork' /\ Alone'
    BY <1>2, <1>4, <2>2 DEF LapseLease, IndInv, LeasedWork, Alone, Working
  <2>4. QED
    BY <2>1, <2>3 DEF IndInv
<1>5. QED
  BY <1>3, <1>4 DEF TimeStep

LEMMA Inductive == Spec => []IndInv
<1>1. IndInv /\ [Next]_vars => IndInv'
  <2> SUFFICES ASSUME IndInv, [Next]_vars PROVE IndInv'
    OBVIOUS
  <2>1. CASE UNCHANGED vars
    BY <2>1 DEF vars, IndInv, TypeOK, LeasedWork, Alone, Working
  <2>2. ASSUME NEW c \in Coordinators, PassStep(c) \/ Abandon(c)
        PROVE  IndInv'
    BY <2>2, ListRecoverablePreserves, TryLeasePreserves, ResumePreserves, ReleaseLeasePreserves,
       EndPassPreserves DEF PassStep
  <2>3. QED
    BY <2>1, <2>2, TimePreserves DEF Next
<1>2. QED
  BY InitIndInv, <1>1, PTL DEF Spec

-----------------------------------------------------------------------------
\* Rows, leases and passes of RunOnce keep their types; in particular no retry
\* count passes MaxRetries, although it is written from a stale listing.
THEOREM TypeCorrect == Spec => []TypeOK
<1>1. IndInv => TypeOK
  BY DEF IndInv
<1>2. QED
  BY <1>1, Inductive, PTL

\* RunOnce: as long as its lease has not lapsed, an item has one coordinator at
\* work on it, for any number of coordinators and items.
THEOREM SingleRunner == Spec => []OneRunner
<1>1. IndInv => OneRunner
  <2> SUFFICES ASSUME IndInv, NEW i \in Items, i \notin lapsed
               PROVE  Cardinality(AtWork(i)) <= 1
    BY DEF OneRunner
  <2>1. \A c, e \in AtWork(i) : c = e
    BY DEF IndInv, Alone, AtWork, Working
  <2>2. CASE AtWork(i) = {}
    BY <2>2, FS_EmptySet
  <2>3. CASE AtWork(i) # {}
    <3>1. PICK c : AtWork(i) = {c}
      BY <2>1, <2>3
    <3>2. QED
      BY <3>1, FS_Singleton
  <2>4. QED
    BY <2>2, <2>3
<1>2. QED
  BY <1>1, Inductive, PTL
=============================================================================
