------------------------------ MODULE Recovery ------------------------------
(***************************************************************************)
(* The recovery coordinator (recovery/coordinator.go): passes of RunOnce   *)
(* over the targets that need work, each claimed under a lease.            *)
(*                                                                         *)
(* Several coordinators run passes at the same time (startup, schedule and *)
(* operator request).  RunOnce reads the clock and the rows once, at the   *)
(* start of a pass, so later items are handled from what was read then.    *)
(* Store and Runner are interfaces without an implementation, and nothing  *)
(* calls RunOnce yet; the store is modelled from what RunOnce hands it and *)
(* marked external, and no fairness is assumed.  Durations are abstracted: *)
(* a wait ends and a lease lapses at any time, a Resume may outlive its    *)
(* lease, which runs from the start of the pass.                           *)
(***************************************************************************)
EXTENDS Naturals, FiniteSets

CONSTANTS
  Items,         \* transfer targets that need recovery
  Coordinators,  \* passes that may run at the same time
  Limit,         \* the most items one pass lists
  MaxRetries,    \* Config.MaxRetries after normalized
  MaxFaults,     \* bound: store errors and crashes in a behaviour
  Nothing        \* no item at hand

ASSUME RecoveryAssumption ==
  /\ Limit \in Nat \ {0}
  /\ MaxRetries \in Nat \ {0}
  /\ MaxFaults \in Nat
  /\ Nothing \notin Items

VARIABLES
  rows,     \* the store's row of each item
  leases,   \* items under a lease that has not lapsed
  passes,   \* what each coordinator has listed and holds
  lapsed,   \* history: items whose lease ran out while a coordinator worked
            \*   on them
  faults

vars == <<rows, leases, passes, lapsed, faults>>

\* One representative for each group of codes that Classify tells apart.
Codes == {"NONE", "RECEIVER_OFFLINE", "MISSING_CHUNK", "TIMEOUT", "STALE_LOCK",
          "HASH_MISMATCH", "RECOVERY_FAILED"}

\* What Resume returns: the Outcome and whether there was an error besides.
Outcomes ==
  [completed : BOOLEAN, offline : BOOLEAN, inconsistent : BOOLEAN, repaired : BOOLEAN,
   code : (Codes \ {"NONE", "RECOVERY_FAILED"}) \cup {""}, failed : BOOLEAN]

StableError(o) ==
  IF o.code # "" THEN o.code ELSE IF o.failed THEN "RECOVERY_FAILED" ELSE "NONE"

ClassifyCode(o) ==
  CASE StableError(o) = "TIMEOUT" -> "RetryWithBackoff"
    [] StableError(o) = "STALE_LOCK" -> "RetryImmediately"
    [] StableError(o) = "HASH_MISMATCH" -> "TerminalFailure"
    [] OTHER -> IF o.failed THEN "RetryWithBackoff" ELSE "TerminalFailure"

\* previous: the error code the item had when it was listed.
Classify(previous, o) ==
  IF o.completed /\ ~o.failed THEN "Completed"
  ELSE IF o.offline \/ "RECEIVER_OFFLINE" \in {previous, o.code} THEN "WaitForReceiver"
  ELSE IF o.inconsistent \/ previous = "MISSING_CHUNK" THEN "ReconcileState"
  ELSE ClassifyCode(o)

\* Of the code stored with an item, Classify asks only whether it is one of two.
Remembered == {"RECEIVER_OFFLINE", "MISSING_CHUNK", "OTHER"}
Remember(code) == IF code \in Remembered THEN code ELSE "OTHER"

\* What RunOnce makes of the outcomes, for each code an item was listed with.
Results == [previous \in Remembered |->
  {[class |-> Classify(previous, o), error |-> Remember(StableError(o)), repaired |-> o.repaired] :
     o \in Outcomes}]

Init ==
  /\ rows = [i \in Items |-> [status |-> "PENDING", retries |-> 0, due |-> TRUE,
                              error |-> "OTHER"]]
  /\ leases = {}
  /\ passes = [c \in Coordinators |-> [pc |-> "idle", todo |-> {}, item |-> Nothing,
                                       retries |-> 0, error |-> "OTHER"]]
  /\ lapsed = {}
  /\ faults = 0

(***************************************************************************)
(* The store.  A listing holds copies of rows that are due, at most Limit  *)
(* and not in an order that RunOnce asks for.  A mark                      *)
(* settles or reschedules an unsettled row; a retry after a backoff counts *)
(* from the item that was handed in.  A lease names no holder.             *)
(***************************************************************************)
Recoverable == {i \in Items : rows[i].status = "PENDING" /\ rows[i].due}

Listing == {[item |-> i, retries |-> rows[i].retries, error |-> rows[i].error] : i \in Recoverable}

Listings ==
  {some \in SUBSET Listing :
     Cardinality(some) = IF Cardinality(Listing) < Limit THEN Cardinality(Listing) ELSE Limit}

\* Mutant of Leasable: a held lease is not respected.
LeasableAlways(i) == TRUE

Leasable(i) == i \notin leases

Mark(i, row) ==
  rows' = [rows EXCEPT ![i] = IF @.status = "PENDING" THEN row ELSE @]

Settle(i, status) ==
  Mark(i, [rows[i] EXCEPT !.status = status, !.due = FALSE])

Wait(i, due, error, retries) ==
  Mark(i, [rows[i] EXCEPT !.due = due, !.error = error, !.retries = retries])

(***************************************************************************)
(* RunOnce.                                                                *)
(***************************************************************************)
ListRecoverable(c) ==
  /\ passes[c].pc = "idle"
  /\ \E listing \in Listings :
       passes' = [passes EXCEPT ![c].pc = "pass", ![c].todo = listing]
  /\ UNCHANGED <<rows, leases, lapsed, faults>>

TryLease(c) ==
  /\ passes[c].pc = "pass"
  /\ \E work \in passes[c].todo :
       \/ /\ Leasable(work.item)
          /\ leases' = leases \cup {work.item}
          /\ passes' = [passes EXCEPT ![c] = [pc |-> "resume", todo |-> @.todo \ {work},
               item |-> work.item, retries |-> work.retries, error |-> work.error]]
       \/ /\ ~Leasable(work.item)
          /\ passes' = [passes EXCEPT ![c].todo = @ \ {work}]
          /\ UNCHANGED leases
  /\ UNCHANGED <<rows, lapsed, faults>>

\* MaxRetries bounds only the retries that wait for a backoff.
Exhausted(retries) == retries >= MaxRetries

Apply(i, retries, result) ==
  CASE result.class = "Completed" -> Settle(i, "COMPLETED")
    [] result.class = "TerminalFailure" -> Settle(i, "DEAD_LETTER")
    [] result.class = "RetryWithBackoff" -> IF Exhausted(retries)
         THEN Settle(i, "DEAD_LETTER")
         ELSE Wait(i, FALSE, result.error, retries + 1)
    [] result.class = "RetryImmediately" -> Wait(i, TRUE, result.error, retries)
    [] result.class = "WaitForReceiver" -> Wait(i, FALSE, result.error, retries)
    [] result.class = "ReconcileState" -> IF result.repaired
         THEN Wait(i, TRUE, "OTHER", retries)
         ELSE Wait(i, FALSE, result.error, retries)

Resume(c) ==
  /\ passes[c].pc = "resume"
  /\ \E result \in Results[passes[c].error] : Apply(passes[c].item, passes[c].retries, result)
  /\ passes' = [passes EXCEPT ![c].pc = "release"]
  /\ UNCHANGED <<leases, lapsed, faults>>

\* Released without a holder: if the lease has lapsed and another coordinator
\* has taken a new one, it is the new one that goes.
ReleaseLease(c) ==
  /\ passes[c].pc = "release"
  /\ leases' = leases \ {passes[c].item}
  /\ passes' = [passes EXCEPT ![c].pc = "pass", ![c].item = Nothing, ![c].retries = 0, ![c].error = "OTHER"]
  /\ UNCHANGED <<rows, lapsed, faults>>

EndPass(c) ==
  /\ passes[c].pc = "pass"
  /\ passes[c].todo = {}
  /\ passes' = [passes EXCEPT ![c].pc = "idle"]
  /\ UNCHANGED <<rows, leases, lapsed, faults>>

\* A store error, before or after the mark, or a crash ends the pass at once:
\* the rest of the listing is dropped and the lease stays.
Abandon(c) ==
  /\ passes[c].pc # "idle"
  /\ faults < MaxFaults
  /\ faults' = faults + 1
  /\ passes' = [passes EXCEPT ![c] = [pc |-> "idle", todo |-> {}, item |-> Nothing,
                                      retries |-> 0, error |-> "OTHER"]]
  /\ UNCHANGED <<rows, leases, lapsed>>

(***************************************************************************)
(* Time: the next attempt becomes due, a lease lapses.                     *)
(***************************************************************************)
BecomeDue(i) ==
  /\ rows[i].status = "PENDING" /\ ~rows[i].due
  /\ rows' = [rows EXCEPT ![i].due = TRUE]
  /\ UNCHANGED <<leases, passes, lapsed, faults>>

AtWork(i) == {c \in Coordinators : passes[c].pc \in {"resume", "release"} /\ passes[c].item = i}

LapseLease(i) ==
  /\ i \in leases
  /\ leases' = leases \ {i}
  /\ lapsed' = IF AtWork(i) # {} THEN lapsed \cup {i} ELSE lapsed
  /\ UNCHANGED <<rows, passes, faults>>

PassStep(c) ==
  ListRecoverable(c) \/ TryLease(c) \/ Resume(c) \/ ReleaseLease(c) \/ EndPass(c)

TimeStep(i) == BecomeDue(i) \/ LapseLease(i)

Next ==
  \/ \E c \in Coordinators : PassStep(c) \/ Abandon(c)
  \/ \E i \in Items : TimeStep(i)

Spec == Init /\ [][Next]_vars

-----------------------------------------------------------------------------
\* Rows, leases and passes have their types; retries stay within MaxRetries.
TypeOK ==
  /\ rows \in [Items -> [status : {"PENDING", "COMPLETED", "DEAD_LETTER"}, retries : 0..MaxRetries,
                         due : BOOLEAN, error : Remembered]]
  /\ leases \subseteq Items
  /\ passes \in [Coordinators ->
       [pc : {"idle", "pass", "resume", "release"},
        todo : SUBSET [item : Items, retries : 0..MaxRetries, error : Remembered],
        item : Items \cup {Nothing}, retries : 0..MaxRetries, error : Remembered]]
  /\ lapsed \subseteq Items
  /\ faults \in 0..MaxFaults

\* As long as no lease has lapsed under a Resume, RunOnce never works on an item
\* that another pass is working on, although listings are stale, passes are
\* abandoned with their leases and ReleaseLease names no holder.
OneRunner == \A i \in Items : i \notin lapsed => Cardinality(AtWork(i)) <= 1
=============================================================================
