----------------------------- MODULE Idempotency ----------------------------
(***************************************************************************)
(* Requests that clients repeat when an answer is lost: progress reports,  *)
(* timeline events and batches of metrics of one device, kept apart by the *)
(* idempotency key (ReportTransferProgress, ReportTransferTimelineEvent    *)
(* and insertMetrics of postgres/store.go).                                *)
(*                                                                         *)
(* A transaction takes an advisory lock on device and key, looks for a     *)
(* record of the key and resource, does its work and commits the work      *)
(* together with a record of the answer.  The record's state PROCESSING    *)
(* exists only inside the transaction.  What a report does to a transfer   *)
(* is in module Transfer; here it is the number of its effect.             *)
(***************************************************************************)
EXTENDS Naturals, Sequences, FiniteSets

CONSTANTS
  Submissions,  \* requests clients send: resource, key, content, metric events
  Requests,     \* requests the Node serves at a time
  NoKey,        \* a request without idempotency key
  MaxNumber     \* bound: effects numbered by the database

VARIABLES
  records,   \* committed idempotency records with their answers
  metrics,   \* committed metric events
  number,    \* last value drawn from the database's sequences
  requests,  \* progress of each request
  answers,   \* history: answers given to requests with a key
  applied,   \* history: which keyed requests took effect, with the effect
  counted    \* history: metrics that committed batches counted as accepted

vars == <<records, metrics, number, requests, answers, applied, counted>>

Nothing == [resource |-> "none", key |-> NoKey, content |-> "none", events |-> <<>>]
Idle == [pc |-> "idle", submission |-> Nothing, number |-> 0, inserted |-> {}, accepted |-> 0, read |-> 0]

Init ==
  /\ records = {}
  /\ metrics = {}
  /\ number = 0
  /\ requests = [r \in Requests |-> Idle]
  /\ answers = {}
  /\ applied = {}
  /\ counted = 0

Sub(r) == requests[r].submission
Keyed(s) == s.key # NoKey
End(r) == requests' = [requests EXCEPT ![r] = Idle]
Entry(s, answer) == [resource |-> s.resource, key |-> s.key, content |-> s.content, answer |-> answer]

\* A client sends a request for the first time, or once more.
Send(r, s) ==
  /\ requests[r].pc = "idle"
  /\ requests' = [requests EXCEPT ![r].pc = "sent", ![r].submission = s]
  /\ UNCHANGED <<records, metrics, number, answers, applied, counted>>

(***************************************************************************)
(* The key.                                                                *)
(***************************************************************************)
\* Mutant of KeyFree: the request does not wait for the lock on its key.
Unlocked(r) == TRUE

KeyFree(r) ==
  \A q \in Requests : requests[q].pc = "working" /\ Keyed(Sub(q)) => Sub(q).key # Sub(r).key

RecordOf(s) == {e \in records : e.resource = s.resource /\ e.key = s.key}

SameRequest(e, s) == e.content = s.content

LockKey(r) ==
  /\ requests[r].pc = "sent"
  /\ Keyed(Sub(r))
  /\ KeyFree(r)
  /\ RecordOf(Sub(r)) = {}
  /\ requests' = [requests EXCEPT ![r].pc = "working"]
  /\ UNCHANGED <<records, metrics, number, answers, applied, counted>>

\* A record of the same request answers it; one of another is a conflict.
Replay(r) ==
  /\ requests[r].pc = "sent"
  /\ Keyed(Sub(r))
  /\ KeyFree(r)
  /\ \E e \in RecordOf(Sub(r)) :
       answers' = IF SameRequest(e, Sub(r)) THEN answers \cup {Entry(Sub(r), e.answer)} ELSE answers
  /\ End(r)
  /\ UNCHANGED <<records, metrics, number, applied, counted>>

WithoutKey(r) ==
  /\ requests[r].pc = "sent"
  /\ ~Keyed(Sub(r))
  /\ Sub(r).resource # "timeline"
  /\ requests' = [requests EXCEPT ![r].pc = "working"]
  /\ UNCHANGED <<records, metrics, number, answers, applied, counted>>

(***************************************************************************)
(* The work.  Numbers drawn from a sequence are not given back.            *)
(***************************************************************************)
TakeEffect(r, resource) ==
  /\ requests[r].pc = "working"
  /\ Sub(r).resource = resource
  /\ requests[r].number = 0
  /\ number < MaxNumber
  /\ number' = number + 1
  /\ requests' = [requests EXCEPT ![r].number = number + 1]
  /\ UNCHANGED <<records, metrics, answers, applied, counted>>

ReportTransferProgress(r) == TakeEffect(r, "progress")
ReportTransferTimelineEvent(r) == TakeEffect(r, "timeline")

\* INSERT ... ON CONFLICT (event_id) DO NOTHING waits for a transaction that
\* has inserted the event and not ended.
InsertedElsewhere(r, e) == \E q \in Requests \ {r} : e \in requests[q].inserted

NewEvent(r, e) == e \notin metrics \cup requests[r].inserted

InsertMetric(r) ==
  LET e == Sub(r).events[requests[r].read + 1] IN
  /\ requests[r].pc = "working"
  /\ requests[r].read < Len(Sub(r).events)
  /\ ~InsertedElsewhere(r, e)
  /\ requests' = [requests EXCEPT ![r].read = @ + 1,
       ![r].inserted = @ \cup ({e} \ metrics),
       ![r].accepted = IF NewEvent(r, e) THEN @ + 1 ELSE @]
  /\ UNCHANGED <<records, metrics, number, answers, applied, counted>>

Done(r) ==
  IF Sub(r).resource = "metrics" THEN requests[r].read = Len(Sub(r).events) ELSE requests[r].number > 0

\* What the client is told: the event or transfer, or accepted and duplicates.
Answer(r) ==
  IF Sub(r).resource = "metrics"
  THEN <<requests[r].accepted, Len(Sub(r).events) - requests[r].accepted>>
  ELSE <<requests[r].number>>

Commit(r) ==
  LET new == IF Keyed(Sub(r)) THEN {Entry(Sub(r), Answer(r))} ELSE {} IN
  /\ requests[r].pc = "working"
  /\ Done(r)
  /\ records' = records \cup new
  /\ metrics' = metrics \cup requests[r].inserted
  /\ answers' = answers \cup new
  /\ applied' = applied \cup new
  /\ counted' = counted + requests[r].accepted
  /\ End(r)
  /\ UNCHANGED number

\* Refused, cancelled, failed, or chosen by the deadlock detector when two
\* batches insert the same events in opposite order.
Rollback(r) ==
  /\ requests[r].pc # "idle"
  /\ End(r)
  /\ UNCHANGED <<records, metrics, number, answers, applied, counted>>

Next ==
  \E r \in Requests :
    \/ \E s \in Submissions : Send(r, s)
    \/ LockKey(r) \/ Replay(r) \/ WithoutKey(r)
    \/ ReportTransferProgress(r) \/ ReportTransferTimelineEvent(r) \/ InsertMetric(r)
    \/ Commit(r) \/ Rollback(r)

-----------------------------------------------------------------------------
\* However often and however concurrently a request is repeated, a key of a
\* resource has one effect, and everybody who used the key and got an answer
\* sent that request and got the answer of that effect.
AnswersAgree ==
  \A a \in answers : \A b \in applied :
    a.resource = b.resource /\ a.key = b.key => a = b

\* Every metric event is counted as accepted by exactly one committed batch,
\* whatever batches overlap, repeat events, roll back or are sent again.
MetricsCountedOnce == counted = Cardinality(metrics)
=============================================================================
