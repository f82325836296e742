--------------------------- MODULE DeliveryRecord ---------------------------
(***************************************************************************)
(* What a transfer promises its users about its record of delivery,        *)
(* whatever routes, reports, cancellations and expiries there are: each    *)
(* device has a list of attempts that only grows, by a retry under a new   *)
(* key and only behind an attempt that has stopped; only the last attempt  *)
(* changes; and a receipt is given together with the attempt it is for,    *)
(* is never taken back and never falls behind READ.                        *)
(*                                                                         *)
(* Transfer implements this specification.                                 *)
(***************************************************************************)
EXTENDS Naturals, Sequences

CONSTANTS
  Devices,    \* the receiving devices
  Statuses,   \* statuses an attempt can have
  RetryKeys,  \* keys of retries
  NoKey       \* the key of the first attempt

VARIABLES
  attempts,   \* of each device, first to last
  receipt     \* of each device

Receipts == {"DELIVERED", "READ"}
Stopped == {"FAILED", "PAUSED", "SOURCE_FILE_MISSING", "SOURCE_FILE_CHANGED"}

Init ==
  /\ attempts = [d \in Devices |-> << >>]
  /\ receipt = [d \in Devices |-> "NONE"]

\* All devices get their first attempt at once.
Open ==
  /\ \A d \in Devices : attempts[d] = << >>
  /\ \E first \in [Devices -> Statuses \ Receipts] :
       attempts' = [d \in Devices |-> <<[status |-> first[d], key |-> NoKey]>>]
  /\ UNCHANGED receipt

Last(d) == attempts[d][Len(attempts[d])]

Advance(d, s) ==
  /\ attempts[d] # << >>
  /\ attempts' = [attempts EXCEPT ![d] = [@ EXCEPT ![Len(@)].status = s]]
  /\ receipt' = [receipt EXCEPT ![d] = IF s \in Receipts /\ @ # "READ" THEN s ELSE @]

Retry(d, key) ==
  /\ attempts[d] # << >>
  /\ Last(d).status \in Stopped
  /\ \A i \in DOMAIN attempts[d] : attempts[d][i].key # key
  /\ attempts' = [attempts EXCEPT ![d] = Append(@, [status |-> "CHECKING_ROUTE", key |-> key])]
  /\ UNCHANGED receipt

Next ==
  \/ Open
  \/ \E d \in Devices : \/ \E s \in Statuses : Advance(d, s)
                        \/ \E key \in RetryKeys : Retry(d, key)

Spec == Init /\ [][Next]_<<attempts, receipt>>
=============================================================================
