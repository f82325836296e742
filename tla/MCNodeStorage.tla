--------------------------- MODULE MCNodeStorage ---------------------------
(***************************************************************************)
(* Small instances of NodeStorage for TLC.                                 *)
(***************************************************************************)
EXTENDS NodeStorage, TLC

CONSTANT MaxRequests  \* bound: uploads and completions at work at once

\* Requests of one kind are interchangeable.
RequestSymmetry ==
  Permutations(Uploads) \cup Permutations(Completions)

AtWork(requests) == Cardinality({r \in DOMAIN requests : Working(requests[r])})

RequestsAtWork == AtWork(upload) + AtWork(completion)
RemovalsAtWork == AtWork(pass) + IF deletion.pc \in {"selected", "removing"} THEN 1 ELSE 0

\* Bound: a pass and the deletion work at once only while no request does.
MCNext ==
  /\ Next
  /\ RequestsAtWork' <= MaxRequests
  /\ RemovalsAtWork' = 2 => RequestsAtWork' = 0

MCSpec == Init /\ [][MCNext]_vars
=============================================================================
