---------------------------- MODULE MCServices -----------------------------
(***************************************************************************)
(* A small instance of each component of Services for TLC.                 *)
(***************************************************************************)
EXTENDS Services, TLC

TwoOwners == [d \in {"d1", "d2"} |-> IF d = "d1" THEN "u1" ELSE "u2"]

\* The same key for two contents and for another resource, requests without a
\* key, and batches of metrics that overlap and repeat an event.
Repeated ==
  {[resource |-> "progress", key |-> "k1", content |-> "a", events |-> <<>>],
   [resource |-> "progress", key |-> "k1", content |-> "b", events |-> <<>>],
   [resource |-> "progress", key |-> Off, content |-> "b", events |-> <<>>],
   [resource |-> "timeline", key |-> "k1", content |-> "a", events |-> <<>>],
   [resource |-> "metrics", key |-> "k2", content |-> "a", events |-> <<"e1", "e2">>],
   [resource |-> "metrics", key |-> Off, content |-> "b", events |-> <<"e2", "e1", "e2">>]}

FileSizes == 0..9
FileChunkSizes == 1..4

\* Requests are alike, and so are the slots of a LAN receiver.
RequestSymmetry == Permutations(Requests) \cup Permutations(Slots)
=============================================================================
