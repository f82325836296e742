---------------------------- MODULE MCAdmission -----------------------------
EXTENDS Admission, TLC

\* Two users; one key used for two different requests; transfers to a group,
\* without a key, off the Node, and with a file that is too large.
MCSubmissions ==
  {[user |-> "u1", key |-> "k1", group |-> TRUE,  files |-> <<1, 1>>],
   [user |-> "u1", key |-> "k1", group |-> FALSE, files |-> <<>>],
   [user |-> "u1", key |-> "k2", group |-> FALSE, files |-> <<2>>],
   [user |-> "u2", key |-> NoKey, group |-> TRUE, files |-> <<1>>]}

RowSymmetry == Permutations(Tasks) \cup Permutations(Requests)
=============================================================================
