------------------------------ MODULE MCAccess ------------------------------
EXTENDS Access, TLC

\* Rows and requests are alike; users are not, one of them is the Admin.
RowSymmetry == Permutations(Devices) \cup Permutations(Sessions)
               \cup Permutations(Secrets) \cup Permutations(Requests)
=============================================================================
