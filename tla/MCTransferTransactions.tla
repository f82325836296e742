---------------------- MODULE MCTransferTransactions ----------------------
(***************************************************************************)
(* Small instances of TransferTransactions for TLC.                        *)
(***************************************************************************)
EXTENDS TransferTransactions, TLC

\* The reports of a LAN transfer, and of a download from the Node.
LanReports == {"VERIFYING", "DELIVERED", "READ", "FAILED"}
NodeReports == LanReports \cup {"DOWNLOADING_FROM_NODE"}

TransactionSymmetry == Permutations(Transactions)
=============================================================================
