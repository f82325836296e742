----------------------------- MODULE MCTransfer -----------------------------
(***************************************************************************)
(* Small instances of Transfer for TLC.                                    *)
(***************************************************************************)
EXTENDS Transfer

\* The devices of one user, as in a transfer among one's own devices.
OwnerOne == [d \in Devices \cup {Sender} |-> Sender]
=============================================================================
