----------------------------- MODULE MCTickers -----------------------------
(***************************************************************************)
(* Small instances of Presence and Cleaner for TLC, the two parts of the   *)
(* Node that promise something in the end and keep it by their tickers.    *)
(* They do not act on each other, so a behaviour belongs to the one that   *)
(* chosen says, and the other stays in its initial state.  Passes take one *)
(* file at a time, so that a file can be behind another one.               *)
(***************************************************************************)
EXTENDS Presence

CONSTANTS Files, Deadline, Limit, Worker, Command, Database

ASSUME CleanerAssumption ==
  /\ Deadline \in [Files -> Nat]
  /\ Limit \in Nat \ {0}
  /\ Worker # Command
  /\ Database \notin Files

VARIABLES chosen, due, expired, gone, passes, faulty

C == INSTANCE Cleaner

cleanerVars == <<due, expired, gone, passes, faulty>>

MCFiles == 1 .. 2
MCDeadline == <<1, 2>>

MCInit ==
  /\ chosen \in {"presence", "cleaner"}
  /\ Init
  /\ C!Init

MCNext ==
  \/ chosen = "presence" /\ Next /\ UNCHANGED <<chosen, cleanerVars>>
  \/ chosen = "cleaner" /\ C!Next /\ UNCHANGED <<chosen, vars>>

MCVars == <<chosen, vars, cleanerVars>>

\* Fairness of Presence and of Cleaner, each where it is chosen.
Serving(A) == chosen = "presence" /\ A /\ UNCHANGED <<chosen, cleanerVars>>
Cleaning(A) == chosen = "cleaner" /\ A /\ UNCHANGED <<chosen, vars>>

MCFairness ==
  /\ \A c \in Connections :
       /\ WF_MCVars(Serving(Reader(c)))
       /\ WF_MCVars(Serving(Writer(c)))
       /\ SF_MCVars(Serving(Written(c) /\ Poll(c)))
       /\ WF_MCVars(Serving(Written(c) /\ Heartbeat(c)))
       /\ WF_MCVars(Serving(ScheduleReconnect(c)))
  /\ WF_MCVars(Serving(\E c \in Connections : ConnectDevice(c)))
  /\ WF_MCVars(Cleaning(C!PassStep(Worker)))

MCSpec == MCInit /\ [][MCNext]_MCVars /\ MCFairness

-----------------------------------------------------------------------------
\* The cleaner's files and listings have their types.
CleanerTypeOK == C!TypeOK

\* The cleaner expires every file that stays due, unless bodies that cannot be
\* removed or the database hold its passes up before they come to it.
DueFilesExpire == chosen = "cleaner" => C!DueFilesExpire
=============================================================================
