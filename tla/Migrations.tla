----------------------------- MODULE Migrations -----------------------------
(***************************************************************************)
(* ApplyMigrations (postgres/migrations.go): Node processes that start on  *)
(* the same database bring its schema up to date, without a lock among     *)
(* them, and may crash at any point.  Each script runs in one transaction  *)
(* with the row that records it.                                           *)
(***************************************************************************)
EXTENDS Naturals

CONSTANTS
  Processes,  \* Node processes that may start at the same time
  Count       \* number of scripts; number 1 is 001_initial.sql

Scripts == 1..Count

VARIABLES
  recorded,   \* rows of schema_migrations
  effects,    \* how often each script has taken effect
  processes   \* what each process does, and at which script

vars == <<recorded, effects, processes>>

\* An empty database, or one of a release that kept no migration history.
Init ==
  /\ recorded = {}
  /\ effects \in {[i \in Scripts |-> 0], [i \in Scripts |-> IF i = 1 THEN 1 ELSE 0]}
  /\ processes = [p \in Processes |-> [pc |-> "down", script |-> 1]]

Become(p, pc) == processes' = [processes EXCEPT ![p].pc = pc]
Script(p) == processes[p].script

HasUsers == effects[1] > 0

\* The history is created, and the table of users looked for.
Inspect(p) ==
  /\ processes[p].pc = "down"
  /\ processes' = [processes EXCEPT ![p] = [pc |-> IF HasUsers THEN "adopt" ELSE "check", script |-> 1]]
  /\ UNCHANGED <<recorded, effects>>

RecordInitial(p) ==
  /\ processes[p].pc = "adopt"
  /\ recorded' = recorded \cup {1}
  /\ Become(p, "check")
  /\ UNCHANGED effects

NextScript(p) ==
  processes' = [processes EXCEPT ![p] =
    IF @.script = Count THEN [@ EXCEPT !.pc = "ready"] ELSE [pc |-> "check", script |-> @.script + 1]]

CheckApplied(p) ==
  /\ processes[p].pc = "check"
  /\ IF Script(p) \in recorded THEN NextScript(p) ELSE Become(p, "apply")
  /\ UNCHANGED <<recorded, effects>>

\* A script may run to its end although another process has run it too.
RunScript(p) ==
  /\ processes[p].pc = "apply"
  /\ Become(p, "record")
  /\ UNCHANGED <<recorded, effects>>

\* Mutant of Inserts: the name is no primary key.
AlwaysInserts(p) == TRUE

\* The primary key makes an INSERT of the same name wait for the transaction
\* that made the first one, and fail if that has committed.
Inserts(p) ==
  /\ Script(p) \notin recorded
  /\ \A q \in Processes \ {p} : ~(processes[q].pc = "commit" /\ Script(q) = Script(p))

RecordScript(p) ==
  /\ processes[p].pc = "record"
  /\ Inserts(p)
  /\ Become(p, "commit")
  /\ UNCHANGED <<recorded, effects>>

CommitScript(p) ==
  /\ processes[p].pc = "commit"
  /\ recorded' = recorded \cup {Script(p)}
  /\ effects' = [effects EXCEPT ![Script(p)] = @ + 1]
  /\ NextScript(p)

\* An error or a crash: what has not committed is gone, and the process is
\* started again.
Fail(p) ==
  /\ processes[p].pc # "down"
  /\ processes' = [processes EXCEPT ![p] = [pc |-> "down", script |-> 1]]
  /\ UNCHANGED <<recorded, effects>>

Next ==
  \E p \in Processes :
    \/ Inspect(p) \/ RecordInitial(p) \/ CheckApplied(p)
    \/ RunScript(p) \/ RecordScript(p) \/ CommitScript(p) \/ Fail(p)

-----------------------------------------------------------------------------
\* Whatever processes run ApplyMigrations at the same time and wherever they
\* crash, no script takes effect twice or before the ones it builds on, the
\* history records none that has not taken effect, and a process that goes on
\* to serve requests finds all of them in place.
MigrationsOnce ==
  /\ \A i \in Scripts : effects[i] <= 1 /\ (i \in recorded => effects[i] = 1)
  /\ \A i, j \in Scripts : i < j /\ effects[j] = 1 => effects[i] = 1
  /\ \A p \in Processes : processes[p].pc = "ready" => \A i \in Scripts : effects[i] = 1
=============================================================================
