--------------------------- MODULE ServicesProofs ---------------------------
(***************************************************************************)
(* Proofs about the components of Services, for every value of their       *)
(* constants.                                                              *)
(***************************************************************************)
EXTENDS Services, FiniteSetTheorems, TLAPS

-----------------------------------------------------------------------------
(***************************************************************************)
(* Migrations.                                                             *)
(***************************************************************************)
ProcRow == [pc : {"down", "adopt", "check", "apply", "record", "commit", "ready"}, script : M!Scripts]

MigrationTypes ==
  /\ recorded \in SUBSET M!Scripts
  /\ effects \in [M!Scripts -> {0, 1}]
  /\ processes \in [Requests -> ProcRow]

\* A script that took effect is recorded, except the first one of a database
\* without history before any process got further than adopting it.
History ==
  /\ \A i \in M!Scripts : i \in recorded => effects[i] = 1
  /\ \A i \in M!Scripts : effects[i] = 1 /\ i \notin recorded =>
       i = 1 /\ \A p \in Requests : processes[p].pc \in {"down", "adopt"}
  /\ \A i, j \in M!Scripts : i < j /\ j \in recorded => i \in recorded

Progress ==
  \A p \in Requests :
    /\ processes[p].pc = "adopt" => effects[1] = 1 /\ processes[p].script = 1
    /\ processes[p].pc \in {"check", "apply", "record", "commit"} =>
         \A i \in M!Scripts : i < processes[p].script => i \in recorded
    /\ processes[p].pc = "ready" => \A i \in M!Scripts : i \in recorded
    /\ processes[p].pc = "commit" => processes[p].script \notin recorded

OneCommit ==
  \A p, q \in Requests :
    processes[p].pc = "commit" /\ processes[q].pc = "commit" /\ processes[p].script = processes[q].script => p = q

MigrationInv == MigrationTypes /\ History /\ Progress /\ OneCommit

LEMMA MigrationsInit ==
  ASSUME M!Init
  PROVE  MigrationInv
  BY MigrationsAssumption DEF M!Init, M!Scripts, MigrationInv, MigrationTypes, History, Progress, OneCommit, ProcRow

\* A process takes row r, and what is recorded or in effect grows with it.
MigrationMove(p, r) == processes' = [processes EXCEPT ![p] = r]

LEMMA MigrationMoves ==
  ASSUME MigrationInv, NEW p \in Requests, NEW r \in ProcRow, MigrationMove(p, r),
         UNCHANGED <<recorded, effects>>,
         r.pc = "adopt" => effects[1] = 1 /\ r.script = 1,
         r.pc \in {"check", "apply", "record", "commit"} =>
           \A i \in M!Scripts : i < r.script => i \in recorded,
         r.pc = "ready" => \A i \in M!Scripts : i \in recorded,
         r.pc = "commit" => /\ r.script \notin recorded
                            /\ \A q \in Requests \ {p} : ~(processes[q].pc = "commit" /\ processes[q].script = r.script),
         r.pc \notin {"down", "adopt"} => \A i \in M!Scripts : effects[i] = 1 => i \in recorded
  PROVE  MigrationInv'
<1>1. recorded \in SUBSET M!Scripts /\ effects \in [M!Scripts -> {0, 1}] /\ processes \in [Requests -> ProcRow]
  BY DEF MigrationInv, MigrationTypes
<1>2. /\ processes' \in [Requests -> ProcRow]
      /\ \A q \in Requests : processes'[q] = IF q = p THEN r ELSE processes[q]
  BY <1>1 DEF MigrationMove
<1>3. MigrationTypes'
  BY <1>1, <1>2 DEF MigrationTypes, M!Scripts
<1>4. History'
  BY <1>2 DEF MigrationInv, History, M!Scripts
<1>5. Progress' /\ OneCommit'
  BY <1>2 DEF MigrationInv, Progress, OneCommit, M!Scripts
<1>6. QED
  BY <1>3, <1>4, <1>5 DEF MigrationInv

\* Where a process goes after its script: it has all scripts up to it.
LEMMA NextScriptRow ==
  ASSUME processes \in [Requests -> ProcRow], NEW p \in Requests, M!NextScript(p)
  PROVE  \E r \in ProcRow :
           /\ MigrationMove(p, r)
           /\ \/ r.pc = "ready" /\ processes[p].script = ScriptCount
              \/ r.pc = "check" /\ r.script = processes[p].script + 1
<1>1. processes[p] \in ProcRow /\ processes[p].script \in M!Scripts
  BY DEF ProcRow
<1>2. CASE processes[p].script = ScriptCount
  <2> DEFINE r == [processes[p] EXCEPT !.pc = "ready"]
  <2>1. r \in ProcRow /\ r.pc = "ready"
    BY <1>1 DEF ProcRow
  <2>2. MigrationMove(p, r)
    BY <1>2 DEF M!NextScript, MigrationMove
  <2>3. QED
    BY <1>2, <2>1, <2>2
<1>3. CASE processes[p].script # ScriptCount
  <2> DEFINE r == [pc |-> "check", script |-> processes[p].script + 1]
  <2>1. processes[p].script + 1 \in M!Scripts
    BY <1>1, <1>3, MigrationsAssumption DEF M!Scripts
  <2>2. r \in ProcRow /\ r.pc = "check" /\ r.script = processes[p].script + 1
    BY <2>1 DEF ProcRow
  <2>3. MigrationMove(p, r)
    BY <1>3 DEF M!NextScript, MigrationMove
  <2>4. QED
    BY <2>2, <2>3
<1>4. QED
  BY <1>2, <1>3

LEMMA BecomeRow ==
  ASSUME processes \in [Requests -> ProcRow], NEW p \in Requests,
         NEW at \in {"check", "apply", "record", "commit"}, M!Become(p, at)
  PROVE  \E r \in ProcRow : MigrationMove(p, r) /\ r.pc = at /\ r.script = processes[p].script
<1> DEFINE r == [processes[p] EXCEPT !.pc = at]
<1>1. r \in ProcRow /\ r.pc = at /\ r.script = processes[p].script
  BY DEF ProcRow
<1>2. MigrationMove(p, r)
  BY DEF M!Become, MigrationMove
<1>3. QED
  BY <1>1, <1>2

LEMMA MigrationStep ==
  ASSUME MigrationInv, NEW p \in Requests,
         M!Inspect(p) \/ M!CheckApplied(p) \/ M!RunScript(p) \/ M!RecordScript(p) \/ M!Fail(p)
  PROVE  MigrationInv'
<1>1. /\ recorded \in SUBSET M!Scripts /\ effects \in [M!Scripts -> {0, 1}]
      /\ processes \in [Requests -> ProcRow] /\ 1 \in M!Scripts
  BY MigrationsAssumption DEF MigrationInv, MigrationTypes, M!Scripts
<1>2. UNCHANGED <<recorded, effects>>
  BY DEF M!Inspect, M!CheckApplied, M!RunScript, M!RecordScript, M!Fail
<1>3. processes[p].pc \notin {"down", "adopt"} => \A i \in M!Scripts : effects[i] = 1 => i \in recorded
  BY DEF MigrationInv, History
<1>4. processes[p].pc \in {"check", "apply", "record", "commit"} =>
        \A i \in M!Scripts : i < processes[p].script => i \in recorded
  BY DEF MigrationInv, Progress
<1>5. CASE M!Inspect(p)
  <2> DEFINE r == [pc |-> IF M!HasUsers THEN "adopt" ELSE "check", script |-> 1]
  <2>1. r \in ProcRow /\ r.pc = (IF M!HasUsers THEN "adopt" ELSE "check") /\ r.script = 1
    BY <1>1 DEF ProcRow
  <2>2. MigrationMove(p, r)
    BY <1>5 DEF M!Inspect, MigrationMove
  <2>3. effects[1] \in {0, 1} /\ (M!HasUsers <=> effects[1] = 1)
    BY <1>1 DEF M!HasUsers
  <2>4. ~M!HasUsers => \A i \in M!Scripts : effects[i] = 1 => i \in recorded
    BY <2>3 DEF MigrationInv, History
  <2>5. \A i \in M!Scripts : ~(i < 1)
    BY DEF M!Scripts
  <2> HIDE DEF r
  <2>6. QED
    BY <1>2, <2>1, <2>2, <2>3, <2>4, <2>5, MigrationMoves
<1>6. CASE M!CheckApplied(p) /\ processes[p].script \in recorded
  <2>1. PICK r \in ProcRow :
           /\ MigrationMove(p, r)
           /\ \/ r.pc = "ready" /\ processes[p].script = ScriptCount
              \/ r.pc = "check" /\ r.script = processes[p].script + 1
    BY <1>1, <1>6, NextScriptRow DEF M!CheckApplied, M!Script
  <2>2. processes[p].pc = "check" /\ processes[p].script \in M!Scripts
    BY <1>1, <1>6 DEF M!CheckApplied, ProcRow
  <2>3. \A i \in M!Scripts : i <= processes[p].script => i \in recorded
    BY <1>1, <1>4, <1>6, <2>2 DEF M!Scripts
  <2>4. /\ r.pc = "check" => \A i \in M!Scripts : i < r.script => i \in recorded
        /\ r.pc = "ready" => \A i \in M!Scripts : i \in recorded
    <3>1. \A i \in M!Scripts : i \in Int /\ i <= ScriptCount
      BY MigrationsAssumption DEF M!Scripts
    <3>2. processes[p].script \in Int
      BY <2>2, <3>1
    <3>3. QED
      BY <2>1, <2>3, <3>1, <3>2
  <2>5. QED
    BY <1>2, <1>3, <2>1, <2>2, <2>4, MigrationMoves
<1>7. CASE M!CheckApplied(p) /\ processes[p].script \notin recorded
  <2>1. PICK r \in ProcRow : MigrationMove(p, r) /\ r.pc = "apply" /\ r.script = processes[p].script
    BY <1>1, <1>7, BecomeRow DEF M!CheckApplied, M!Script
  <2>2. processes[p].pc = "check"
    BY <1>7 DEF M!CheckApplied
  <2>3. QED
    BY <1>2, <1>3, <1>4, <2>1, <2>2, MigrationMoves
<1>8. CASE M!RunScript(p)
  <2>1. PICK r \in ProcRow : MigrationMove(p, r) /\ r.pc = "record" /\ r.script = processes[p].script
    BY <1>1, <1>8, BecomeRow DEF M!RunScript
  <2>2. processes[p].pc = "apply"
    BY <1>8 DEF M!RunScript
  <2>3. QED
    BY <1>2, <1>3, <1>4, <2>1, <2>2, MigrationMoves
<1>9. CASE M!RecordScript(p)
  <2>1. PICK r \in ProcRow : MigrationMove(p, r) /\ r.pc = "commit" /\ r.script = processes[p].script
    BY <1>1, <1>9, BecomeRow DEF M!RecordScript
  <2>2. processes[p].pc = "record"
    BY <1>9 DEF M!RecordScript
  <2>3. /\ r.script \notin recorded
        /\ \A q \in Requests \ {p} : ~(processes[q].pc = "commit" /\ processes[q].script = r.script)
    BY <1>9, <2>1 DEF M!RecordScript, M!Inserts, M!Script
  <2>4. QED
    BY <1>2, <1>3, <1>4, <2>1, <2>2, <2>3, MigrationMoves
<1>10. CASE M!Fail(p)
  <2> DEFINE r == [pc |-> "down", script |-> 1]
  <2>1. r \in ProcRow /\ r.pc = "down"
    BY <1>1 DEF ProcRow
  <2>2. MigrationMove(p, r)
    BY <1>10 DEF M!Fail, MigrationMove
  <2> HIDE DEF r
  <2>3. QED
    BY <1>2, <2>1, <2>2, MigrationMoves
<1>11. QED
  BY <1>5, <1>6, <1>7, <1>8, <1>9, <1>10

\* Adopting a database without history records what is already in effect.
LEMMA RecordInitialStep ==
  ASSUME MigrationInv, NEW p \in Requests, M!RecordInitial(p)
  PROVE  MigrationInv'
<1>1. /\ recorded \in SUBSET M!Scripts /\ effects \in [M!Scripts -> {0, 1}]
      /\ processes \in [Requests -> ProcRow] /\ 1 \in M!Scripts
  BY MigrationsAssumption DEF MigrationInv, MigrationTypes, M!Scripts
<1>2. PICK r \in ProcRow : MigrationMove(p, r) /\ r.pc = "check" /\ r.script = processes[p].script
  BY <1>1, BecomeRow DEF M!RecordInitial
<1>3. /\ processes[p].pc = "adopt" /\ processes[p].script = 1
      /\ recorded' = recorded \cup {1} /\ effects' = effects /\ effects[1] = 1
  BY DEF M!RecordInitial, MigrationInv, Progress
<1>4. /\ processes' \in [Requests -> ProcRow]
      /\ \A q \in Requests : processes'[q] = IF q = p THEN r ELSE processes[q]
  BY <1>1, <1>2 DEF MigrationMove
<1>5. MigrationTypes'
  BY <1>1, <1>3, <1>4 DEF MigrationTypes, M!Scripts
<1>6. \A i \in M!Scripts : ~(i < 1)
  BY DEF M!Scripts
<1>7. History'
  BY <1>3, <1>6 DEF MigrationInv, History, M!Scripts
<1>8. 1 \notin recorded => \A q \in Requests : processes[q].pc \in {"down", "adopt"}
  BY <1>1, <1>3 DEF MigrationInv, History
<1>9. Progress'
  BY <1>2, <1>3, <1>4, <1>6, <1>8 DEF MigrationInv, Progress, M!Scripts
<1>10. OneCommit'
  BY <1>2, <1>4 DEF MigrationInv, OneCommit
<1>11. QED
  BY <1>5, <1>7, <1>9, <1>10 DEF MigrationInv

LEMMA CommitScriptStep ==
  ASSUME MigrationInv, NEW p \in Requests, M!CommitScript(p)
  PROVE  MigrationInv'
<1> DEFINE n == processes[p].script
<1>1. /\ recorded \in SUBSET M!Scripts /\ effects \in [M!Scripts -> {0, 1}]
      /\ processes \in [Requests -> ProcRow]
  BY DEF MigrationInv, MigrationTypes
<1>2. n \in M!Scripts /\ processes[p].pc = "commit"
  BY <1>1 DEF ProcRow, M!CommitScript
<1>3. /\ n \notin recorded
      /\ \A i \in M!Scripts : i < n => i \in recorded
  BY <1>2 DEF MigrationInv, Progress
<1>4. \A i \in M!Scripts : effects[i] = 1 <=> i \in recorded
  BY <1>2 DEF MigrationInv, History
<1>5. effects[n] = 0
  BY <1>1, <1>2, <1>3, <1>4
<1>6. PICK r \in ProcRow :
         /\ MigrationMove(p, r)
         /\ \/ r.pc = "ready" /\ n = ScriptCount
            \/ r.pc = "check" /\ r.script = n + 1
  BY <1>1, NextScriptRow DEF M!CommitScript
<1>7. recorded' = recorded \cup {n} /\ effects' = [effects EXCEPT ![n] = effects[n] + 1]
  BY DEF M!CommitScript, M!Script
<1> HIDE DEF n
<1>8. /\ effects' \in [M!Scripts -> {0, 1}]
      /\ \A i \in M!Scripts : effects'[i] = IF i = n THEN 1 ELSE effects[i]
  BY <1>1, <1>2, <1>5, <1>7
<1>9. /\ processes' \in [Requests -> ProcRow]
      /\ \A q \in Requests : processes'[q] = IF q = p THEN r ELSE processes[q]
  BY <1>1, <1>6 DEF MigrationMove
<1>10. MigrationTypes'
  BY <1>1, <1>2, <1>7, <1>8, <1>9 DEF MigrationTypes, M!Scripts
<1>11. \A i \in M!Scripts : effects'[i] = 1 <=> i \in recorded'
  BY <1>4, <1>7, <1>8
<1>12. History'
  <2>1. \A i, j \in M!Scripts : i < j /\ j \in recorded' => i \in recorded'
    BY <1>1, <1>2, <1>3, <1>7 DEF MigrationInv, History, M!Scripts
  <2>2. QED
    BY <1>11, <2>1 DEF History, M!Scripts
<1>13. \A q \in Requests : processes[q].pc = "commit" /\ q # p => processes[q].script # n
  BY <1>2 DEF n, MigrationInv, OneCommit
<1>14. /\ r.pc = "check" => \A i \in M!Scripts : i < r.script => i \in recorded'
       /\ r.pc = "ready" => \A i \in M!Scripts : i \in recorded'
  BY <1>2, <1>3, <1>6, <1>7, MigrationsAssumption DEF M!Scripts
<1>15. 1 \in M!Scripts
  BY MigrationsAssumption DEF M!Scripts
<1>16. Progress'
  BY <1>6, <1>7, <1>8, <1>9, <1>13, <1>14, <1>15 DEF MigrationInv, Progress, M!Scripts
<1>17. OneCommit'
  BY <1>6, <1>9 DEF MigrationInv, OneCommit
<1>18. QED
  BY <1>10, <1>12, <1>16, <1>17 DEF MigrationInv

LEMMA MigrationsNext ==
  ASSUME MigrationInv, [M!Next]_migrationVars
  PROVE  MigrationInv'
<1>1. CASE UNCHANGED migrationVars
  BY <1>1 DEF migrationVars, MigrationInv, MigrationTypes, History, Progress, OneCommit, M!Scripts
<1>2. ASSUME NEW p \in Requests,
             \/ M!Inspect(p) \/ M!RecordInitial(p) \/ M!CheckApplied(p)
             \/ M!RunScript(p) \/ M!RecordScript(p) \/ M!CommitScript(p) \/ M!Fail(p)
      PROVE  MigrationInv'
  BY <1>2, MigrationStep, RecordInitialStep, CommitScriptStep
<1>3. QED
  BY <1>1, <1>2 DEF M!Next

(***************************************************************************)
(* Whatever processes run ApplyMigrations at the same time and wherever    *)
(* they crash: each script takes effect once, in order, and a process      *)
(* serves only when all have.                                              *)
(***************************************************************************)
THEOREM SchemaOnce == Spec => []MigrationsOnce
<1> DEFINE Inv == chosen = "migrations" => MigrationInv
<1>1. Init => Inv
  BY MigrationsInit DEF Init
<1>2. Inv /\ [Next]_vars => Inv'
  <2>1. ASSUME Inv, [Next]_vars, chosen' = "migrations" PROVE MigrationInv'
    <3>1. chosen = "migrations" /\ [M!Next]_migrationVars
      BY <2>1 DEF Next, vars
    <3>2. QED
      BY <2>1, <3>1, MigrationsNext
  <2>2. QED
    BY <2>1
<1>3. MigrationInv => M!MigrationsOnce
  <2> SUFFICES ASSUME MigrationInv PROVE M!MigrationsOnce
    OBVIOUS
  <2>1. \A i \in M!Scripts : effects[i] \in {0, 1} /\ i \in Int
    BY DEF MigrationInv, MigrationTypes, M!Scripts
  <2>2. \A i \in M!Scripts : effects[i] <= 1 /\ (i \in recorded => effects[i] = 1)
    BY <2>1 DEF MigrationInv, History
  <2>3. \A i, j \in M!Scripts : i < j /\ effects[j] = 1 => effects[i] = 1
    <3> SUFFICES ASSUME NEW i \in M!Scripts, NEW j \in M!Scripts, i < j, effects[j] = 1 PROVE effects[i] = 1
      OBVIOUS
    <3>1. j # 1
      BY DEF M!Scripts
    <3>2. j \in recorded
      BY <3>1 DEF MigrationInv, History
    <3>3. QED
      BY <3>2 DEF MigrationInv, History
  <2>4. \A p \in Requests : processes[p].pc = "ready" => \A i \in M!Scripts : effects[i] = 1
    BY DEF MigrationInv, History, Progress
  <2>5. QED
    BY <2>2, <2>3, <2>4 DEF M!MigrationsOnce
<1>4. QED
  BY <1>1, <1>2, <1>3, PTL DEF Spec, MigrationsOnce

-----------------------------------------------------------------------------
(***************************************************************************)
(* Groups.  A statement under way carries a rank that allows what it is    *)
(* about to write, whatever the actor's row says by then.                  *)
(***************************************************************************)
Roles == {"NONE", "MEMBER", "ADMIN", "OWNER"}

StatementFits(s) ==
  /\ s.pc = "add" => /\ s.user \in Users
                     /\ \/ s.rank = "OWNER" /\ s.role \in {"MEMBER", "ADMIN"}
                        \/ s.rank = "ADMIN" /\ s.role = "MEMBER"
  /\ s.pc = "remove" => s.user \in Users /\ s.role = "NONE"

RolesFit ==
  /\ role \in [Users -> Roles]
  /\ appointed \subseteq Users
  /\ group = "LIVE" => owner \in Users
  /\ group # "LIVE" => \A u \in Users : role[u] = "NONE"
  /\ \A u \in Users : role[u] = "OWNER" <=> group = "LIVE" /\ u = owner
  /\ \A u \in Users : role[u] = "ADMIN" <=> u \in appointed

GroupInv ==
  /\ RolesFit
  /\ DOMAIN statements = Requests
  /\ \A r \in Requests : StatementFits(statements[r])

LEMMA GroupsInit ==
  ASSUME G!Init
  PROVE  GroupInv
  BY DEF G!Init, G!Idle, GroupInv, RolesFit, Roles, StatementFits

LEMMA StatementMoves ==
  ASSUME GroupInv, NEW r \in Requests, NEW s, StatementFits(s),
         statements' = [statements EXCEPT ![r] = s],
         RolesFit'
  PROVE  GroupInv'
<1>1. DOMAIN statements' = Requests
  BY DEF GroupInv
<1>2. \A q \in Requests : statements'[q] = IF q = r THEN s ELSE statements[q]
  BY DEF GroupInv
<1>3. QED
  BY <1>1, <1>2 DEF GroupInv

LEMMA IdleStatement == StatementFits(G!Idle)
  BY DEF G!Idle, StatementFits

LEMMA RolesKept ==
  ASSUME RolesFit, UNCHANGED <<group, owner, role, appointed>>
  PROVE  RolesFit'
  BY DEF RolesFit

LEMMA BeginStatement ==
  ASSUME GroupInv, NEW r \in Requests,
         \/ \E u, v \in Users :
              \/ \E newRole \in {"MEMBER", "ADMIN"} : G!BeginAddMember(r, u, v, newRole)
              \/ G!BeginRemoveMember(r, u, v)
  PROVE  GroupInv'
<1>1. PICK u \in Users, v \in Users, n \in {"NONE", "MEMBER", "ADMIN"}, at \in {"add", "remove"} :
        /\ G!ReadActor(r, at, u, v, n)
        /\ at = "add" => n # "NONE" /\ G!MayGrant(role[u], n)
        /\ at = "remove" => n = "NONE"
  BY DEF G!BeginAddMember, G!BeginRemoveMember
<1> DEFINE s == [G!Idle EXCEPT !.pc = at, !.actor = u, !.rank = role[u], !.user = v, !.role = n]
<1>2. s.pc = at /\ s.rank = role[u] /\ s.user = v /\ s.role = n
  BY DEF G!Idle
<1>3. statements' = [statements EXCEPT ![r] = s]
  BY <1>1 DEF G!ReadActor
<1>4. UNCHANGED <<group, owner, role, appointed>>
  BY <1>1 DEF G!ReadActor
<1> HIDE DEF s
<1>5. StatementFits(s)
  BY <1>1, <1>2 DEF StatementFits, G!MayGrant
<1>6. QED
  BY <1>3, <1>4, <1>5, StatementMoves, RolesKept DEF GroupInv

LEMMA WriteRole ==
  ASSUME GroupInv, NEW r \in Requests, G!AddGroupMember(r) \/ G!RemoveGroupMember(r)
  PROVE  GroupInv'
<1> DEFINE v == statements[r].user
           n == statements[r].role
           rank == statements[r].rank
<1>1. /\ v \in Users /\ n \in {"NONE", "MEMBER", "ADMIN"}
      /\ G!SetRole(r) /\ G!End(r) /\ UNCHANGED <<group, owner>>
      /\ role[v] # "OWNER"
      /\ rank # "OWNER" => n # "ADMIN" /\ role[v] # "ADMIN"
      /\ group = "LIVE" \/ role[v] # "NONE"
  <2>1. CASE G!AddGroupMember(r)
    BY <2>1 DEF G!AddGroupMember, G!MayOverwrite, GroupInv, StatementFits
  <2>2. CASE G!RemoveGroupMember(r)
    BY <2>2 DEF G!RemoveGroupMember, G!MayRemove, GroupInv, StatementFits
  <2>3. QED
    BY <2>1, <2>2
<1>2. /\ role' = [role EXCEPT ![v] = n]
      /\ appointed' = IF rank = "OWNER" THEN IF n = "ADMIN" THEN appointed \cup {v} ELSE appointed \ {v}
                      ELSE appointed
  BY <1>1 DEF G!SetRole
<1> HIDE DEF v, n, rank
<1>3. role \in [Users -> Roles] /\ appointed \subseteq Users
  BY DEF GroupInv, RolesFit
<1>4. /\ role' \in [Users -> Roles]
      /\ \A u \in Users : role'[u] = IF u = v THEN n ELSE role[u]
  BY <1>1, <1>2, <1>3 DEF Roles
<1>5. group = "LIVE"
  BY <1>1 DEF GroupInv, RolesFit
<1>6. \A u \in Users : role'[u] = "ADMIN" <=> u \in appointed'
  BY <1>1, <1>2, <1>4 DEF GroupInv, RolesFit
<1>7. RolesFit'
  BY <1>1, <1>2, <1>3, <1>4, <1>5, <1>6 DEF GroupInv, RolesFit
<1>8. QED
  BY <1>1, <1>7, StatementMoves, IdleStatement DEF G!End

LEMMA ResolveStep ==
  ASSUME GroupInv, NEW r \in Requests, NEW u \in Users, NEW from \in Devices, NEW type \in G!TargetTypes,
         NEW requested \in SUBSET Devices, G!ResolveTransferTargets(r, u, from, type, requested)
  PROVE  GroupInv'
<1>1. PICK targets :
        /\ statements' = [statements EXCEPT ![r] = [G!Idle EXCEPT !.pc = "create", !.actor = u,
                                                       !.grouped = type \in G!ToGroup, !.targets = targets]]
        /\ UNCHANGED <<group, owner, role, appointed>>
  BY DEF G!ResolveTransferTargets
<1> DEFINE s == [G!Idle EXCEPT !.pc = "create", !.actor = u, !.grouped = type \in G!ToGroup, !.targets = targets]
<1>2. s.pc = "create"
  BY DEF G!Idle
<1>3. statements' = [statements EXCEPT ![r] = s]
  BY <1>1
<1> HIDE DEF s
<1>4. StatementFits(s)
  BY <1>2 DEF StatementFits
<1>5. QED
  BY <1>1, <1>3, <1>4, StatementMoves, RolesKept DEF GroupInv

LEMMA EndStatement ==
  ASSUME GroupInv, NEW r \in Requests, G!CreateTransfer(r) \/ G!Refuse(r)
  PROVE  GroupInv'
<1>1. /\ statements' = [statements EXCEPT ![r] = G!Idle]
      /\ UNCHANGED <<group, owner, role, appointed>>
  BY DEF G!CreateTransfer, G!Refuse, G!End
<1>2. QED
  BY <1>1, StatementMoves, IdleStatement, RolesKept DEF GroupInv

LEMMA GroupRow ==
  ASSUME GroupInv, (\E u \in Users : G!CreateGroup(u) \/ G!DeleteGroup(u)) \/ G!DeleteAdminGroup
  PROVE  GroupInv'
<1>1. ASSUME NEW u \in Users, G!CreateGroup(u) PROVE GroupInv'
  <2>1. role' \in [Users -> Roles] /\ \A v \in Users : role'[v] = IF v = u THEN "OWNER" ELSE "NONE"
    BY <1>1 DEF G!CreateGroup, GroupInv, RolesFit, Roles
  <2>2. appointed' = appointed /\ \A v \in Users : v \notin appointed
    BY <1>1 DEF G!CreateGroup, GroupInv, RolesFit
  <2>3. RolesFit'
    BY <1>1, <2>1, <2>2 DEF G!CreateGroup, GroupInv, RolesFit
  <2>4. QED
    BY <1>1, <2>3 DEF G!CreateGroup, GroupInv
<1>2. ASSUME G!Cascade PROVE GroupInv'
  BY <1>2 DEF G!Cascade, GroupInv, RolesFit, Roles
<1>3. QED
  BY <1>1, <1>2 DEF G!DeleteGroup, G!DeleteAdminGroup

LEMMA DeviceStep ==
  ASSUME GroupInv, NEW d \in Devices,
         (\E u \in Users : G!AddGroupDevice(u, d) \/ G!RemoveGroupDevice(u, d)) \/ G!RevokeDevice(d)
  PROVE  GroupInv'
<1>1. UNCHANGED <<group, owner, role, appointed, statements>>
  BY DEF G!AddGroupDevice, G!RemoveGroupDevice, G!RevokeDevice
<1>2. QED
  BY <1>1, RolesKept DEF GroupInv

LEMMA GroupsNext ==
  ASSUME GroupInv, [G!Next]_groupVars
  PROVE  GroupInv'
<1>1. CASE UNCHANGED groupVars
  BY <1>1, RolesKept DEF groupVars, GroupInv
<1>2. ASSUME NEW r \in Requests, G!MemberStep(r) \/ G!TransferStep(r) \/ G!Refuse(r) PROVE GroupInv'
  BY <1>2, BeginStatement, WriteRole, ResolveStep, EndStatement DEF G!MemberStep, G!TransferStep
<1>3. QED
  BY <1>1, <1>2, GroupRow, DeviceStep DEF G!Next

(***************************************************************************)
(* For any number of overlapping AddGroupMember and RemoveGroupMember      *)
(* statements, a group has one OWNER row, its owner's, and its             *)
(* administrators are those the owner appointed.                           *)
(***************************************************************************)
THEOREM RanksKept == Spec => []GroupRanks
<1> DEFINE Inv == chosen = "groups" => GroupInv
<1>1. Init => Inv
  BY GroupsInit DEF Init
<1>2. Inv /\ [Next]_vars => Inv'
  <2>1. ASSUME Inv, [Next]_vars, chosen' = "groups" PROVE GroupInv'
    <3>1. chosen = "groups" /\ [G!Next]_groupVars
      BY <2>1 DEF Next, vars
    <3>2. QED
      BY <2>1, <3>1, GroupsNext
  <2>2. QED
    BY <2>1
<1>3. Inv => GroupRanks
  BY DEF GroupInv, RolesFit, GroupRanks, G!GroupRanks
<1>4. QED
  BY <1>1, <1>2, <1>3, PTL DEF Spec

-----------------------------------------------------------------------------
(***************************************************************************)
(* Paging.  What was seen lies before the cursor; a row that was there all *)
(* the time was seen or lies behind it.  The same holds of a page that is  *)
(* being read, with the cursor it will leave.                              *)
(***************************************************************************)
Listings == [pc : {"idle", "asking", "reading", "done"}, kind : P!Kinds, limit : Nat \ {0},
             after : P!Keys \cup {Off}, next : P!Keys \cup {Off},
             page : Seq(P!Keys), read : Nat, seen : Seq(P!Keys)]

Behind(k, cursor) == cursor = Off \/ P!Older(k, cursor)
Within(k, s) == \E i \in 1..Len(s) : s[i] = k

Descending(s) == \A i, j \in 1..Len(s) : i < j => P!Older(s[j], s[i])

\* A cursor after the rows in s.
After(s, cursor) ==
  IF cursor = Off THEN s = << >>
  ELSE \A i \in 1..Len(s) : s[i] = cursor \/ P!Older(cursor, s[i])

\* A page behind one cursor that leaves another.
PageFits(page, after, next) ==
  /\ Descending(page)
  /\ \A i \in 1..Len(page) : Behind(page[i], after)
  /\ next # Off => Within(next, page) /\ \A i \in 1..Len(page) : page[i] = next \/ P!Older(next, page[i])

ListingFits(l, there) ==
  /\ Descending(l.seen)
  /\ l.pc = "idle" => l.seen = << >>
  /\ l.pc \in {"asking", "reading"} =>
       After(l.seen, l.after) /\ \A k \in there : Within(k, l.seen) \/ Behind(k, l.after)
  /\ l.pc = "reading" =>
       /\ PageFits(l.page, l.after, l.next)
       /\ \A k \in there : \/ Within(k, l.seen) \/ Within(k, l.page)
                           \/ l.next # Off /\ P!Older(k, l.next)
  /\ l.pc = "done" => \A k \in there : Within(k, l.seen)

PagingInv ==
  /\ rows \in [P!Keys -> {"absent", "present", "gone"}]
  /\ listing \in Listings
  /\ steady \subseteq P!Keys /\ \A k \in steady : rows[k] = "present"
  /\ ListingFits(listing, steady)

(***************************************************************************)
(* The order of rows.                                                      *)
(***************************************************************************)
LEMMA KeyParts ==
  ASSUME NEW k \in P!Keys
  PROVE  k[1] \in Nat /\ k[2] \in Nat /\ k = <<k[1], k[2]>> /\ k # Off
<1>1. k \in Times \X Ids
  BY DEF P!Keys
<1>2. Times \subseteq Nat /\ Ids \subseteq Nat /\ Off \notin Times \X Ids
  BY PagingAssumption
<1>3. k # Off
  BY <1>1, <1>2
<1>4. k[1] \in Times /\ k[2] \in Ids
  BY <1>1
<1>5. k = <<k[1], k[2]>>
  BY <1>1
<1>6. k[1] \in Nat /\ k[2] \in Nat
  BY <1>2, <1>4
<1>7. QED
  BY <1>3, <1>5, <1>6

LEMMA OlderOrder ==
  ASSUME NEW a \in P!Keys, NEW b \in P!Keys
  PROVE  /\ ~P!Older(a, a)
         /\ ~P!Older(b, a) => P!Older(a, b) \/ a = b
         /\ \A c \in P!Keys : P!Older(a, b) /\ P!Older(b, c) => P!Older(a, c)
  BY KeyParts DEF P!Older

\* What a query answers with: every row behind the cursor, once and in order.
LEMMA QueryAnswers ==
  ASSUME NEW cursor, NEW found \in P!Behind(cursor)
  PROVE  /\ found \in Seq(P!Keys)
         /\ Descending(found)
         /\ \A i \in 1..Len(found) : Behind(found[i], cursor)
         /\ \A k \in P!Keys : rows[k] = "present" /\ Behind(k, cursor) => Within(k, found)
<1> DEFINE R == P!Found(cursor)
           n == P!Cardinality(R)
<1>1. IsFiniteSet(P!Keys)
  BY PagingAssumption, FS_Product DEF P!Keys
<1>2. R \subseteq P!Keys /\ n \in Nat
  <2>1. R \subseteq P!Keys
    BY DEF P!Found
  <2>2. Cardinality(R) \in Nat
    BY <1>1, <2>1, FS_Subset, FS_CardinalityType
  <2>3. n = Cardinality(R)
    BY Zenon DEF P!Cardinality, Cardinality
  <2>4. QED
    BY <2>1, <2>2, <2>3
<1>3. /\ found \in P!Bijection(1..n, R)
      /\ \A i, j \in DOMAIN found : i < j => ~P!Older(found[i], found[j])
  BY DEF P!Behind
<1> HIDE DEF n
<1>4. /\ found \in [1..n -> R] /\ \A i, j \in 1..n : found[i] = found[j] => i = j
      /\ \A k \in R : \E i \in 1..n : found[i] = k
  BY <1>3 DEF P!Bijection, P!Injection, P!Surjection, P!IsInjective
<1>5. found \in Seq(P!Keys) /\ Len(found) = n
  <2>1. found \in [1..n -> P!Keys]
    BY <1>2, <1>4
  <2>2. QED
    BY <1>2, <2>1
<1>6. \A i \in 1..n : Behind(found[i], cursor)
  <2>1. \A k \in R : Behind(k, cursor)
    BY DEF P!Found, Behind
  <2> HIDE DEF R
  <2>2. QED
    BY <1>4, <2>1
<1>7. \A k \in P!Keys : rows[k] = "present" /\ Behind(k, cursor) => Within(k, found)
  <2>1. \A k \in P!Keys : rows[k] = "present" /\ Behind(k, cursor) => k \in R
    BY DEF P!Found, Behind
  <2> HIDE DEF R
  <2>2. QED
    BY <1>4, <1>5, <2>1 DEF Within
<1>8. Descending(found)
  <2>1. SUFFICES ASSUME NEW i \in 1..n, NEW j \in 1..n, i < j
                 PROVE  P!Older(found[j], found[i])
    BY <1>5 DEF Descending
  <2>2. found[i] \in P!Keys /\ found[j] \in P!Keys /\ found[i] # found[j] /\ ~P!Older(found[i], found[j])
    <3>1. i \in DOMAIN found /\ j \in DOMAIN found /\ i # j
      BY <1>2, <1>4, <2>1
    <3>2. QED
      BY <1>2, <1>3, <1>4, <2>1, <3>1
  <2>3. QED
    BY <2>2, OlderOrder
<1>9. QED
  BY <1>5, <1>6, <1>7, <1>8

(***************************************************************************)
(* A page of a query's answer.                                             *)
(***************************************************************************)
LEMMA FirstPage ==
  ASSUME NEW s \in Seq(P!Keys), NEW n \in Nat
  PROVE  /\ P!FirstOf(s, n) \in Seq(P!Keys)
         /\ Len(P!FirstOf(s, n)) = IF Len(s) > n THEN n ELSE Len(s)
         /\ \A i \in 1..Len(P!FirstOf(s, n)) : P!FirstOf(s, n)[i] = s[i] /\ i \in 1..Len(s)
<1>1. CASE Len(s) > n
  BY <1>1 DEF P!FirstOf
<1>2. CASE ~(Len(s) > n)
  BY <1>2 DEF P!FirstOf
<1>3. QED
  BY <1>1, <1>2

\* The rows behind a cursor fit on the page or lie behind the next cursor.
LEMMA PageTaken ==
  ASSUME NEW cursor, NEW found \in P!Behind(cursor), NEW limit \in Nat \ {0}, NEW next,
         next = P!NextCursor(found, limit) \/ next = P!NextMessageCursor(found, limit)
  PROVE  LET page == P!FirstOf(found, limit) IN
         /\ page \in Seq(P!Keys) /\ next \in P!Keys \cup {Off}
         /\ PageFits(page, cursor, next)
         /\ \A k \in P!Keys : rows[k] = "present" /\ Behind(k, cursor) =>
              Within(k, page) \/ (next # Off /\ P!Older(k, next))
<1> DEFINE page == P!FirstOf(found, limit)
<1>1. /\ found \in Seq(P!Keys) /\ Descending(found)
      /\ \A i \in 1..Len(found) : Behind(found[i], cursor)
      /\ \A k \in P!Keys : rows[k] = "present" /\ Behind(k, cursor) => Within(k, found)
  BY QueryAnswers
<1>2. /\ page \in Seq(P!Keys) /\ Len(page) = (IF Len(found) > limit THEN limit ELSE Len(found))
      /\ \A i \in 1..Len(page) : page[i] = found[i] /\ i \in 1..Len(found)
  BY <1>1, FirstPage
<1> HIDE DEF page
<1>3. /\ next = Off \/ (next = found[limit] /\ Len(found) >= limit)
      /\ next = Off => Len(found) <= limit
  <2>1. Len(found) >= limit => found[limit] # Off
    BY <1>1, KeyParts
  <2>2. Len(found) \in Nat
    BY <1>1
  <2>3. QED
    BY <2>1, <2>2 DEF P!NextCursor, P!NextMessageCursor
<1>4. Descending(page)
  BY <1>1, <1>2 DEF Descending
<1>5. \A i \in 1..Len(page) : Behind(page[i], cursor)
  BY <1>1, <1>2
<1>6. ASSUME next # Off
      PROVE  /\ next \in P!Keys /\ Within(next, page)
             /\ \A i \in 1..Len(page) : page[i] = next \/ P!Older(next, page[i])
  <2>1. next = found[limit] /\ Len(found) >= limit /\ Len(found) \in Nat
    BY <1>1, <1>3, <1>6
  <2>2. Len(page) = limit /\ limit \in 1..Len(page) /\ limit \in 1..Len(found)
    BY <1>2, <2>1
  <2>3. next \in P!Keys /\ Within(next, page)
    BY <1>1, <1>2, <2>1, <2>2 DEF Within
  <2>4. ASSUME NEW i \in 1..Len(page) PROVE page[i] = next \/ P!Older(next, page[i])
    <3>1. page[i] = found[i] /\ i \in 1..Len(found)
      BY <1>2
    <3>2. i = limit \/ i < limit
      BY <2>2
    <3>3. QED
      BY <1>1, <2>1, <2>2, <3>1, <3>2 DEF Descending
  <2>5. QED
    BY <2>3, <2>4
<1>7. ASSUME NEW k \in P!Keys, rows[k] = "present", Behind(k, cursor)
      PROVE  Within(k, page) \/ (next # Off /\ P!Older(k, next))
  <2>1. PICK i \in 1..Len(found) : found[i] = k
    BY <1>1, <1>7 DEF Within
  <2>2. Len(found) \in Nat
    BY <1>1
  <2>3. CASE i <= Len(page)
    BY <1>2, <2>1, <2>2, <2>3 DEF Within
  <2>4. CASE ~(i <= Len(page))
    <3>1. Len(found) > limit /\ Len(page) = limit /\ i > limit
      BY <1>2, <2>1, <2>2, <2>4
    <3>2. next = found[limit] /\ next # Off /\ limit \in 1..Len(found)
      BY <1>3, <2>2, <3>1
    <3>3. QED
      BY <1>1, <2>1, <3>1, <3>2 DEF Descending
  <2>5. QED
    BY <2>3, <2>4
<1>8. PageFits(page, cursor, next)
  BY <1>4, <1>5, <1>6 DEF PageFits
<1>9. QED
  BY <1>2, <1>6, <1>7, <1>8 DEF page

LEMMA Joined ==
  ASSUME NEW s \in Seq(P!Keys), NEW p \in Seq(P!Keys),
         NEW after \in P!Keys \cup {Off}, NEW next \in P!Keys \cup {Off},
         Descending(s), After(s, after), PageFits(p, after, next)
  PROVE  /\ s \o p \in Seq(P!Keys)
         /\ Descending(s \o p)
         /\ next # Off => After(s \o p, next)
         /\ \A k : Within(k, s) \/ Within(k, p) => Within(k, s \o p)
<1> DEFINE t == s \o p
           m == Len(s)
           n == Len(p)
<1>1. m \in Nat /\ n \in Nat /\ t \in Seq(P!Keys) /\ Len(t) = m + n
  OBVIOUS
<1>2. /\ \A i \in 1..m : t[i] = s[i]
      /\ \A i \in 1..n : t[m + i] = p[i]
  OBVIOUS
<1>3. /\ \A i \in 1..m : s[i] \in P!Keys
      /\ \A i \in 1..n : p[i] \in P!Keys
  OBVIOUS
<1>4. /\ \A i, j \in 1..m : i < j => P!Older(s[j], s[i])
      /\ \A i, j \in 1..n : i < j => P!Older(p[j], p[i])
  BY DEF Descending, PageFits
<1>5. \A i \in 1..n : Behind(p[i], after)
  BY DEF PageFits
<1> HIDE DEF t, m, n
<1>6. ASSUME NEW i \in 1..(m + n)
      PROVE  (i \in 1..m /\ t[i] = s[i]) \/ (i - m \in 1..n /\ t[i] = p[i - m])
  <2>1. CASE i <= m
    BY <1>1, <1>2, <2>1
  <2>2. CASE ~(i <= m)
    <3>1. i - m \in 1..n /\ m + (i - m) = i
      BY <1>1, <2>2
    <3>2. QED
      BY <1>2, <3>1
  <2>3. QED
    BY <2>1, <2>2
<1>7. ASSUME NEW i \in 1..m, NEW j \in 1..n PROVE P!Older(p[j], s[i])
  <2>1. after # Off
    BY <1>1, <1>7 DEF After, m
  <2>2. P!Older(p[j], after) /\ (s[i] = after \/ P!Older(after, s[i])) /\ after \in P!Keys
    BY <1>5, <1>7, <2>1 DEF After, Behind, m
  <2>3. QED
    BY <1>3, <1>7, <2>2, OlderOrder
<1>8. ASSUME NEW i \in 1..(m + n), NEW j \in 1..(m + n), i < j
      PROVE  P!Older(t[j], t[i])
  <2>1. CASE i \in 1..m /\ j \in 1..m
    BY <1>2, <1>4, <1>8, <2>1
  <2>2. CASE i \in 1..m /\ j \notin 1..m
    <3>1. t[i] = s[i] /\ i \in 1..m
      BY <1>2, <2>2
    <3>2. j - m \in 1..n /\ t[j] = p[j - m]
      BY <1>6, <2>2
    <3>3. P!Older(p[j - m], s[i])
      BY <1>7, <3>1, <3>2
    <3>4. QED
      BY <3>1, <3>2, <3>3
  <2>3. CASE i \notin 1..m
    <3>1. i - m \in 1..n /\ t[i] = p[i - m]
      BY <1>6, <2>3
    <3>2. j \notin 1..m
      BY <1>1, <1>8, <2>3
    <3>3. j - m \in 1..n /\ t[j] = p[j - m]
      BY <1>6, <3>2
    <3>4. i - m < j - m
      BY <1>1, <1>8
    <3>5. QED
      BY <1>4, <3>1, <3>3, <3>4
  <2>4. QED
    BY <2>1, <2>2, <2>3
<1>9. ASSUME next # Off, NEW i \in 1..(m + n) PROVE t[i] = next \/ P!Older(next, t[i])
  <2>1. next \in P!Keys
    BY <1>9
  <2>2. (\E j \in 1..n : p[j] = next) /\ \A j \in 1..n : p[j] = next \/ P!Older(next, p[j])
    BY <1>9 DEF PageFits, Within, n
  <2>3. QED
    BY <1>6, <1>7, <1>9, <2>2
<1>10. \A k : Within(k, s) \/ Within(k, p) => Within(k, t)
  <2>1. \A i \in 1..n : m + i \in 1..(m + n)
    BY <1>1
  <2>2. \A i \in 1..m : i \in 1..(m + n)
    BY <1>1
  <2>3. SUFFICES ASSUME NEW k, Within(k, s) \/ Within(k, p) PROVE Within(k, t)
    OBVIOUS
  <2>4. CASE Within(k, s)
    <3>1. PICK i \in 1..m : s[i] = k
      BY <2>4 DEF Within, m
    <3>2. QED
      BY <1>1, <1>2, <2>2, <3>1 DEF Within
  <2>5. CASE Within(k, p)
    <3>1. PICK i \in 1..n : p[i] = k
      BY <2>5 DEF Within, n
    <3>2. QED
      BY <1>1, <1>2, <2>1, <3>1 DEF Within
  <2>6. QED
    BY <2>3, <2>4, <2>5
<1>11. Descending(t) /\ (next # Off => After(t, next))
  BY <1>1, <1>8, <1>9 DEF Descending, After
<1>12. QED
  BY <1>1, <1>10, <1>11 DEF t

-----------------------------------------------------------------------------
(***************************************************************************)
(* The steps.                                                              *)
(***************************************************************************)
LEMMA NoListingTyped ==
  /\ P!NoListing \in Listings
  /\ P!NoListing.pc = "idle" /\ P!NoListing.seen = << >> /\ P!NoListing.after = Off
<1>1. << >> \in Seq(P!Keys) /\ "transfers" \in P!Kinds
  BY DEF P!Kinds
<1>2. QED
  BY <1>1 DEF P!NoListing, Listings

LEMMA PagingInit ==
  ASSUME P!Init
  PROVE  PagingInv
<1>1. listing = P!NoListing /\ steady = {} /\ rows \in [P!Keys -> {"absent", "present", "gone"}]
  BY DEF P!Init
<1>2. QED
  BY <1>1, NoListingTyped DEF PagingInv, ListingFits, Descending

Asking(kind, limit) == [P!NoListing EXCEPT !.pc = "asking", !.kind = kind, !.limit = limit]

LEMMA AskingTyped ==
  ASSUME NEW kind \in P!Kinds, NEW limit \in Nat \ {0}
  PROVE  LET l == Asking(kind, limit) IN
         l \in Listings /\ l.pc = "asking" /\ l.seen = << >> /\ l.after = Off
<1> DEFINE q1 == [P!NoListing EXCEPT !.pc = "asking"]
           q2 == [q1 EXCEPT !.kind = kind]
           q3 == [q2 EXCEPT !.limit = limit]
<1>1. Asking(kind, limit) = q3
  BY DEF Asking
<1>2. q1 \in Listings /\ q1.pc = "asking" /\ q1.seen = << >> /\ q1.after = Off
  BY NoListingTyped DEF Listings
<1> HIDE DEF q1
<1>3. q2 \in Listings /\ q2.pc = "asking" /\ q2.seen = << >> /\ q2.after = Off
  BY <1>2 DEF Listings
<1> HIDE DEF q2
<1>4. q3 \in Listings /\ q3.pc = "asking" /\ q3.seen = << >> /\ q3.after = Off
  BY <1>3 DEF Listings
<1> HIDE DEF q3
<1>5. QED
  BY <1>1, <1>4

LEMMA StartListingStep ==
  ASSUME PagingInv, NEW kind \in P!Kinds, NEW limit \in Limits, P!StartListing(kind, limit)
  PROVE  PagingInv'
<1>1. listing' = Asking(kind, limit) /\ steady' = {k \in P!Keys : rows[k] = "present"} /\ rows' = rows
  BY DEF P!StartListing, Asking
<1>2. limit \in Nat \ {0}
  BY PagingAssumption
<1>3. listing' \in Listings /\ listing'.pc = "asking" /\ listing'.seen = << >> /\ listing'.after = Off
  BY <1>1, <1>2, AskingTyped
<1>4. ListingFits(listing', steady')
  BY <1>3 DEF ListingFits, After, Behind, Descending
<1>5. QED
  BY <1>1, <1>3, <1>4 DEF PagingInv

\* A step of the listing alone.
LEMMA ListingMoves ==
  ASSUME PagingInv, listing' \in Listings, ListingFits(listing', steady), UNCHANGED <<rows, steady>>
  PROVE  PagingInv'
  BY DEF PagingInv

Delivered(l, page, next) ==
  [l EXCEPT !.pc = IF next = Off THEN "done" ELSE "asking",
            !.after = next, !.next = Off, !.page = <<>>, !.read = 0, !.seen = @ \o page]

LEMMA DeliveredTyped ==
  ASSUME NEW l \in Listings, NEW page \in Seq(P!Keys), NEW next \in P!Keys \cup {Off}
  PROVE  LET d == Delivered(l, page, next) IN
         /\ d \in Listings
         /\ d.pc = (IF next = Off THEN "done" ELSE "asking")
         /\ d.after = next /\ d.seen = l.seen \o page
<1> DEFINE p == IF next = Off THEN "done" ELSE "asking"
           s == l.seen \o page
           q1 == [l EXCEPT !.pc = p]
           q2 == [q1 EXCEPT !.after = next]
           q3 == [q2 EXCEPT !.next = Off]
           q4 == [q3 EXCEPT !.page = << >>]
           q5 == [q4 EXCEPT !.read = 0]
           q6 == [q5 EXCEPT !.seen = s]
<1>1. Delivered(l, page, next) = q6
  BY DEF Delivered, Listings
<1>2. p \in {"done", "asking"} /\ s \in Seq(P!Keys) /\ << >> \in Seq(P!Keys)
  BY DEF Listings
<1> HIDE DEF p, s
<1>3. q1 \in Listings /\ q1.pc = p
  BY <1>2 DEF Listings
<1> HIDE DEF q1
<1>4. q2 \in Listings /\ q2.pc = p /\ q2.after = next
  BY <1>3 DEF Listings
<1> HIDE DEF q2
<1>5. q3 \in Listings /\ q3.pc = p /\ q3.after = next
  BY <1>4 DEF Listings
<1> HIDE DEF q3
<1>6. q4 \in Listings /\ q4.pc = p /\ q4.after = next
  BY <1>2, <1>5 DEF Listings
<1> HIDE DEF q4
<1>7. q5 \in Listings /\ q5.pc = p /\ q5.after = next
  BY <1>6 DEF Listings
<1> HIDE DEF q5
<1>8. q6 \in Listings /\ q6.pc = p /\ q6.after = next /\ q6.seen = s
  BY <1>2, <1>7 DEF Listings
<1> HIDE DEF q6
<1>9. QED
  BY <1>1, <1>8 DEF p, s

\* A page reaches the client: nothing between what it has seen and the page's
\* cursor is missing.
LEMMA DeliverStep ==
  ASSUME PagingInv, listing.pc \in {"asking", "reading"},
         NEW page \in Seq(P!Keys), NEW next \in P!Keys \cup {Off},
         PageFits(page, listing.after, next),
         \A k \in steady : \/ Within(k, listing.seen) \/ Within(k, page)
                           \/ next # Off /\ P!Older(k, next),
         P!Deliver(page, next), UNCHANGED <<rows, steady>>
  PROVE  PagingInv'
<1>1. listing' = Delivered(listing, page, next) /\ listing \in Listings
  BY DEF P!Deliver, Delivered, PagingInv
<1>2. /\ listing' \in Listings
      /\ listing'.pc = (IF next = Off THEN "done" ELSE "asking")
      /\ listing'.after = next /\ listing'.seen = listing.seen \o page
  BY <1>1, DeliveredTyped
<1>3. listing.seen \in Seq(P!Keys) /\ listing.after \in P!Keys \cup {Off}
  BY <1>1 DEF Listings
<1>4. Descending(listing.seen) /\ After(listing.seen, listing.after)
  BY DEF PagingInv, ListingFits
<1>5. /\ Descending(listing'.seen) /\ (next # Off => After(listing'.seen, next))
      /\ \A k : Within(k, listing.seen) \/ Within(k, page) => Within(k, listing'.seen)
  BY <1>2, <1>3, <1>4, Joined
<1>6. \A k \in steady : Within(k, listing'.seen) \/ (next # Off /\ P!Older(k, next))
  BY <1>5
<1>7. ListingFits(listing', steady)
  BY <1>2, <1>5, <1>6 DEF ListingFits, Behind
<1>8. QED
  BY <1>2, <1>7, ListingMoves

LEMMA TakenPage ==
  ASSUME PagingInv, listing.pc = "asking", NEW found \in P!Behind(listing.after), NEW next,
         next = P!NextCursor(found, listing.limit) \/ next = P!NextMessageCursor(found, listing.limit)
  PROVE  LET page == P!FirstOf(found, listing.limit) IN
         /\ page \in Seq(P!Keys) /\ next \in P!Keys \cup {Off}
         /\ PageFits(page, listing.after, next)
         /\ \A k \in steady : \/ Within(k, listing.seen) \/ Within(k, page)
                              \/ next # Off /\ P!Older(k, next)
<1> DEFINE page == P!FirstOf(found, listing.limit)
<1>1. listing.limit \in Nat \ {0}
  BY DEF PagingInv, Listings
<1>2. /\ page \in Seq(P!Keys) /\ next \in P!Keys \cup {Off}
      /\ PageFits(page, listing.after, next)
      /\ \A k \in P!Keys : rows[k] = "present" /\ Behind(k, listing.after) =>
           Within(k, page) \/ (next # Off /\ P!Older(k, next))
  BY <1>1, PageTaken
<1>3. \A k \in steady : k \in P!Keys /\ rows[k] = "present"
                        /\ (Within(k, listing.seen) \/ Behind(k, listing.after))
  BY DEF PagingInv, ListingFits
<1> HIDE DEF page
<1>4. \A k \in steady : \/ Within(k, listing.seen) \/ Within(k, page)
                        \/ next # Off /\ P!Older(k, next)
  BY <1>2, <1>3
<1>5. QED
  BY <1>2, <1>4 DEF page

LEMMA OnePageStep ==
  ASSUME PagingInv, (\E kind \in P!Kinds : P!AdminPage(kind)) \/ P!Page
  PROVE  PagingInv'
<1>1. /\ listing.pc = "asking" /\ UNCHANGED <<rows, steady>>
      /\ \E found \in P!Behind(listing.after) :
           \/ P!Deliver(P!FirstOf(found, listing.limit), P!NextCursor(found, listing.limit))
           \/ P!Deliver(P!FirstOf(found, listing.limit), P!NextMessageCursor(found, listing.limit))
  BY DEF P!AdminPage, P!Page
<1>2. PICK found \in P!Behind(listing.after) :
           \/ P!Deliver(P!FirstOf(found, listing.limit), P!NextCursor(found, listing.limit))
           \/ P!Deliver(P!FirstOf(found, listing.limit), P!NextMessageCursor(found, listing.limit))
  BY <1>1
<1>3. PICK next : /\ next = P!NextCursor(found, listing.limit) \/ next = P!NextMessageCursor(found, listing.limit)
                  /\ P!Deliver(P!FirstOf(found, listing.limit), next)
  BY <1>2
<1>4. LET page == P!FirstOf(found, listing.limit) IN
         /\ page \in Seq(P!Keys) /\ next \in P!Keys \cup {Off}
         /\ PageFits(page, listing.after, next)
         /\ \A k \in steady : \/ Within(k, listing.seen) \/ Within(k, page)
                              \/ next # Off /\ P!Older(k, next)
  BY <1>1, <1>3, TakenPage
<1>5. QED
  BY <1>1, <1>3, <1>4, DeliverStep

Reading(l, page, next) == [l EXCEPT !.pc = "reading", !.page = page, !.next = next]

LEMMA ReadingTyped ==
  ASSUME NEW l \in Listings, NEW page \in Seq(P!Keys), NEW next \in P!Keys \cup {Off}
  PROVE  LET r == Reading(l, page, next) IN
         /\ r \in Listings /\ r.pc = "reading" /\ r.page = page /\ r.next = next
         /\ r.after = l.after /\ r.seen = l.seen
<1> DEFINE q1 == [l EXCEPT !.pc = "reading"]
           q2 == [q1 EXCEPT !.page = page]
           q3 == [q2 EXCEPT !.next = next]
<1>1. Reading(l, page, next) = q3
  BY DEF Reading
<1>2. q1 \in Listings /\ q1.pc = "reading" /\ q1.after = l.after /\ q1.seen = l.seen
  BY DEF Listings
<1> HIDE DEF q1
<1>3. q2 \in Listings /\ q2.pc = "reading" /\ q2.after = l.after /\ q2.seen = l.seen /\ q2.page = page
  BY <1>2 DEF Listings
<1> HIDE DEF q2
<1>4. /\ q3 \in Listings /\ q3.pc = "reading" /\ q3.after = l.after /\ q3.seen = l.seen /\ q3.page = page
      /\ q3.next = next
  BY <1>3 DEF Listings
<1> HIDE DEF q3
<1>5. QED
  BY <1>1, <1>4

LEMMA TransferPageStep ==
  ASSUME PagingInv, P!ListTransferPage
  PROVE  PagingInv'
<1>1. PICK found \in P!Behind(listing.after) :
        listing' = Reading(listing, P!FirstOf(found, listing.limit), P!NextCursor(found, listing.limit))
  BY DEF P!ListTransferPage, Reading
<1> DEFINE page == P!FirstOf(found, listing.limit)
           next == P!NextCursor(found, listing.limit)
<1>2. listing.pc = "asking" /\ UNCHANGED <<rows, steady>> /\ listing \in Listings
  BY DEF P!ListTransferPage, PagingInv
<1>3. /\ page \in Seq(P!Keys) /\ next \in P!Keys \cup {Off}
      /\ PageFits(page, listing.after, next)
      /\ \A k \in steady : \/ Within(k, listing.seen) \/ Within(k, page)
                           \/ next # Off /\ P!Older(k, next)
  BY <1>2, TakenPage
<1>4. listing' = Reading(listing, page, next)
  BY <1>1
<1> HIDE DEF page, next
<1>5. /\ listing' \in Listings /\ listing'.pc = "reading" /\ listing'.page = page /\ listing'.next = next
      /\ listing'.after = listing.after /\ listing'.seen = listing.seen
  BY <1>2, <1>3, <1>4, ReadingTyped
<1>6. ListingFits(listing', steady)
  BY <1>2, <1>3, <1>5 DEF PagingInv, ListingFits
<1>7. QED
  BY <1>2, <1>5, <1>6, ListingMoves

LEMMA GetTransferStep ==
  ASSUME PagingInv, P!GetTransfer
  PROVE  PagingInv'
<1> DEFINE l == [listing EXCEPT !.read = listing.read + 1]
<1>1. listing \in Listings /\ listing.read + 1 \in Nat /\ UNCHANGED <<rows, steady>> /\ listing' = l
  BY DEF P!GetTransfer, PagingInv, Listings
<1>2. /\ l \in Listings /\ l.pc = listing.pc /\ l.page = listing.page /\ l.next = listing.next
      /\ l.after = listing.after /\ l.seen = listing.seen
  BY <1>1 DEF Listings
<1> HIDE DEF l
<1>3. ListingFits(l, steady)
  BY <1>2 DEF PagingInv, ListingFits
<1>4. QED
  BY <1>1, <1>2, <1>3, ListingMoves

Again(l) == [l EXCEPT !.pc = "asking", !.page = << >>, !.next = Off, !.read = 0]

LEMMA AgainTyped ==
  ASSUME NEW l \in Listings
  PROVE  /\ Again(l) \in Listings /\ Again(l).pc = "asking"
         /\ Again(l).after = l.after /\ Again(l).seen = l.seen
<1> DEFINE q1 == [l EXCEPT !.pc = "asking"]
           q2 == [q1 EXCEPT !.page = << >>]
           q3 == [q2 EXCEPT !.next = Off]
           q4 == [q3 EXCEPT !.read = 0]
<1>1. Again(l) = q4
  BY DEF Again
<1>2. q1 \in Listings /\ q1.pc = "asking" /\ q1.after = l.after /\ q1.seen = l.seen
  BY DEF Listings
<1> HIDE DEF q1
<1>3. q2 \in Listings /\ q2.pc = "asking" /\ q2.after = l.after /\ q2.seen = l.seen
  <2>1. << >> \in Seq(P!Keys)
    OBVIOUS
  <2>2. QED
    BY <1>2, <2>1 DEF Listings
<1> HIDE DEF q2
<1>4. q3 \in Listings /\ q3.pc = "asking" /\ q3.after = l.after /\ q3.seen = l.seen
  BY <1>3 DEF Listings
<1> HIDE DEF q3
<1>5. q4 \in Listings /\ q4.pc = "asking" /\ q4.after = l.after /\ q4.seen = l.seen
  BY <1>4 DEF Listings
<1> HIDE DEF q4
<1>6. QED
  BY <1>1, <1>5

LEMMA PageFailsStep ==
  ASSUME PagingInv, P!PageFails
  PROVE  PagingInv'
<1>1. listing \in Listings /\ listing.pc = "reading" /\ UNCHANGED <<rows, steady>> /\ listing' = Again(listing)
  BY DEF P!PageFails, PagingInv, Again
<1>2. /\ listing' \in Listings /\ listing'.pc = "asking"
      /\ listing'.after = listing.after /\ listing'.seen = listing.seen
  BY <1>1, AgainTyped
<1>3. ListingFits(listing', steady)
  BY <1>1, <1>2 DEF PagingInv, ListingFits
<1>4. QED
  BY <1>1, <1>2, <1>3, ListingMoves

LEMMA ListTransfersStep ==
  ASSUME PagingInv, P!ListTransfers
  PROVE  PagingInv'
<1>1. listing.pc = "reading" /\ P!Deliver(listing.page, listing.next) /\ UNCHANGED <<rows, steady>>
  BY DEF P!ListTransfers
<1>2. listing.page \in Seq(P!Keys) /\ listing.next \in P!Keys \cup {Off}
  BY DEF PagingInv, Listings
<1>3. /\ PageFits(listing.page, listing.after, listing.next)
      /\ \A k \in steady : \/ Within(k, listing.seen) \/ Within(k, listing.page)
                           \/ listing.next # Off /\ P!Older(k, listing.next)
  BY <1>1 DEF PagingInv, ListingFits
<1>4. QED
  BY <1>1, <1>2, <1>3, DeliverStep

\* A row that appears was not there all the time; one that disappears is not.
LEMMA RowMoves ==
  ASSUME PagingInv, NEW k \in P!Keys, P!Appear(k) \/ P!Disappear(k)
  PROVE  PagingInv'
<1>1. /\ listing' = listing /\ steady' \subseteq steady
      /\ rows' \in [P!Keys -> {"absent", "present", "gone"}]
  BY DEF P!Appear, P!Disappear, PagingInv
<1>2. \A e \in steady' : rows'[e] = "present"
  BY DEF P!Appear, P!Disappear, PagingInv
<1>3. ListingFits(listing, steady')
  BY <1>1 DEF PagingInv, ListingFits
<1>4. QED
  BY <1>1, <1>2, <1>3 DEF PagingInv

LEMMA PagingNext ==
  ASSUME PagingInv, [P!Next]_pagingVars
  PROVE  PagingInv'
<1>1. CASE UNCHANGED pagingVars
  BY <1>1 DEF pagingVars, PagingInv
<1>2. CASE \E kind \in P!Kinds, limit \in Limits : P!StartListing(kind, limit)
  BY <1>2, StartListingStep
<1>3. CASE P!ListAdminFailurePage \/ P!ListAdminAuditLogPage \/ P!Page
  BY <1>3, OnePageStep DEF P!ListAdminFailurePage, P!ListAdminAuditLogPage, P!Kinds
<1>4. CASE P!ListTransferPage \/ P!GetTransfer \/ P!PageFails \/ P!ListTransfers
  BY <1>4, TransferPageStep, GetTransferStep, PageFailsStep, ListTransfersStep
<1>5. CASE \E k \in P!Keys : P!Appear(k) \/ P!Disappear(k)
  BY <1>5, RowMoves
<1>6. QED
  BY <1>1, <1>2, <1>3, <1>4, <1>5 DEF P!Next

(***************************************************************************)
(* Page by page, with equal creation times, rows that come and go and      *)
(* pages that fail and are asked for again, a listing shows no row twice,  *)
(* goes from newer to older, and at its end has shown every row that was   *)
(* there all the time, for every page size.                                *)
(***************************************************************************)
THEOREM ListingsFaithful == Spec => []ListingFaithful
<1> DEFINE Inv == chosen = "paging" => PagingInv
<1>1. Init => Inv
  BY PagingInit DEF Init
<1>2. Inv /\ [Next]_vars => Inv'
  <2>1. ASSUME Inv, [Next]_vars, chosen' = "paging" PROVE PagingInv'
    <3>1. chosen = "paging" /\ [P!Next]_pagingVars
      BY <2>1 DEF Next, vars
    <3>2. QED
      BY <2>1, <3>1, PagingNext
  <2>2. QED
    BY <2>1
<1>3. Inv => ListingFaithful
  <2>1. ASSUME PagingInv PROVE P!ListingFaithful
    <3>1. listing.seen \in Seq(P!Keys) /\ Descending(listing.seen)
          /\ (listing.pc = "done" => \A k \in steady : Within(k, listing.seen))
      BY <2>1 DEF PagingInv, Listings, ListingFits
    <3>2. DOMAIN listing.seen = 1..Len(listing.seen)
      BY <3>1
    <3>3. \A i, j \in DOMAIN listing.seen : i < j => P!Older(listing.seen[j], listing.seen[i])
      BY <3>1, <3>2 DEF Descending
    <3>4. listing.pc = "done" => steady \subseteq P!Range(listing.seen)
      BY <3>1, <3>2 DEF Within, P!Range
    <3>5. QED
      BY <3>3, <3>4 DEF P!ListingFaithful
  <2>2. QED
    BY <2>1 DEF ListingFaithful
<1>4. QED
  BY <1>1, <1>2, <1>3, PTL DEF Spec

-----------------------------------------------------------------------------
(***************************************************************************)
(* Idempotency.  A request at work with a key is the only one with that    *)
(* key, and finds no record of it until it commits; the events a batch has *)
(* inserted are its own and not yet committed.                             *)
(***************************************************************************)
CallShape(c) ==
  c = [pc |-> c.pc, submission |-> c.submission, number |-> c.number,
       inserted |-> c.inserted, accepted |-> c.accepted, read |-> c.read]

CallFits(c, recs, mets) ==
  /\ CallShape(c)
  /\ IsFiniteSet(c.inserted) /\ c.accepted = Cardinality(c.inserted)
  /\ \A e \in c.inserted : e \notin mets
  /\ c.pc = "working" /\ c.submission.key # Off =>
       \A e \in recs : ~(e.resource = c.submission.resource /\ e.key = c.submission.key)

CallsApart(c, d) ==
  /\ \A e \in c.inserted : e \notin d.inserted
  /\ ~(/\ c.pc = "working" /\ c.submission.key # Off
       /\ d.pc = "working" /\ d.submission.key # Off
       /\ c.submission.key = d.submission.key)

EntryShape(e) == e = [resource |-> e.resource, key |-> e.key, content |-> e.content, answer |-> e.answer]

RecordsFit ==
  /\ \A e \in records : EntryShape(e)
  /\ \A a, b \in records : a.resource = b.resource /\ a.key = b.key => a = b
  /\ applied = records
  /\ answers \subseteq records

CountFits == IsFiniteSet(metrics) /\ counted = Cardinality(metrics)

CallsFit ==
  /\ DOMAIN calls = Requests
  /\ \A r \in Requests : CallFits(calls[r], records, metrics)
  /\ \A r, q \in Requests : r # q => CallsApart(calls[r], calls[q])

IdempotencyInv == CallsFit /\ RecordsFit /\ CountFits

LEMMA IdleCall ==
  ASSUME NEW recs, NEW mets
  PROVE  /\ CallFits(I!Idle, recs, mets)
         /\ \A d : CallsApart(I!Idle, d)
<1>1. /\ I!Idle.pc = "idle" /\ I!Idle.inserted = {} /\ I!Idle.accepted = 0 /\ CallShape(I!Idle)
  BY DEF I!Idle, CallShape
<1>2. QED
  BY <1>1, FS_EmptySet DEF CallFits, CallsApart

LEMMA ApartTurned ==
  ASSUME NEW c, NEW d, CallsApart(c, d)
  PROVE  CallsApart(d, c)
  BY DEF CallsApart

LEMMA IdempotencyInit ==
  ASSUME I!Init
  PROVE  IdempotencyInv
<1>1. CallsFit
  BY IdleCall DEF I!Init, CallsFit
<1>2. RecordsFit /\ CountFits
  BY FS_EmptySet DEF I!Init, RecordsFit, CountFits
<1>3. QED
  BY <1>1, <1>2 DEF IdempotencyInv

LEMMA CallMoves ==
  ASSUME IdempotencyInv, NEW r \in Requests, NEW c,
         calls' = [calls EXCEPT ![r] = c],
         CallFits(c, records, metrics),
         \A q \in Requests : q # r => CallsApart(c, calls[q]),
         UNCHANGED <<records, metrics, applied, counted>>, answers' \subseteq records
  PROVE  IdempotencyInv'
<1>1. DOMAIN calls' = Requests /\ \A q \in Requests : calls'[q] = IF q = r THEN c ELSE calls[q]
  BY DEF IdempotencyInv, CallsFit
<1>2. CallsFit'
  BY <1>1, ApartTurned DEF IdempotencyInv, CallsFit
<1>3. RecordsFit' /\ CountFits'
  BY DEF IdempotencyInv, RecordsFit, CountFits
<1>4. QED
  BY <1>2, <1>3 DEF IdempotencyInv

\* A call that only changes its step, its submission or its number.
LEMMA CallStepped ==
  ASSUME IdempotencyInv, NEW r \in Requests, NEW c, CallShape(c),
         calls' = [calls EXCEPT ![r] = c],
         c.inserted = calls[r].inserted, c.accepted = calls[r].accepted,
         c.pc = "working" /\ c.submission.key # Off =>
           /\ \A e \in records : ~(e.resource = c.submission.resource /\ e.key = c.submission.key)
           /\ \A q \in Requests : q # r => ~(/\ calls[q].pc = "working" /\ calls[q].submission.key # Off
                                            /\ c.submission.key = calls[q].submission.key),
         UNCHANGED <<records, metrics, applied, counted, answers>>
  PROVE  IdempotencyInv'
<1>1. CallFits(calls[r], records, metrics) /\ \A q \in Requests : q # r => CallsApart(calls[r], calls[q])
  BY DEF IdempotencyInv, CallsFit
<1>2. CallFits(c, records, metrics)
  BY <1>1 DEF CallFits
<1>3. \A q \in Requests : q # r => CallsApart(c, calls[q])
  BY <1>1 DEF CallsApart
<1>4. answers' \subseteq records
  BY DEF IdempotencyInv, RecordsFit
<1>5. QED
  BY <1>2, <1>3, <1>4, CallMoves

\* What an update of several fields of a call leaves of it.
LEMMA CallSent ==
  ASSUME NEW c, CallShape(c), NEW s
  PROVE  [c EXCEPT !.pc = "sent", !.submission = s]
           = [pc |-> "sent", submission |-> s, number |-> c.number,
              inserted |-> c.inserted, accepted |-> c.accepted, read |-> c.read]
<1> DEFINE d == [c EXCEPT !.pc = "sent"]
<1>1. d = [pc |-> "sent", submission |-> c.submission, number |-> c.number,
           inserted |-> c.inserted, accepted |-> c.accepted, read |-> c.read]
  BY DEF CallShape
<1>2. [c EXCEPT !.pc = "sent", !.submission = s] = [d EXCEPT !.submission = s]
  OBVIOUS
<1> HIDE DEF d
<1>3. QED
  BY <1>1, <1>2

Inserted(c, n, i, k) == [c EXCEPT !.read = n, !.inserted = i, !.accepted = k]

LEMMA CallInserted ==
  ASSUME NEW c, CallShape(c), NEW n, NEW i, NEW k
  PROVE  Inserted(c, n, i, k)
           = [pc |-> c.pc, submission |-> c.submission, number |-> c.number,
              inserted |-> i, accepted |-> k, read |-> n]
<1> DEFINE d == [c EXCEPT !.read = n]
           f == [d EXCEPT !.inserted = i]
<1>1. d = [pc |-> c.pc, submission |-> c.submission, number |-> c.number,
           inserted |-> c.inserted, accepted |-> c.accepted, read |-> n]
  BY DEF CallShape
<1>2. Inserted(c, n, i, k) = [f EXCEPT !.accepted = k]
  BY DEF Inserted
<1> HIDE DEF d
<1>3. f = [pc |-> c.pc, submission |-> c.submission, number |-> c.number,
           inserted |-> i, accepted |-> c.accepted, read |-> n]
  BY <1>1
<1> HIDE DEF f
<1>4. QED
  BY <1>2, <1>3

LEMMA SendStep ==
  ASSUME IdempotencyInv, NEW r \in Requests, NEW s \in Submissions, I!Send(r, s)
  PROVE  IdempotencyInv'
<1> DEFINE c == [calls[r] EXCEPT !.pc = "sent", !.submission = s]
<1>1. CallShape(calls[r]) /\ DOMAIN calls = Requests
  BY DEF IdempotencyInv, CallsFit, CallFits
<1>2. c.pc = "sent" /\ c.inserted = calls[r].inserted /\ c.accepted = calls[r].accepted /\ CallShape(c)
  <2>1. c = [pc |-> "sent", submission |-> s, number |-> calls[r].number,
             inserted |-> calls[r].inserted, accepted |-> calls[r].accepted, read |-> calls[r].read]
    BY <1>1, CallSent
  <2> HIDE DEF c
  <2>2. QED
    BY <2>1 DEF CallShape
<1>3. calls' = [calls EXCEPT ![r] = c]
  BY <1>1 DEF I!Send
<1>4. UNCHANGED <<records, metrics, applied, counted, answers>>
  BY DEF I!Send
<1> HIDE DEF c
<1>5. QED
  BY <1>2, <1>3, <1>4, CallStepped

LEMMA BeginWork ==
  ASSUME IdempotencyInv, NEW r \in Requests, I!LockKey(r) \/ I!WithoutKey(r)
  PROVE  IdempotencyInv'
<1> DEFINE c == [calls[r] EXCEPT !.pc = "working"]
<1>1. CallShape(calls[r]) /\ DOMAIN calls = Requests
  BY DEF IdempotencyInv, CallsFit, CallFits
<1>2. /\ c.inserted = calls[r].inserted /\ c.accepted = calls[r].accepted /\ CallShape(c)
      /\ c.submission = calls[r].submission
  BY <1>1 DEF CallShape
<1>3. calls' = [calls EXCEPT ![r] = c] /\ UNCHANGED <<records, metrics, applied, counted, answers>>
  BY <1>1 DEF I!LockKey, I!WithoutKey
<1>4. calls[r].submission.key # Off =>
        /\ \A e \in records : ~(e.resource = calls[r].submission.resource /\ e.key = calls[r].submission.key)
        /\ \A q \in Requests : ~(/\ calls[q].pc = "working" /\ calls[q].submission.key # Off
                                 /\ calls[r].submission.key = calls[q].submission.key)
  BY DEF I!LockKey, I!WithoutKey, I!RecordOf, I!KeyFree, I!Sub, I!Keyed
<1> HIDE DEF c
<1>5. QED
  BY <1>2, <1>3, <1>4, CallStepped

LEMMA EffectStep ==
  ASSUME IdempotencyInv, NEW r \in Requests,
         I!ReportTransferProgress(r) \/ I!ReportTransferTimelineEvent(r)
  PROVE  IdempotencyInv'
<1> DEFINE c == [calls[r] EXCEPT !.number = number + 1]
<1>1. CallShape(calls[r]) /\ DOMAIN calls = Requests
  BY DEF IdempotencyInv, CallsFit, CallFits
<1>2. /\ c.inserted = calls[r].inserted /\ c.accepted = calls[r].accepted /\ CallShape(c)
      /\ c.submission = calls[r].submission /\ c.pc = calls[r].pc
  BY <1>1 DEF CallShape
<1>3. calls' = [calls EXCEPT ![r] = c] /\ UNCHANGED <<records, metrics, applied, counted, answers>>
  BY <1>1 DEF I!ReportTransferProgress, I!ReportTransferTimelineEvent, I!TakeEffect
<1> HIDE DEF c
<1>4. c.pc = "working" /\ c.submission.key # Off =>
        /\ \A e \in records : ~(e.resource = c.submission.resource /\ e.key = c.submission.key)
        /\ \A q \in Requests : q # r => ~(/\ calls[q].pc = "working" /\ calls[q].submission.key # Off
                                         /\ c.submission.key = calls[q].submission.key)
  <2>1. CallFits(calls[r], records, metrics) /\ \A q \in Requests : q # r => CallsApart(calls[r], calls[q])
    BY DEF IdempotencyInv, CallsFit
  <2>2. QED
    BY <1>2, <2>1 DEF CallFits, CallsApart
<1>5. QED
  BY <1>2, <1>3, <1>4, CallStepped

LEMMA EndCall ==
  ASSUME IdempotencyInv, NEW r \in Requests, I!Replay(r) \/ I!Rollback(r)
  PROVE  IdempotencyInv'
<1>1. calls' = [calls EXCEPT ![r] = I!Idle] /\ UNCHANGED <<records, metrics, applied, counted>>
  BY DEF I!Replay, I!Rollback, I!End
<1>2. answers' \subseteq records
  <2>1. CASE I!Rollback(r)
    BY <2>1 DEF I!Rollback, IdempotencyInv, RecordsFit
  <2>2. CASE I!Replay(r)
    <3>1. PICK e \in I!RecordOf(I!Sub(r)) :
            answers' = IF I!SameRequest(e, I!Sub(r)) THEN answers \cup {I!Entry(I!Sub(r), e.answer)} ELSE answers
      BY <2>2 DEF I!Replay
    <3>2. e \in records /\ e.resource = I!Sub(r).resource /\ e.key = I!Sub(r).key /\ EntryShape(e)
      BY <3>1 DEF I!RecordOf, IdempotencyInv, RecordsFit
    <3>3. I!SameRequest(e, I!Sub(r)) => I!Entry(I!Sub(r), e.answer) = e
      BY <3>2 DEF I!SameRequest, I!Entry, EntryShape
    <3>4. QED
      BY <3>1, <3>2, <3>3 DEF IdempotencyInv, RecordsFit
  <2>3. QED
    BY <2>1, <2>2
<1>3. QED
  BY <1>1, <1>2, IdleCall, CallMoves

\* An event goes in once: it is in no other batch under way, and counts as
\* accepted if it is not committed either.
LEMMA InsertStep ==
  ASSUME IdempotencyInv, NEW r \in Requests, I!InsertMetric(r)
  PROVE  IdempotencyInv'
<1> DEFINE e == I!Sub(r).events[calls[r].read + 1]
           ins == calls[r].inserted \cup ({e} \ metrics)
           acc == IF I!NewEvent(r, e) THEN calls[r].accepted + 1 ELSE calls[r].accepted
           c == [calls[r] EXCEPT !.read = calls[r].read + 1, !.inserted = ins, !.accepted = acc]
<1>1. /\ CallFits(calls[r], records, metrics) /\ DOMAIN calls = Requests
      /\ \A q \in Requests : q # r => CallsApart(calls[r], calls[q])
  BY DEF IdempotencyInv, CallsFit
<1>2. calls' = [calls EXCEPT ![r] = c] /\ UNCHANGED <<records, metrics, applied, counted, answers>>
  BY <1>1 DEF I!InsertMetric
<1>3. \A q \in Requests : q # r => e \notin calls[q].inserted
  BY DEF I!InsertMetric, I!InsertedElsewhere
<1>4. /\ IsFiniteSet(ins) /\ acc = Cardinality(ins)
      /\ \A x \in ins : x \notin metrics /\ (x \in calls[r].inserted \/ x = e)
  <2>1. /\ IsFiniteSet(calls[r].inserted) /\ calls[r].accepted = Cardinality(calls[r].inserted)
        /\ \A x \in calls[r].inserted : x \notin metrics
    BY <1>1 DEF CallFits
  <2>2. CASE e \in metrics
    <3>1. ins = calls[r].inserted /\ acc = calls[r].accepted
      BY <2>2 DEF I!NewEvent
    <3>2. QED
      BY <2>1, <3>1
  <2>3. CASE e \notin metrics
    <3>1. ins = calls[r].inserted \cup {e}
      BY <2>3
    <3>2. IsFiniteSet(ins) /\ Cardinality(ins) = IF e \in calls[r].inserted THEN calls[r].accepted ELSE calls[r].accepted + 1
      <4> HIDE DEF e, ins, acc
      <4>1. /\ IsFiniteSet(calls[r].inserted \cup {e})
            /\ Cardinality(calls[r].inserted \cup {e})
                 = IF e \in calls[r].inserted THEN Cardinality(calls[r].inserted)
                   ELSE Cardinality(calls[r].inserted) + 1
        BY <2>1, FS_AddElement
      <4>2. QED
        BY <2>1, <3>1, <4>1
    <3>3. acc = IF e \in calls[r].inserted THEN calls[r].accepted ELSE calls[r].accepted + 1
      BY <2>3 DEF I!NewEvent
    <3>4. QED
      BY <2>1, <2>3, <3>1, <3>2, <3>3
  <2>4. QED
    BY <2>2, <2>3
<1> HIDE DEF e, ins, acc
<1>5. /\ c.inserted = ins /\ c.accepted = acc /\ CallShape(c)
      /\ c.submission = calls[r].submission /\ c.pc = calls[r].pc
  <2>1. c = [pc |-> calls[r].pc, submission |-> calls[r].submission, number |-> calls[r].number,
             inserted |-> ins, accepted |-> acc, read |-> calls[r].read + 1]
    <3>1. CallShape(calls[r])
      BY <1>1 DEF CallFits
    <3>2. QED
      <4>1. c = Inserted(calls[r], calls[r].read + 1, ins, acc)
        BY DEF Inserted
      <4> HIDE DEF c
      <4>2. QED
        BY <3>1, <4>1, CallInserted
  <2> HIDE DEF c
  <2>2. QED
    BY <2>1 DEF CallShape
<1> HIDE DEF c
<1>6. CallFits(c, records, metrics)
  BY <1>1, <1>4, <1>5 DEF CallFits
<1>7. \A q \in Requests : q # r => CallsApart(c, calls[q])
  BY <1>1, <1>3, <1>4, <1>5 DEF CallsApart
<1>8. answers' \subseteq records
  BY <1>2 DEF IdempotencyInv, RecordsFit
<1>9. QED
  BY <1>2, <1>6, <1>7, <1>8, CallMoves

LEMMA CommitStep ==
  ASSUME IdempotencyInv, NEW r \in Requests, I!Commit(r)
  PROVE  IdempotencyInv'
<1> DEFINE s == calls[r].submission
           new == IF s.key # Off THEN {I!Entry(s, I!Answer(r))} ELSE {}
<1>1. /\ CallFits(calls[r], records, metrics) /\ DOMAIN calls = Requests
      /\ \A q \in Requests : q # r => CallsApart(calls[r], calls[q])
      /\ calls[r].pc = "working"
  BY DEF IdempotencyInv, CallsFit, I!Commit
<1>2. /\ records' = records \cup new /\ applied' = applied \cup new /\ answers' = answers \cup new
      /\ metrics' = metrics \cup calls[r].inserted /\ counted' = counted + calls[r].accepted
      /\ calls' = [calls EXCEPT ![r] = I!Idle]
  BY DEF I!Commit, I!Sub, I!Keyed, I!End
<1>3. \A e \in new : /\ s.key # Off /\ e.resource = s.resource /\ e.key = s.key /\ EntryShape(e)
                     /\ \A a \in records : ~(a.resource = e.resource /\ a.key = e.key)
                     /\ \A b \in new : e = b
  BY <1>1 DEF I!Entry, EntryShape, CallFits
<1> HIDE DEF new
<1>4. RecordsFit'
  BY <1>2, <1>3 DEF IdempotencyInv, RecordsFit
<1>5. CountFits'
  <2>1. /\ IsFiniteSet(metrics) /\ counted = Cardinality(metrics)
        /\ IsFiniteSet(calls[r].inserted) /\ calls[r].accepted = Cardinality(calls[r].inserted)
        /\ metrics \cap calls[r].inserted = {}
    BY <1>1 DEF IdempotencyInv, CountFits, CallFits
  <2>2. /\ IsFiniteSet(metrics \cup calls[r].inserted)
        /\ Cardinality(metrics \cup calls[r].inserted)
             = Cardinality(metrics) + Cardinality(calls[r].inserted) - Cardinality(metrics \cap calls[r].inserted)
    BY <2>1, FS_Union
  <2>3. Cardinality(metrics \cap calls[r].inserted) = 0
    BY <2>1, FS_EmptySet
  <2>4. Cardinality(metrics) \in Nat /\ Cardinality(calls[r].inserted) \in Nat
    BY <2>1, FS_CardinalityType
  <2>5. QED
    BY <1>2, <2>1, <2>2, <2>3, <2>4 DEF CountFits
<1>6. DOMAIN calls' = Requests /\ \A q \in Requests : calls'[q] = IF q = r THEN I!Idle ELSE calls[q]
  BY <1>1, <1>2
<1>7. ASSUME NEW q \in Requests PROVE CallFits(calls'[q], records', metrics')
  <2>1. CASE q = r
    BY <1>6, <2>1, IdleCall
  <2>2. CASE q # r
    <3>1. CallFits(calls[q], records, metrics) /\ CallsApart(calls[r], calls[q])
      BY <1>1, <2>2 DEF IdempotencyInv, CallsFit
    <3>2. CallFits(calls[q], records', metrics')
      BY <1>1, <1>2, <1>3, <3>1 DEF CallFits, CallsApart
    <3>3. QED
      BY <1>6, <2>2, <3>2
  <2>3. QED
    BY <2>1, <2>2
<1>8. \A p, q \in Requests : p # q => CallsApart(calls'[p], calls'[q])
  BY <1>6, IdleCall, ApartTurned DEF IdempotencyInv, CallsFit
<1>9. QED
  BY <1>4, <1>5, <1>6, <1>7, <1>8 DEF IdempotencyInv, CallsFit

LEMMA IdempotencyNext ==
  ASSUME IdempotencyInv, [I!Next]_idempotencyVars
  PROVE  IdempotencyInv'
<1>1. CASE UNCHANGED idempotencyVars
  BY <1>1 DEF idempotencyVars, IdempotencyInv, CallsFit, RecordsFit, CountFits
<1>2. ASSUME NEW r \in Requests,
             \/ \E s \in Submissions : I!Send(r, s)
             \/ I!LockKey(r) \/ I!Replay(r) \/ I!WithoutKey(r)
             \/ I!ReportTransferProgress(r) \/ I!ReportTransferTimelineEvent(r) \/ I!InsertMetric(r)
             \/ I!Commit(r) \/ I!Rollback(r)
      PROVE  IdempotencyInv'
  BY <1>2, SendStep, BeginWork, EndCall, EffectStep, InsertStep, CommitStep
<1>3. QED
  BY <1>1, <1>2 DEF I!Next

(***************************************************************************)
(* Repeated with its key, however often and concurrently, a report, event  *)
(* or batch takes effect once and is always answered with that effect, and *)
(* every metric event is accepted by exactly one committed batch.          *)
(***************************************************************************)
THEOREM RepeatsAgree == Spec => []RetriesAgree
<1> DEFINE Inv == chosen = "idempotency" => IdempotencyInv
<1>1. Init => Inv
  BY IdempotencyInit DEF Init
<1>2. Inv /\ [Next]_vars => Inv'
  <2>1. ASSUME Inv, [Next]_vars, chosen' = "idempotency" PROVE IdempotencyInv'
    <3>1. chosen = "idempotency" /\ [I!Next]_idempotencyVars
      BY <2>1 DEF Next, vars
    <3>2. QED
      BY <2>1, <3>1, IdempotencyNext
  <2>2. QED
    BY <2>1
<1>3. Inv => RetriesAgree
  <2>1. RecordsFit => I!AnswersAgree
    BY DEF RecordsFit, I!AnswersAgree
  <2>2. CountFits => I!MetricsCountedOnce
    BY Zenon DEF CountFits, I!MetricsCountedOnce, Cardinality, I!Cardinality
  <2>3. QED
    BY <2>1, <2>2 DEF IdempotencyInv, RetriesAgree
<1>4. QED
  BY <1>1, <1>2, <1>3, PTL DEF Spec

-----------------------------------------------------------------------------
(***************************************************************************)
(* Backup.  Every file an archive's tables offer is in the archive, or     *)
(* known to be without body; while a restore is under way the Node is down *)
(* and its job remembers the revocations in force; outside of a restore    *)
(* the devices table itself remembers them.                                *)
(***************************************************************************)
Standing == {"absent", "active", "revoked"}
Tabled == [devices : [StoredDevices -> Standing] \cup {Off}, sessions : BOOLEAN \cup {Off},
           files : (SUBSET StoredFiles) \cup {Off}]
Dumps == [devices : [StoredDevices -> Standing], sessions : BOOLEAN, files : SUBSET StoredFiles]
Archives == [dump : Dumps, withFiles : BOOLEAN, bodies : SUBSET StoredFiles, gone : SUBSET StoredFiles]
Jobs == [pc : {"none", "archive", "extract", "restore", "protect", "files"},
         dump : Dumps \cup {Off}, withFiles : BOOLEAN, done : SUBSET StoredFiles,
         bodies : SUBSET StoredFiles, gone : SUBSET StoredFiles, from : Archives \cup {Off},
         revoked : SUBSET StoredDevices, failed : BOOLEAN]

BackupTyped ==
  /\ db \in Tabled /\ job \in Jobs /\ archives \subseteq Archives
  /\ disk \subseteq StoredFiles /\ unbacked \subseteq StoredFiles /\ revocations \subseteq StoredDevices
  /\ damaged \in BOOLEAN

ArchiveFits(a, bare) ==
  a.withFiles => \A f \in a.dump.files : f \in a.bodies \/ f \in a.gone \/ f \in bare

ArchivesFit == \A a \in archives : ArchiveFits(a, unbacked)

\* The job, with the rest of the state as parameters.
DumpFits(j, there, bare) ==
  j.pc = "archive" =>
    /\ j.dump \in Dumps
    /\ j.withFiles => \A f \in j.dump.files :
         f \in j.bodies \/ f \in j.gone \/ f \in bare \/ (f \notin j.done /\ f \in there)

RestoreFits(j, up, tables, there, kept) ==
  /\ j.pc \in {"extract", "restore", "protect", "files"} => up = "down" /\ j.from \in kept
  /\ j.pc \in {"extract", "restore", "protect"} => j.done = {}
  /\ j.pc = "protect" /\ ~j.failed => tables.files = j.from.dump.files
  /\ j.pc = "files" => tables.files = j.from.dump.files /\ j.done \subseteq there

\* The revocations that are not forgotten.
LedgerFits(j, devices, d) ==
  /\ j.pc # "protect" /\ devices # Off => devices[d] = "revoked"
  /\ j.pc \in {"extract", "restore", "protect"} => d \in j.revoked
  /\ j.pc = "protect" /\ devices # Off => devices[d] # "absent"

Ledger == ~damaged => \A d \in revocations : d \notin forgotten => LedgerFits(job, db.devices, d)

Offered ==
  job.pc \notin {"protect", "files"} /\ db.files # Off =>
    \A f \in db.files : f \in disk \/ f \in unbacked

BackupInv ==
  /\ BackupTyped
  /\ ArchivesFit
  /\ DumpFits(job, disk, unbacked)
  /\ RestoreFits(job, node, db, disk, archives)
  /\ Ledger
  /\ Offered

LEMMA NoJobTyped ==
  /\ B!NoJob \in Jobs /\ B!NoJob.pc = "none" /\ B!NoJob.done = {}
  /\ B!NoJob.bodies = {} /\ B!NoJob.gone = {}
<1>1. {} \in SUBSET StoredFiles /\ {} \in SUBSET StoredDevices /\ Off \in Dumps \cup {Off} /\ Off \in Archives \cup {Off}
  OBVIOUS
<1>2. QED
  BY <1>1 DEF B!NoJob, Jobs

LEMMA BackupInit ==
  ASSUME B!Init
  PROVE  BackupInv
<1>1. job = B!NoJob /\ db \in Tabled /\ db.files = {} /\ disk = {} /\ archives = {} /\ revocations = {} /\ unbacked = {}
      /\ damaged = FALSE
  BY DEF B!Init, B!Empty, Tabled, Standing
<1>2. QED
  BY <1>1, NoJobTyped DEF BackupInv, BackupTyped, ArchivesFit, DumpFits, RestoreFits, Ledger, Offered

\* What serving means for the tables.
LEMMA Serving ==
  ASSUME B!Serves, db \in Tabled
  PROVE  /\ node = "up" /\ db.devices # Off /\ db.sessions # Off /\ db.files # Off
         /\ db \in Dumps
<1>1. node = "up" /\ db["devices"] # Off /\ db["sessions"] # Off /\ db["files"] # Off
  BY DEF B!Serves, B!Tables
<1>2. QED
  BY <1>1 DEF Tabled, Dumps

\* More files without body, and more archives, fit as well.
LEMMA FitsMore ==
  ASSUME NEW j, NEW there, NEW bare, NEW more, bare \subseteq more,
         DumpFits(j, there, bare)
  PROVE  DumpFits(j, there, more)
  BY DEF DumpFits

LEMMA ArchivesMore ==
  ASSUME ArchivesFit, archives' = archives, unbacked \subseteq unbacked'
  PROVE  ArchivesFit'
  BY DEF ArchivesFit, ArchiveFits

\* Without a job nothing of a job can be wrong.
LEMMA NoJobFits ==
  ASSUME NEW up, NEW tables, NEW there, NEW bare, NEW kept
  PROVE  DumpFits(B!NoJob, there, bare) /\ RestoreFits(B!NoJob, up, tables, there, kept)
  BY NoJobTyped DEF DumpFits, RestoreFits

-----------------------------------------------------------------------------
(***************************************************************************)
(* The Node at work.                                                       *)
(***************************************************************************)
\* While the Node serves there is no restore.
LEMMA ServingJob ==
  ASSUME BackupInv, B!Serves
  PROVE  job.pc \in {"none", "archive"}
<1>1. node = "up" /\ job \in Jobs
  BY Serving DEF BackupInv, BackupTyped
<1>2. QED
  BY <1>1 DEF BackupInv, RestoreFits, Jobs

\* A step of the serving Node that leaves files alone.
LEMMA DevicesChange ==
  ASSUME BackupInv, B!Serves, db' \in Tabled, db'.files = db.files,
         revocations' \subseteq StoredDevices,
         ~damaged => \A d \in revocations' : d \notin forgotten => db'.devices[d] = "revoked",
         UNCHANGED <<node, disk, job, archives, damaged, forgotten, unbacked>>
  PROVE  BackupInv'
<1>1. job.pc \in {"none", "archive"}
  BY ServingJob
<1>2. BackupTyped'
  BY DEF BackupInv, BackupTyped
<1>3. ArchivesFit' /\ DumpFits(job, disk, unbacked)'
  BY DEF BackupInv, ArchivesFit
<1>4. RestoreFits(job, node, db, disk, archives)'
  BY <1>1 DEF BackupInv, RestoreFits
<1>5. Ledger'
  BY <1>1 DEF Ledger, LedgerFits
<1>6. Offered'
  BY DEF BackupInv, Offered
<1>7. QED
  BY <1>2, <1>3, <1>4, <1>5, <1>6 DEF BackupInv

\* db and its records, field by field.
LEMMA TablesUpdated ==
  ASSUME NEW x \in Tabled, NEW v
  PROVE  /\ [x EXCEPT !.devices = v] = [devices |-> v, sessions |-> x.sessions, files |-> x.files]
         /\ [x EXCEPT !.sessions = v] = [devices |-> x.devices, sessions |-> v, files |-> x.files]
         /\ [x EXCEPT !.files = v] = [devices |-> x.devices, sessions |-> x.sessions, files |-> v]
  BY DEF Tabled

LEMMA CreateDeviceStep ==
  ASSUME BackupInv, NEW d \in StoredDevices, B!CreateDevice(d)
  PROVE  BackupInv'
<1>1. B!Serves /\ db \in Tabled /\ db.devices[d] = "absent" /\ d \notin revocations
      /\ UNCHANGED <<node, disk, job, archives, revocations, damaged, forgotten, unbacked>>
  BY DEF B!CreateDevice, BackupInv, BackupTyped
<1>2. db.devices \in [StoredDevices -> Standing] /\ db.files \in (SUBSET StoredFiles) \cup {Off}
  BY <1>1, Serving DEF Dumps
<1> DEFINE new == [db.devices EXCEPT ![d] = "active"]
           mid == [db EXCEPT !.devices = new]
<1>3. db' = [mid EXCEPT !.sessions = TRUE]
  BY DEF B!CreateDevice
<1>4. new \in [StoredDevices -> Standing]
  BY <1>2 DEF Standing
<1>5. \A e \in StoredDevices : e # d => new[e] = db.devices[e]
  BY <1>2
<1> HIDE DEF new
<1>6. mid = [devices |-> new, sessions |-> db.sessions, files |-> db.files]
  BY <1>1, TablesUpdated
<1> HIDE DEF mid
<1>7. db' = [devices |-> new, sessions |-> TRUE, files |-> db.files]
  BY <1>3, <1>6
<1>8. db' \in Tabled /\ db'.files = db.files /\ db'.devices = new
  BY <1>2, <1>4, <1>7 DEF Tabled
<1>9. ~damaged => \A e \in revocations' : e \notin forgotten => db'.devices[e] = "revoked"
  <2>1. SUFFICES ASSUME ~damaged, NEW e \in revocations, e \notin forgotten PROVE new[e] = "revoked"
    BY <1>1, <1>8
  <2>2. LedgerFits(job, db.devices, e) /\ e # d /\ e \in StoredDevices
    BY <1>1, <2>1 DEF BackupInv, Ledger, BackupTyped
  <2>3. db.devices[e] = "revoked"
    BY <1>1, <2>2, Serving, ServingJob DEF LedgerFits
  <2>4. QED
    BY <1>5, <2>2, <2>3
<1>10. revocations' \subseteq StoredDevices
  BY <1>1 DEF BackupInv, BackupTyped
<1>11. QED
  BY <1>1, <1>8, <1>9, <1>10, DevicesChange

LEMMA RevokeDeviceStep ==
  ASSUME BackupInv, NEW d \in StoredDevices, B!RevokeDevice(d)
  PROVE  BackupInv'
<1>1. B!Serves /\ db \in Tabled /\ revocations' = revocations \cup {d}
      /\ UNCHANGED <<node, disk, job, archives, damaged, forgotten, unbacked>>
  BY DEF B!RevokeDevice, BackupInv, BackupTyped
<1>2. db.devices \in [StoredDevices -> Standing] /\ db.files \in (SUBSET StoredFiles) \cup {Off}
      /\ db.sessions \in BOOLEAN \cup {Off}
  BY <1>1, Serving DEF Dumps
<1> DEFINE new == [db.devices EXCEPT ![d] = "revoked"]
<1>3. db' = [db EXCEPT !.devices = new]
  BY DEF B!RevokeDevice
<1>4. new \in [StoredDevices -> Standing] /\ new[d] = "revoked"
  BY <1>2 DEF Standing
<1>5. \A e \in StoredDevices : e # d => new[e] = db.devices[e]
  BY <1>2
<1> HIDE DEF new
<1>7. db' = [devices |-> new, sessions |-> db.sessions, files |-> db.files]
  BY <1>1, <1>3, TablesUpdated
<1>8. db' \in Tabled /\ db'.files = db.files /\ db'.devices = new
  BY <1>2, <1>4, <1>7 DEF Tabled
<1>9. ~damaged => \A e \in revocations' : e \notin forgotten => db'.devices[e] = "revoked"
  <2>1. SUFFICES ASSUME ~damaged, NEW e \in revocations, e \notin forgotten, e # d PROVE new[e] = "revoked"
    BY <1>1, <1>4, <1>8
  <2>2. LedgerFits(job, db.devices, e) /\ e \in StoredDevices
    BY <1>1, <2>1 DEF BackupInv, Ledger, BackupTyped
  <2>3. db.devices[e] = "revoked"
    BY <1>1, <2>2, Serving, ServingJob DEF LedgerFits
  <2>4. QED
    BY <1>5, <2>1, <2>2, <2>3
<1>10. revocations' \subseteq StoredDevices
  BY <1>1 DEF BackupInv, BackupTyped
<1>11. QED
  BY <1>1, <1>8, <1>9, <1>10, DevicesChange

LEMMA CompleteFileStep ==
  ASSUME BackupInv, NEW f \in StoredFiles, B!CompleteFile(f)
  PROVE  BackupInv'
<1>1. B!Serves /\ db \in Tabled /\ disk' = disk \cup {f}
      /\ UNCHANGED <<node, job, archives, revocations, damaged, forgotten, unbacked>>
      /\ job.pc \in {"none", "archive"}
  BY ServingJob DEF B!CompleteFile, BackupInv, BackupTyped
<1>2. db.devices \in [StoredDevices -> Standing] /\ db.sessions \in BOOLEAN /\ db.files \in SUBSET StoredFiles
      /\ db.files # Off
  BY <1>1, Serving DEF Dumps
<1>3. db' = [devices |-> db.devices, sessions |-> db.sessions, files |-> db.files \cup {f}]
  <2>1. db' = [db EXCEPT !.files = db.files \cup {f}]
    BY DEF B!CompleteFile
  <2>2. QED
    BY <1>1, <2>1, TablesUpdated
<1>4. db' \in Tabled /\ db'.files = db.files \cup {f} /\ db'.devices = db.devices
  BY <1>2, <1>3 DEF Tabled
<1>5. BackupTyped'
  BY <1>1, <1>4 DEF BackupInv, BackupTyped
<1>6. ArchivesFit' /\ Ledger'
  BY <1>1, <1>4 DEF BackupInv, ArchivesFit, Ledger
<1>7. DumpFits(job, disk, unbacked)' /\ RestoreFits(job, node, db, disk, archives)'
  BY <1>1 DEF BackupInv, DumpFits, RestoreFits
<1>8. Offered'
  BY <1>1, <1>2, <1>4 DEF BackupInv, Offered
<1>9. QED
  BY <1>5, <1>6, <1>7, <1>8 DEF BackupInv

LEMMA ExpireFileStep ==
  ASSUME BackupInv, NEW f \in StoredFiles, B!ExpireFile(f)
  PROVE  BackupInv'
<1> DEFINE g == IF job.pc = "archive" THEN job.gone \cup {f} ELSE job.gone
           j == [job EXCEPT !.gone = g]
<1>1. B!Serves /\ db \in Tabled /\ disk' = disk \ {f} /\ job' = j
      /\ UNCHANGED <<node, archives, revocations, damaged, forgotten, unbacked>>
      /\ job \in Jobs /\ job.pc \in {"none", "archive"}
  BY ServingJob DEF B!ExpireFile, BackupInv, BackupTyped
<1>2. db.devices \in [StoredDevices -> Standing] /\ db.sessions \in BOOLEAN /\ db.files \in SUBSET StoredFiles
      /\ db.files # Off
  BY <1>1, Serving DEF Dumps
<1>3. db' = [devices |-> db.devices, sessions |-> db.sessions, files |-> db.files \ {f}]
  <2>1. db' = [db EXCEPT !.files = db.files \ {f}]
    BY DEF B!ExpireFile
  <2>2. QED
    BY <1>1, <2>1, TablesUpdated
<1>4. db' \in Tabled /\ db'.files = db.files \ {f} /\ db'.devices = db.devices
  BY <1>2, <1>3 DEF Tabled
<1>5. g \in SUBSET StoredFiles /\ (job.pc = "archive" => g = job.gone \cup {f})
  BY <1>1 DEF Jobs
<1> HIDE DEF g
<1>6. /\ j \in Jobs /\ j.pc = job.pc /\ j.gone = g /\ j.dump = job.dump /\ j.withFiles = job.withFiles
      /\ j.bodies = job.bodies /\ j.done = job.done
  BY <1>1, <1>5 DEF Jobs
<1> HIDE DEF j
<1>7. BackupTyped'
  BY <1>1, <1>4, <1>6 DEF BackupInv, BackupTyped
<1>8. ArchivesFit'
  BY <1>1 DEF BackupInv, ArchivesFit
<1>9. Ledger'
  BY <1>1, <1>4, <1>6 DEF BackupInv, Ledger, LedgerFits
<1>10. DumpFits(job, disk, unbacked)'
  <2>1. DumpFits(j, disk', unbacked)
    BY <1>1, <1>5, <1>6 DEF BackupInv, DumpFits
  <2>2. QED
    BY <1>1, <2>1
<1>11. RestoreFits(job, node, db, disk, archives)'
  BY <1>1, <1>6 DEF RestoreFits
<1>12. Offered'
  BY <1>1, <1>2, <1>4, <1>6 DEF BackupInv, Offered
<1>13. QED
  BY <1>7, <1>8, <1>9, <1>10, <1>11, <1>12 DEF BackupInv

LEMMA OperatorStep ==
  ASSUME BackupInv, B!StopNode \/ B!StartNode
  PROVE  BackupInv'
<1>1. /\ UNCHANGED <<db, disk, job, archives, revocations, damaged, forgotten, unbacked>>
      /\ node' = "down" \/ job.pc \in {"none", "archive"}
  BY DEF B!StopNode, B!StartNode
<1>2. BackupTyped' /\ ArchivesFit' /\ Ledger' /\ Offered' /\ DumpFits(job, disk, unbacked)'
  BY <1>1 DEF BackupInv, BackupTyped, ArchivesFit, Ledger, Offered
<1>3. RestoreFits(job, node, db, disk, archives)'
  BY <1>1 DEF BackupInv, RestoreFits
<1>4. QED
  BY <1>2, <1>3 DEF BackupInv

-----------------------------------------------------------------------------
(***************************************************************************)
(* Backup jobs.  A step of a backup touches the job and the archives.      *)
(***************************************************************************)
LEMMA JobMoves ==
  ASSUME BackupInv, job' \in Jobs, archives' \subseteq Archives, ArchivesFit',
         DumpFits(job', disk, unbacked), RestoreFits(job', node, db, disk, archives'),
         ~damaged => \A d \in revocations : d \notin forgotten => LedgerFits(job', db.devices, d),
         job.pc \notin {"protect", "files"},
         UNCHANGED <<node, db, disk, revocations, damaged, forgotten, unbacked>>
  PROVE  BackupInv'
<1>1. BackupTyped' /\ Ledger' /\ Offered'
  BY DEF BackupInv, BackupTyped, Ledger, Offered
<1>2. QED
  BY <1>1 DEF BackupInv

\* The three jobs that are made from none.
DumpJob(tables, withFiles) == [B!NoJob EXCEPT !.pc = "archive", !.dump = tables, !.withFiles = withFiles]
RestoreJob(archive, revoked) == [B!NoJob EXCEPT !.pc = "extract", !.from = archive, !.revoked = revoked]

LEMMA DumpJobMade ==
  ASSUME NEW tables \in Dumps, NEW withFiles \in BOOLEAN
  PROVE  LET j == DumpJob(tables, withFiles) IN
         j \in Jobs /\ j.pc = "archive" /\ j.dump = tables /\ j.withFiles = withFiles /\ j.done = {}
<1> DEFINE q1 == [B!NoJob EXCEPT !.pc = "archive"]
           q2 == [q1 EXCEPT !.dump = tables]
           q3 == [q2 EXCEPT !.withFiles = withFiles]
<1>1. q1 \in Jobs /\ q1.pc = "archive" /\ q1.done = {}
  BY NoJobTyped DEF Jobs
<1>4. DumpJob(tables, withFiles) = q3
  BY DEF DumpJob
<1> HIDE DEF q1
<1>2. q2 \in Jobs /\ q2.pc = "archive" /\ q2.done = {} /\ q2.dump = tables
  BY <1>1 DEF Jobs
<1> HIDE DEF q2
<1>3. q3 \in Jobs /\ q3.pc = "archive" /\ q3.done = {} /\ q3.dump = tables /\ q3.withFiles = withFiles
  BY <1>2 DEF Jobs
<1> HIDE DEF q3
<1>5. QED
  BY <1>3, <1>4

LEMMA RestoreJobMade ==
  ASSUME NEW archive \in Archives, NEW revoked \in SUBSET StoredDevices
  PROVE  LET j == RestoreJob(archive, revoked) IN
         j \in Jobs /\ j.pc = "extract" /\ j.from = archive /\ j.revoked = revoked /\ j.done = {}
<1> DEFINE q1 == [B!NoJob EXCEPT !.pc = "extract"]
           q2 == [q1 EXCEPT !.from = archive]
           q3 == [q2 EXCEPT !.revoked = revoked]
<1>1. q1 \in Jobs /\ q1.pc = "extract" /\ q1.done = {}
  BY NoJobTyped DEF Jobs
<1>4. RestoreJob(archive, revoked) = q3
  BY DEF RestoreJob
<1> HIDE DEF q1
<1>2. q2 \in Jobs /\ q2.pc = "extract" /\ q2.done = {} /\ q2.from = archive
  BY <1>1 DEF Jobs
<1> HIDE DEF q2
<1>3. q3 \in Jobs /\ q3.pc = "extract" /\ q3.done = {} /\ q3.from = archive /\ q3.revoked = revoked
  BY <1>2 DEF Jobs
<1> HIDE DEF q3
<1>5. QED
  BY <1>3, <1>4

LEMMA DumpStep ==
  ASSUME BackupInv, NEW withFiles \in BOOLEAN, B!Dump(withFiles)
  PROVE  BackupInv'
<1> DEFINE j == DumpJob(db, withFiles)
<1>1. job.pc = "none" /\ job' = j /\ UNCHANGED <<node, db, disk, archives, revocations, damaged, forgotten, unbacked>>
  BY DEF B!Dump, DumpJob
<1>2. db["devices"] # Off /\ db["sessions"] # Off /\ db["files"] # Off
  BY DEF B!Dump, B!Tables
<1>3. db \in Dumps /\ db.files # Off
  BY <1>2 DEF BackupInv, BackupTyped, Tabled, Dumps
<1>4. j \in Jobs /\ j.pc = "archive" /\ j.dump = db /\ j.withFiles = withFiles /\ j.done = {}
  BY <1>3, DumpJobMade
<1> HIDE DEF j
<1>5. DumpFits(j, disk, unbacked)
  BY <1>1, <1>3, <1>4 DEF BackupInv, DumpFits, Offered
<1>6. RestoreFits(j, node, db, disk, archives')
  BY <1>4 DEF RestoreFits
<1>7. ~damaged => \A d \in revocations : d \notin forgotten => LedgerFits(j, db.devices, d)
  BY <1>1, <1>4 DEF BackupInv, Ledger, LedgerFits
<1>8. ArchivesFit' /\ archives' \subseteq Archives
  BY <1>1 DEF BackupInv, BackupTyped, ArchivesFit
<1>9. QED
  BY <1>1, <1>4, <1>5, <1>6, <1>7, <1>8, JobMoves

LEMMA WriteStorageStep ==
  ASSUME BackupInv, NEW f \in StoredFiles, B!WriteStorage(f)
  PROVE  BackupInv'
<1> DEFINE q == [job EXCEPT !.done = job.done \cup {f}]
           j == [q EXCEPT !.bodies = job.bodies \cup ({f} \cap disk)]
<1>1. job.pc = "archive" /\ job \in Jobs /\ UNCHANGED <<node, db, disk, archives, revocations, damaged, forgotten, unbacked>>
  BY DEF B!WriteStorage, BackupInv, BackupTyped
<1>2. job' = j
  BY <1>1 DEF B!WriteStorage, Jobs
<1>3. job.done \cup {f} \in SUBSET StoredFiles /\ job.bodies \cup ({f} \cap disk) \in SUBSET StoredFiles
  BY <1>1 DEF Jobs
<1>4. /\ q \in Jobs /\ q.pc = "archive" /\ q.dump = job.dump /\ q.withFiles = job.withFiles
      /\ q.done = job.done \cup {f} /\ q.bodies = job.bodies /\ q.gone = job.gone
  BY <1>1, <1>3 DEF Jobs
<1> HIDE DEF q
<1>5. /\ j \in Jobs /\ j.pc = "archive" /\ j.dump = job.dump /\ j.withFiles = job.withFiles
      /\ j.done = job.done \cup {f} /\ j.bodies = job.bodies \cup ({f} \cap disk) /\ j.gone = job.gone
  BY <1>3, <1>4 DEF Jobs
<1> HIDE DEF j
<1>6. DumpFits(j, disk, unbacked)
  BY <1>1, <1>5 DEF BackupInv, DumpFits
<1>7. RestoreFits(j, node, db, disk, archives')
  BY <1>5 DEF RestoreFits
<1>8. ~damaged => \A d \in revocations : d \notin forgotten => LedgerFits(j, db.devices, d)
  BY <1>1, <1>5 DEF BackupInv, Ledger, LedgerFits
<1>9. ArchivesFit' /\ archives' \subseteq Archives
  BY <1>1 DEF BackupInv, BackupTyped, ArchivesFit
<1>10. QED
  BY <1>1, <1>2, <1>5, <1>6, <1>7, <1>8, <1>9, JobMoves

LEMMA FinishArchiveStep ==
  ASSUME BackupInv, B!FinishArchive
  PROVE  BackupInv'
<1> DEFINE a == [dump |-> job.dump, withFiles |-> job.withFiles, bodies |-> job.bodies, gone |-> job.gone]
<1>1. /\ job.pc = "archive" /\ (job.withFiles => job.done = StoredFiles) /\ job' = B!NoJob
      /\ archives' = archives \cup {a}
      /\ UNCHANGED <<node, db, disk, revocations, damaged, forgotten, unbacked>>
      /\ job \in Jobs /\ DumpFits(job, disk, unbacked)
  BY DEF B!FinishArchive, B!Dumped, BackupInv, BackupTyped
<1>2. a \in Archives
  BY <1>1 DEF Archives, Jobs, DumpFits
<1>3. ArchiveFits(a, unbacked)
  <2>1. job.dump \in Dumps
    BY <1>1 DEF DumpFits
  <2>2. job.dump.files \subseteq StoredFiles
    BY <2>1 DEF Dumps
  <2>3. QED
    BY <1>1, <2>2 DEF ArchiveFits, DumpFits
<1> HIDE DEF a
<1>4. ArchivesFit' /\ archives' \subseteq Archives
  BY <1>1, <1>2, <1>3 DEF BackupInv, BackupTyped, ArchivesFit
<1>5. ~damaged => \A d \in revocations : d \notin forgotten => LedgerFits(B!NoJob, db.devices, d)
  BY <1>1, NoJobTyped DEF BackupInv, Ledger, LedgerFits
<1>6. QED
  BY <1>1, <1>4, <1>5, NoJobFits, NoJobTyped, JobMoves

-----------------------------------------------------------------------------
(***************************************************************************)
(* Restores.                                                               *)
(***************************************************************************)
LEMMA BeginRestoreStep ==
  ASSUME BackupInv, NEW archive \in archives, B!BeginRestore(archive)
  PROVE  BackupInv'
<1> DEFINE j == RestoreJob(archive, B!RevokedDeviceIDs)
<1>1. /\ node = "down" /\ job.pc = "none" /\ db.devices # Off /\ job' = j
      /\ UNCHANGED <<node, db, disk, archives, revocations, damaged, forgotten, unbacked>>
  BY DEF B!BeginRestore, RestoreJob
<1>2. archive \in Archives /\ B!RevokedDeviceIDs \in SUBSET StoredDevices
  BY DEF BackupInv, BackupTyped, B!RevokedDeviceIDs
<1>3. j \in Jobs /\ j.pc = "extract" /\ j.from = archive /\ j.revoked = B!RevokedDeviceIDs /\ j.done = {}
  BY <1>2, RestoreJobMade
<1> HIDE DEF j
<1>4. DumpFits(j, disk, unbacked) /\ RestoreFits(j, node, db, disk, archives')
  BY <1>1, <1>3 DEF DumpFits, RestoreFits
<1>5. ~damaged => \A d \in revocations : d \notin forgotten => LedgerFits(j, db.devices, d)
  <2>1. SUFFICES ASSUME ~damaged, NEW d \in revocations, d \notin forgotten
                 PROVE  LedgerFits(j, db.devices, d)
    OBVIOUS
  <2>2. d \in StoredDevices /\ LedgerFits(job, db.devices, d)
    BY <2>1 DEF BackupInv, BackupTyped, Ledger
  <2>3. db.devices[d] = "revoked"
    BY <1>1, <2>2 DEF LedgerFits
  <2>4. d \in B!RevokedDeviceIDs
    BY <2>2, <2>3 DEF B!RevokedDeviceIDs
  <2>5. QED
    BY <1>3, <2>3, <2>4 DEF LedgerFits
<1>6. ArchivesFit' /\ archives' \subseteq Archives
  BY <1>1 DEF BackupInv, BackupTyped, ArchivesFit
<1>7. QED
  BY <1>1, <1>3, <1>4, <1>5, <1>6, JobMoves

LEMMA ExtractStep ==
  ASSUME BackupInv, B!ExtractArchive
  PROVE  BackupInv'
<1> DEFINE j == [job EXCEPT !.pc = "restore"]
<1>1. /\ job.pc = "extract" /\ job \in Jobs /\ job' = j
      /\ UNCHANGED <<node, db, disk, archives, revocations, damaged, forgotten, unbacked>>
  BY DEF B!ExtractArchive, BackupInv, BackupTyped
<1>2. j \in Jobs /\ j.pc = "restore" /\ j.from = job.from /\ j.revoked = job.revoked /\ j.done = job.done
  BY <1>1 DEF Jobs
<1> HIDE DEF j
<1>3. DumpFits(j, disk, unbacked) /\ RestoreFits(j, node, db, disk, archives')
  BY <1>1, <1>2 DEF BackupInv, DumpFits, RestoreFits
<1>4. ~damaged => \A d \in revocations : d \notin forgotten => LedgerFits(j, db.devices, d)
  BY <1>1, <1>2 DEF BackupInv, Ledger, LedgerFits
<1>5. ArchivesFit' /\ archives' \subseteq Archives
  BY <1>1 DEF BackupInv, BackupTyped, ArchivesFit
<1>6. QED
  BY <1>1, <1>2, <1>3, <1>4, <1>5, JobMoves

LEMMA PgRestoreStep ==
  ASSUME BackupInv, B!PgRestore
  PROVE  BackupInv'
<1> DEFINE q == [job EXCEPT !.pc = "protect"]
           j == [q EXCEPT !.failed = (db' # job.from.dump)]
<1>1. /\ job.pc = "restore" /\ job \in Jobs /\ job' = j
      /\ forgotten' = forgotten \cup {d \in job.revoked : db'.devices # Off /\ db'.devices[d] = "absent"}
      /\ UNCHANGED <<node, disk, archives, revocations, damaged, unbacked>>
  BY DEF B!PgRestore, BackupInv, BackupTyped
<1>2. job.from \in archives /\ job.from \in Archives /\ job.from.dump \in Dumps /\ job.done = {} /\ node = "down"
  <2>1. job.from \in archives /\ job.done = {} /\ node = "down"
    BY <1>1 DEF BackupInv, RestoreFits
  <2>2. QED
    BY <2>1 DEF BackupInv, BackupTyped, Archives
<1>3. db' \in Tabled
  <2>1. /\ db.devices \in [StoredDevices -> Standing] \cup {Off} /\ db.sessions \in BOOLEAN \cup {Off}
        /\ db.files \in (SUBSET StoredFiles) \cup {Off}
    BY DEF BackupInv, BackupTyped, Tabled
  <2>2. /\ job.from.dump.devices \in [StoredDevices -> Standing] /\ job.from.dump.sessions \in BOOLEAN
        /\ job.from.dump.files \in SUBSET StoredFiles
    BY <1>2 DEF Dumps
  <2>3. /\ B!Empty.devices \in [StoredDevices -> Standing] /\ B!Empty.sessions \in BOOLEAN
        /\ B!Empty.files \in SUBSET StoredFiles
    BY DEF B!Empty, Standing
  <2>4. db' \in [devices : {db.devices, job.from.dump.devices, B!Empty.devices, Off},
                 sessions : {db.sessions, job.from.dump.sessions, B!Empty.sessions, Off},
                 files : {db.files, job.from.dump.files, B!Empty.files, Off}]
    BY DEF B!PgRestore
  <2>5. QED
    BY <2>1, <2>2, <2>3, <2>4 DEF Tabled
<1>4. q \in Jobs /\ q.pc = "protect" /\ q.from = job.from /\ q.revoked = job.revoked /\ q.done = job.done
  BY <1>1 DEF Jobs
<1> HIDE DEF q
<1>5. /\ j \in Jobs /\ j.pc = "protect" /\ j.from = job.from /\ j.revoked = job.revoked /\ j.done = job.done
      /\ j.failed = (db' # job.from.dump)
  BY <1>4 DEF Jobs
<1> HIDE DEF j
<1>6. BackupTyped'
  BY <1>1, <1>3, <1>5 DEF BackupInv, BackupTyped
<1>7. ArchivesFit'
  BY <1>1 DEF BackupInv, ArchivesFit
<1>8. DumpFits(job, disk, unbacked)' /\ RestoreFits(job, node, db, disk, archives)'
  BY <1>1, <1>2, <1>5 DEF DumpFits, RestoreFits
<1>9. Ledger'
  <2>1. SUFFICES ASSUME ~damaged, NEW d \in revocations, d \notin forgotten'
                 PROVE  LedgerFits(j, db'.devices, d)
    BY <1>1 DEF Ledger
  <2>2. d \in job.revoked
    BY <1>1, <2>1 DEF BackupInv, Ledger, LedgerFits
  <2>3. db'.devices # Off => db'.devices[d] # "absent"
    BY <1>1, <2>1, <2>2
  <2>4. QED
    BY <1>5, <2>2, <2>3 DEF LedgerFits
<1>10. Offered'
  BY <1>1, <1>5 DEF Offered
<1>11. QED
  BY <1>6, <1>7, <1>8, <1>9, <1>10 DEF BackupInv

\* Applying the ledger keeps what is known and revokes what was revoked.
LEMMA ProtectedTyped ==
  ASSUME NEW devices \in [StoredDevices -> Standing] \cup {Off}, NEW revoked \in SUBSET StoredDevices,
         revoked # {} => devices # Off
  PROVE  LET p == B!Protected(devices, revoked) IN
         /\ p \in [StoredDevices -> Standing] \cup {Off}
         /\ \A d \in revoked : devices[d] # "absent" => p[d] = "revoked"
  BY DEF B!Protected, Standing

LEMMA ProtectStep ==
  ASSUME BackupInv, B!ProtectRestoredSecurity
  PROVE  BackupInv'
<1> DEFINE p == B!Protected(db.devices, job.revoked)
           mid == [db EXCEPT !.sessions = FALSE]
           j == [job EXCEPT !.pc = "files"]
<1>1. /\ job.pc = "protect" /\ job \in Jobs /\ db \in Tabled /\ (job.revoked # {} => db.devices # Off)
      /\ job' = (IF job.failed THEN B!NoJob ELSE j)
      /\ unbacked' = (IF job.failed THEN StoredFiles ELSE unbacked)
      /\ UNCHANGED <<node, disk, archives, revocations, damaged, forgotten>>
  BY DEF B!ProtectRestoredSecurity, BackupInv, BackupTyped
<1>2. /\ db.devices \in [StoredDevices -> Standing] \cup {Off}
      /\ db.files \in (SUBSET StoredFiles) \cup {Off} /\ job.revoked \in SUBSET StoredDevices
  BY <1>1 DEF Tabled, Jobs
<1>3. db' = [mid EXCEPT !.devices = p]
  BY <1>1 DEF B!ProtectRestoredSecurity, Tabled
<1>4. mid = [devices |-> db.devices, sessions |-> FALSE, files |-> db.files]
  BY <1>1, TablesUpdated
<1> HIDE DEF mid
<1>5. p \in [StoredDevices -> Standing] \cup {Off} /\ \A d \in job.revoked : db.devices[d] # "absent" => p[d] = "revoked"
  BY <1>1, <1>2, ProtectedTyped
<1> HIDE DEF p
<1>6. db' = [devices |-> p, sessions |-> FALSE, files |-> db.files]
  BY <1>3, <1>4
<1>7. db' \in Tabled /\ db'.files = db.files /\ db'.devices = p
  BY <1>2, <1>5, <1>6 DEF Tabled
<1>8. /\ j \in Jobs /\ j.pc = "files" /\ j.from = job.from /\ j.done = job.done
  BY <1>1 DEF Jobs
<1> HIDE DEF j
<1>9. job' \in Jobs /\ job'.pc \in {"none", "files"}
  BY <1>1, <1>8, NoJobTyped
<1>10. unbacked \subseteq unbacked' /\ unbacked' \subseteq StoredFiles
  BY <1>1 DEF BackupInv, BackupTyped
<1>11. BackupTyped'
  BY <1>1, <1>7, <1>9, <1>10 DEF BackupInv, BackupTyped
<1>12. ArchivesFit'
  BY <1>1, <1>10, ArchivesMore DEF BackupInv
<1>13. DumpFits(job, disk, unbacked)'
  BY <1>9 DEF DumpFits
<1>14. RestoreFits(job, node, db, disk, archives)'
  <2>1. CASE job.failed
    BY <1>1, <2>1, NoJobFits
  <2>2. CASE ~job.failed
    <3>1. RestoreFits(j, node, db', disk, archives)
      BY <1>1, <1>7, <1>8, <2>2 DEF BackupInv, RestoreFits
    <3>2. QED
      BY <1>1, <2>2, <3>1
  <2>3. QED
    BY <2>1, <2>2
<1>15. Ledger'
  <2>1. SUFFICES ASSUME ~damaged, NEW d \in revocations, d \notin forgotten
                 PROVE  LedgerFits(job', p, d)
    BY <1>1, <1>7 DEF Ledger
  <2>2. d \in job.revoked /\ (db.devices # Off => db.devices[d] # "absent")
    BY <1>1, <2>1 DEF BackupInv, Ledger, LedgerFits
  <2>3. p[d] = "revoked"
    BY <1>1, <1>5, <2>2
  <2>4. QED
    BY <1>9, <2>3 DEF LedgerFits
<1>16. Offered'
  <2>1. CASE job.failed
    BY <1>1, <1>2, <1>7, <2>1 DEF Offered
  <2>2. CASE ~job.failed
    BY <1>1, <1>8, <2>2 DEF Offered
  <2>3. QED
    BY <2>1, <2>2
<1>17. QED
  BY <1>11, <1>12, <1>13, <1>14, <1>15, <1>16 DEF BackupInv

LEMMA RestoreFileStep ==
  ASSUME BackupInv, NEW f \in StoredFiles, B!RestoreFile(f)
  PROVE  BackupInv'
<1> DEFINE j == [job EXCEPT !.done = job.done \cup {f}]
<1>1. /\ job.pc = "files" /\ job \in Jobs /\ job' = j /\ disk' = disk \cup {f}
      /\ UNCHANGED <<node, db, archives, revocations, damaged, forgotten, unbacked>>
  BY DEF B!RestoreFile, BackupInv, BackupTyped
<1>2. job.done \cup {f} \in SUBSET StoredFiles
  BY <1>1 DEF Jobs
<1>3. j \in Jobs /\ j.pc = "files" /\ j.from = job.from /\ j.done = job.done \cup {f}
  BY <1>1, <1>2 DEF Jobs
<1> HIDE DEF j
<1>4. BackupTyped'
  BY <1>1, <1>3 DEF BackupInv, BackupTyped
<1>5. ArchivesFit' /\ Offered' /\ DumpFits(job, disk, unbacked)'
  BY <1>1, <1>3 DEF BackupInv, ArchivesFit, Offered, DumpFits
<1>6. RestoreFits(job, node, db, disk, archives)'
  BY <1>1, <1>3 DEF BackupInv, RestoreFits
<1>7. Ledger'
  BY <1>1, <1>3 DEF BackupInv, Ledger, LedgerFits
<1>8. QED
  BY <1>4, <1>5, <1>6, <1>7 DEF BackupInv

\* A job that ends by itself or not.
LEMMA JobEnds ==
  ASSUME BackupInv, job' = B!NoJob, unbacked \subseteq unbacked', unbacked' \subseteq StoredFiles,
         damaged' \in BOOLEAN, damaged => damaged', job.pc = "protect" => damaged', Offered',
         UNCHANGED <<node, db, disk, archives, revocations, forgotten>>
  PROVE  BackupInv'
<1>1. BackupTyped' /\ ArchivesFit'
  BY NoJobTyped, ArchivesMore DEF BackupInv, BackupTyped
<1>2. DumpFits(job, disk, unbacked)' /\ RestoreFits(job, node, db, disk, archives)'
  BY NoJobFits
<1>3. Ledger'
  BY NoJobTyped DEF BackupInv, Ledger, LedgerFits
<1>4. QED
  BY <1>1, <1>2, <1>3 DEF BackupInv

LEMMA FinishRestoreStep ==
  ASSUME BackupInv, B!FinishRestore
  PROVE  BackupInv'
<1> DEFINE more == IF job.from.withFiles THEN job.from.gone ELSE job.from.dump.files
<1>1. /\ job.pc = "files" /\ (job.from.withFiles => job.done = job.from.bodies)
      /\ unbacked' = unbacked \cup more /\ job' = B!NoJob
      /\ UNCHANGED <<node, db, disk, archives, revocations, damaged, forgotten>>
  BY DEF B!FinishRestore
<1>2. /\ job.from \in archives /\ db.files = job.from.dump.files /\ job.done \subseteq disk
  BY <1>1 DEF BackupInv, RestoreFits
<1>3. job.from \in Archives /\ ArchiveFits(job.from, unbacked)
  BY <1>2 DEF BackupInv, BackupTyped, ArchivesFit
<1>4. job.from.dump.files \subseteq StoredFiles /\ job.from.gone \subseteq StoredFiles
  BY <1>3 DEF Archives, Dumps
<1>5. more \subseteq StoredFiles /\ unbacked \subseteq StoredFiles /\ damaged \in BOOLEAN
  BY <1>4 DEF BackupInv, BackupTyped
<1>6. \A f \in db.files : f \in disk \/ f \in unbacked \cup more
  BY <1>1, <1>2, <1>3 DEF ArchiveFits
<1> HIDE DEF more
<1>7. Offered'
  BY <1>1, <1>6 DEF Offered
<1>8. QED
  BY <1>1, <1>5, <1>7, JobEnds

LEMMA AbortStep ==
  ASSUME BackupInv, B!Abort
  PROVE  BackupInv'
<1>1. /\ damaged' = (damaged \/ job.pc = "protect") /\ job' = B!NoJob
      /\ unbacked' = (IF job.pc \in {"protect", "files"} THEN StoredFiles ELSE unbacked)
      /\ UNCHANGED <<node, db, disk, archives, revocations, forgotten>>
  BY DEF B!Abort
<1>2. unbacked \subseteq StoredFiles /\ damaged \in BOOLEAN /\ db \in Tabled
  BY DEF BackupInv, BackupTyped
<1>3. Offered'
  <2>1. db.files # Off => db.files \subseteq StoredFiles
    BY <1>2 DEF Tabled
  <2>2. QED
    BY <1>1, <2>1 DEF BackupInv, Offered
<1>4. QED
  BY <1>1, <1>2, <1>3, JobEnds

LEMMA BackupNext ==
  ASSUME BackupInv, [B!Next]_backupVars
  PROVE  BackupInv'
<1>1. CASE UNCHANGED backupVars
  BY <1>1 DEF backupVars, BackupInv, BackupTyped, ArchivesFit, Ledger, Offered
<1>2. CASE B!NodeStep
  BY <1>2, CreateDeviceStep, RevokeDeviceStep, CompleteFileStep, ExpireFileStep, OperatorStep DEF B!NodeStep
<1>3. CASE B!Create
  BY <1>3, DumpStep, WriteStorageStep, FinishArchiveStep DEF B!Create
<1>4. CASE B!Restore
  BY <1>4, BeginRestoreStep, ExtractStep, PgRestoreStep, ProtectStep, RestoreFileStep, FinishRestoreStep DEF B!Restore
<1>5. CASE B!Abort
  BY <1>5, AbortStep
<1>6. QED
  BY <1>1, <1>2, <1>3, <1>4, <1>5 DEF B!Next

LEMMA BackupHolds == Spec => [](chosen = "backup" => BackupInv)
<1> DEFINE Inv == chosen = "backup" => BackupInv
<1>1. Init => Inv
  BY BackupInit DEF Init
<1>2. Inv /\ [Next]_vars => Inv'
  <2>1. ASSUME Inv, [Next]_vars, chosen' = "backup" PROVE BackupInv'
    <3>1. chosen = "backup" /\ [B!Next]_backupVars
      BY <2>1 DEF Next, vars
    <3>2. QED
      BY <2>1, <3>1, BackupNext
  <2>2. QED
    BY <2>1
<1>3. QED
  BY <1>1, <1>2, PTL DEF Spec

(***************************************************************************)
(* A device that was revoked is not active on a Node that serves, through  *)
(* any number of restores of any archives, whichever tables pg_restore     *)
(* left behind, unless a restore was cut off before                        *)
(* ProtectRestoredSecurity or an archive did not know the device.          *)
(***************************************************************************)
THEOREM RevocationsStand == Spec => []RevocationsSurvive
<1>1. ASSUME chosen = "backup" => BackupInv PROVE RevocationsSurvive
  <2>1. SUFFICES ASSUME chosen = "backup", B!Serves, ~damaged, NEW d \in revocations, d \notin forgotten
                 PROVE  db.devices[d] # "active"
    BY DEF RevocationsSurvive, B!RevocationsSurvive
  <2>2. LedgerFits(job, db.devices, d) /\ db \in Tabled
    BY <1>1, <2>1 DEF BackupInv, BackupTyped, Ledger
  <2>3. job.pc \in {"none", "archive"} /\ db.devices # Off
    BY <1>1, <2>1, <2>2, Serving, ServingJob
  <2>4. QED
    BY <2>2, <2>3 DEF LedgerFits
<1>2. QED
  BY <1>1, BackupHolds, PTL

(***************************************************************************)
(* Every file a serving Node offers has its body, although archives are    *)
(* written while files come and go; the exceptions are the files that      *)
(* expired between the dump and the walk and those of archives without     *)
(* files or of restores that failed.                                       *)
(***************************************************************************)
THEOREM OfferedStand == Spec => []OfferedFilesBacked
<1>1. ASSUME chosen = "backup" => BackupInv PROVE OfferedFilesBacked
  <2>1. SUFFICES ASSUME chosen = "backup", B!Serves PROVE db.files \ disk \subseteq unbacked
    BY DEF OfferedFilesBacked, B!OfferedFilesBacked
  <2>2. Offered /\ db \in Tabled
    BY <1>1, <2>1 DEF BackupInv, BackupTyped
  <2>3. job.pc \in {"none", "archive"} /\ db.files # Off
    BY <1>1, <2>1, <2>2, Serving, ServingJob
  <2>4. QED
    BY <2>2, <2>3 DEF Offered
<1>2. QED
  BY <1>1, BackupHolds, PTL

-----------------------------------------------------------------------------
(***************************************************************************)
(* LAN transfer.  A sender waits for one request at most, and for none     *)
(* while it rests or records a delivery; unless completions have           *)
(* overlapped there is one at most in the receiver, and none from the      *)
(* moment the sender is told DELIVERED until it sends the file again.      *)
(***************************************************************************)
LanRows == [kind : {"none", "status", "put", "complete"}, index : Nat, step : Nat,
            linked : BOOLEAN, awaited : BOOLEAN, challenge : Nat]
LanSenders == [pc : {"rest", "status", "put", "complete", "record"}, have : SUBSET L!Index,
               index : Nat, known : Nat, attempts : Nat]

LanTyped ==
  /\ messages \in [Slots -> LanRows] /\ sender \in LanSenders
  /\ challenge \in Nat /\ settled \in BOOLEAN /\ overlap \in BOOLEAN

Awaiting(requests, at) ==
  \A s \in Slots : requests[s].awaited =>
    at \notin {"rest", "record"} /\ \A t \in Slots : requests[t].awaited => t = s

Alone(requests) ==
  \A s, t \in Slots : requests[s].kind = "complete" /\ requests[t].kind = "complete" => s = t

NoCompletion(requests) == \A s \in Slots : requests[s].kind # "complete"

LanInv ==
  /\ LanTyped
  /\ Awaiting(messages, sender.pc)
  /\ ~overlap => Alone(messages)
  /\ settled => sender.pc = "rest"
  /\ (settled \/ sender.pc = "record") /\ ~overlap => NoCompletion(messages) /\ L!Matches

LEMMA LanIdle ==
  /\ L!Idle \in LanRows /\ L!Idle.kind = "none" /\ ~L!Idle.awaited /\ L!Idle.step = 0
  BY DEF L!Idle, LanRows

LEMMA LanInit ==
  ASSUME L!Init
  PROVE  LanInv
<1>1. /\ messages \in [Slots -> LanRows] /\ \A s \in Slots : messages[s] = L!Idle
      /\ settled = FALSE /\ overlap = FALSE /\ challenge = 0
  BY LanIdle DEF L!Init
<1>2. sender \in LanSenders /\ sender.pc = "rest"
  BY DEF L!Init, L!Resting, LanSenders
<1>3. QED
  BY <1>1, <1>2, LanIdle DEF LanInv, LanTyped, Awaiting, Alone

\* A step that begins no completion and lets nobody wait who did not.
LEMMA LanMoves ==
  ASSUME LanInv, LanTyped', UNCHANGED <<settled, overlap>>,
         \A s \in Slots : /\ messages'[s].kind = "complete" => messages[s].kind = "complete"
                          /\ messages'[s].awaited => messages[s].awaited,
         sender'.pc = "rest" => sender.pc = "rest" \/ \A s \in Slots : ~messages'[s].awaited,
         sender'.pc = "record" => sender.pc = "record",
         sender.pc = "rest" /\ settled => sender'.pc = "rest",
         assembled' = assembled \/ \E s \in Slots : messages[s].kind = "complete"
  PROVE  LanInv'
<1>1. Awaiting(messages', sender'.pc)
  BY DEF LanInv, Awaiting
<1>2. ~overlap => Alone(messages')
  BY DEF LanInv, Alone
<1>3. settled => sender'.pc = "rest"
  BY DEF LanInv
<1>4. (settled \/ sender'.pc = "record") /\ ~overlap => NoCompletion(messages') /\ L!Matches'
  BY DEF LanInv, NoCompletion, L!Matches
<1>5. QED
  BY <1>1, <1>2, <1>3, <1>4 DEF LanInv

\* The same, when the request of one slot ends and its sender, if it waits,
\* goes to another state.
LEMMA LanAnswered ==
  ASSUME LanInv, NEW s \in Slots, NEW next \in LanSenders, next.pc # "record", L!Answer(s, next),
         messages' = [messages EXCEPT ![s] = L!Idle],
         UNCHANGED <<challenge, settled, overlap, assembled>>
  PROVE  LanInv'
<1>1. /\ messages' \in [Slots -> LanRows] /\ messages'[s] = L!Idle
      /\ \A t \in Slots : t # s => messages'[t] = messages[t]
  BY LanIdle DEF LanInv, LanTyped
<1>2. sender' = (IF messages[s].awaited THEN next ELSE sender) /\ sender' \in LanSenders
  BY DEF L!Answer, LanInv, LanTyped
<1>3. LanTyped'
  BY <1>1, <1>2 DEF LanInv, LanTyped
<1>4. \A t \in Slots : /\ messages'[t].kind = "complete" => messages[t].kind = "complete"
                       /\ messages'[t].awaited => messages[t].awaited
  BY <1>1, LanIdle
<1>5. sender'.pc = "rest" => sender.pc = "rest" \/ \A t \in Slots : ~messages'[t].awaited
  BY <1>1, <1>2, LanIdle DEF LanInv, Awaiting
<1>6. /\ sender.pc = "rest" /\ settled => sender'.pc = "rest"
      /\ sender'.pc = "record" => sender.pc = "record"
  BY <1>2 DEF LanInv, Awaiting
<1>7. QED
  BY <1>3, <1>4, <1>5, <1>6, LanMoves

LEMMA LanFailed ==
  ASSUME LanInv
  PROVE  L!Failed \in LanSenders /\ L!Failed.pc = "rest"
  BY DEF LanInv, LanTyped, LanSenders, L!Failed

LEMMA LanAfter ==
  ASSUME LanInv, NEW i \in Nat
  PROVE  L!After(i) \in LanSenders /\ L!After(i).pc \in {"put", "complete"}
<1> DEFINE p == IF i + 1 < ChunkCount THEN "put" ELSE "complete"
           n == IF i + 1 < ChunkCount THEN i + 1 ELSE 0
           q == [sender EXCEPT !.pc = p]
<1>1. p \in {"put", "complete"} /\ n \in Nat
  OBVIOUS
<1>2. L!After(i) = [q EXCEPT !.index = n]
  BY DEF L!After
<1> HIDE DEF p, n
<1>3. q \in LanSenders /\ q.pc = p
  BY <1>1 DEF LanInv, LanTyped, LanSenders
<1> HIDE DEF q
<1>4. QED
  BY <1>1, <1>2, <1>3 DEF LanSenders

-----------------------------------------------------------------------------
Started(snd, known) ==
  [snd EXCEPT !.pc = "status", !.index = 0, !.have = {}, !.known = known, !.attempts = @ + 1]

LEMMA StartedTyped ==
  ASSUME NEW snd \in LanSenders, NEW known \in Nat
  PROVE  Started(snd, known) \in LanSenders /\ Started(snd, known).pc = "status"
<1> DEFINE q1 == [snd EXCEPT !.pc = "status"]
           q2 == [q1 EXCEPT !.index = 0]
           q3 == [q2 EXCEPT !.have = {}]
           q4 == [q3 EXCEPT !.known = known]
           q5 == [q4 EXCEPT !.attempts = snd.attempts + 1]
<1>1. Started(snd, known) = q5
  BY DEF Started, LanSenders
<1>2. q1 \in LanSenders /\ q1.pc = "status"
  BY DEF LanSenders
<1> HIDE DEF q1
<1>3. q2 \in LanSenders /\ q2.pc = "status"
  BY <1>2 DEF LanSenders
<1> HIDE DEF q2
<1>4. q3 \in LanSenders /\ q3.pc = "status"
  BY <1>3 DEF LanSenders
<1> HIDE DEF q3
<1>5. q4 \in LanSenders /\ q4.pc = "status"
  BY <1>4 DEF LanSenders
<1> HIDE DEF q4
<1>6. q5 \in LanSenders /\ q5.pc = "status"
  <2>1. snd.attempts + 1 \in Nat
    BY DEF LanSenders
  <2>2. QED
    BY <1>5, <2>1 DEF LanSenders
<1>7. QED
  BY <1>1, <1>6

LEMMA LanStart ==
  ASSUME LanInv, L!Start
  PROVE  LanInv'
<1>1. /\ sender' = Started(sender, challenge) /\ ~settled
      /\ UNCHANGED <<resumable, chunk, assembled, messages, challenge, settled, overlap>>
  BY DEF L!Start, Started
<1>2. sender' \in LanSenders /\ sender'.pc = "status"
  BY <1>1, StartedTyped DEF LanInv, LanTyped
<1>3. LanTyped'
  BY <1>1, <1>2 DEF LanInv, LanTyped
<1>4. QED
  BY <1>1, <1>2, <1>3, LanMoves

LEMMA LanSkip ==
  ASSUME LanInv, L!SkipChunk
  PROVE  LanInv'
<1>1. /\ sender.pc = "put" /\ sender' = L!After(sender.index) /\ sender.index \in Nat
      /\ UNCHANGED <<resumable, chunk, assembled, messages, challenge, settled, overlap>>
  BY DEF L!SkipChunk, LanInv, LanTyped, LanSenders
<1>2. sender' \in LanSenders /\ sender'.pc \in {"put", "complete"}
  BY <1>1, LanAfter
<1>3. LanTyped'
  BY <1>1, <1>2 DEF LanInv, LanTyped
<1>4. QED
  BY <1>1, <1>2, <1>3, LanMoves

SentRow(kind, index, known) ==
  [L!Idle EXCEPT !.kind = kind, !.index = index, !.awaited = TRUE, !.challenge = known]

LEMMA SentRowTyped ==
  ASSUME NEW kind \in {"status", "put", "complete"}, NEW index \in Nat, NEW known \in Nat
  PROVE  SentRow(kind, index, known) \in LanRows /\ SentRow(kind, index, known).kind = kind
<1> DEFINE q1 == [L!Idle EXCEPT !.kind = kind]
           q2 == [q1 EXCEPT !.index = index]
           q3 == [q2 EXCEPT !.awaited = TRUE]
           q4 == [q3 EXCEPT !.challenge = known]
<1>1. SentRow(kind, index, known) = q4
  BY DEF SentRow
<1>2. q1 \in LanRows /\ q1.kind = kind
  BY LanIdle DEF LanRows
<1> HIDE DEF q1
<1>3. q2 \in LanRows /\ q2.kind = kind
  BY <1>2 DEF LanRows
<1> HIDE DEF q2
<1>4. q3 \in LanRows /\ q3.kind = kind
  BY <1>3 DEF LanRows
<1> HIDE DEF q3
<1>5. q4 \in LanRows /\ q4.kind = kind
  BY <1>4 DEF LanRows
<1>6. QED
  BY <1>1, <1>5

\* The one step that adds a request: nobody waits, and a second completion is
\* an overlap.
LEMMA LanSend ==
  ASSUME LanInv, NEW s \in Slots, L!Send(s)
  PROVE  LanInv'
<1> DEFINE row == SentRow(sender.pc, sender.index, sender.known)
<1>1. /\ sender.pc \in {"status", "put", "complete"} /\ \A t \in Slots : ~messages[t].awaited
      /\ messages' = [messages EXCEPT ![s] = row]
      /\ overlap' = (overlap \/ (sender.pc = "complete" /\ \E t \in Slots : messages[t].kind = "complete"))
      /\ UNCHANGED <<resumable, chunk, assembled, sender, challenge, settled>>
  BY DEF L!Send, SentRow
<1>2. row \in LanRows /\ row.kind = sender.pc
  BY <1>1, SentRowTyped DEF LanInv, LanTyped, LanSenders
<1> HIDE DEF row
<1>3. messages' \in [Slots -> LanRows] /\ messages'[s] = row /\ \A t \in Slots : t # s => messages'[t] = messages[t]
  BY <1>1, <1>2 DEF LanInv, LanTyped
<1>4. LanTyped'
  BY <1>1, <1>3 DEF LanInv, LanTyped
<1>5. Awaiting(messages', sender'.pc)
  BY <1>1, <1>3 DEF Awaiting
<1>6. ~overlap' => Alone(messages')
  <2>1. SUFFICES ASSUME ~overlap' PROVE Alone(messages')
    OBVIOUS
  <2>2. ~overlap /\ (sender.pc = "complete" => \A t \in Slots : messages[t].kind # "complete")
    BY <1>1, <2>1
  <2>3. QED
    BY <1>2, <1>3, <2>2 DEF LanInv, Alone
<1>7. ~settled' /\ sender'.pc # "record"
  BY <1>1 DEF LanInv
<1>8. QED
  BY <1>4, <1>5, <1>6, <1>7 DEF LanInv

LEMMA LanGiveUp ==
  ASSUME LanInv, L!GiveUp
  PROVE  LanInv'
<1>1. /\ sender' = L!Failed /\ UNCHANGED <<resumable, chunk, assembled, challenge, settled, overlap>>
  BY DEF L!GiveUp, L!Failed
<1>2. PICK lost \in BOOLEAN :
        messages' = [s \in Slots |-> IF messages[s].awaited /\ lost /\ messages[s].step = 0 THEN L!Idle
                                     ELSE [messages[s] EXCEPT !.awaited = FALSE]]
  BY DEF L!GiveUp
<1>3. ASSUME NEW s \in Slots
      PROVE  /\ messages'[s] \in LanRows /\ ~messages'[s].awaited
             /\ messages'[s].kind = "complete" => messages[s].kind = "complete"
  <2> DEFINE r == [messages[s] EXCEPT !.awaited = FALSE]
  <2>1. r \in LanRows /\ ~r.awaited /\ r.kind = messages[s].kind
    BY DEF LanInv, LanTyped, LanRows
  <2>2. messages'[s] = L!Idle \/ messages'[s] = r
    BY <1>2
  <2> HIDE DEF r
  <2>3. QED
    BY <2>1, <2>2, LanIdle
<1>4. messages' \in [Slots -> LanRows]
  BY <1>2, <1>3
<1>5. LanTyped'
  BY <1>1, <1>4, LanFailed DEF LanInv, LanTyped
<1>6. QED
  BY <1>1, <1>3, <1>5, LanFailed, LanMoves

-----------------------------------------------------------------------------
LEMMA LanRefuse ==
  ASSUME LanInv, NEW s \in Slots, L!Refuse(s)
  PROVE  LanInv'
<1>1. L!Answer(s, L!Failed) /\ messages' = [messages EXCEPT ![s] = L!Idle]
      /\ UNCHANGED <<challenge, settled, overlap, assembled>>
  BY DEF L!Refuse
<1>2. QED
  BY <1>1, LanFailed, LanAnswered

LEMMA LanStatus ==
  ASSUME LanInv, NEW s \in Slots, L!Status(s)
  PROVE  LanInv'
<1> DEFINE q == [sender EXCEPT !.have = L!CompletedChunks]
           next == [q EXCEPT !.pc = "put"]
<1>1. L!CompletedChunks \in SUBSET L!Index
  BY DEF L!CompletedChunks
<1>2. q \in LanSenders
  BY <1>1 DEF LanInv, LanTyped, LanSenders
<1>3. L!Answer(s, next) /\ messages' = [messages EXCEPT ![s] = L!Idle]
      /\ UNCHANGED <<challenge, settled, overlap, assembled>>
  BY DEF L!Status
<1> HIDE DEF q
<1>4. next \in LanSenders /\ next.pc = "put"
  BY <1>2 DEF LanSenders
<1>5. QED
  BY <1>3, <1>4, LanAnswered

LEMMA LanPutDone ==
  ASSUME LanInv, NEW s \in Slots, L!PutDone(s)
  PROVE  LanInv'
<1>1. L!Answer(s, L!After(messages[s].index)) /\ messages' = [messages EXCEPT ![s] = L!Idle]
      /\ UNCHANGED <<challenge, settled, overlap, assembled>>
  BY DEF L!PutDone
<1>2. messages[s].index \in Nat
  BY DEF LanInv, LanTyped, LanRows
<1>3. QED
  BY <1>1, <1>2, LanAfter, LanAnswered

\* A handler goes on with its request.
LEMMA LanHandles ==
  ASSUME LanInv, NEW s \in Slots, NEW row \in LanRows,
         row.kind = messages[s].kind, row.awaited = messages[s].awaited,
         messages' = [messages EXCEPT ![s] = row],
         assembled' = assembled \/ messages[s].kind = "complete",
         UNCHANGED <<sender, challenge, settled, overlap>>
  PROVE  LanInv'
<1>1. /\ messages' \in [Slots -> LanRows] /\ messages'[s] = row
      /\ \A t \in Slots : t # s => messages'[t] = messages[t]
  BY DEF LanInv, LanTyped
<1>2. LanTyped'
  BY <1>1 DEF LanInv, LanTyped
<1>3. QED
  BY <1>1, <1>2, LanMoves

Opened(row) == [row EXCEPT !.step = 1, !.linked = TRUE]

LEMMA OpenedTyped ==
  ASSUME NEW row \in LanRows
  PROVE  Opened(row) \in LanRows /\ Opened(row).kind = row.kind /\ Opened(row).awaited = row.awaited
<1> DEFINE q == [row EXCEPT !.step = 1]
<1>1. Opened(row) = [q EXCEPT !.linked = TRUE]
  BY DEF Opened
<1>2. q \in LanRows /\ q.kind = row.kind /\ q.awaited = row.awaited
  BY DEF LanRows
<1> HIDE DEF q
<1>3. QED
  BY <1>1, <1>2 DEF LanRows

LEMMA LanOpens ==
  ASSUME LanInv, NEW s \in Slots, L!PutChunk(s) \/ L!Complete(s)
  PROVE  LanInv'
<1>1. messages[s] \in LanRows /\ DOMAIN messages = Slots
  BY DEF LanInv, LanTyped
<1>2. messages' = [messages EXCEPT ![s] = Opened(messages[s])]
  BY <1>1 DEF L!PutChunk, L!Complete, Opened
<1>3. /\ assembled' = assembled \/ messages[s].kind = "complete"
      /\ UNCHANGED <<sender, challenge, settled, overlap>>
  BY DEF L!PutChunk, L!Complete
<1>4. QED
  BY <1>1, <1>2, <1>3, OpenedTyped, LanHandles

LEMMA LanAppends ==
  ASSUME LanInv, NEW s \in Slots, L!Append(s)
  PROVE  LanInv'
<1> DEFINE row == [messages[s] EXCEPT !.step = messages[s].step + 1]
<1>1. messages[s] \in LanRows
  BY DEF LanInv, LanTyped
<1>2. messages[s].step + 1 \in Nat
  BY <1>1 DEF LanRows
<1>3. row \in LanRows /\ row.kind = messages[s].kind /\ row.awaited = messages[s].awaited
  BY <1>1, <1>2 DEF LanRows
<1>4. messages' = [messages EXCEPT ![s] = row]
  BY DEF L!Append, LanInv, LanTyped, LanRows
<1>5. messages[s].kind = "complete" /\ UNCHANGED <<sender, challenge, settled, overlap>>
  BY DEF L!Append
<1> HIDE DEF row
<1>6. QED
  BY <1>3, <1>4, <1>5, LanHandles

LEMMA LanUnlinked ==
  ASSUME LanInv, NEW s \in Slots, NEW kind, messages' = L!Unlinked(s, kind)
  PROVE  /\ messages' \in [Slots -> LanRows] /\ messages'[s] = L!Idle
         /\ \A t \in Slots : t # s => messages'[t].kind = messages[t].kind /\ messages'[t].awaited = messages[t].awaited
<1>1. ASSUME NEW t \in Slots, t # s
      PROVE  /\ messages'[t] \in LanRows
             /\ messages'[t].kind = messages[t].kind /\ messages'[t].awaited = messages[t].awaited
  <2> DEFINE r == [messages[t] EXCEPT !.linked = FALSE]
  <2>1. messages'[t] = r \/ messages'[t] = messages[t]
    BY <1>1 DEF L!Unlinked
  <2>2. messages[t] \in LanRows
    BY DEF LanInv, LanTyped
  <2>3. r \in LanRows /\ r.kind = messages[t].kind /\ r.awaited = messages[t].awaited
    BY <2>2 DEF LanRows
  <2> HIDE DEF r
  <2>4. QED
    BY <2>1, <2>2, <2>3
<1>2. messages'[s] = L!Idle
  BY DEF L!Unlinked
<1>3. messages' = [t \in Slots |-> messages'[t]]
  BY DEF L!Unlinked
<1>4. messages' \in [Slots -> LanRows]
  BY <1>1, <1>2, <1>3, LanIdle
<1>5. QED
  BY <1>1, <1>2, <1>4

\* A completion that fails takes the assembled file away.
LEMMA LanFails ==
  ASSUME LanInv, NEW s \in Slots, L!Incomplete(s) \/ L!Mismatch(s)
  PROVE  LanInv'
<1>1. /\ messages[s].kind = "complete" /\ messages' = L!Unlinked(s, "complete")
      /\ L!Answer(s, L!Failed) /\ UNCHANGED <<challenge, settled, overlap>>
  BY DEF L!Incomplete, L!Mismatch
<1>2. /\ messages' \in [Slots -> LanRows] /\ messages'[s] = L!Idle
      /\ \A t \in Slots : t # s => messages'[t].kind = messages[t].kind /\ messages'[t].awaited = messages[t].awaited
  BY <1>1, LanUnlinked
<1>3. sender' = (IF messages[s].awaited THEN L!Failed ELSE sender) /\ sender' \in LanSenders
  BY <1>1, LanFailed DEF L!Answer, LanInv, LanTyped
<1>4. LanTyped'
  BY <1>1, <1>2, <1>3 DEF LanInv, LanTyped
<1>5. sender'.pc = "rest" => sender.pc = "rest" \/ \A t \in Slots : ~messages'[t].awaited
  BY <1>2, <1>3, LanIdle DEF LanInv, Awaiting
<1>6. /\ sender.pc = "rest" => sender'.pc = "rest"
      /\ sender'.pc = "record" => sender.pc = "record"
  BY <1>3, LanFailed
<1>7. QED
  BY <1>1, <1>2, <1>4, <1>5, <1>6, LanIdle, LanMoves

LEMMA LanTold ==
  ASSUME LanInv
  PROVE  L!Told \in LanSenders /\ L!Told.pc = "record"
  BY DEF LanInv, LanTyped, LanSenders, L!Told

\* The task is settled in the state the completion left behind.
LEMMA LanRecord ==
  ASSUME LanInv, L!Record
  PROVE  LanInv'
<1>1. /\ sender.pc = "record" /\ settled' /\ sender' = L!Failed
      /\ UNCHANGED <<resumable, chunk, assembled, messages, challenge, overlap>>
  BY DEF L!Record, L!Failed
<1>2. sender' \in LanSenders /\ sender'.pc = "rest"
  BY <1>1, LanFailed
<1>3. LanTyped'
  BY <1>1, <1>2 DEF LanInv, LanTyped, L!Record
<1>4. L!Matches' = L!Matches
  BY <1>1 DEF L!Matches
<1>5. QED
  BY <1>1, <1>2, <1>3, <1>4 DEF LanInv, Awaiting

\* DELIVERED is said of a file that is whole, by the only completion there is.
LEMMA LanVerified ==
  ASSUME LanInv, NEW s \in Slots, L!Verified(s)
  PROVE  LanInv'
<1>1. /\ messages[s].kind = "complete" /\ messages' = L!Unlinked(s, "put") /\ L!Matches
      /\ L!Answer(s, L!Told) /\ UNCHANGED <<challenge, settled, overlap, assembled>>
  BY DEF L!Verified
<1>2. /\ messages' \in [Slots -> LanRows] /\ messages'[s] = L!Idle
      /\ \A t \in Slots : t # s => messages'[t].kind = messages[t].kind /\ messages'[t].awaited = messages[t].awaited
  BY <1>1, LanUnlinked
<1>3. sender' = (IF messages[s].awaited THEN L!Told ELSE sender) /\ sender' \in LanSenders
  BY <1>1, LanTold DEF L!Answer, LanInv, LanTyped
<1>4. LanTyped'
  BY <1>1, <1>2, <1>3 DEF LanInv, LanTyped
<1>5. Awaiting(messages', sender'.pc)
  BY <1>2, <1>3, LanIdle DEF LanInv, Awaiting
<1>6. ~overlap => NoCompletion(messages')
  BY <1>1, <1>2, LanIdle DEF LanInv, Alone, NoCompletion
<1>7. settled' => sender'.pc = "rest"
  BY <1>1, <1>3 DEF LanInv, Awaiting
<1>8. L!Matches'
  BY <1>1 DEF L!Matches
<1>9. QED
  BY <1>1, <1>4, <1>5, <1>6, <1>7, <1>8 DEF LanInv, Alone, NoCompletion

LEMMA LanRestart ==
  ASSUME LanInv, L!Restart
  PROVE  LanInv'
<1>1. /\ messages' = [s \in Slots |-> L!Idle] /\ challenge' = challenge + 1
      /\ sender' = (IF \E s \in Slots : messages[s].awaited THEN L!Failed ELSE sender)
      /\ UNCHANGED <<assembled, settled, overlap>>
  BY DEF L!Restart
<1>2. messages' \in [Slots -> LanRows] /\ \A s \in Slots : messages'[s] = L!Idle
  BY <1>1, LanIdle
<1>3. /\ sender' \in LanSenders /\ (sender.pc = "rest" => sender'.pc = "rest")
      /\ sender'.pc = "record" => sender.pc = "record"
  BY <1>1, LanFailed DEF LanInv, LanTyped
<1>4. LanTyped'
  BY <1>1, <1>2, <1>3 DEF LanInv, LanTyped
<1>5. QED
  BY <1>1, <1>2, <1>3, <1>4, LanIdle, LanMoves

LEMMA LanNext ==
  ASSUME LanInv, [L!Next]_lanVars
  PROVE  LanInv'
<1>1. CASE UNCHANGED lanVars
  BY <1>1 DEF lanVars, LanInv, LanTyped, L!Matches
<1>2. CASE L!Sender
  BY <1>2, LanStart, LanSend, LanSkip, LanRecord, LanGiveUp DEF L!Sender
<1>3. CASE L!Receiver
  BY <1>3, LanRefuse, LanStatus, LanPutDone, LanOpens, LanAppends, LanFails, LanVerified, LanRestart
     DEF L!Receiver
<1>4. QED
  BY <1>1, <1>2, <1>3 DEF L!Next

(***************************************************************************)
(* A sender that has deleted or marked its task can rely on it: the        *)
(* receiver's file is whole and stays so, through timeouts, late requests, *)
(* restarts and files sent again before the delivery was recorded, as long *)
(* as no completion was asked for while another was under way.             *)
(***************************************************************************)
THEOREM DeliveredStays == Spec => []RecordedIntact
<1> DEFINE Inv == chosen = "lan" => LanInv
<1>1. Init => Inv
  BY LanInit DEF Init
<1>2. Inv /\ [Next]_vars => Inv'
  <2>1. ASSUME Inv, [Next]_vars, chosen' = "lan" PROVE LanInv'
    <3>1. chosen = "lan" /\ [L!Next]_lanVars
      BY <2>1 DEF Next, vars
    <3>2. QED
      BY <2>1, <3>1, LanNext
  <2>2. QED
    BY <2>1
<1>3. Inv => RecordedIntact
  BY DEF LanInv, RecordedIntact, L!RecordedIntact, L!Matches
<1>4. QED
  BY <1>1, <1>2, <1>3, PTL DEF Spec

-----------------------------------------------------------------------------
(***************************************************************************)
(* Chunks.  While BuildManifest reads, every chunk so far is a whole one   *)
(* and they do not exceed the file.                                        *)
(***************************************************************************)
ReadSoFar ==
  /\ \A i \in DOMAIN manifest : manifest[i] = chunkSize
  /\ Len(manifest) * chunkSize <= size

ChunkInv ==
  /\ size \in Nat /\ chunkSize \in Nat \ {0} /\ manifest \in Seq(Nat) /\ pc \in {"read", "done"}
  /\ pc = "read" => ReadSoFar
  /\ C!ManifestAccepted

LEMMA Quotient ==
  ASSUME NEW n \in Nat, NEW s \in Nat, NEW c \in Nat \ {0}, n * c <= s, s - n * c < c
  PROVE  s \div c = n /\ s % c = s - n * c
<1>1. s \div c = n
  OBVIOUS
<1>2. QED
  BY <1>1

LEMMA OneMore ==
  ASSUME NEW n \in Nat, NEW s \in Nat, NEW c \in Nat \ {0}, s - n * c >= c
  PROVE  (n + 1) * c <= s
  OBVIOUS

LEMMA ChunkInit ==
  ASSUME C!Init
  PROVE  ChunkInv
<1>1. size \in Nat /\ chunkSize \in Nat \ {0} /\ manifest = << >> /\ pc = "read"
  BY ChunksAssumption DEF C!Init
<1>2. ReadSoFar
  BY <1>1 DEF ReadSoFar
<1>3. QED
  BY <1>1, <1>2 DEF ChunkInv, C!ManifestAccepted

LEMMA ReadWholeStep ==
  ASSUME ChunkInv, C!ReadWhole
  PROVE  ChunkInv'
<1>1. /\ size \in Nat /\ chunkSize \in Nat \ {0} /\ manifest \in Seq(Nat) /\ pc = "read"
      /\ size - Len(manifest) * chunkSize >= chunkSize /\ ReadSoFar
      /\ manifest' = Append(manifest, chunkSize) /\ size' = size /\ chunkSize' = chunkSize /\ pc' = "read"
  BY DEF ChunkInv, C!ReadWhole, C!Left
<1>2. Len(manifest) \in Nat
  BY <1>1
<1>3. /\ manifest' \in Seq(Nat) /\ Len(manifest') = Len(manifest) + 1
      /\ \A i \in DOMAIN manifest' : manifest'[i] = chunkSize
  BY <1>1 DEF ReadSoFar
<1>4. (Len(manifest) + 1) * chunkSize <= size
  BY <1>1, <1>2, OneMore
<1>5. ReadSoFar'
  BY <1>1, <1>3, <1>4 DEF ReadSoFar
<1>6. QED
  BY <1>1, <1>3, <1>5 DEF ChunkInv, C!ManifestAccepted

LEMMA ReadEndStep ==
  ASSUME ChunkInv, C!ReadEnd
  PROVE  ChunkInv'
<1> DEFINE n == Len(manifest)
           left == size - n * chunkSize
<1>1. /\ size \in Nat /\ chunkSize \in Nat \ {0} /\ manifest \in Seq(Nat) /\ pc = "read"
      /\ left < chunkSize /\ n * chunkSize <= size
      /\ \A i \in 1..n : manifest[i] = chunkSize
      /\ manifest' = (IF left > 0 THEN Append(manifest, left) ELSE manifest)
      /\ size' = size /\ chunkSize' = chunkSize /\ pc' = "done"
  BY DEF ChunkInv, C!ReadEnd, C!Left, ReadSoFar
<1>2. n \in Nat
  BY <1>1
<1>3. n * chunkSize \in Nat /\ left \in Nat
  BY <1>1, <1>2
<1>4. size \div chunkSize = n /\ size % chunkSize = left
  BY <1>1, <1>2, Quotient
<1>5. C!ExpectedChunkCount = n + (IF left # 0 THEN 1 ELSE 0) /\ C!ExpectedChunkCount' = C!ExpectedChunkCount
  BY <1>1, <1>4 DEF C!ExpectedChunkCount
<1>6. CASE left > 0
  <2>1. manifest' = Append(manifest, left)
    BY <1>1, <1>6
  <2>2. manifest' \in Seq(Nat) /\ Len(manifest') = n + 1 /\ manifest'[n + 1] = left
        /\ \A i \in 1..n : manifest'[i] = chunkSize
    <3> HIDE DEF left
    <3>1. QED
      BY <1>1, <1>3, <2>1
  <2>3. C!ExpectedChunkCount' = n + 1
    BY <1>3, <1>5, <1>6
  <2>4. ASSUME NEW i \in 1..(n + 1)
        PROVE  manifest'[i] = C!ExpectedChunkSize(i - 1)'
    <3>1. CASE i = n + 1
      <4>1. C!ExpectedChunkSize(i - 1)' = size - n * chunkSize
        <5> HIDE DEF n
        <5>1. i - 1 = n /\ ~(i - 1 < C!ExpectedChunkCount' - 1)
          BY <1>2, <2>3, <3>1
        <5>2. C!ExpectedChunkSize(i - 1)' = size' - (i - 1) * chunkSize'
          BY <5>1, SMT DEF C!ExpectedChunkSize
        <5>3. QED
          BY <5>1, <5>2, <1>1, Zenon
      <4>2. QED
        BY <2>2, <3>1, <4>1
    <3>2. CASE i # n + 1
      <4>1. manifest'[i] = chunkSize
        BY <1>2, <2>2, <3>2
      <4>2. C!ExpectedChunkSize(i - 1)' = chunkSize'
        <5> HIDE DEF n
        <5>1. i - 1 < C!ExpectedChunkCount' - 1
          BY <1>2, <2>3, <3>2
        <5>2. QED
          BY <5>1, Zenon DEF C!ExpectedChunkSize
      <4>3. QED
        BY <1>1, <4>1, <4>2
    <3>3. QED
      BY <3>1, <3>2
  <2>5. C!ManifestAccepted'
    BY <1>2, <2>2, <2>3, <2>4 DEF C!ManifestAccepted
  <2>6. QED
    BY <1>1, <2>2, <2>5 DEF ChunkInv
<1>7. CASE left = 0
  <2>1. manifest' = manifest /\ size = n * chunkSize
    BY <1>1, <1>3, <1>7
  <2>2. C!ExpectedChunkCount' = n
    BY <1>2, <1>5, <1>7
  <2>3. ASSUME NEW i \in 1..n
        PROVE  manifest'[i] = C!ExpectedChunkSize(i - 1)'
    <3>1. CASE i = n
      <4>1. size - (n - 1) * chunkSize = chunkSize
        BY <1>1, <1>2, <2>1
      <4>2. C!ExpectedChunkSize(i - 1)' = size - (n - 1) * chunkSize
        <5> HIDE DEF n
        <5>1. i - 1 = n - 1 /\ ~(i - 1 < C!ExpectedChunkCount' - 1)
          BY <1>2, <2>2, <3>1
        <5>2. C!ExpectedChunkSize(i - 1)' = size' - (i - 1) * chunkSize'
          BY <5>1, SMT DEF C!ExpectedChunkSize
        <5>3. QED
          BY <5>1, <5>2, <1>1, Zenon
      <4>3. QED
        BY <1>1, <2>1, <4>1, <4>2
    <3>2. CASE i # n
      BY <1>1, <1>2, <2>1, <2>2, <3>2 DEF C!ExpectedChunkSize
    <3>3. QED
      BY <3>1, <3>2
  <2>4. C!ManifestAccepted'
    BY <1>1, <1>2, <2>1, <2>2, <2>3 DEF C!ManifestAccepted
  <2>5. QED
    BY <1>1, <2>1, <2>4 DEF ChunkInv
<1>8. QED
  BY <1>3, <1>6, <1>7

LEMMA ChunkNext ==
  ASSUME ChunkInv, [C!Next]_chunkVars
  PROVE  ChunkInv'
<1>1. CASE UNCHANGED chunkVars
  BY <1>1 DEF chunkVars, ChunkInv, ReadSoFar, C!ManifestAccepted, C!ExpectedChunkCount, C!ExpectedChunkSize
<1>2. QED
  BY <1>1, ReadWholeStep, ReadEndStep DEF C!Next

(***************************************************************************)
(* For every size of file and of chunk the manifest BuildManifest reads    *)
(* has the number of chunks validateRequest divides for, and each chunk    *)
(* the size UploadChunk expects.                                           *)
(***************************************************************************)
THEOREM ManifestsAgree == Spec => []ManifestAccepted
<1> DEFINE Inv == chosen = "chunks" => ChunkInv
<1>1. Init => Inv
  BY ChunkInit DEF Init
<1>2. Inv /\ [Next]_vars => Inv'
  <2>1. ASSUME Inv, [Next]_vars, chosen' = "chunks" PROVE ChunkInv'
    <3>1. chosen = "chunks" /\ [C!Next]_chunkVars
      BY <2>1 DEF Next, vars
    <3>2. QED
      BY <2>1, <3>1, ChunkNext
  <2>2. QED
    BY <2>1
<1>3. Inv => ManifestAccepted
  BY DEF ChunkInv, ManifestAccepted
<1>4. QED
  BY <1>1, <1>2, <1>3, PTL DEF Spec
=============================================================================
