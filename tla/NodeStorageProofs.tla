------------------------- MODULE NodeStorageProofs -------------------------
(***************************************************************************)
(* Proofs about NodeStorage, for every number of chunks, contents, upload  *)
(* and completion requests and cleaner passes, interrupted or not.         *)
(***************************************************************************)
EXTENDS NodeStorage, TLAPS

(***************************************************************************)
(* While the file is UPLOADING its rows only grow, so a completion that    *)
(* found all of them still has them; past the whole-file hash they are     *)
(* genuine.                                                                *)
(***************************************************************************)
PlanIsCurrent ==
  \A k \in Completions :
    completion[k] # Idle /\ fileRow = "UPLOADING" => completion[k].plan = rows

VerifiedIsGenuine ==
  \A k \in Completions :
    completion[k].pc = "committing" => \A i \in Chunks : completion[k].plan[i] = Genuine

IndInv == TypeOK /\ PlanIsCurrent /\ VerifiedIsGenuine /\ CompletedIsGenuine

UploadSteps == {"writing", "recording", "inserting", "checking", "discarding", "aborting"}
CompletionSteps == {"assembling", "committing", "discarding", "aborting"}

UploadStates ==
  {Idle} \cup [pc : UploadSteps, index : Chunks, content : Contents]

CompletionStates ==
  {Idle} \cup [pc : CompletionSteps,
               next : 0 .. ChunkCount, plan : [Chunks -> Contents]]

USE DEF UploadSteps, CompletionSteps

-----------------------------------------------------------------------------
(***************************************************************************)
(* Moving a request to another step keeps what it carries.                 *)
(***************************************************************************)
LEMMA UploadMoved ==
  ASSUME NEW s \in UploadStates, s # Idle,
         NEW pc \in UploadSteps
  PROVE  [s EXCEPT !.pc = pc] \in UploadStates
  BY DEF UploadStates

LEMMA CompletionMoved ==
  ASSUME NEW s \in CompletionStates, s # Idle,
         NEW pc \in CompletionSteps
  PROVE  /\ [s EXCEPT !.pc = pc] \in CompletionStates
         /\ [s EXCEPT !.pc = pc].pc = pc
         /\ [s EXCEPT !.pc = pc].plan = s.plan
         /\ [s EXCEPT !.pc = pc] # Idle
<1>1. s \in [pc : CompletionSteps,
             next : 0 .. ChunkCount, plan : [Chunks -> Contents]]
  BY DEF CompletionStates
<1>2. [s EXCEPT !.pc = pc] \in [pc : CompletionSteps,
             next : 0 .. ChunkCount, plan : [Chunks -> Contents]]
  BY <1>1
<1>3. [s EXCEPT !.pc = pc].pc = pc /\ [s EXCEPT !.pc = pc].plan = s.plan
  BY <1>1
<1>4. [s EXCEPT !.pc = pc] # Idle
  BY <1>3 DEF Idle
<1>5. QED
  BY <1>2, <1>3, <1>4 DEF CompletionStates

-----------------------------------------------------------------------------
LEMMA UploadPreserves ==
  ASSUME IndInv, NEW u \in Uploads, UploadStep(u)
  PROVE  IndInv'
<1>1. /\ TypeOK /\ PlanIsCurrent /\ VerifiedIsGenuine /\ CompletedIsGenuine
      /\ upload \in [Uploads -> UploadStates]
      /\ completion \in [Completions -> CompletionStates]
  BY DEF IndInv, TypeOK, UploadStates, CompletionStates
<1>2. UNCHANGED <<fileRow, due, completion, pass, deletion>>
  BY DEF UploadStep, PrepareChunkUpload, AbandonUpload, PublishChunk, BeginInsert,
     InsertChunk, CheckChunk, InterruptRecord, DiscardChunk, removalVars
<1>3. rows' = rows \/ (upload[u] # Idle /\ rows' = RowsAfterInsert(u))
  BY DEF UploadStep, PrepareChunkUpload, AbandonUpload, PublishChunk, BeginInsert,
     InsertChunk, CheckChunk, InterruptRecord, DiscardChunk, Idle
<1>4. upload[u] # Idle => /\ upload[u].index \in Chunks
                          /\ upload[u].content \in Contents
                          /\ PathOf(u) \in Paths
  BY <1>1 DEF UploadStates, PathOf, Paths, Bodies
<1>5. upload' \in [Uploads -> UploadStates]
  <2>1. ASSUME NEW pc \in UploadSteps,
               upload[u] # Idle, SetUpload(u, pc)
        PROVE  upload' \in [Uploads -> UploadStates]
    BY <2>1, <1>1, UploadMoved DEF SetUpload
  <2>2. ASSUME EndUpload(u)
        PROVE  upload' \in [Uploads -> UploadStates]
    BY <2>2, <1>1 DEF EndUpload, UploadStates
  <2>3. ASSUME NEW i \in Chunks, NEW c \in Contents, PrepareChunkUpload(u, i, c)
        PROVE  upload' \in [Uploads -> UploadStates]
    BY <2>3, <1>1 DEF PrepareChunkUpload, UploadStates
  <2>4. QED
    BY <2>1, <2>2, <2>3
    DEF UploadStep, AbandonUpload, PublishChunk, BeginInsert, InsertChunk,
        CheckChunk, InterruptRecord, DiscardChunk, Idle
<1>6. disk' \subseteq Paths /\ lost' \subseteq Paths /\ overlapped' \in BOOLEAN
  BY <1>1, <1>4
  DEF TypeOK, historyVars, UploadStep, PrepareChunkUpload, AbandonUpload, PublishChunk, BeginInsert,
      InsertChunk, CheckChunk, InterruptRecord, DiscardChunk, Idle
<1>7. rows' \in [Chunks -> Contents \cup {NoRow}]
  BY <1>1, <1>3, <1>4 DEF TypeOK, RowsAfterInsert
<1>8. TypeOK'
  BY <1>1, <1>2, <1>5, <1>6, <1>7 DEF TypeOK, UploadStates
<1>9. rows' # rows => \E i \in Chunks : rows[i] = NoRow
  BY <1>3, <1>4 DEF RowsAfterInsert, Inserts
<1>10. PlanIsCurrent'
  <2> SUFFICES ASSUME NEW k \in Completions, completion[k] # Idle, fileRow = "UPLOADING"
               PROVE  completion[k].plan = rows'
    BY <1>2 DEF PlanIsCurrent
  <2>1. completion[k].plan = rows
    BY <1>1 DEF PlanIsCurrent
  <2>2. completion[k].plan \in [Chunks -> Contents]
    BY <1>1 DEF CompletionStates
  <2>3. \A i \in Chunks : rows[i] # NoRow
    BY <2>1, <2>2, NoRowAssumption
  <2>4. QED
    BY <2>1, <2>3, <1>9
<1>11. VerifiedIsGenuine'
  BY <1>1, <1>2 DEF VerifiedIsGenuine
<1>12. CompletedIsGenuine'
  BY <1>1, <1>2, <1>9, ContentAssumption, NoRowAssumption DEF CompletedIsGenuine
<1>13. QED
  BY <1>8, <1>10, <1>11, <1>12 DEF IndInv

-----------------------------------------------------------------------------
(***************************************************************************)
(* The steps of a completion, each of which leaves the rows alone.         *)
(***************************************************************************)
LEMMA CompletionPreserves ==
  ASSUME IndInv, NEW k \in Completions, CompletionStep(k)
  PROVE  IndInv'
<1>1. /\ TypeOK /\ PlanIsCurrent /\ VerifiedIsGenuine /\ CompletedIsGenuine
      /\ completion \in [Completions -> CompletionStates]
  BY DEF IndInv, TypeOK, CompletionStates
<1>2. UNCHANGED <<rows, due, upload, pass, deletion>>
  BY DEF CompletionStep, PrepareFileCompletion, AssembleChunk, AbandonCompletion,
     PublishFile, CompleteFile, InterruptCommit, DiscardFile, removalVars
<1>3. disk' \subseteq Paths /\ lost' \subseteq Paths /\ overlapped' \in BOOLEAN
  BY <1>1
  DEF CompletionStep, PrepareFileCompletion, AssembleChunk, AbandonCompletion,
      PublishFile, CompleteFile, InterruptCommit, DiscardFile, TypeOK, Paths, historyVars
<1>4. \/ fileRow' = fileRow
      \/ /\ completion[k].pc = "committing"
         /\ fileRow = "UPLOADING"
         /\ fileRow' = "AVAILABLE_ON_NODE"
  BY DEF CompletionStep, PrepareFileCompletion, AssembleChunk, AbandonCompletion,
     PublishFile, CompleteFile, InterruptCommit, DiscardFile, Committed
<1> DEFINE new == completion'[k]
<1>5. /\ completion' = [completion EXCEPT ![k] = new]
      /\ new \in CompletionStates
      /\ new # Idle => new.plan = rows \/ (completion[k] # Idle /\ new.plan = completion[k].plan)
      /\ new.pc = "committing" => \A i \in Chunks : new.plan[i] = Genuine
  <2> DEFINE Good == /\ completion' = [completion EXCEPT ![k] = new]
                     /\ new \in CompletionStates
                     /\ new # Idle => \/ new.plan = rows
                                      \/ completion[k] # Idle /\ new.plan = completion[k].plan
                     /\ new.pc = "committing" => \A i \in Chunks : new.plan[i] = Genuine
  <2>1. ASSUME EndCompletion(k) PROVE Good
    <3>1. new = Idle
      BY <2>1, <1>1 DEF EndCompletion
    <3>2. completion' = [completion EXCEPT ![k] = new]
      BY <2>1, <3>1 DEF EndCompletion
    <3>3. QED
      BY <3>1, <3>2 DEF CompletionStates, Idle
  <2>2. ASSUME NEW pc \in CompletionSteps,
               completion[k] # Idle, SetCompletion(k, pc),
               pc = "committing" => \A i \in Chunks : completion[k].plan[i] = Genuine
        PROVE  Good
    <3>1. new = [completion[k] EXCEPT !.pc = pc]
      BY <2>2, <1>1 DEF SetCompletion
    <3>2. completion' = [completion EXCEPT ![k] = new]
      BY <2>2, <3>1 DEF SetCompletion
    <3> DEFINE old == completion[k]
               moved == [old EXCEPT !.pc = pc]
    <3>3. old \in CompletionStates /\ old # Idle
      BY <2>2, <1>1
    <3>4. new = moved
      BY <3>1
    <3> HIDE DEF old, new
    <3>5. moved \in CompletionStates /\ moved.pc = pc /\ moved.plan = old.plan
      BY <2>2, <3>3, CompletionMoved
    <3>6. new \in CompletionStates /\ new.pc = pc /\ new.plan = old.plan
      BY <3>4, <3>5
    <3>7. QED
      BY <2>2, <3>2, <3>6 DEF new, old
  <2>3. CASE PrepareFileCompletion(k)
    <3>1. new = [pc |-> "assembling", next |-> 0, plan |-> rows]
      BY <2>3, <1>1 DEF PrepareFileCompletion
    <3>2. completion' = [completion EXCEPT ![k] = new]
      BY <2>3, <3>1 DEF PrepareFileCompletion
    <3>3. rows \in [Chunks -> Contents]
      BY <2>3, <1>1 DEF PrepareFileCompletion, AllRecorded, TypeOK
    <3>4. 0 \in 0 .. ChunkCount
      BY ChunkAssumption
    <3>5. QED
      BY <3>1, <3>2, <3>3, <3>4 DEF CompletionStates
  <2>4. CASE AssembleChunk(k)
    <3>1. /\ completion[k] # Idle /\ completion[k].pc = "assembling"
          /\ completion[k].next < ChunkCount
      BY <2>4 DEF AssembleChunk, Idle
    <3>2. completion[k] \in [pc : CompletionSteps,
                             next : 0 .. ChunkCount, plan : [Chunks -> Contents]]
      BY <3>1, <1>1 DEF CompletionStates
    <3>3. new = [completion[k] EXCEPT !.next = @ + 1]
      BY <2>4, <1>1 DEF AssembleChunk
    <3>4. completion' = [completion EXCEPT ![k] = new]
      BY <2>4, <3>3 DEF AssembleChunk
    <3>5. completion[k].next + 1 \in 0 .. ChunkCount
      BY <3>1, <3>2, ChunkAssumption
    <3>6. new \in CompletionStates /\ new.pc = "assembling" /\ new.plan = completion[k].plan
      BY <3>1, <3>2, <3>3, <3>5 DEF CompletionStates
    <3>7. QED
      BY <3>1, <3>4, <3>6
  <2>5. CASE PublishFile(k)
    BY <2>2, <2>5 DEF PublishFile, WholeHashMatches, Idle
  <2>6. CASE CompleteFile(k) \/ InterruptCommit(k)
    BY <2>1, <2>2, <2>6 DEF CompleteFile, InterruptCommit, Idle
  <2>7. CASE AbandonCompletion(k) \/ DiscardFile(k)
    BY <2>1, <2>7 DEF AbandonCompletion, DiscardFile
  <2>8. QED
    BY <2>3, <2>4, <2>5, <2>6, <2>7 DEF CompletionStep
<1>6. \A j \in Completions : j # k => completion'[j] = completion[j]
  BY <1>1, <1>5
<1> HIDE DEF new
<1>7. TypeOK'
  <2>1. completion' \in [Completions -> CompletionStates]
    BY <1>1, <1>5
  <2>2. fileRow' \in {"UPLOADING", "AVAILABLE_ON_NODE", "EXPIRED"}
    BY <1>1, <1>4 DEF TypeOK
  <2>3. QED
    BY <1>1, <1>2, <1>3, <2>1, <2>2 DEF TypeOK, CompletionStates
<1>8. PlanIsCurrent'
  <2> SUFFICES ASSUME NEW j \in Completions, completion'[j] # Idle, fileRow' = "UPLOADING"
               PROVE  completion'[j].plan = rows
    BY <1>2 DEF PlanIsCurrent
  <2>1. fileRow = "UPLOADING"
    BY <1>4
  <2>2. CASE j = k
    BY <2>1, <2>2, <1>1, <1>5 DEF PlanIsCurrent, new
  <2>3. CASE j # k
    BY <2>1, <2>3, <1>1, <1>6 DEF PlanIsCurrent
  <2>4. QED
    BY <2>2, <2>3
<1>9. VerifiedIsGenuine'
  BY <1>1, <1>5, <1>6 DEF VerifiedIsGenuine, new
<1>10. CompletedIsGenuine'
  <2>1. CASE fileRow' = fileRow
    BY <2>1, <1>1, <1>2 DEF CompletedIsGenuine
  <2>2. CASE completion[k].pc = "committing" /\ fileRow = "UPLOADING"
    <3>1. completion[k].plan = rows
      BY <2>2, <1>1 DEF PlanIsCurrent, Idle
    <3>2. QED
      BY <2>2, <3>1, <1>1, <1>2 DEF VerifiedIsGenuine, CompletedIsGenuine
  <2>3. QED
    BY <2>1, <2>2, <1>4
<1>11. QED
  BY <1>7, <1>8, <1>9, <1>10 DEF IndInv

-----------------------------------------------------------------------------
PassStates == {Idle} \cup [pc : {"listing", "removing", "marking"}, todo : SUBSET Paths]

DeletionStates ==
  {Idle} \cup [pc : {"selected", "removing", "done"}, todo : SUBSET Paths]

LEMMA RecordedPaths ==
  ASSUME TypeOK
  PROVE  Recorded(rows) \subseteq Paths
  BY DEF TypeOK, Recorded, Paths, Bodies

LEMMA PassPreserves ==
  ASSUME IndInv, NEW w \in Passes, PassStep(w)
  PROVE  IndInv'
<1>1. /\ TypeOK /\ PlanIsCurrent /\ VerifiedIsGenuine /\ CompletedIsGenuine
      /\ pass \in [Passes -> PassStates]
  BY DEF IndInv, TypeOK, PassStates
<1>2. UNCHANGED <<due, upload, completion, deletion, lost, overlapped>>
  BY DEF PassStep, SelectFile, SelectChunks, RemoveBody, DeleteChunks,
     MarkFileExpired, AbandonPass, requestVars, historyVars
<1>3. \/ fileRow' = fileRow /\ rows' = rows
      \/ /\ fileRow' = "EXPIRED"
         /\ rows' \in [Chunks -> Contents \cup {NoRow}]
  <2>1. RowsAfterExpiry(w) \in [Chunks -> Contents \cup {NoRow}]
    BY <1>1 DEF TypeOK, RowsAfterExpiry
  <2>2. QED
    BY <2>1 DEF PassStep, SelectFile, SelectChunks, RemoveBody, DeleteChunks,
       MarkFileExpired, AbandonPass
<1>4. disk' \subseteq Paths
  BY <1>1
  DEF TypeOK, PassStep, SelectFile, SelectChunks, RemoveBody, DeleteChunks,
      MarkFileExpired, AbandonPass
<1>5. pass' \in [Passes -> PassStates]
  <2>1. pass[w] # Idle =>
          pass[w] \in [pc : {"listing", "removing", "marking"}, todo : SUBSET Paths]
    BY <1>1 DEF PassStates
  <2>2. CASE SelectFile(w)
    <3>1. (IF fileRow = "UPLOADING" THEN {} ELSE {Whole}) \subseteq Paths
      BY DEF Paths
    <3>2. QED
      BY <1>1, <2>2, <3>1 DEF SelectFile, PassStates
  <2>3. CASE SelectChunks(w)
    <3>1. pass[w] # Idle
      BY <2>3 DEF SelectChunks, Idle
    <3>2. pass[w].todo \cup Recorded(rows) \in SUBSET Paths
      BY <1>1, <2>1, <3>1, RecordedPaths
    <3>3. QED
      BY <1>1, <2>3, <3>2 DEF SelectChunks, PassStates
  <2>4. ASSUME NEW p \in Paths, RemoveBody(w, p)
        PROVE  pass' \in [Passes -> PassStates]
    <3>1. pass[w] # Idle
      BY <2>4 DEF RemoveBody, Idle
    <3>2. [pass[w] EXCEPT !.todo = @ \ {p}] \in PassStates
      BY <2>1, <3>1 DEF PassStates
    <3>3. QED
      BY <1>1, <2>4, <3>2 DEF RemoveBody
  <2>5. CASE DeleteChunks(w) \/ MarkFileExpired(w) \/ AbandonPass(w)
    <3>1. Recorded(rows) \in SUBSET Paths
      BY <1>1, RecordedPaths
    <3>2. QED
      BY <1>1, <2>5, <3>1 DEF DeleteChunks, MarkFileExpired, AbandonPass, PassStates
  <2>6. QED
    BY <2>2, <2>3, <2>4, <2>5 DEF PassStep
<1>6. TypeOK'
  BY <1>1, <1>2, <1>3, <1>4, <1>5 DEF TypeOK, PassStates
<1>7. PlanIsCurrent' /\ VerifiedIsGenuine' /\ CompletedIsGenuine'
  BY <1>1, <1>2, <1>3 DEF PlanIsCurrent, VerifiedIsGenuine, CompletedIsGenuine
<1>8. QED
  BY <1>6, <1>7 DEF IndInv

LEMMA DeletionPreserves ==
  ASSUME IndInv, DeletionStep
  PROVE  IndInv'
<1>1. /\ TypeOK /\ PlanIsCurrent /\ VerifiedIsGenuine /\ CompletedIsGenuine
      /\ deletion \in DeletionStates
  BY DEF IndInv, TypeOK, DeletionStates
<1>2. UNCHANGED <<rows, due, upload, completion, pass, lost, overlapped>>
  BY DEF DeletionStep, SelectGroupContent, DeleteAdminGroupContent, RemoveGroupContent,
     EndDeletion, requestVars, historyVars
<1>3. fileRow' \in {fileRow, "EXPIRED"}
  BY DEF DeletionStep, SelectGroupContent, DeleteAdminGroupContent, RemoveGroupContent,
     EndDeletion
<1>4. disk' \subseteq Paths
  BY <1>1
  DEF TypeOK, DeletionStep, SelectGroupContent, DeleteAdminGroupContent,
      RemoveGroupContent, EndDeletion
<1>5. deletion' \in DeletionStates
  <2>1. deletion # Idle =>
          deletion \in [pc : {"selected", "removing", "done"}, todo : SUBSET Paths]
    BY <1>1 DEF DeletionStates
  <2>2. CASE SelectGroupContent
    <3>1. (Recorded(rows) \cup IF fileRow = "AVAILABLE_ON_NODE" THEN {Whole} ELSE {})
            \in SUBSET Paths
      BY <1>1, RecordedPaths DEF Paths
    <3>2. QED
      BY <2>2, <3>1 DEF SelectGroupContent, DeletionStates
  <2>3. CASE DeleteAdminGroupContent
    BY <2>1, <2>3 DEF DeleteAdminGroupContent, DeletionStates, Idle
  <2>4. ASSUME NEW p \in Paths, RemoveGroupContent(p)
        PROVE  deletion' \in DeletionStates
    BY <2>1, <2>4 DEF RemoveGroupContent, DeletionStates, Idle
  <2>5. CASE EndDeletion
    BY <1>1, <2>5 DEF EndDeletion, Ended, DeletionStates
  <2>6. QED
    BY <2>2, <2>3, <2>4, <2>5 DEF DeletionStep
<1>6. TypeOK'
  BY <1>1, <1>2, <1>3, <1>4, <1>5 DEF TypeOK, DeletionStates
<1>7. PlanIsCurrent' /\ VerifiedIsGenuine' /\ CompletedIsGenuine'
  BY <1>1, <1>2, <1>3 DEF PlanIsCurrent, VerifiedIsGenuine, CompletedIsGenuine
<1>8. QED
  BY <1>6, <1>7 DEF IndInv

LEMMA CrashPreserves ==
  ASSUME IndInv, Crash
  PROVE  IndInv'
<1>1. TypeOK /\ CompletedIsGenuine
  BY DEF IndInv
<1>2. deletion' \in DeletionStates
  BY <1>1 DEF Crash, Ended, TypeOK, DeletionStates
<1>3. TypeOK'
  BY <1>1, <1>2 DEF Crash, TypeOK, DeletionStates, historyVars
<1>4. PlanIsCurrent' /\ VerifiedIsGenuine'
  BY DEF Crash, PlanIsCurrent, VerifiedIsGenuine, Idle
<1>5. CompletedIsGenuine'
  BY <1>1 DEF Crash, CompletedIsGenuine
<1>6. QED
  BY <1>3, <1>4, <1>5 DEF IndInv

-----------------------------------------------------------------------------
(***************************************************************************)
(* The invariant behind CompletedIsGenuine holds of every step.            *)
(***************************************************************************)
LEMMA NextPreserves ==
  ASSUME IndInv, [Next]_vars
  PROVE  IndInv'
<1>1. CASE BecomeDue \/ UNCHANGED vars
  <2>1. /\ UNCHANGED <<fileRow, rows, disk, upload, completion, pass, deletion, lost, overlapped>>
        /\ due' \in BOOLEAN
    BY <1>1 DEF BecomeDue, vars, requestVars, removalVars, historyVars, IndInv, TypeOK
  <2>2. TypeOK'
    BY <2>1 DEF IndInv, TypeOK
  <2>3. PlanIsCurrent' /\ VerifiedIsGenuine' /\ CompletedIsGenuine'
    BY <2>1 DEF IndInv, PlanIsCurrent, VerifiedIsGenuine, CompletedIsGenuine
  <2>4. QED
    BY <2>2, <2>3 DEF IndInv
<1>2. ASSUME NEW u \in Uploads, UploadStep(u) PROVE IndInv'
  BY <1>2, UploadPreserves
<1>3. ASSUME NEW k \in Completions, CompletionStep(k) PROVE IndInv'
  BY <1>3, CompletionPreserves
<1>4. ASSUME NEW w \in Passes, PassStep(w) PROVE IndInv'
  BY <1>4, PassPreserves
<1>5. CASE DeletionStep \/ Crash
  BY <1>5, DeletionPreserves, CrashPreserves
<1>6. QED
  BY <1>1, <1>2, <1>3, <1>4, <1>5 DEF Next

THEOREM Inductive == Spec => []IndInv
<1>1. Init => IndInv
  <2> SUFFICES ASSUME Init PROVE IndInv
    OBVIOUS
  <2>1. TypeOK
    BY DEF Init, TypeOK, Paths
  <2>2. PlanIsCurrent /\ VerifiedIsGenuine /\ CompletedIsGenuine
    BY DEF Init, PlanIsCurrent, VerifiedIsGenuine, CompletedIsGenuine, Idle
  <2>3. QED
    BY <2>1, <2>2 DEF IndInv
<1>2. IndInv /\ [Next]_vars => IndInv'
  BY NextPreserves
<1>3. QED
  BY <1>1, <1>2, PTL DEF Spec

(***************************************************************************)
(* Rows, bodies and requests keep their types.                             *)
(***************************************************************************)
THEOREM TypeCorrect == Spec => []TypeOK
<1>1. IndInv => TypeOK
  BY DEF IndInv
<1>2. QED
  BY <1>1, Inductive, PTL

(***************************************************************************)
(* A file becomes AVAILABLE_ON_NODE only with the sender's content in      *)
(* every chunk row, and no interleaving of uploads, completions, passes,   *)
(* deletions, interrupted statements and crashes changes one afterwards.   *)
(***************************************************************************)
THEOREM CompletedGenuine == Spec => []CompletedIsGenuine
<1>1. IndInv => CompletedIsGenuine
  BY DEF IndInv
<1>2. QED
  BY <1>1, Inductive, PTL

(***************************************************************************)
(* A recorded chunk never changes its content and disappears only when the *)
(* file expires.                                                           *)
(***************************************************************************)
THEOREM ChunksImmutable == Spec => RowsImmutable
<1> DEFINE Kept == \A i \in Chunks : rows[i] # NoRow =>
                     \/ rows'[i] = rows[i]
                     \/ rows'[i] = NoRow /\ fileRow' = "EXPIRED"
<1>1. ASSUME TypeOK, [Next]_vars PROVE Kept
  <2>1. ASSUME NEW u \in Uploads, UploadStep(u) PROVE Kept
    <3>1. rows' = rows \/ rows' = RowsAfterInsert(u)
      BY <2>1
      DEF UploadStep, PrepareChunkUpload, AbandonUpload, PublishChunk, BeginInsert,
          InsertChunk, CheckChunk, InterruptRecord, DiscardChunk
    <3>2. QED
      BY <1>1, <3>1 DEF RowsAfterInsert, Inserts, TypeOK
  <2>2. ASSUME NEW k \in Completions, CompletionStep(k) PROVE Kept
    BY <2>2
    DEF CompletionStep, PrepareFileCompletion, AssembleChunk, AbandonCompletion,
        PublishFile, CompleteFile, InterruptCommit, DiscardFile
  <2>3. ASSUME NEW w \in Passes, PassStep(w) PROVE Kept
    BY <2>3
    DEF PassStep, SelectFile, SelectChunks, RemoveBody, DeleteChunks,
        MarkFileExpired, AbandonPass, RowsAfterExpiry
  <2>4. CASE DeletionStep \/ BecomeDue \/ Crash \/ UNCHANGED vars
    BY <2>4
    DEF DeletionStep, SelectGroupContent, DeleteAdminGroupContent, RemoveGroupContent,
        EndDeletion, BecomeDue, Crash, vars
  <2>5. QED
    BY <1>1, <2>1, <2>2, <2>3, <2>4 DEF Next
<1>2. TypeOK /\ [Next]_vars => [Kept]_vars
  BY <1>1
<1>3. QED
  BY <1>2, TypeCorrect, PTL DEF Spec, RowsImmutable

(***************************************************************************)
(* An expired file is never made available again, whatever completions     *)
(* were in flight when it expired.                                         *)
(***************************************************************************)
THEOREM ExpiredStays == Spec => ExpiredFileStays
<1> DEFINE Kept == fileRow = "EXPIRED" => fileRow' = "EXPIRED"
<1>1. ASSUME [Next]_vars PROVE Kept
  <2>1. ASSUME NEW u \in Uploads, UploadStep(u) PROVE Kept
    BY <2>1
    DEF UploadStep, PrepareChunkUpload, AbandonUpload, PublishChunk, BeginInsert,
        InsertChunk, CheckChunk, InterruptRecord, DiscardChunk
  <2>2. ASSUME NEW k \in Completions, CompletionStep(k) PROVE Kept
    BY <2>2
    DEF CompletionStep, PrepareFileCompletion, AssembleChunk, AbandonCompletion,
        PublishFile, CompleteFile, InterruptCommit, DiscardFile, Committed
  <2>3. ASSUME NEW w \in Passes, PassStep(w) PROVE Kept
    BY <2>3
    DEF PassStep, SelectFile, SelectChunks, RemoveBody, DeleteChunks, MarkFileExpired,
        AbandonPass
  <2>4. CASE DeletionStep \/ BecomeDue \/ Crash \/ UNCHANGED vars
    BY <2>4
    DEF DeletionStep, SelectGroupContent, DeleteAdminGroupContent, RemoveGroupContent,
        EndDeletion, BecomeDue, Crash, vars
  <2>5. QED
    BY <1>1, <2>1, <2>2, <2>3, <2>4 DEF Next
<1>2. [Next]_vars => [Kept]_vars
  BY <1>1
<1>3. QED
  BY <1>2, PTL DEF Spec, ExpiredFileStays

-----------------------------------------------------------------------------
(***************************************************************************)
(* Stored bodies.  Accounted objects are on the disk or were removed by an *)
(* interrupted request.  An upload past the rename has its body accounted  *)
(* for, or its row belongs to another content; one that is going to remove *)
(* its body without having been interrupted has found such a row.  Passes  *)
(* and the deletion remove bodies only of files that are due or EXPIRED.   *)
(***************************************************************************)
Accounted == disk \cup lost

RemovalsDue ==
  /\ ~due => \A w \in Passes : pass[w] = Idle
  /\ deletion.pc = "removing" => fileRow = "EXPIRED"

Taken(u) == rows[upload[u].index] \notin {NoRow, upload[u].content}

UploadsCareful ==
  fileRow # "EXPIRED" =>
    \A u \in Uploads :
      /\ upload[u].pc = "checking" => rows[upload[u].index] # NoRow
      /\ upload[u].pc = "discarding" => Taken(u)

UploadsStored ==
  fileRow # "EXPIRED" /\ ~due =>
    \A u \in Uploads : upload[u].pc \in {"recording", "inserting"} => PathOf(u) \in Accounted \/ Taken(u)

BodiesInv == RemovalsDue /\ UploadsCareful /\ UploadsStored /\ RecordedBodiesStored

(***************************************************************************)
(* The assembled file, while completions have not overlapped: only the     *)
(* completion under way can make the file available, so one that fails to  *)
(* has met an EXPIRED file, unless it was interrupted.                     *)
(***************************************************************************)
CompletionAlone ==
  ~overlapped =>
    /\ \A k, l \in Completions :
         completion[k].pc # "idle" /\ completion[l].pc # "idle" => k = l
    /\ \A k \in Completions :
         /\ completion[k].pc \in {"assembling", "committing"} => fileRow # "AVAILABLE_ON_NODE"
         /\ completion[k].pc = "discarding" => fileRow = "EXPIRED"
         /\ completion[k].pc = "committing" /\ ~due /\ fileRow # "EXPIRED" => Whole \in Accounted

WholeInv == RemovalsDue /\ CompletionAlone /\ AssembledFileKept

LEMMA RecordedStored ==
  ASSUME NEW content, NEW stored
  PROVE  Recorded(content) \subseteq stored <=>
           \A i \in Chunks : content[i] # NoRow => <<i, content[i]>> \in stored
  BY DEF Recorded

LEMMA WholeIsNoBody ==
  /\ \A p \in Bodies : p # Whole
  /\ \A i, c : <<i, c>> # Whole
  BY DEF Bodies, Whole

LEMMA MovedUpload ==
  ASSUME NEW u \in Uploads, upload \in [Uploads -> UploadStates], upload[u] # Idle,
         NEW pc \in UploadSteps,
         SetUpload(u, pc)
  PROVE  /\ \A v \in Uploads : v # u => upload'[v] = upload[v]
         /\ upload'[u].pc = pc
         /\ upload'[u].index = upload[u].index /\ upload'[u].content = upload[u].content
         /\ upload[u].index \in Chunks /\ upload[u].content \in Contents
<1>1. upload[u] \in [pc : UploadSteps, index : Chunks, content : Contents]
  BY DEF UploadStates
<1>2. upload' = [upload EXCEPT ![u] = [upload[u] EXCEPT !.pc = pc]]
  BY DEF SetUpload
<1>3. QED
  BY <1>1, <1>2

LEMMA EndedUpload ==
  ASSUME NEW u \in Uploads, upload \in [Uploads -> UploadStates], EndUpload(u)
  PROVE  /\ \A v \in Uploads : v # u => upload'[v] = upload[v]
         /\ upload'[u].pc = "idle"
  BY DEF EndUpload, Idle

\* Rows only appear, for a free index, while the file is not expired.
LEMMA InsertedRow ==
  ASSUME NEW u \in Uploads, rows \in [Chunks -> Contents \cup {NoRow}],
         upload[u].index \in Chunks, rows' = RowsAfterInsert(u)
  PROVE  \A i \in Chunks :
           rows'[i] = IF i = upload[u].index /\ rows[i] = NoRow THEN upload[u].content ELSE rows[i]
  BY DEF RowsAfterInsert, Inserts

LEMMA UploadKeepsBodies ==
  ASSUME IndInv, BodiesInv, NEW u \in Uploads, UploadStep(u)
  PROVE  BodiesInv'
<1>1. /\ rows \in [Chunks -> Contents \cup {NoRow}]
      /\ upload \in [Uploads -> UploadStates]
  BY DEF IndInv, TypeOK, UploadStates
<1>2. UNCHANGED <<fileRow, due, completion, pass, deletion>>
  BY DEF UploadStep, PrepareChunkUpload, AbandonUpload, PublishChunk, BeginInsert,
     InsertChunk, CheckChunk, InterruptRecord, DiscardChunk, removalVars
<1>3. RemovalsDue'
  BY <1>2 DEF BodiesInv, RemovalsDue
<1>4. \A v \in Uploads : upload[v].pc # "idle" => /\ upload[v].index \in Chunks
                                                  /\ upload[v].content \in Contents
                                                  /\ upload[v] # Idle
  BY <1>1 DEF UploadStates, Idle
<1>5. CASE fileRow = "EXPIRED"
  BY <1>2, <1>3, <1>5 DEF BodiesInv, UploadsCareful, UploadsStored, RecordedBodiesStored
<1>6. ASSUME fileRow # "EXPIRED" PROVE UploadsCareful' /\ UploadsStored' /\ RecordedBodiesStored'
  <2>1. \A v \in Uploads : /\ upload[v].pc = "checking" => rows[upload[v].index] # NoRow
                           /\ upload[v].pc = "discarding" => Taken(v)
    BY <1>6 DEF BodiesInv, UploadsCareful
  <2>2. ~due => \A v \in Uploads : upload[v].pc \in {"recording", "inserting"} => PathOf(v) \in Accounted \/ Taken(v)
    BY <1>6 DEF BodiesInv, UploadsStored
  <2>3. ~due => \A i \in Chunks : rows[i] # NoRow => <<i, rows[i]>> \in Accounted
    BY <1>6, RecordedStored DEF BodiesInv, RecordedBodiesStored, Accounted
  <2>4. SUFFICES
          /\ \A v \in Uploads : /\ upload'[v].pc = "checking" => rows'[upload'[v].index] # NoRow
                                /\ upload'[v].pc = "discarding" => Taken(v)'
          /\ ~due => \A v \in Uploads : upload'[v].pc \in {"recording", "inserting"} => PathOf(v)' \in Accounted' \/ Taken(v)'
          /\ ~due => \A i \in Chunks : rows'[i] # NoRow => <<i, rows'[i]>> \in Accounted'
    <3>1. ~due => Recorded(rows') \subseteq Accounted'
      BY <2>4, RecordedStored
    <3>2. Recorded(rows)' = Recorded(rows')
      BY DEF Recorded
    <3>3. RecordedBodiesStored'
      BY <1>2, <3>1, <3>2 DEF RecordedBodiesStored, Accounted
    <3>4. UploadsCareful' /\ UploadsStored'
      BY <1>2, <2>4 DEF UploadsCareful, UploadsStored
    <3>5. QED
      BY <3>3, <3>4
  <2>5. CASE \E i \in Chunks, c \in Contents : PrepareChunkUpload(u, i, c)
    <3>1. PICK i \in Chunks, c \in Contents : PrepareChunkUpload(u, i, c)
      BY <2>5
    <3>2. /\ \A v \in Uploads : v # u => upload'[v] = upload[v]
          /\ upload'[u].pc = "writing" /\ rows' = rows /\ Accounted' = Accounted
      BY <1>1, <3>1 DEF PrepareChunkUpload, historyVars, Accounted
    <3>3. QED
      BY <2>1, <2>2, <2>3, <3>2 DEF Taken, PathOf
  <2>6. CASE AbandonUpload(u)
    <3>1. /\ \A v \in Uploads : v # u => upload'[v] = upload[v]
          /\ upload'[u].pc = "idle" /\ rows' = rows /\ Accounted' = Accounted
      BY <1>1, <2>6, EndedUpload DEF AbandonUpload, historyVars, Accounted
    <3>2. QED
      BY <2>1, <2>2, <2>3, <3>1 DEF Taken, PathOf
  <2>7. CASE PublishChunk(u)
    <3>1. /\ \A v \in Uploads : v # u => upload'[v] = upload[v]
          /\ upload'[u].pc = "recording" /\ rows' = rows /\ Accounted' = Accounted \cup {PathOf(u)}
          /\ upload'[u].index = upload[u].index /\ upload'[u].content = upload[u].content
      BY <1>1, <1>4, <2>7, MovedUpload DEF PublishChunk, Accounted
    <3>2. QED
      BY <2>1, <2>2, <2>3, <3>1 DEF Taken, PathOf
  <2>8. CASE BeginInsert(u)
    <3>1. /\ \A v \in Uploads : v # u => upload'[v] = upload[v]
          /\ upload'[u].pc = (IF fileRow = "UPLOADING" THEN "inserting" ELSE "checking")
          /\ upload[u].pc = "recording" /\ rows' = rows /\ Accounted' = Accounted
          /\ upload'[u].index = upload[u].index /\ upload'[u].content = upload[u].content
      BY <1>1, <1>4, <2>8, MovedUpload DEF BeginInsert, historyVars, Accounted
    <3>2. fileRow # "UPLOADING" => rows[upload[u].index] # NoRow
      <4>1. fileRow \in {"UPLOADING", "AVAILABLE_ON_NODE", "EXPIRED"} /\ CompletedIsGenuine
        BY DEF IndInv, TypeOK
      <4>2. QED
        BY <1>4, <1>6, <3>1, <4>1, ContentAssumption, NoRowAssumption DEF CompletedIsGenuine
    <3>3. QED
      BY <2>1, <2>2, <2>3, <3>1, <3>2 DEF Taken, PathOf
  <2>9. CASE InsertChunk(u)
    <3> DEFINE i == upload[u].index
               c == upload[u].content
    <3>1. /\ upload[u].pc = "inserting" /\ i \in Chunks /\ c \in Contents /\ c # NoRow
          /\ Accounted' = Accounted
      BY <1>4, <2>9, NoRowAssumption DEF InsertChunk, historyVars, Accounted
    <3>2. \A j \in Chunks : rows'[j] = IF j = i /\ rows[j] = NoRow THEN c ELSE rows[j]
      BY <1>1, <2>9, <3>1, InsertedRow DEF InsertChunk
    <3>3. \A v \in Uploads : v # u => upload'[v] = upload[v]
      BY <1>1, <1>4, <2>9, <3>1, EndedUpload, MovedUpload DEF InsertChunk
    <3>4. /\ rows[i] = NoRow => upload'[u].pc = "idle"
          /\ rows[i] # NoRow => upload'[u].pc = "checking" /\ upload'[u].index = i
      BY <1>1, <1>4, <2>9, <3>1, EndedUpload, MovedUpload DEF InsertChunk, Inserts
    <3>5. ~due /\ rows[i] = NoRow => <<i, c>> \in Accounted
      BY <2>2, <3>1 DEF Taken, PathOf
    <3> HIDE DEF i, c
    <3>6. \A v \in Uploads : upload[v].pc # "idle" /\ v # u /\ Taken(v) => Taken(v)'
      BY <1>4, <3>2, <3>3 DEF Taken
    <3>7. \A v \in Uploads : upload[v].pc # "idle" /\ v # u /\ rows[upload[v].index] # NoRow => rows'[upload'[v].index] # NoRow
      BY <1>4, <3>2, <3>3
    <3>8. \A v \in Uploads : v # u => PathOf(v)' = PathOf(v)
      BY <3>3 DEF PathOf
    <3>9. \A v \in Uploads : /\ upload'[v].pc = "checking" => rows'[upload'[v].index] # NoRow
                             /\ upload'[v].pc = "discarding" => Taken(v)'
      BY <2>1, <3>1, <3>2, <3>3, <3>4, <3>6, <3>7
    <3>10. ~due => \A v \in Uploads : upload'[v].pc \in {"recording", "inserting"} => PathOf(v)' \in Accounted' \/ Taken(v)'
      BY <2>2, <3>1, <3>3, <3>4, <3>6, <3>8
    <3>11. ~due => \A j \in Chunks : rows'[j] # NoRow => <<j, rows'[j]>> \in Accounted'
      BY <2>3, <3>1, <3>2, <3>5
    <3>12. QED
      BY <3>9, <3>10, <3>11
  <2>10. CASE CheckChunk(u)
    <3>1. /\ \A v \in Uploads : v # u => upload'[v] = upload[v]
          /\ upload[u].pc = "checking" /\ rows' = rows /\ Accounted' = Accounted
      BY <1>1, <1>4, <2>10, EndedUpload, MovedUpload DEF CheckChunk, historyVars, Accounted
    <3>2. \/ upload'[u].pc = "idle"
          \/ /\ upload'[u].pc = "discarding" /\ ~Matches(u)
             /\ upload'[u].index = upload[u].index /\ upload'[u].content = upload[u].content
      BY <1>1, <1>4, <2>10, <3>1, EndedUpload, MovedUpload DEF CheckChunk
    <3>3. QED
      BY <2>1, <2>2, <2>3, <3>1, <3>2 DEF Taken, PathOf, Matches
  <2>11. CASE InterruptRecord(u)
    <3> DEFINE i == upload[u].index
               c == upload[u].content
    <3>1. /\ upload[u].pc # "idle" /\ i \in Chunks /\ c \in Contents /\ c # NoRow
          /\ Accounted' = Accounted
      BY <1>4, <2>11, NoRowAssumption DEF InterruptRecord, historyVars, Accounted
    <3>2. /\ \A v \in Uploads : v # u => upload'[v] = upload[v]
          /\ upload'[u].pc = "aborting"
      BY <1>1, <1>4, <2>11, <3>1, MovedUpload DEF InterruptRecord
    <3>3. \/ rows' = rows
          \/ /\ upload[u].pc = "inserting"
             /\ \A j \in Chunks : rows'[j] = IF j = i /\ rows[j] = NoRow THEN c ELSE rows[j]
      BY <1>1, <2>11, <3>1, InsertedRow DEF InterruptRecord
    <3>4. ~due /\ upload[u].pc = "inserting" /\ rows[i] = NoRow => <<i, c>> \in Accounted
      BY <2>2, <3>1 DEF Taken, PathOf
    <3> HIDE DEF i, c
    <3>5. \A v \in Uploads : upload[v].pc # "idle" /\ v # u =>
            /\ Taken(v) => Taken(v)'
            /\ rows[upload[v].index] # NoRow => rows'[upload'[v].index] # NoRow
      BY <1>4, <3>1, <3>2, <3>3 DEF Taken
    <3>6. \A v \in Uploads : v # u => PathOf(v)' = PathOf(v)
      BY <3>2 DEF PathOf
    <3>7. \A v \in Uploads : /\ upload'[v].pc = "checking" => rows'[upload'[v].index] # NoRow
                             /\ upload'[v].pc = "discarding" => Taken(v)'
      BY <2>1, <3>2, <3>5
    <3>8. ~due => \A v \in Uploads : upload'[v].pc \in {"recording", "inserting"} => PathOf(v)' \in Accounted' \/ Taken(v)'
      BY <2>2, <3>1, <3>2, <3>5, <3>6
    <3>9. ~due => \A j \in Chunks : rows'[j] # NoRow => <<j, rows'[j]>> \in Accounted'
      BY <2>3, <3>1, <3>3, <3>4
    <3>10. QED
      BY <3>7, <3>8, <3>9
  <2>12. CASE DiscardChunk(u)
    <3>1. /\ \A v \in Uploads : v # u => upload'[v] = upload[v]
          /\ upload'[u].pc = "idle" /\ rows' = rows
      BY <1>1, <2>12, EndedUpload DEF DiscardChunk
    <3>2. \A v \in Uploads : v # u => PathOf(v)' = PathOf(v) /\ Taken(v)' = Taken(v)
      BY <3>1 DEF PathOf, Taken
    <3>3. CASE upload[u].pc = "aborting"
      <4>1. \A p \in Accounted : p \in Accounted'
        BY <2>12, <3>3 DEF DiscardChunk, Accounted
      <4>2. QED
        BY <2>1, <2>2, <2>3, <3>1, <3>2, <4>1
    <3>4. CASE upload[u].pc = "discarding"
      <4>1. Taken(u) /\ \A p \in Accounted : p \in Accounted' \/ p = PathOf(u)
        BY <2>1, <2>12, <3>4 DEF DiscardChunk, Accounted
      <4>2. \A j \in Chunks : rows[j] # NoRow => <<j, rows[j]>> # PathOf(u)
        BY <4>1 DEF Taken, PathOf
      <4>3. \A v \in Uploads : PathOf(v) = PathOf(u) => Taken(v)
        BY <4>1 DEF Taken, PathOf
      <4>4. QED
        BY <2>1, <2>2, <2>3, <3>1, <3>2, <4>1, <4>2, <4>3
    <3>5. QED
      BY <2>12, <3>3, <3>4 DEF DiscardChunk
  <2>13. QED
    BY <2>5, <2>6, <2>7, <2>8, <2>9, <2>10, <2>11, <2>12 DEF UploadStep
<1>7. QED
  BY <1>3, <1>5, <1>6 DEF BodiesInv

\* The steps of the others: rows and uploads stay, and a body goes only when
\* the file is due or expired.
LEMMA OthersKeepBodies ==
  ASSUME BodiesInv, rows' = rows, upload' = upload, RemovalsDue',
         due => due',
         fileRow = "EXPIRED" => fileRow' = "EXPIRED",
         ~due' /\ fileRow' # "EXPIRED" => \A p \in Accounted : p \in Accounted' \/ p = Whole
  PROVE  BodiesInv'
<1>1. UploadsCareful'
  BY DEF BodiesInv, UploadsCareful, Taken
<1>2. \A u \in Uploads : PathOf(u)' = PathOf(u) /\ PathOf(u) # Whole /\ Taken(u)' = Taken(u)
  BY WholeIsNoBody DEF PathOf, Taken
<1>3. UploadsStored'
  <2> SUFFICES ASSUME fileRow' # "EXPIRED", ~due', NEW u \in Uploads,
                      upload[u].pc \in {"recording", "inserting"}
               PROVE  PathOf(u)' \in Accounted' \/ Taken(u)'
    BY DEF UploadsStored
  <2>1. fileRow # "EXPIRED" /\ ~due
    OBVIOUS
  <2>2. PathOf(u) \in Accounted \/ Taken(u)
    BY <2>1 DEF BodiesInv, UploadsStored
  <2>3. QED
    BY <1>2, <2>2
<1>4. RecordedBodiesStored'
  <2> SUFFICES ASSUME fileRow' # "EXPIRED", ~due' PROVE Recorded(rows)' \subseteq Accounted'
    BY DEF RecordedBodiesStored, Accounted
  <2>1. fileRow # "EXPIRED" /\ ~due
    OBVIOUS
  <2>2. \A i \in Chunks : rows[i] # NoRow => <<i, rows[i]>> \in Accounted
    BY <2>1, RecordedStored DEF BodiesInv, RecordedBodiesStored, Accounted
  <2>3. \A i \in Chunks : rows'[i] # NoRow => <<i, rows'[i]>> \in Accounted'
    BY <2>2, WholeIsNoBody
  <2>4. Recorded(rows') \subseteq Accounted'
    BY <2>3, RecordedStored
  <2>5. Recorded(rows)' = Recorded(rows')
    BY DEF Recorded
  <2>6. QED
    BY <2>4, <2>5
<1>5. QED
  BY <1>1, <1>3, <1>4 DEF BodiesInv

LEMMA CompletionEffect ==
  ASSUME RemovalsDue, NEW k \in Completions, CompletionStep(k)
  PROVE  /\ UNCHANGED <<rows, due, upload, pass, deletion>>
         /\ fileRow = "EXPIRED" => fileRow' = "EXPIRED"
         /\ \A p \in Accounted : p \in Accounted' \/ p = Whole
         /\ RemovalsDue'
<1>1. UNCHANGED <<rows, due, upload, pass, deletion>>
  BY DEF CompletionStep, PrepareFileCompletion, AssembleChunk, AbandonCompletion, PublishFile,
         CompleteFile, InterruptCommit, DiscardFile, removalVars
<1>2. fileRow = "EXPIRED" => fileRow' = "EXPIRED"
  BY DEF CompletionStep, PrepareFileCompletion, AssembleChunk, AbandonCompletion, PublishFile,
         CompleteFile, InterruptCommit, DiscardFile, Committed
<1>3. \A p \in Accounted : p \in Accounted' \/ p = Whole
  BY DEF CompletionStep, PrepareFileCompletion, AssembleChunk, AbandonCompletion, PublishFile,
         CompleteFile, InterruptCommit, DiscardFile, historyVars, Accounted
<1>4. QED
  BY <1>1, <1>2, <1>3 DEF RemovalsDue

LEMMA PassEffect ==
  ASSUME IndInv, RemovalsDue, NEW w \in Passes, PassStep(w)
  PROVE  /\ due /\ due' /\ UNCHANGED <<upload, completion, deletion, overlapped>>
         /\ fileRow' = fileRow \/ fileRow' = "EXPIRED"
         /\ RemovalsDue'
<1>1. pass[w].pc # "idle" => due
  BY DEF RemovalsDue, Idle
<1>2. due
  BY <1>1 DEF PassStep, SelectFile, SelectChunks, RemoveBody, DeleteChunks, MarkFileExpired,
              AbandonPass, Working
<1>3. UNCHANGED <<due, upload, completion, deletion, overlapped>>
  BY DEF PassStep, SelectFile, SelectChunks, RemoveBody, DeleteChunks, MarkFileExpired,
         AbandonPass, requestVars, historyVars
<1>4. fileRow' = fileRow \/ fileRow' = "EXPIRED"
  BY DEF PassStep, SelectFile, SelectChunks, RemoveBody, DeleteChunks, MarkFileExpired, AbandonPass
<1>5. QED
  BY <1>2, <1>3, <1>4 DEF RemovalsDue

LEMMA DeletionEffect ==
  ASSUME IndInv, RemovalsDue, DeletionStep
  PROVE  /\ UNCHANGED <<rows, due, upload, completion, pass, overlapped>>
         /\ fileRow' = fileRow \/ fileRow' = "EXPIRED"
         /\ Accounted' = Accounted \/ fileRow' = "EXPIRED"
         /\ RemovalsDue'
<1>1. UNCHANGED <<rows, due, upload, completion, pass, overlapped>>
  BY DEF DeletionStep, SelectGroupContent, DeleteAdminGroupContent, RemoveGroupContent,
         EndDeletion, requestVars, historyVars
<1>2. fileRow' = fileRow \/ fileRow' = "EXPIRED"
  BY DEF DeletionStep, SelectGroupContent, DeleteAdminGroupContent, RemoveGroupContent, EndDeletion
<1>3. Accounted' = Accounted \/ fileRow' = "EXPIRED"
  BY DEF DeletionStep, SelectGroupContent, DeleteAdminGroupContent, RemoveGroupContent, EndDeletion,
         RemovalsDue, historyVars, Accounted
<1>4. deletion'.pc = "removing" => fileRow' = "EXPIRED"
  <2>1. CASE SelectGroupContent
    BY <2>1 DEF SelectGroupContent
  <2>2. CASE DeleteAdminGroupContent
    BY <2>2 DEF DeleteAdminGroupContent
  <2>3. CASE \E p \in Paths : RemoveGroupContent(p)
    BY <2>3 DEF RemoveGroupContent, RemovalsDue
  <2>4. CASE EndDeletion
    BY <2>4 DEF EndDeletion, Ended, Idle
  <2>5. QED
    BY <2>1, <2>2, <2>3, <2>4 DEF DeletionStep
<1>5. QED
  BY <1>1, <1>2, <1>3, <1>4 DEF RemovalsDue

LEMMA CrashEffect ==
  ASSUME IndInv, RemovalsDue, Crash
  PROVE  RemovalsDue'
<1>1. deletion'.pc # "removing"
  <2>1. deletion \in {Idle} \cup [pc : {"selected", "removing", "done"}, todo : SUBSET Paths]
    BY DEF IndInv, TypeOK
  <2>2. deletion.pc \in {"idle", "selected", "removing", "done"}
    BY <2>1 DEF Idle
  <2>3. QED
    BY <2>2 DEF Crash, Ended, Idle
<1>2. QED
  BY <1>1 DEF Crash, RemovalsDue

LEMMA StepKeepsBodies ==
  ASSUME IndInv, BodiesInv, [Next]_vars
  PROVE  BodiesInv'
<1>1. ASSUME NEW u \in Uploads, UploadStep(u) PROVE BodiesInv'
  BY <1>1, UploadKeepsBodies
<1>2. ASSUME NEW k \in Completions, CompletionStep(k) PROVE BodiesInv'
  BY <1>2, CompletionEffect, OthersKeepBodies DEF BodiesInv
<1>3. ASSUME NEW w \in Passes, PassStep(w) PROVE BodiesInv'
  <2>1. due /\ due' /\ RemovalsDue' /\ upload' = upload
    BY <1>3, PassEffect DEF BodiesInv
  <2>2. fileRow' # "EXPIRED" => fileRow # "EXPIRED" /\ rows' = rows
    BY <1>3 DEF PassStep, SelectFile, SelectChunks, RemoveBody, DeleteChunks, MarkFileExpired, AbandonPass
  <2>3. UploadsCareful'
    BY <2>1, <2>2 DEF BodiesInv, UploadsCareful, Taken
  <2>4. QED
    BY <2>1, <2>3 DEF BodiesInv, UploadsStored, RecordedBodiesStored
<1>4. CASE DeletionStep
  BY <1>4, DeletionEffect, OthersKeepBodies DEF BodiesInv
<1>5. CASE Crash
  <2>1. /\ RemovalsDue' /\ UNCHANGED <<fileRow, rows, disk, due, lost>>
        /\ \A u \in Uploads : upload'[u].pc = "idle"
    BY <1>5, CrashEffect DEF BodiesInv, Crash, Idle, historyVars
  <2>2. RecordedBodiesStored'
    BY <2>1 DEF BodiesInv, RecordedBodiesStored, Recorded
  <2>3. QED
    BY <2>1, <2>2 DEF BodiesInv, UploadsCareful, UploadsStored
<1>6. CASE BecomeDue \/ UNCHANGED vars
  <2>1. UNCHANGED <<fileRow, rows, disk, upload, pass, deletion, lost>> /\ (due => due')
    BY <1>6 DEF BecomeDue, vars, requestVars, removalVars, historyVars
  <2>2. RemovalsDue'
    BY <2>1 DEF BodiesInv, RemovalsDue
  <2>3. Accounted' = Accounted
    BY <2>1 DEF Accounted
  <2>4. QED
    BY <2>1, <2>2, <2>3, OthersKeepBodies
<1>7. QED
  BY <1>1, <1>2, <1>3, <1>4, <1>5, <1>6 DEF Next

(***************************************************************************)
(* Any number of duplicate or conflicting uploads, completions, passes,    *)
(* deletions and crashes, with statements interrupted anywhere, leave      *)
(* every recorded chunk of a file that is neither due nor expired with its *)
(* body, but for one that an interrupted upload removed: no other          *)
(* os.Remove of UploadChunk ever takes a recorded body.                    *)
(***************************************************************************)
THEOREM RecordedChunksStored == Spec => []RecordedBodiesStored
<1>1. Init => BodiesInv
  <2> SUFFICES ASSUME Init PROVE BodiesInv
    OBVIOUS
  <2>1. RemovalsDue /\ UploadsCareful /\ UploadsStored
    BY DEF Init, RemovalsDue, UploadsCareful, UploadsStored, Idle
  <2>2. RecordedBodiesStored
    BY DEF Init, RecordedBodiesStored, Recorded
  <2>3. QED
    BY <2>1, <2>2 DEF BodiesInv
<1>2. IndInv /\ BodiesInv /\ [Next]_vars => BodiesInv'
  BY StepKeepsBodies
<1>3. BodiesInv => RecordedBodiesStored
  BY DEF BodiesInv
<1>4. QED
  BY <1>1, <1>2, <1>3, Inductive, PTL DEF Spec

-----------------------------------------------------------------------------
LEMMA CompletionKeepsWhole ==
  ASSUME IndInv, WholeInv, NEW k \in Completions, CompletionStep(k)
  PROVE  WholeInv'
<1>1. completion \in [Completions -> CompletionStates]
      /\ fileRow \in {"UPLOADING", "AVAILABLE_ON_NODE", "EXPIRED"}
  BY DEF IndInv, TypeOK, CompletionStates
<1>2. RemovalsDue' /\ due' = due
  BY CompletionEffect DEF WholeInv
<1>3. overlapped' = overlapped
      \/ overlapped' = (overlapped \/ \E j \in Completions : Working(completion[j]))
  BY DEF CompletionStep, PrepareFileCompletion, AssembleChunk, AbandonCompletion, PublishFile,
         CompleteFile, InterruptCommit, DiscardFile, historyVars
<1>4. \A l \in Completions : l # k => completion'[l] = completion[l]
  BY <1>1
  DEF CompletionStep, PrepareFileCompletion, AssembleChunk, AbandonCompletion, PublishFile,
      CompleteFile, InterruptCommit, DiscardFile, SetCompletion, EndCompletion
<1>5. CASE overlapped'
  BY <1>2, <1>5 DEF WholeInv, CompletionAlone, AssembledFileKept
<1>6. ASSUME ~overlapped' PROVE WholeInv'
  <2>1. ~overlapped
    BY <1>3, <1>6
  \* Nobody else is at work: not if k was, and not if k begins now.
  <2>2. \A l \in Completions : l # k => completion[l].pc = "idle"
    <3>1. CASE completion[k].pc # "idle"
      BY <2>1, <3>1 DEF WholeInv, CompletionAlone
    <3>2. CASE completion[k].pc = "idle"
      <4>1. PrepareFileCompletion(k)
        BY <3>2 DEF CompletionStep, AssembleChunk, AbandonCompletion, PublishFile,
                    CompleteFile, InterruptCommit, DiscardFile
      <4>2. QED
        BY <1>6, <4>1 DEF PrepareFileCompletion, Working
    <3>3. QED
      BY <3>1, <3>2
  <2>3. /\ completion[k].pc \in {"assembling", "committing"} => fileRow # "AVAILABLE_ON_NODE"
        /\ completion[k].pc = "discarding" => fileRow = "EXPIRED"
        /\ completion[k].pc = "committing" /\ ~due /\ fileRow # "EXPIRED" => Whole \in Accounted
        /\ fileRow = "AVAILABLE_ON_NODE" /\ ~due => Whole \in Accounted
    BY <2>1 DEF WholeInv, CompletionAlone, AssembledFileKept, Accounted
  <2>4. SUFFICES
          /\ completion'[k].pc \in {"assembling", "committing"} => fileRow' # "AVAILABLE_ON_NODE"
          /\ completion'[k].pc = "discarding" => fileRow' = "EXPIRED"
          /\ completion'[k].pc = "committing" /\ ~due' /\ fileRow' # "EXPIRED" => Whole \in Accounted'
          /\ fileRow' = "AVAILABLE_ON_NODE" /\ ~due' => Whole \in Accounted'
    <3>1. \A l \in Completions : l # k => completion'[l].pc = "idle"
      BY <1>4, <2>2
    <3>2. CompletionAlone'
      BY <2>4, <3>1 DEF CompletionAlone
    <3>3. AssembledFileKept'
      BY <2>4 DEF AssembledFileKept, Accounted
    <3>4. QED
      BY <1>2, <3>2, <3>3 DEF WholeInv
  <2>5. ASSUME EndCompletion(k) PROVE completion'[k].pc = "idle"
    BY <1>1, <2>5 DEF EndCompletion, Idle
  <2>6. ASSUME NEW pc \in CompletionSteps, SetCompletion(k, pc), completion[k] # Idle
        PROVE  completion'[k].pc = pc
    <3>1. completion' = [completion EXCEPT ![k] = [completion[k] EXCEPT !.pc = pc]]
      BY <2>6 DEF SetCompletion
    <3>2. [completion[k] EXCEPT !.pc = pc].pc = pc
      BY <1>1, <2>6, CompletionMoved
    <3>3. QED
      BY <1>1, <3>1, <3>2
  <2>7. CASE PrepareFileCompletion(k)
    <3>1. completion'[k].pc = "assembling" /\ Accounted' = Accounted
      BY <1>1, <2>7 DEF PrepareFileCompletion, Accounted
    <3>2. QED
      BY <1>2, <2>3, <2>7, <3>1 DEF PrepareFileCompletion, Incomplete
  <2>8. CASE AssembleChunk(k)
    <3>1. completion' = [completion EXCEPT ![k] = [completion[k] EXCEPT !.next = completion[k].next + 1]]
      BY <2>8 DEF AssembleChunk
    <3>2. completion[k] \in [pc : CompletionSteps,
                             next : 0 .. ChunkCount, plan : [Chunks -> Contents]]
      BY <1>1, <2>8 DEF AssembleChunk, CompletionStates, Idle
    <3>3. [completion[k] EXCEPT !.next = completion[k].next + 1].pc = completion[k].pc
      BY <3>2
    <3>4. completion'[k].pc = completion[k].pc /\ Accounted' = Accounted
      BY <1>1, <2>8, <3>1, <3>3 DEF AssembleChunk, historyVars, Accounted
    <3>5. QED
      BY <1>2, <2>3, <2>8, <3>4 DEF AssembleChunk
  <2>9. CASE AbandonCompletion(k)
    <3>1. completion'[k].pc = "idle" /\ Accounted' = Accounted
      BY <2>5, <2>9 DEF AbandonCompletion, historyVars, Accounted
    <3>2. QED
      BY <1>2, <2>3, <2>9, <3>1 DEF AbandonCompletion
  <2>10. CASE PublishFile(k)
    <3>1. completion'[k].pc = "committing" /\ Whole \in Accounted' /\ fileRow' = fileRow
      BY <2>6, <2>10 DEF PublishFile, Idle, Accounted
    <3>2. QED
      BY <1>2, <2>3, <2>10, <3>1 DEF PublishFile
  <2>11. CASE CompleteFile(k)
    <3>1. /\ completion[k].pc = "committing" /\ Accounted' = Accounted
          /\ fileRow' = IF fileRow = "UPLOADING" THEN "AVAILABLE_ON_NODE" ELSE fileRow
      BY <2>11 DEF CompleteFile, Committed, historyVars, Accounted
    <3>2. CASE fileRow = "UPLOADING"
      <4>1. completion'[k].pc = "idle"
        BY <2>5, <2>11, <3>2 DEF CompleteFile
      <4>2. QED
        BY <1>2, <2>3, <3>1, <3>2, <4>1
    <3>3. CASE fileRow # "UPLOADING"
      <4>1. completion'[k].pc = "discarding" /\ fileRow = "EXPIRED"
        BY <1>1, <2>3, <2>6, <2>11, <3>1, <3>3 DEF CompleteFile, Idle
      <4>2. QED
        BY <1>2, <3>1, <3>3, <4>1
    <3>4. QED
      BY <3>2, <3>3
  <2>12. CASE InterruptCommit(k)
    <3>1. /\ completion[k].pc = "committing" /\ completion'[k].pc = "aborting"
          /\ Accounted' = Accounted
      BY <2>6, <2>12 DEF InterruptCommit, Idle, historyVars, Accounted
    <3>2. fileRow' = "AVAILABLE_ON_NODE" => fileRow # "EXPIRED"
      BY <2>12 DEF InterruptCommit, Committed
    <3>3. QED
      BY <1>2, <2>3, <3>1, <3>2
  <2>13. CASE DiscardFile(k)
    <3>1. completion'[k].pc = "idle" /\ fileRow' = fileRow
      BY <2>5, <2>13 DEF DiscardFile
    <3>2. CASE completion[k].pc = "discarding"
      BY <2>3, <3>1, <3>2
    <3>3. CASE completion[k].pc = "aborting"
      <4>1. Whole \in Accounted'
        BY <2>13, <3>3 DEF DiscardFile, Accounted
      <4>2. QED
        BY <3>1, <4>1
    <3>4. QED
      BY <2>13, <3>2, <3>3 DEF DiscardFile
  <2>14. QED
    BY <2>7, <2>8, <2>9, <2>10, <2>11, <2>12, <2>13 DEF CompletionStep
<1>7. QED
  BY <1>5, <1>6

LEMMA StepKeepsWhole ==
  ASSUME IndInv, WholeInv, [Next]_vars
  PROVE  WholeInv'
<1>1. ASSUME NEW u \in Uploads, UploadStep(u) PROVE WholeInv'
  <2>1. UNCHANGED <<fileRow, due, completion, pass, deletion, overlapped>>
    BY <1>1 DEF UploadStep, PrepareChunkUpload, AbandonUpload, PublishChunk, BeginInsert,
       InsertChunk, CheckChunk, InterruptRecord, DiscardChunk, removalVars, historyVars
  <2>2. Whole \in Accounted => Whole \in Accounted'
    BY <1>1, WholeIsNoBody DEF UploadStep, PrepareChunkUpload, AbandonUpload, PublishChunk, BeginInsert,
       InsertChunk, CheckChunk, InterruptRecord, DiscardChunk, PathOf, historyVars, Accounted
  <2>3. QED
    BY <2>1, <2>2 DEF WholeInv, RemovalsDue, CompletionAlone, AssembledFileKept, Accounted
<1>2. ASSUME NEW k \in Completions, CompletionStep(k) PROVE WholeInv'
  BY <1>2, CompletionKeepsWhole
<1>3. ASSUME NEW w \in Passes, PassStep(w) PROVE WholeInv'
  BY <1>3, PassEffect DEF WholeInv, CompletionAlone, AssembledFileKept
<1>4. CASE DeletionStep
  BY <1>4, DeletionEffect DEF WholeInv, CompletionAlone, AssembledFileKept, Accounted
<1>5. CASE Crash
  <2>1. /\ RemovalsDue' /\ UNCHANGED <<fileRow, disk, due, lost, overlapped>>
        /\ \A k \in Completions : completion'[k].pc = "idle"
    BY <1>5, CrashEffect DEF WholeInv, Crash, Idle, historyVars
  <2>2. QED
    BY <2>1 DEF WholeInv, CompletionAlone, AssembledFileKept
<1>6. CASE BecomeDue \/ UNCHANGED vars
  <2>1. UNCHANGED <<fileRow, disk, completion, pass, deletion, lost, overlapped>> /\ (due => due')
    BY <1>6 DEF BecomeDue, vars, requestVars, removalVars, historyVars
  <2>2. QED
    BY <2>1 DEF WholeInv, RemovalsDue, CompletionAlone, AssembledFileKept, Accounted
<1>7. QED
  BY <1>1, <1>2, <1>3, <1>4, <1>5, <1>6 DEF Next

(***************************************************************************)
(* The assembled file of an available file stays until the file is due,    *)
(* whatever late completions, passes, deletions, uploads and crashes come  *)
(* between, unless two completions overlapped or the commit of its own was *)
(* interrupted: Complete's os.Remove takes a served file in no other way.  *)
(***************************************************************************)
THEOREM AssembledFileStays == Spec => []AssembledFileKept
<1>1. Init => WholeInv
  BY DEF Init, WholeInv, RemovalsDue, CompletionAlone, AssembledFileKept, Idle
<1>2. IndInv /\ WholeInv /\ [Next]_vars => WholeInv'
  BY StepKeepsWhole
<1>3. WholeInv => AssembledFileKept
  BY DEF WholeInv
<1>4. QED
  BY <1>1, <1>2, <1>3, Inductive, PTL DEF Spec
=============================================================================
