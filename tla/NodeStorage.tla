---------------------------- MODULE NodeStorage ----------------------------
(***************************************************************************)
(* The encrypted body of one file on the Node: its rows in files and       *)
(* file_chunks and its objects under the storage root, as upload requests, *)
(* completion requests, cleaner passes and an administrator's deletion     *)
(* work on them concurrently.  A request is a sequence of steps, one per   *)
(* database statement and one per file-system call, and a Node crash ends  *)
(* all of them.  Chunk bodies have content-addressed names, so a body is   *)
(* its own path: <<index, content>>.  Temporary files are private to their *)
(* request until renamed and are left out.  The file has a NODE target.    *)
(***************************************************************************)
EXTENDS Integers, FiniteSets

CONSTANTS
  ChunkCount,  \* files.chunk_count; zero for an empty file
  Contents,    \* contents a client may send for a chunk, told apart by SHA-256
  Genuine,     \* the content the whole-file SHA-256 was computed from
  Uploads,     \* concurrent UploadChunk requests
  Completions, \* concurrent Complete requests
  Passes,      \* concurrent cleaner passes: the hourly worker, the command
  InGroup      \* the transfer is a group's, so an administrator may delete it

ASSUME ChunkAssumption == ChunkCount \in Nat
ASSUME ContentAssumption == Genuine \in Contents
ASSUME SwitchAssumption == InGroup \in BOOLEAN

VARIABLES
  fileRow,    \* files.status
  rows,       \* file_chunks: the recorded content of each index, or NoRow
  disk,       \* objects under the storage root
  due,        \* ExpiredFiles has been able to select the file
  upload,     \* the state of each upload request
  completion, \* the state of each completion request
  pass,       \* the state of each cleaner pass
  deletion,   \* the state of the administrator's DeleteGroupContent
  lost,       \* history: objects removed by a request whose statement was
              \*   interrupted, and not written again since
  overlapped  \* history: two completions were in progress at once

requestVars == <<upload, completion>>
removalVars == <<pass, deletion>>
historyVars == <<lost, overlapped>>
vars == <<fileRow, rows, disk, due, requestVars, removalVars, historyVars>>

Chunks == 0 .. (ChunkCount - 1)
NoRow == "NO_ROW"
ASSUME NoRowAssumption == NoRow \notin Contents
Idle == [pc |-> "idle"]

Bodies == Chunks \X Contents
\* The assembled file, files/<id>.
Whole == << >>
Paths == Bodies \cup {Whole}

Recorded(content) == {<<i, content[i]>> : i \in {j \in Chunks : content[j] # NoRow}}

Working(s) == s.pc # "idle"

-----------------------------------------------------------------------------
(***************************************************************************)
(* The type invariant.                                                     *)
(***************************************************************************)
TypeOK ==
  /\ fileRow \in {"UPLOADING", "AVAILABLE_ON_NODE", "EXPIRED"}
  /\ rows \in [Chunks -> Contents \cup {NoRow}]
  /\ disk \subseteq Paths
  /\ due \in BOOLEAN
  /\ upload \in [Uploads ->
       {Idle} \cup [pc : {"writing", "recording", "inserting", "checking",
                          "discarding", "aborting"},
                    index : Chunks, content : Contents]]
  /\ completion \in [Completions ->
       {Idle} \cup [pc : {"assembling", "committing", "discarding", "aborting"},
                    next : 0 .. ChunkCount, plan : [Chunks -> Contents]]]
  /\ pass \in [Passes ->
       {Idle} \cup [pc : {"listing", "removing", "marking"}, todo : SUBSET Paths]]
  /\ deletion \in
       {Idle} \cup [pc : {"selected", "removing", "done"}, todo : SUBSET Paths]
  /\ lost \subseteq Paths
  /\ overlapped \in BOOLEAN

Init ==
  /\ fileRow = "UPLOADING"
  /\ rows = [i \in Chunks |-> NoRow]
  /\ disk = {}
  /\ due = FALSE
  /\ upload = [u \in Uploads |-> Idle]
  /\ completion = [k \in Completions |-> Idle]
  /\ pass = [w \in Passes |-> Idle]
  /\ deletion = Idle
  /\ lost = {}
  /\ overlapped = FALSE

-----------------------------------------------------------------------------
(***************************************************************************)
(* UploadChunk.  A chunk already recorded answers at once, with success or *)
(* ErrConflict, and changes nothing.                                       *)
(***************************************************************************)
PathOf(u) == <<upload[u].index, upload[u].content>>

SetUpload(u, pc) == upload' = [upload EXCEPT ![u].pc = pc]
EndUpload(u) == upload' = [upload EXCEPT ![u] = Idle]

PrepareChunkUpload(u, i, c) ==
  /\ upload[u] = Idle
  /\ fileRow = "UPLOADING"
  /\ rows[i] = NoRow
  /\ upload' = [upload EXCEPT ![u] = [pc |-> "writing", index |-> i, content |-> c]]
  /\ UNCHANGED <<fileRow, rows, disk, due, completion, removalVars, historyVars>>

\* A storage error, a wrong length, or a body that is not the announced one.
AbandonUpload(u) ==
  /\ upload[u].pc = "writing"
  /\ EndUpload(u)
  /\ UNCHANGED <<fileRow, rows, disk, due, completion, removalVars, historyVars>>

\* os.Rename to the content-addressed name.
PublishChunk(u) ==
  /\ upload[u].pc = "writing"
  /\ disk' = disk \cup {PathOf(u)}
  /\ lost' = lost \ {PathOf(u)}
  /\ SetUpload(u, "recording")
  /\ UNCHANGED <<fileRow, rows, due, completion, removalVars, overlapped>>

\* RecordChunk's INSERT ... SELECT ... ON CONFLICT DO NOTHING begins: the
\* statement's snapshot decides whether the file is still UPLOADING.
BeginInsert(u) ==
  /\ upload[u].pc = "recording"
  /\ SetUpload(u, IF fileRow = "UPLOADING" THEN "inserting" ELSE "checking")
  /\ UNCHANGED <<fileRow, rows, disk, due, completion, removalVars, historyVars>>

\* Mutant of Inserts: ON CONFLICT DO UPDATE.
InsertOverwrites(i) == TRUE

Inserts(i) == rows[i] = NoRow

RowsAfterInsert(u) ==
  IF Inserts(upload[u].index)
    THEN [rows EXCEPT ![upload[u].index] = upload[u].content] ELSE rows

\* A pass is deleting the row in a transaction that has not committed.
BeingDeleted(i) ==
  \E w \in Passes : pass[w].pc = "marking" /\ <<i, rows[i]>> \in pass[w].todo

\* The row goes in; a conflicting one that is being deleted is waited for.
InsertChunk(u) ==
  /\ upload[u].pc = "inserting"
  /\ ~BeingDeleted(upload[u].index)
  /\ rows' = RowsAfterInsert(u)
  /\ IF Inserts(upload[u].index) THEN EndUpload(u) ELSE SetUpload(u, "checking")
  /\ UNCHANGED <<fileRow, disk, due, completion, removalVars, historyVars>>

\* Mutant of Matches: any duplicate is a conflict.
NeverMatches(u) == FALSE

Matches(u) == rows[upload[u].index] = upload[u].content

\* RecordChunk's second statement: the recorded hash decides.
CheckChunk(u) ==
  /\ upload[u].pc = "checking"
  /\ IF Matches(u) THEN EndUpload(u) ELSE SetUpload(u, "discarding")
  /\ UNCHANGED <<fileRow, rows, disk, due, completion, removalVars, historyVars>>

\* The request's context ends, or the connection drops, under RecordChunk:
\* an error, whether or not the INSERT has committed.
InterruptRecord(u) ==
  /\ \/ upload[u].pc \in {"recording", "inserting", "checking"} /\ rows' = rows
     \/ upload[u].pc = "inserting" /\ rows' = RowsAfterInsert(u)
  /\ SetUpload(u, "aborting")
  /\ UNCHANGED <<fileRow, disk, due, completion, removalVars, historyVars>>

\* os.Remove(finalPath) after any error of RecordChunk.
DiscardChunk(u) ==
  /\ upload[u].pc \in {"discarding", "aborting"}
  /\ disk' = disk \ {PathOf(u)}
  /\ lost' = IF upload[u].pc = "aborting" THEN lost \cup {PathOf(u)} ELSE lost
  /\ EndUpload(u)
  /\ UNCHANGED <<fileRow, rows, due, completion, removalVars, overlapped>>

-----------------------------------------------------------------------------
(***************************************************************************)
(* Complete.  The rows are read once; the bodies are then opened one by    *)
(* one, hashed, and the assembled file published and committed.            *)
(***************************************************************************)
SetCompletion(k, pc) == completion' = [completion EXCEPT ![k].pc = pc]
EndCompletion(k) == completion' = [completion EXCEPT ![k] = Idle]

\* Mutant of AllRecorded: one recorded chunk is enough.
AnyRecorded == \E i \in Chunks : rows[i] # NoRow

\* As many rows as chunks, whose indices are then 0, 1, 2, ... in order.
AllRecorded == \A i \in Chunks : rows[i] # NoRow

\* Mutant of Incomplete: a file already available is completed again.
NotExpired == fileRow # "EXPIRED"

\* A repeat for an available file is answered at once, with nothing done.
Incomplete == fileRow = "UPLOADING"

PrepareFileCompletion(k) ==
  /\ completion[k] = Idle
  /\ Incomplete
  /\ AllRecorded
  /\ completion' = [completion EXCEPT ![k] =
       [pc |-> "assembling", next |-> 0, plan |-> rows]]
  /\ overlapped' = (overlapped \/ \E j \in Completions : Working(completion[j]))
  /\ UNCHANGED <<fileRow, rows, disk, due, upload, removalVars, lost>>

AssembleChunk(k) ==
  /\ completion[k].pc = "assembling"
  /\ completion[k].next < ChunkCount
  /\ <<completion[k].next, completion[k].plan[completion[k].next]>> \in disk
  /\ completion' = [completion EXCEPT ![k].next = @ + 1]
  /\ UNCHANGED <<fileRow, rows, disk, due, upload, removalVars, historyVars>>

\* A body is missing, a hash is wrong, or the storage fails.
AbandonCompletion(k) ==
  /\ completion[k].pc = "assembling"
  /\ EndCompletion(k)
  /\ UNCHANGED <<fileRow, rows, disk, due, upload, removalVars, historyVars>>

\* Mutant of WholeHashMatches: only the chunk hashes are compared.
NoWholeHash(plan) == TRUE

WholeHashMatches(plan) == \A i \in Chunks : plan[i] = Genuine

PublishFile(k) ==
  /\ completion[k].pc = "assembling"
  /\ completion[k].next = ChunkCount
  /\ WholeHashMatches(completion[k].plan)
  /\ disk' = disk \cup {Whole}
  /\ lost' = lost \ {Whole}
  /\ SetCompletion(k, "committing")
  /\ UNCHANGED <<fileRow, rows, due, upload, removalVars, overlapped>>

\* Mutant of Committed: a file already expired becomes available.
CommittedAnyStatus(s) == "AVAILABLE_ON_NODE"

\* CompleteFile's UPDATE ... WHERE status = 'UPLOADING'.
Committed(s) == IF s = "UPLOADING" THEN "AVAILABLE_ON_NODE" ELSE s

\* No pass holds the lock of the file's row.
FileFree == \A w \in Passes : pass[w].pc # "marking"

CompleteFile(k) ==
  /\ completion[k].pc = "committing"
  /\ FileFree
  /\ fileRow' = Committed(fileRow)
  /\ IF fileRow = "UPLOADING" THEN EndCompletion(k) ELSE SetCompletion(k, "discarding")
  /\ UNCHANGED <<rows, disk, due, upload, removalVars, historyVars>>

InterruptCommit(k) ==
  /\ completion[k].pc = "committing"
  /\ fileRow' = fileRow \/ (FileFree /\ fileRow' = Committed(fileRow))
  /\ SetCompletion(k, "aborting")
  /\ UNCHANGED <<rows, disk, due, upload, removalVars, historyVars>>

\* os.Remove(finalPath) after any error of CompleteFile.
DiscardFile(k) ==
  /\ completion[k].pc \in {"discarding", "aborting"}
  /\ disk' = disk \ {Whole}
  /\ lost' = IF completion[k].pc = "aborting" THEN lost \cup {Whole} ELSE lost
  /\ EndCompletion(k)
  /\ UNCHANGED <<fileRow, rows, due, upload, removalVars, overlapped>>

-----------------------------------------------------------------------------
(***************************************************************************)
(* The cleaner's RunOnce for this file.  ExpiredFiles reads the file row   *)
(* and then, in a second query, the chunk rows.                            *)
(***************************************************************************)
BecomeDue ==
  /\ ~due
  /\ due' = TRUE
  /\ UNCHANGED <<fileRow, rows, disk, requestVars, removalVars, historyVars>>

SelectFile(w) ==
  /\ pass[w] = Idle
  /\ due
  /\ fileRow # "EXPIRED"
  /\ pass' = [pass EXCEPT ![w] =
       [pc |-> "listing", todo |-> IF fileRow = "UPLOADING" THEN {} ELSE {Whole}]]
  /\ UNCHANGED <<fileRow, rows, disk, due, requestVars, deletion, historyVars>>

SelectChunks(w) ==
  /\ pass[w].pc = "listing"
  /\ pass' = [pass EXCEPT ![w] =
       [pc |-> "removing", todo |-> @.todo \cup Recorded(rows)]]
  /\ UNCHANGED <<fileRow, rows, disk, due, requestVars, deletion, historyVars>>

\* os.Remove: the assembled file first, then the chunks; a missing one is fine.
RemoveBody(w, p) ==
  /\ pass[w].pc = "removing"
  /\ p \in pass[w].todo
  /\ Whole \in pass[w].todo => p = Whole
  /\ disk' = disk \ {p}
  /\ pass' = [pass EXCEPT ![w].todo = @ \ {p}]
  /\ UNCHANGED <<fileRow, rows, due, requestVars, deletion, historyVars>>

\* MarkFileExpired's transaction locks the file's row and deletes the chunk
\* rows it sees.  A file that is EXPIRED by then is ErrNotFound.
DeleteChunks(w) ==
  /\ pass[w].pc = "removing"
  /\ pass[w].todo = {}
  /\ FileFree
  /\ pass' = [pass EXCEPT ![w] =
       IF fileRow = "EXPIRED" THEN Idle
       ELSE [pc |-> "marking", todo |-> Recorded(rows)]]
  /\ UNCHANGED <<fileRow, rows, disk, due, requestVars, deletion, historyVars>>

RowsAfterExpiry(w) ==
  [i \in Chunks |-> IF <<i, rows[i]>> \in pass[w].todo THEN NoRow ELSE rows[i]]

\* The transaction commits.
MarkFileExpired(w) ==
  /\ pass[w].pc = "marking"
  /\ fileRow' = "EXPIRED"
  /\ rows' = RowsAfterExpiry(w)
  /\ pass' = [pass EXCEPT ![w] = Idle]
  /\ UNCHANGED <<disk, due, requestVars, deletion, historyVars>>

\* A storage or database error ends the pass and rolls back.
AbandonPass(w) ==
  /\ Working(pass[w])
  /\ pass' = [pass EXCEPT ![w] = Idle]
  /\ UNCHANGED <<fileRow, rows, disk, due, requestVars, deletion, historyVars>>

-----------------------------------------------------------------------------
(***************************************************************************)
(* DeleteGroupContent: the paths are read and the rows updated in one      *)
(* transaction (READ COMMITTED, so two steps); the bodies are removed      *)
(* after the commit.  The chunk rows stay.                                 *)
(***************************************************************************)
SelectGroupContent ==
  /\ InGroup
  /\ deletion = Idle
  /\ deletion' = [pc |-> "selected", todo |->
       Recorded(rows) \cup IF fileRow = "AVAILABLE_ON_NODE" THEN {Whole} ELSE {}]
  /\ UNCHANGED <<fileRow, rows, disk, due, requestVars, pass, historyVars>>

DeleteAdminGroupContent ==
  /\ deletion.pc = "selected"
  /\ FileFree
  /\ fileRow' = "EXPIRED"
  /\ deletion' = [deletion EXCEPT !.pc = "removing"]
  /\ UNCHANGED <<rows, disk, due, requestVars, pass, historyVars>>

RemoveGroupContent(p) ==
  /\ deletion.pc = "removing"
  /\ p \in deletion.todo
  /\ disk' = disk \ {p}
  /\ deletion' = [deletion EXCEPT !.todo = @ \ {p}]
  /\ UNCHANGED <<fileRow, rows, due, requestVars, pass, historyVars>>

\* The transaction fails and is rolled back; or, after the commit, a body
\* cannot be removed, or all are.  A second call finds group_deleted_at set.
Ended(s) ==
  CASE s.pc = "selected" -> Idle
    [] s.pc = "removing" -> [pc |-> "done", todo |-> {}]
    [] OTHER -> s

EndDeletion ==
  /\ deletion.pc \in {"selected", "removing"}
  /\ deletion' = Ended(deletion)
  /\ UNCHANGED <<fileRow, rows, disk, due, requestVars, pass, historyVars>>

-----------------------------------------------------------------------------
(***************************************************************************)
(* A crash of the Node process ends every request; rows and objects stay.  *)
(***************************************************************************)
Crash ==
  /\ upload' = [u \in Uploads |-> Idle]
  /\ completion' = [k \in Completions |-> Idle]
  /\ pass' = [w \in Passes |-> Idle]
  /\ deletion' = Ended(deletion)
  /\ UNCHANGED <<fileRow, rows, disk, due, historyVars>>

UploadStep(u) ==
  \/ \E i \in Chunks, c \in Contents : PrepareChunkUpload(u, i, c)
  \/ AbandonUpload(u)
  \/ PublishChunk(u)
  \/ BeginInsert(u)
  \/ InsertChunk(u)
  \/ CheckChunk(u)
  \/ InterruptRecord(u)
  \/ DiscardChunk(u)

CompletionStep(k) ==
  \/ PrepareFileCompletion(k)
  \/ AssembleChunk(k)
  \/ AbandonCompletion(k)
  \/ PublishFile(k)
  \/ CompleteFile(k)
  \/ InterruptCommit(k)
  \/ DiscardFile(k)

PassStep(w) ==
  \/ SelectFile(w)
  \/ SelectChunks(w)
  \/ \E p \in Paths : RemoveBody(w, p)
  \/ DeleteChunks(w)
  \/ MarkFileExpired(w)
  \/ AbandonPass(w)

DeletionStep ==
  \/ SelectGroupContent
  \/ DeleteAdminGroupContent
  \/ \E p \in Paths : RemoveGroupContent(p)
  \/ EndDeletion

Next ==
  \/ \E u \in Uploads : UploadStep(u)
  \/ \E k \in Completions : CompletionStep(k)
  \/ \E w \in Passes : PassStep(w)
  \/ DeletionStep
  \/ BecomeDue
  \/ Crash

Spec == Init /\ [][Next]_vars

-----------------------------------------------------------------------------
(***************************************************************************)
(* Properties.                                                             *)
(***************************************************************************)

(***************************************************************************)
(* A file is AVAILABLE_ON_NODE only with the sender's content in every     *)
(* chunk row: the rows a completion verified are those it publishes, since *)
(* no later upload can replace them and no pass can have deleted them.     *)
(***************************************************************************)
CompletedIsGenuine ==
  fileRow = "AVAILABLE_ON_NODE" => \A i \in Chunks : rows[i] = Genuine

(***************************************************************************)
(* A recorded chunk keeps its content, and loses its row only to expiry    *)
(* ("Verified chunks are immutable", docs/reliability/transfer-state-      *)
(* machine.md).                                                            *)
(***************************************************************************)
RowsImmutable ==
  [][\A i \in Chunks : rows[i] # NoRow =>
       \/ rows'[i] = rows[i]
       \/ rows'[i] = NoRow /\ fileRow' = "EXPIRED"]_vars

(***************************************************************************)
(* Until the file is due or deleted, a recorded chunk is without its body  *)
(* only where an upload whose RecordChunk was interrupted has removed it   *)
(* and nobody sent it again: no conflicting or repeated upload, completion *)
(* or crash takes it, in whatever order the requests end.                  *)
(***************************************************************************)
RecordedBodiesStored ==
  fileRow # "EXPIRED" /\ ~due => Recorded(rows) \subseteq disk \cup lost

(***************************************************************************)
(* Expiry is final: a completion that verified the chunks before a pass or *)
(* an administrator expired the file does not make it available again.     *)
(***************************************************************************)
ExpiredFileStays == [][fileRow = "EXPIRED" => fileRow' = "EXPIRED"]_vars

(***************************************************************************)
(* The assembled file of an available file that is not due stays, however  *)
(* late passes end, requests repeat or the Node crashes, unless the commit *)
(* of its completion was interrupted or two completions overlapped.        *)
(***************************************************************************)
AssembledFileKept ==
  fileRow = "AVAILABLE_ON_NODE" /\ ~due /\ ~overlapped => Whole \in disk \cup lost
=============================================================================
