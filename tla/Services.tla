------------------------------ MODULE Services ------------------------------
(***************************************************************************)
(* The components that do not act on each other, side by side: a behaviour *)
(* belongs to the component that chosen names, and the variables of the    *)
(* others are Off.  Each component's properties are stated here once, for  *)
(* TLC and for the proofs.                                                 *)
(***************************************************************************)
EXTENDS Integers, Sequences, FiniteSets

CONSTANTS
  Off,                                        \* no value
  Requests,                                   \* requests or processes at a time
  Users, Devices, OwnerOf,                    \* Groups
  Times, Ids, Limits,                         \* Paging
  Submissions, MaxNumber,                     \* Idempotency
  ScriptCount,                                \* Migrations
  StoredDevices, StoredFiles, MaxArchives,    \* Backup
  ChunkCount, Slots, MaxAttempts, MaxCrashes, \* LanTransfer
  Sizes, ChunkSizes                           \* ChunkLayout

ASSUME MigrationsAssumption == ScriptCount \in Nat \ {0}

ASSUME PagingAssumption ==
  /\ Times \subseteq Nat /\ IsFiniteSet(Times)
  /\ Ids \subseteq Nat /\ IsFiniteSet(Ids)
  /\ Limits \subseteq Nat \ {0}
  /\ Off \notin Times \X Ids

ASSUME ChunksAssumption == Sizes \subseteq Nat /\ ChunkSizes \subseteq Nat \ {0}

VARIABLES
  chosen,
  group, owner, role, shared, trusted, linked, statements, appointed,
  rows, listing, steady,
  records, metrics, number, calls, answers, applied, counted,
  recorded, effects, processes,
  node, db, disk, job, archives, revocations, damaged, forgotten, unbacked,
  resumable, chunk, assembled, messages, sender, challenge, settled, overlap,
  size, chunkSize, manifest, pc

G == INSTANCE Groups WITH None <- Off, requests <- statements
P == INSTANCE Paging WITH None <- Off
I == INSTANCE Idempotency WITH NoKey <- Off, requests <- calls
M == INSTANCE Migrations WITH Processes <- Requests, Count <- ScriptCount
B == INSTANCE Backup WITH Devices <- StoredDevices, Files <- StoredFiles, NoArchive <- Off, Missing <- Off
L == INSTANCE LanTransfer WITH Count <- ChunkCount, request <- messages
C == INSTANCE ChunkLayout

groupVars == <<group, owner, role, shared, trusted, linked, statements, appointed>>
pagingVars == <<rows, listing, steady>>
idempotencyVars == <<records, metrics, number, calls, answers, applied, counted>>
migrationVars == <<recorded, effects, processes>>
backupVars == <<node, db, disk, job, archives, revocations, damaged, forgotten, unbacked>>
lanVars == <<resumable, chunk, assembled, messages, sender, challenge, settled, overlap>>
chunkVars == <<size, chunkSize, manifest, pc>>

vars == <<chosen, groupVars, pagingVars, idempotencyVars, migrationVars, backupVars, lanVars, chunkVars>>

GroupsOff ==
  /\ group = Off /\ owner = Off /\ role = Off /\ shared = Off /\ trusted = Off /\ linked = Off
  /\ statements = Off /\ appointed = Off
PagingOff == rows = Off /\ listing = Off /\ steady = Off
IdempotencyOff ==
  /\ records = Off /\ metrics = Off /\ number = Off /\ calls = Off
  /\ answers = Off /\ applied = Off /\ counted = Off
MigrationsOff == recorded = Off /\ effects = Off /\ processes = Off
BackupOff ==
  /\ node = Off /\ db = Off /\ disk = Off /\ job = Off /\ archives = Off
  /\ revocations = Off /\ damaged = Off /\ forgotten = Off /\ unbacked = Off
LanTransferOff ==
  /\ resumable = Off /\ chunk = Off /\ assembled = Off /\ messages = Off
  /\ sender = Off /\ challenge = Off /\ settled = Off /\ overlap = Off
ChunkLayoutOff == size = Off /\ chunkSize = Off /\ manifest = Off /\ pc = Off

Init ==
  /\ chosen \in {"groups", "paging", "idempotency", "migrations", "backup", "lan", "chunks"}
  /\ IF chosen = "groups" THEN G!Init ELSE GroupsOff
  /\ IF chosen = "paging" THEN P!Init ELSE PagingOff
  /\ IF chosen = "idempotency" THEN I!Init ELSE IdempotencyOff
  /\ IF chosen = "migrations" THEN M!Init ELSE MigrationsOff
  /\ IF chosen = "backup" THEN B!Init ELSE BackupOff
  /\ IF chosen = "lan" THEN L!Init ELSE LanTransferOff
  /\ IF chosen = "chunks" THEN C!Init ELSE ChunkLayoutOff

Next ==
  \/ chosen = "groups" /\ G!Next
     /\ UNCHANGED <<chosen, pagingVars, idempotencyVars, migrationVars, backupVars, lanVars, chunkVars>>
  \/ chosen = "paging" /\ P!Next
     /\ UNCHANGED <<chosen, groupVars, idempotencyVars, migrationVars, backupVars, lanVars, chunkVars>>
  \/ chosen = "idempotency" /\ I!Next
     /\ UNCHANGED <<chosen, groupVars, pagingVars, migrationVars, backupVars, lanVars, chunkVars>>
  \/ chosen = "migrations" /\ M!Next
     /\ UNCHANGED <<chosen, groupVars, pagingVars, idempotencyVars, backupVars, lanVars, chunkVars>>
  \/ chosen = "backup" /\ B!Next
     /\ UNCHANGED <<chosen, groupVars, pagingVars, idempotencyVars, migrationVars, lanVars, chunkVars>>
  \/ chosen = "lan" /\ L!Next
     /\ UNCHANGED <<chosen, groupVars, pagingVars, idempotencyVars, migrationVars, backupVars, chunkVars>>
  \/ chosen = "chunks" /\ C!Next
     /\ UNCHANGED <<chosen, groupVars, pagingVars, idempotencyVars, migrationVars, backupVars, lanVars>>

Spec == Init /\ [][Next]_vars

-----------------------------------------------------------------------------
\* Groups: one owner, and only administrators the owner has appointed, although
\* AddGroupMember and RemoveGroupMember statements overlap.
GroupRanks == chosen = "groups" => G!GroupRanks

\* Paging: no listing of transfers, failures, audit entries or messages repeats
\* or misses a row while rows come and go between its pages.
ListingFaithful == chosen = "paging" => P!ListingFaithful

\* Idempotency: progress reports, timeline events and metric batches that are
\* repeated with their key take effect once, all get the answer of that effect,
\* and a metric event is counted by one batch.
RetriesAgree == chosen = "idempotency" => I!AnswersAgree /\ I!MetricsCountedOnce

\* Migrations: processes that start together, or crash on the way, apply each
\* script once, in order, and serve requests only when all are applied.
MigrationsOnce == chosen = "migrations" => M!MigrationsOnce

\* Backup: a revoked device stays revoked through every restore that gets as
\* far as ProtectRestoredSecurity, as long as the archives know the device.
RevocationsSurvive == chosen = "backup" => B!RevocationsSurvive

\* Backup: after a restore the files the Node offers have their bodies, although
\* the archive was written while the Node was serving.
OfferedFilesBacked == chosen = "backup" => B!OfferedFilesBacked

\* LAN: a file whose task the sender has deleted or marked as delivered is whole
\* in the receiver, through timeouts, late requests, restarts of the receiver and
\* a sender that sends it again because it failed before it had recorded so.
RecordedIntact == chosen = "lan" => L!RecordedIntact

\* Chunks: BuildManifest, validateRequest and UploadChunk agree on the number
\* and the sizes of the chunks of every file.
ManifestAccepted == chosen = "chunks" => C!ManifestAccepted
=============================================================================
