------------------------------- MODULE Backup -------------------------------
(***************************************************************************)
(* Backup and restore (backup/service.go, postgres/backup.go).             *)
(*                                                                         *)
(* A backup is taken while the Node goes on serving: pg_dump sees one      *)
(* snapshot, the bodies are archived file by file afterwards.  A restore   *)
(* is run with the Node stopped, as docs/deployment.md asks; pg_restore    *)
(* works table by table and may leave any of them old, restored, missing   *)
(* or made again without rows.  The archive is modelled as the snapshot    *)
(* and the bodies in it.                                                   *)
(***************************************************************************)
EXTENDS FiniteSets, Naturals

CONSTANTS
  Devices,    \* devices of the Node's users
  Files,      \* completed files
  MaxArchives, \* archives the operator keeps
  NoArchive,  \* a job that restores nothing
  Missing     \* a table that pg_restore has dropped and not made again

VARIABLES
  node,        \* up or down
  db,          \* the tables that matter here: devices, sessions, files
  disk,        \* bodies in the storage directory
  job,         \* the backup or restore under way
  archives,    \* the archives that were finished
  revocations, \* history: devices that were ever revoked
  damaged,     \* history: a restore ended without securing what it had restored
  forgotten,   \* history: revoked devices that a restore left without a row
  unbacked     \* history: files whose rows may have been restored without a body

vars == <<node, db, disk, job, archives, revocations, damaged, forgotten, unbacked>>

Tables == {"devices", "sessions", "files"}
NoJob == [pc |-> "none", dump |-> NoArchive, withFiles |-> FALSE, done |-> {}, bodies |-> {},
          gone |-> {}, from |-> NoArchive, revoked |-> {}, failed |-> FALSE]

\* Tables without rows.
Empty == [devices |-> [d \in Devices |-> "absent"], sessions |-> FALSE, files |-> {}]

Init ==
  /\ node = "up"
  /\ db = Empty
  /\ disk = {}
  /\ job = NoJob
  /\ archives = {}
  /\ revocations = {}
  /\ damaged = FALSE
  /\ forgotten = {}
  /\ unbacked = {}

(***************************************************************************)
(* The Node at work; details are in Access and NodeStorage.                *)
(***************************************************************************)
Serves == node = "up" /\ \A t \in Tables : db[t] # Missing

CreateDevice(d) ==
  /\ Serves
  /\ db.devices[d] = "absent"
  /\ d \notin revocations
  /\ db' = [db EXCEPT !.devices[d] = "active", !.sessions = TRUE]
  /\ UNCHANGED <<node, disk, job, archives, revocations, damaged, forgotten, unbacked>>

RevokeDevice(d) ==
  /\ Serves
  /\ db.devices[d] = "active"
  /\ db' = [db EXCEPT !.devices[d] = "revoked"]
  /\ revocations' = revocations \cup {d}
  /\ UNCHANGED <<node, disk, job, archives, damaged, forgotten, unbacked>>

CompleteFile(f) ==
  /\ Serves
  /\ f \notin db.files \cup disk
  /\ db' = [db EXCEPT !.files = @ \cup {f}]
  /\ disk' = disk \cup {f}
  /\ UNCHANGED <<node, job, archives, revocations, damaged, forgotten, unbacked>>

ExpireFile(f) ==
  /\ Serves
  /\ f \in db.files
  /\ db' = [db EXCEPT !.files = @ \ {f}]
  /\ disk' = disk \ {f}
  /\ job' = [job EXCEPT !.gone = IF job.pc = "archive" THEN @ \cup {f} ELSE @]
  /\ UNCHANGED <<node, archives, revocations, damaged, forgotten, unbacked>>

(***************************************************************************)
(* Create: dump, then walk the storage directory.                          *)
(***************************************************************************)
Dump(withFiles) ==
  /\ job.pc = "none"
  /\ \A t \in Tables : db[t] # Missing
  /\ Cardinality(archives) < MaxArchives
  /\ job' = [NoJob EXCEPT !.pc = "archive", !.dump = db, !.withFiles = withFiles]
  /\ UNCHANGED <<node, db, disk, archives, revocations, damaged, forgotten, unbacked>>

WriteStorage(f) ==
  /\ job.pc = "archive"
  /\ job.withFiles
  /\ f \notin job.done
  /\ job' = [job EXCEPT !.done = @ \cup {f}, !.bodies = @ \cup ({f} \cap disk)]
  /\ UNCHANGED <<node, db, disk, archives, revocations, damaged, forgotten, unbacked>>

\* Mutant of Dumped: the database is dumped after the files are copied.
DumpedLast == db

Dumped == job.dump

FinishArchive ==
  /\ job.pc = "archive"
  /\ job.withFiles => job.done = Files
  /\ archives' = archives \cup {[dump |-> Dumped, withFiles |-> job.withFiles,
                                bodies |-> job.bodies, gone |-> job.gone]}
  /\ job' = NoJob
  /\ UNCHANGED <<node, db, disk, revocations, damaged, forgotten, unbacked>>

(***************************************************************************)
(* Restore: revocations in force are read first and applied again to       *)
(* whatever pg_restore leaves behind.                                      *)
(***************************************************************************)
RevokedDeviceIDs == {d \in Devices : db.devices[d] = "revoked"}

BeginRestore(archive) ==
  /\ node = "down"
  /\ job.pc = "none"
  /\ db.devices # Missing
  /\ job' = [NoJob EXCEPT !.pc = "extract", !.from = archive, !.revoked = RevokedDeviceIDs]
  /\ UNCHANGED <<node, db, disk, archives, revocations, damaged, forgotten, unbacked>>

\* Everything in the archive is read before the database is touched.
ExtractArchive ==
  /\ job.pc = "extract"
  /\ job' = [job EXCEPT !.pc = "restore"]
  /\ UNCHANGED <<node, db, disk, archives, revocations, damaged, forgotten, unbacked>>

PgRestore ==
  /\ job.pc = "restore"
  /\ db' \in [devices : {db.devices, job.from.dump.devices, Empty.devices, Missing},
              sessions : {db.sessions, job.from.dump.sessions, Empty.sessions, Missing},
              files : {db.files, job.from.dump.files, Empty.files, Missing}]
  /\ job' = [job EXCEPT !.pc = "protect", !.failed = db' # job.from.dump]
  /\ forgotten' = forgotten \cup {d \in job.revoked : db'.devices # Missing /\ db'.devices[d] = "absent"}
  /\ UNCHANGED <<node, disk, archives, revocations, damaged, unbacked>>

\* Mutant of Protected: the ledger of revocations is not applied.
Unprotected(devices, revoked) == devices

Protected(devices, revoked) ==
  IF revoked = {} THEN devices
  ELSE [d \in Devices |-> IF d \in revoked /\ devices[d] # "absent" THEN "revoked" ELSE devices[d]]

\* One transaction: sessions end, devices are revoked again.  A pg_restore
\* that failed ends the restore here.
ProtectRestoredSecurity ==
  /\ job.pc = "protect"
  /\ db.sessions # Missing
  /\ job.revoked # {} => db.devices # Missing
  /\ db' = [db EXCEPT !.sessions = FALSE, !.devices = Protected(@, job.revoked)]
  /\ job' = IF job.failed THEN NoJob ELSE [job EXCEPT !.pc = "files"]
  /\ unbacked' = IF job.failed THEN Files ELSE unbacked
  /\ UNCHANGED <<node, disk, archives, revocations, damaged, forgotten>>

RestoreFile(f) ==
  /\ job.pc = "files"
  /\ f \in job.from.bodies \ job.done
  /\ disk' = disk \cup {f}
  /\ job' = [job EXCEPT !.done = @ \cup {f}]
  /\ UNCHANGED <<node, db, archives, revocations, damaged, forgotten, unbacked>>

FinishRestore ==
  /\ job.pc = "files"
  /\ job.from.withFiles => job.done = job.from.bodies
  /\ unbacked' = unbacked \cup (IF job.from.withFiles THEN job.from.gone ELSE job.from.dump.files)
  /\ job' = NoJob
  /\ UNCHANGED <<node, db, disk, archives, revocations, damaged, forgotten>>

\* An error or a crash in either job.  An unfinished archive is removed; a
\* restored database that was not protected stays as it is.
Abort ==
  /\ job.pc # "none"
  /\ damaged' = (damaged \/ job.pc = "protect")
  /\ unbacked' = IF job.pc \in {"protect", "files"} THEN Files ELSE unbacked
  /\ job' = NoJob
  /\ UNCHANGED <<node, db, disk, archives, revocations, forgotten>>

(***************************************************************************)
(* The operator.                                                           *)
(***************************************************************************)
StopNode ==
  /\ node = "up"
  /\ node' = "down"
  /\ UNCHANGED <<db, disk, job, archives, revocations, damaged, forgotten, unbacked>>

StartNode ==
  /\ node = "down"
  /\ job.pc \in {"none", "archive"}
  /\ node' = "up"
  /\ UNCHANGED <<db, disk, job, archives, revocations, damaged, forgotten, unbacked>>

NodeStep ==
  \/ \E d \in Devices : CreateDevice(d) \/ RevokeDevice(d)
  \/ \E f \in Files : CompleteFile(f) \/ ExpireFile(f)
  \/ StopNode \/ StartNode

Create ==
  \/ \E withFiles \in BOOLEAN : Dump(withFiles)
  \/ \E f \in Files : WriteStorage(f)
  \/ FinishArchive

Restore ==
  \/ (\E archive \in archives : BeginRestore(archive)) \/ ExtractArchive
  \/ PgRestore \/ ProtectRestoredSecurity
  \/ \E f \in Files : RestoreFile(f)
  \/ FinishRestore

Next == NodeStep \/ Create \/ Restore \/ Abort

-----------------------------------------------------------------------------
\* A device that was ever revoked is not active on a Node that serves, however
\* old the archives were that have been restored since and whichever tables
\* pg_restore left behind: unless a restore was cut off between pg_restore and
\* ProtectRestoredSecurity, or a restore left the device without a row (its
\* archive is from before the device, or pg_restore stopped with an empty
\* table), for then no row remembers the revocation.
RevocationsSurvive ==
  Serves /\ ~damaged => \A d \in revocations \ forgotten : db.devices[d] # "active"

\* After a restore every file the Node offers has its body, although the
\* archive was written while files came and went; missing are only those that
\* expired between dump and walk, and those of archives without files or of
\* restores that failed.
OfferedFilesBacked == Serves => db.files \ disk \subseteq unbacked
=============================================================================
