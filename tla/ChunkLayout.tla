---------------------------- MODULE ChunkLayout ----------------------------
(***************************************************************************)
(* How a file is cut into chunks.  Three places compute it, each in its    *)
(* own way: BuildManifest reads until the file ends, validateRequest       *)
(* divides, and UploadChunk works out the size an index must have.         *)
(***************************************************************************)
EXTENDS Integers, Sequences

CONSTANTS Sizes, ChunkSizes  \* sizes of files and of chunks

VARIABLES
  size, chunkSize,  \* of the file being sent
  manifest,         \* the sizes of its chunks so far
  pc                \* "read" in BuildManifest, then "done"

vars == <<size, chunkSize, manifest, pc>>

Init ==
  /\ size \in Sizes
  /\ chunkSize \in ChunkSizes
  /\ manifest = << >>
  /\ pc = "read"

\* io.ReadFull: a whole buffer, or what is left and an error that ends the loop.
Left == size - Len(manifest) * chunkSize

ReadWhole ==
  /\ pc = "read"
  /\ Left >= chunkSize
  /\ manifest' = Append(manifest, chunkSize)
  /\ UNCHANGED <<size, chunkSize, pc>>

ReadEnd ==
  /\ pc = "read"
  /\ Left < chunkSize
  /\ manifest' = IF Left > 0 THEN Append(manifest, Left) ELSE manifest
  /\ pc' = "done"
  /\ UNCHANGED <<size, chunkSize>>

Next == ReadWhole \/ ReadEnd

\* Mutant of ExpectedChunkCount: the short last chunk is not counted.
RoundedDown == size \div chunkSize

ExpectedChunkCount == size \div chunkSize + (IF size % chunkSize # 0 THEN 1 ELSE 0)

\* Of a file that was accepted with ExpectedChunkCount chunks.
ExpectedChunkSize(index) ==
  IF index < ExpectedChunkCount - 1 THEN chunkSize ELSE size - index * chunkSize

-----------------------------------------------------------------------------
\* What BuildManifest makes of a file, validateRequest accepts and UploadChunk
\* expects chunk for chunk: empty files, exact multiples and short last chunks.
ManifestAccepted ==
  pc = "done" =>
    /\ Len(manifest) = ExpectedChunkCount
    /\ \A i \in DOMAIN manifest : manifest[i] = ExpectedChunkSize(i - 1)
=============================================================================
