----------------------------- MODULE LanTransfer -----------------------------
(***************************************************************************)
(* One file sent over the LAN route (lan/transfer.go on both sides, the    *)
(* receiver's chunk store in client/lib/core/lan_service.dart and the      *)
(* sender's loop, retryWaitingLan in client/lib/core/transfer_service.dart)*)
(*                                                                         *)
(* The sender asks which chunks are there, puts the others one by one and  *)
(* asks for completion; each request waits at most 30 s.  A request whose  *)
(* sender has stopped waiting is still served, so requests of several      *)
(* attempts can run at once in the receiver.  A sender that is told        *)
(* DELIVERED deletes or marks its task in a later step; until it has, the  *)
(* next pass sends the file again.                                         *)
(***************************************************************************)
EXTENDS Naturals

CONSTANTS
  Count,        \* chunks of the file
  Slots,        \* requests in flight or in a handler at one time
  MaxAttempts,  \* times the sender starts over
  MaxCrashes    \* restarts of the receiver

VARIABLES
  resumable,  \* both sides support RESUMABLE_CHUNKS
  chunk,      \* the chunk files of the receiver
  assembled,  \* the file put together from them
  request,    \* requests by slot
  sender,     \* the sender's attempt
  challenge,  \* of the running receiver; every start makes another
  settled,    \* the sender's task is deleted or DELIVERED_PENDING_SYNC
  overlap     \* history: a completion was asked for while another was under way

vars == <<resumable, chunk, assembled, request, sender, challenge, settled, overlap>>

Index == 0..(Count - 1)
Idle == [kind |-> "none", index |-> 0, step |-> 0, linked |-> FALSE, awaited |-> FALSE, challenge |-> 0]
Resting == [pc |-> "rest", have |-> {}, index |-> 0, known |-> 0, attempts |-> 0]

Init ==
  /\ resumable \in BOOLEAN
  /\ chunk = [i \in Index |-> "none"]
  /\ assembled = [exists |-> FALSE, at |-> [i \in Index |-> "gap"]]
  /\ request = [s \in Slots |-> Idle]
  /\ sender = Resting
  /\ challenge = 0
  /\ settled = FALSE
  /\ overlap = FALSE

(***************************************************************************)
(* The sender.                                                             *)
(***************************************************************************)

\* The endpoint is the one the last advertisement told of.  The task still
\* waits, as far as the sender's own database knows.
Start ==
  /\ sender.pc = "rest"
  /\ ~settled
  /\ sender.attempts < MaxAttempts
  /\ sender' = [sender EXCEPT !.pc = "status", !.index = 0, !.have = {},
                              !.known = challenge, !.attempts = @ + 1]
  /\ UNCHANGED <<resumable, chunk, assembled, request, challenge, settled, overlap>>

Send(s) ==
  /\ sender.pc \in {"status", "put", "complete"}
  /\ \A t \in Slots : ~request[t].awaited
  /\ request[s] = Idle
  /\ ~(sender.pc = "put" /\ sender.index \in sender.have)
  /\ request' = [request EXCEPT ![s] = [Idle EXCEPT !.kind = sender.pc, !.index = sender.index,
                                                    !.awaited = TRUE, !.challenge = sender.known]]
  /\ overlap' = (overlap \/ (sender.pc = "complete" /\ \E t \in Slots : request[t].kind = "complete"))
  /\ UNCHANGED <<resumable, chunk, assembled, sender, challenge, settled>>

\* Where the sender goes on after chunk i.
After(i) == [sender EXCEPT !.pc = IF i + 1 < Count THEN "put" ELSE "complete",
                           !.index = IF i + 1 < Count THEN i + 1 ELSE 0]

SkipChunk ==
  /\ sender.pc = "put"
  /\ sender.index \in sender.have
  /\ sender' = After(sender.index)
  /\ UNCHANGED <<resumable, chunk, assembled, request, challenge, settled, overlap>>

\* The sender was told DELIVERED: reports to the Node, then deletes its task or
\* marks it DELIVERED_PENDING_SYNC.
Record ==
  /\ sender.pc = "record"
  /\ settled' = TRUE
  /\ sender' = [sender EXCEPT !.pc = "rest"]
  /\ UNCHANGED <<resumable, chunk, assembled, request, challenge, overlap>>

\* A timeout, an error on the way or the end of the sender's process, also
\* before it could record the delivery.  A request may still reach its handler.
GiveUp ==
  /\ sender.pc # "rest"
  /\ sender' = [sender EXCEPT !.pc = "rest"]
  /\ \E lost \in BOOLEAN :
       request' = [s \in Slots |-> IF request[s].awaited /\ lost /\ request[s].step = 0 THEN Idle
                                   ELSE [request[s] EXCEPT !.awaited = FALSE]]
  /\ UNCHANGED <<resumable, chunk, assembled, challenge, settled, overlap>>

\* The answer to request s reaches the sender that still waits for it.
Answer(s, next) == sender' = IF request[s].awaited THEN next ELSE sender
Failed == [sender EXCEPT !.pc = "rest"]

(***************************************************************************)
(* The receiver.                                                           *)
(***************************************************************************)
Handshake(s) == request[s].challenge = challenge

Refuse(s) ==
  /\ request[s].kind # "none"
  /\ request[s].step = 0
  /\ ~Handshake(s)
  /\ Answer(s, Failed)
  /\ request' = [request EXCEPT ![s] = Idle]
  /\ UNCHANGED <<resumable, chunk, assembled, challenge, settled, overlap>>

\* Chunk files are known by their names alone.
CompletedChunks == IF resumable THEN {i \in Index : chunk[i] # "none"} ELSE {}

Status(s) ==
  /\ request[s].kind = "status"
  /\ Handshake(s)
  /\ Answer(s, [sender EXCEPT !.have = CompletedChunks, !.pc = "put"])
  /\ request' = [request EXCEPT ![s] = Idle]
  /\ UNCHANGED <<resumable, chunk, assembled, challenge, settled, overlap>>

\* The bytes have arrived and match the chunk's hash; the file is created or
\* cut to nothing, and written.
PutChunk(s) ==
  /\ request[s].kind = "put"
  /\ request[s].step = 0
  /\ Handshake(s)
  /\ chunk' = [chunk EXCEPT ![request[s].index] = "partial"]
  /\ request' = [request EXCEPT ![s].step = 1, ![s].linked = TRUE]
  /\ UNCHANGED <<resumable, assembled, sender, challenge, settled, overlap>>

\* A writer that another one has cut short may leave a part.
PutDone(s) ==
  /\ request[s].kind = "put"
  /\ request[s].step = 1
  /\ \E content \in {"partial", "whole"} :
       /\ content = "partial" => \E t \in Slots \ {s} : /\ request[t].kind = "put"
                                                        /\ request[t].step = 1
                                                        /\ request[t].index = request[s].index
       /\ chunk' = IF request[s].linked THEN [chunk EXCEPT ![request[s].index] = content] ELSE chunk
  /\ Answer(s, After(request[s].index))
  /\ request' = [request EXCEPT ![s] = Idle]
  /\ UNCHANGED <<resumable, assembled, challenge, settled, overlap>>

\* Step 1 + i of a completion: the chunks before i are written.
Complete(s) ==
  /\ request[s].kind = "complete"
  /\ request[s].step = 0
  /\ Handshake(s)
  /\ assembled' = [exists |-> TRUE, at |-> [i \in Index |-> "gap"]]
  /\ request' = [request EXCEPT ![s].step = 1, ![s].linked = TRUE]
  /\ UNCHANGED <<resumable, chunk, sender, challenge, settled, overlap>>

\* The receiver deletes the assembled file: whoever still writes to it writes
\* to a file without a name.
Unlinked(s, kind) ==
  [t \in Slots |-> IF t = s THEN Idle
                   ELSE IF request[t].kind = kind THEN [request[t] EXCEPT !.linked = FALSE] ELSE request[t]]

Append(s) ==
  /\ request[s].kind = "complete"
  /\ request[s].step \in 1..Count
  /\ LET i == request[s].step - 1 IN
       /\ chunk[i] # "none"
       /\ assembled' = IF request[s].linked
                       THEN [assembled EXCEPT !.at[i] = IF chunk[i] = "whole" THEN "good" ELSE "bad"]
                       ELSE assembled
  /\ request' = [request EXCEPT ![s].step = @ + 1]
  /\ UNCHANGED <<resumable, chunk, sender, challenge, settled, overlap>>

Incomplete(s) ==
  /\ request[s].kind = "complete"
  /\ request[s].step \in 1..Count
  /\ chunk[request[s].step - 1] = "none"
  /\ assembled' = [assembled EXCEPT !.exists = FALSE]
  /\ request' = Unlinked(s, "complete")
  /\ Answer(s, Failed)
  /\ UNCHANGED <<resumable, chunk, challenge, settled, overlap>>

\* Mutant of Matches: the whole file is not hashed.
MatchesAny == assembled.exists

Matches == assembled.exists /\ \A i \in Index : assembled.at[i] = "good"

Told == [sender EXCEPT !.pc = "record"]

\* The whole file matches its hash: the chunks are deleted.
Verified(s) ==
  /\ request[s].kind = "complete"
  /\ request[s].step = Count + 1
  /\ Matches
  /\ chunk' = [i \in Index |-> "none"]
  /\ request' = Unlinked(s, "put")
  /\ Answer(s, Told)
  /\ UNCHANGED <<resumable, assembled, challenge, settled, overlap>>

\* It does not match, or is not there any more.
Mismatch(s) ==
  /\ request[s].kind = "complete"
  /\ request[s].step = Count + 1
  /\ ~Matches
  /\ assembled' = [assembled EXCEPT !.exists = FALSE]
  /\ request' = Unlinked(s, "complete")
  /\ Answer(s, Failed)
  /\ UNCHANGED <<resumable, chunk, challenge, settled, overlap>>

\* The receiver stops and starts: files stay, the challenge does not.
Restart ==
  /\ challenge < MaxCrashes
  /\ challenge' = challenge + 1
  /\ request' = [s \in Slots |-> Idle]
  /\ sender' = IF \E s \in Slots : request[s].awaited THEN Failed ELSE sender
  /\ UNCHANGED <<resumable, chunk, assembled, settled, overlap>>

Sender == Start \/ (\E s \in Slots : Send(s)) \/ SkipChunk \/ Record \/ GiveUp

Receiver ==
  \/ \E s \in Slots :
       \/ Refuse(s) \/ Status(s)
       \/ PutChunk(s) \/ PutDone(s)
       \/ Complete(s) \/ Append(s) \/ Incomplete(s) \/ Verified(s) \/ Mismatch(s)
  \/ Restart

Next == Sender \/ Receiver

-----------------------------------------------------------------------------
\* A sender that has deleted or marked its task as delivered can rely on it: the
\* receiver holds the whole file, whatever chunks of earlier attempts, half-written
\* files of a crashed receiver or late requests there were, and however often
\* the file was sent before the delivery was recorded.  Only a completion that
\* the sender gave up and that is still under way when it asks for the next one
\* can undo it.
RecordedIntact ==
  settled /\ ~overlap => assembled.exists /\ \A i \in Index : assembled.at[i] = "good"
=============================================================================
