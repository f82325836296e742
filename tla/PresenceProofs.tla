--------------------------- MODULE PresenceProofs ---------------------------
(***************************************************************************)
(* Proofs about Presence, for any number of connections, notifications and *)
(* faults.                                                                 *)
(***************************************************************************)
EXTENDS Presence, TLAPS

-----------------------------------------------------------------------------
(***************************************************************************)
(* Who answers for the open row: a handler that has opened it and is about *)
(* to register, the registered one, or one about to close it.              *)
(***************************************************************************)
Answers(c) ==
  \/ handler[c] \in {"ACCEPTED", "DISCONNECTING"}
  \/ clients = c

Registered ==
  clients # NoConnection =>
    handler[clients] \in {"REGISTERED", "SERVING", "CLOSING"}

Answered == row = "OPEN" => \E c \in Connections : Answers(c)

HandlersOK ==
  /\ handler \in [Connections ->
       {"NONE", "ACCEPTED", "REGISTERED", "SERVING", "CLOSING", "DISCONNECTING"}]
  /\ clients \in Connections \cup {NoConnection}
  /\ row \in {"OPEN", "CLOSED"}

IndInv == HandlersOK /\ Registered /\ Answered

\* The steps of a connection that neither touch the row nor the register,
\* and keep its handler where it is or move it towards CLOSING.
Serves(c) ==
  /\ handler[c] \in Connected
  /\ handler' \in {handler, [handler EXCEPT ![c] = "SERVING"],
                   [handler EXCEPT ![c] = "CLOSING"]}
  /\ UNCHANGED <<row, clients>>

LEMMA ServesKeeps ==
  ASSUME IndInv, NEW c \in Connections, Serves(c)
  PROVE  IndInv'
<1> USE DEF IndInv, Serves
<1>1. HandlersOK' BY DEF HandlersOK
<1>2. \A e \in Connections : e # c => handler'[e] = handler[e]
  BY DEF HandlersOK
<1>3. handler'[c] \in {"REGISTERED", "SERVING", "CLOSING"}
  BY DEF HandlersOK, Connected
<1>4. Registered' BY <1>2, <1>3, ConstantsAssumption DEF Registered, HandlersOK
<1>5. Answered'
  <2>1. SUFFICES ASSUME row = "OPEN" PROVE \E e \in Connections : Answers(e)'
    BY DEF Answered
  <2>2. PICK e \in Connections : Answers(e) BY <2>1 DEF Answered
  <2>3. Answers(e)'
    BY <2>2, <1>2 DEF Answers, Connected
  <2> QED BY <2>3
<1> QED BY <1>1, <1>4, <1>5

LEMMA ServingSteps ==
  ASSUME IndInv, NEW c \in Connections,
         \/ Greet(c) \/ ReadHeartbeat(c) \/ ReadAck(c) \/ Leave(c) \/ ReaderFails(c)
  PROVE  Serves(c)
<1>1. CASE Greet(c) BY <1>1 DEF Greet, Serves, Connected, rows
<1>2. CASE ReadHeartbeat(c)
  BY <1>2 DEF ReadHeartbeat, ServeOn, Serves, Connected, rows
<1>3. CASE ReadAck(c)
  BY <1>3 DEF ReadAck, ServeOn, Serves, Connected
<1>4. CASE Leave(c) BY <1>4 DEF Leave, Serves, Connected, rows
<1>5. CASE ReaderFails(c) BY <1>5 DEF ReaderFails, Serves, Connected, rows
<1> QED BY <1>1, <1>2, <1>3, <1>4, <1>5

\* Steps of anyone else leave the handlers, the register and the row alone.
LEMMA ElsewhereSteps ==
  ASSUME NEW c \in Connections,
         \/ StartWriter(c) \/ Poll(c) \/ Write(c) \/ WriterFails(c)
         \/ Heartbeat(c) \/ ScheduleReconnect(c) \/ Drop(c)
  PROVE  UNCHANGED <<handler, clients, row>>
BY DEF StartWriter, Poll, Write, WriterFails, Heartbeat, ScheduleReconnect,
       Drop, HangUp, rows, hub

LEMMA UnchangedKeeps ==
  ASSUME IndInv, UNCHANGED <<handler, clients, row>>
  PROVE  IndInv'
BY DEF IndInv, HandlersOK, Registered, Answered, Answers

LEMMA ConnectKeeps ==
  ASSUME IndInv, NEW c \in Connections, ConnectDevice(c)
  PROVE  IndInv'
<1> USE DEF IndInv, ConnectDevice
<1>1. HandlersOK' BY DEF HandlersOK
<1>2. Registered' BY DEF HandlersOK, Registered
<1>3. Answers(c)' BY DEF Answers, HandlersOK
<1> QED BY <1>1, <1>2, <1>3 DEF Answered

LEMMA RegisterKeeps ==
  ASSUME IndInv, NEW c \in Connections, Register(c)
  PROVE  IndInv'
<1> USE DEF IndInv, Register
<1>1. HandlersOK' BY DEF HandlersOK, rows
<1>2. Registered' BY DEF HandlersOK, Registered
<1>3. Answers(c)' BY DEF Answers
<1> QED BY <1>1, <1>2, <1>3 DEF Answered

\* A connection that was replaced leaves without a trace: somebody else
\* answers for the row.
LEMMA UnregisterKeeps ==
  ASSUME IndInv, NEW c \in Connections, Unregister(c)
  PROVE  IndInv'
<1> USE DEF IndInv, Unregister
<1>1. HandlersOK' BY DEF HandlersOK, rows
<1>2. CASE clients = c
  <2>1. Registered' BY <1>2, ConstantsAssumption DEF Registered, Current
  <2>2. Answers(c)' BY <1>2 DEF Answers, Current, HandlersOK
  <2> QED BY <1>1, <2>1, <2>2 DEF Answered
<1>3. CASE clients # c
  <2>1. Registered' BY <1>3 DEF Registered, Current, HandlersOK
  <2>2. SUFFICES ASSUME row = "OPEN" PROVE \E e \in Connections : Answers(e)'
    BY <1>1, <2>1 DEF Answered, rows
  <2>3. PICK e \in Connections : Answers(e) BY <2>2 DEF Answered
  <2>4. e # c BY <2>3, <1>3 DEF Answers
  <2>5. Answers(e)' BY <2>3, <2>4, <1>3 DEF Answers, Current, HandlersOK
  <2> QED BY <2>5
<1> QED BY <1>2, <1>3

LEMMA DisconnectKeeps ==
  ASSUME IndInv, NEW c \in Connections, DisconnectDevice(c)
  PROVE  IndInv'
<1> USE DEF IndInv, DisconnectDevice
<1>1. HandlersOK' BY DEF HandlersOK
<1>2. Registered' BY DEF HandlersOK, Registered
<1>3. Answered' BY DEF Answered
<1> QED BY <1>1, <1>2, <1>3

LEMMA NextKeeps ==
  ASSUME IndInv, [Next]_vars
  PROVE  IndInv'
<1>1. CASE \E n \in Notifications : Notify(n)
  BY <1>1, UnchangedKeeps DEF Notify, hub
<1>2. CASE RevokeDevice
  BY <1>2, UnchangedKeeps DEF RevokeDevice, hub
<1>3. ASSUME NEW c \in Connections,
             \/ ConnectDevice(c) \/ Reader(c) \/ Writer(c) \/ Heartbeat(c)
             \/ ScheduleReconnect(c) \/ ReaderFails(c) \/ WriterFails(c) \/ Drop(c)
      PROVE  IndInv'
  <2>1. CASE ConnectDevice(c) BY <2>1, ConnectKeeps
  <2>2. CASE Register(c) BY <2>2, RegisterKeeps
  <2>3. CASE Greet(c) \/ ReadHeartbeat(c) \/ ReadAck(c) \/ Leave(c) \/ ReaderFails(c)
    <3>1. Serves(c) BY <2>3, ServingSteps
    <3> QED BY <3>1, ServesKeeps
  <2>4. CASE Unregister(c) BY <2>4, UnregisterKeeps
  <2>5. CASE DisconnectDevice(c) BY <2>5, DisconnectKeeps
  <2>6. CASE \/ StartWriter(c) \/ Poll(c) \/ Write(c) \/ WriterFails(c)
             \/ Heartbeat(c) \/ ScheduleReconnect(c) \/ Drop(c)
    BY <2>6, ElsewhereSteps, UnchangedKeeps
  <2> QED BY <1>3, <2>1, <2>2, <2>3, <2>4, <2>5, <2>6 DEF Reader, Writer
<1>4. CASE UNCHANGED vars
  BY <1>4, UnchangedKeeps DEF vars, rows, hub
<1> QED BY <1>1, <1>2, <1>3, <1>4 DEF Next

LEMMA InitHolds == Init => IndInv
BY DEF Init, IndInv, HandlersOK, Registered, Answered

(***************************************************************************)
(* A device with no connection left is marked disconnected, for any number *)
(* of connections that replace one another: unregister's answer is TRUE    *)
(* for exactly the handler that answers for the row.                       *)
(***************************************************************************)
THEOREM GoneIsOffline == Spec => []OfflineWhenGone
<1>1. Spec => []IndInv
  BY InitHolds, NextKeeps, PTL DEF Spec
<1>2. IndInv => OfflineWhenGone
  BY ConstantsAssumption
  DEF IndInv, HandlersOK, Registered, Answered, Answers, OfflineWhenGone
<1> QED BY <1>1, <1>2, PTL
=============================================================================
