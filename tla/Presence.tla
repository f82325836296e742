------------------------------ MODULE Presence ------------------------------
(***************************************************************************)
(* The realtime connections of one device: internal/presence/hub.go with   *)
(* the device_connections and notifications rows of                        *)
(* internal/postgres/store.go, and the client that answers it,             *)
(* client/lib/core/realtime_connection.dart (web/src/realtime.ts behaves   *)
(* alike).                                                                 *)
(*                                                                         *)
(* Every websocket has two goroutines on the Node, the reader (ServeHTTP)  *)
(* and the writer (writeLoop), joined by a channel of Capacity messages    *)
(* (32 in the code).  A device that reconnects is served by a new pair     *)
(* while the old pair may still be shutting down; both write the device's  *)
(* one device_connections row.                                             *)
(*                                                                         *)
(* Time is modelled by what it makes possible: the 45 s read deadline only *)
(* passes on a connection whose client has fallen silent, and the 5 s and  *)
(* 15 s tickers only fire on a drained channel, unless a fault (a stalled  *)
(* write) is spent.  DisconnectDevice is taken to succeed and the Node not *)
(* to crash: either would leave the row open until its last_seen_at is     *)
(* 45 s old, which is when readers of the row call the device offline.     *)
(***************************************************************************)
EXTENDS Integers, Sequences, FiniteSets

CONSTANTS
  Connections,     \* websockets that may exist at the same time
  Notifications,   \* notifications created during the behaviour
  Capacity,        \* of a client's send channel
  MaxFaults,       \* bound: lost connections, store errors, stalled writes
  MaxInbound,      \* bound: unread messages of a client
  NoConnection

ASSUME ConstantsAssumption ==
  /\ NoConnection \notin Connections
  /\ Notifications \cap {"connected", "heartbeat", "heartbeat_ack"} = {}
  /\ Capacity \in Nat \ {0}
  /\ MaxFaults \in Nat
  /\ MaxInbound \in Nat \ {0}

VARIABLES
  trusted,   \* devices.trust_status
  row,       \* device_connections: OPEN while disconnected_at IS NULL
  pending,   \* unacknowledged notifications, by created_at
  acked,     \* acknowledged ones
  clients,   \* hub.clients[deviceID]
  handler,   \* where ServeHTTP of each connection is
  writer,    \* where its writeLoop is
  send,      \* its channel
  inbound,   \* what its client sent and the reader has not read
  socket,    \* the connection the client listens on
  greeted,   \* whether it has received "connected" there
  faults

rows == <<trusted, row, pending, acked>>
hub == <<clients, handler, writer, send>>
device == <<inbound, socket, greeted>>
vars == <<rows, hub, device, faults>>

Outgoing == Notifications \cup {"connected", "heartbeat_ack"}
Incoming == Notifications \cup {"heartbeat"}
Connected == {"REGISTERED", "SERVING"}

TypeOK ==
  /\ trusted \in BOOLEAN
  /\ row \in {"OPEN", "CLOSED"}
  /\ pending \in Seq(Notifications)
  /\ acked \subseteq Notifications
  /\ clients \in Connections \cup {NoConnection}
  /\ handler \in [Connections ->
       {"NONE", "ACCEPTED", "REGISTERED", "SERVING", "CLOSING", "DISCONNECTING"}]
  /\ writer \in [Connections -> {"NONE", "STARTING", "RUNNING", "FAILED"}]
  /\ send \in [Connections -> Seq(Outgoing)]
  /\ \A c \in Connections : Len(send[c]) <= Capacity
  /\ inbound \in [Connections -> Seq(Incoming)]
  /\ socket \in Connections \cup {NoConnection}
  /\ greeted \in BOOLEAN
  /\ faults \in 0 .. MaxFaults

Init ==
  /\ trusted = TRUE
  /\ row = "CLOSED"
  /\ pending = <<>>
  /\ acked = {}
  /\ clients = NoConnection
  /\ handler = [c \in Connections |-> "NONE"]
  /\ writer = [c \in Connections |-> "NONE"]
  /\ send = [c \in Connections |-> <<>>]
  /\ inbound = [c \in Connections |-> <<>>]
  /\ socket = NoConnection
  /\ greeted = FALSE
  /\ faults = 0

Fault == faults < MaxFaults /\ faults' = faults + 1

PendingSet == {pending[i] : i \in DOMAIN pending}

-----------------------------------------------------------------------------
(***************************************************************************)
(* The rest of the Node: a transfer to the device inserts a notification,  *)
(* its owner or an administrator revokes it.                               *)
(***************************************************************************)
Notify(n) ==
  /\ trusted
  /\ n \notin PendingSet \cup acked
  /\ pending' = Append(pending, n)
  /\ UNCHANGED <<trusted, row, acked, hub, device, faults>>

RevokeDevice ==
  /\ trusted
  /\ trusted' = FALSE
  /\ UNCHANGED <<row, pending, acked, hub, device, faults>>

\* Mutant of Available: no statement looks at the device's trust.
AlwaysAvailable == TRUE

\* trust_status = 'TRUSTED' AND revoked_at IS NULL, in every statement here.
Available == trusted

-----------------------------------------------------------------------------
(***************************************************************************)
(* The reader.                                                             *)
(***************************************************************************)
\* The client connects, is authenticated, and ConnectDevice opens the row.
ConnectDevice(c) ==
  /\ handler[c] = "NONE"
  /\ socket = NoConnection
  /\ Available
  /\ row' = "OPEN"
  /\ handler' = [handler EXCEPT ![c] = "ACCEPTED"]
  /\ socket' = c
  /\ UNCHANGED <<trusted, pending, acked, clients, writer, send, inbound,
                 greeted, faults>>

\* The newest handler takes the device over and its writer starts.  The one
\* it replaces finds its context cancelled in Leave.
Register(c) ==
  /\ handler[c] = "ACCEPTED"
  /\ clients' = c
  /\ handler' = [handler EXCEPT ![c] = "REGISTERED"]
  /\ writer' = [writer EXCEPT ![c] = "STARTING"]
  /\ UNCHANGED <<rows, send, device, faults>>

Room(c) == Len(send[c]) < Capacity

\* enqueue(connected), concurrently with the writer's first notifications.
Greet(c) ==
  /\ handler[c] = "REGISTERED"
  /\ \/ /\ Room(c)
        /\ send' = [send EXCEPT ![c] = Append(@, "connected")]
        /\ handler' = [handler EXCEPT ![c] = "SERVING"]
     \/ /\ ~Room(c)
        /\ handler' = [handler EXCEPT ![c] = "CLOSING"]
        /\ UNCHANGED send
  /\ UNCHANGED <<rows, clients, writer, device, faults>>

\* After each message the reader looks whether its writer has failed.
ServeOn(c) ==
  handler' = IF writer[c] = "FAILED" THEN [handler EXCEPT ![c] = "CLOSING"] ELSE handler

\* Mutant of HeartbeatRecorded: RowsAffected is not looked at.
AnyHeartbeat == TRUE

HeartbeatRecorded == row = "OPEN" /\ Available

ReadHeartbeat(c) ==
  /\ handler[c] = "SERVING"
  /\ inbound[c] # <<>>
  /\ Head(inbound[c]) = "heartbeat"
  /\ inbound' = [inbound EXCEPT ![c] = Tail(@)]
  /\ \/ /\ HeartbeatRecorded
        /\ Room(c)
        /\ send' = [send EXCEPT ![c] = Append(@, "heartbeat_ack")]
        /\ ServeOn(c)
     \/ /\ ~(HeartbeatRecorded /\ Room(c))
        /\ handler' = [handler EXCEPT ![c] = "CLOSING"]
        /\ UNCHANGED send
  /\ UNCHANGED <<rows, clients, writer, socket, greeted, faults>>

\* AcknowledgeNotification: a second acknowledgement is an error, and ends
\* the connection.
ReadAck(c) ==
  /\ handler[c] = "SERVING"
  /\ inbound[c] # <<>>
  /\ Head(inbound[c]) \in Notifications
  /\ inbound' = [inbound EXCEPT ![c] = Tail(@)]
  /\ \/ /\ Head(inbound[c]) \in PendingSet
        /\ acked' = acked \cup {Head(inbound[c])}
        /\ pending' = SelectSeq(pending, LAMBDA n : n # Head(inbound[c]))
        /\ ServeOn(c)
     \/ /\ Head(inbound[c]) \notin PendingSet
        /\ handler' = [handler EXCEPT ![c] = "CLOSING"]
        /\ UNCHANGED <<pending, acked>>
  /\ UNCHANGED <<trusted, row, clients, writer, send, socket, greeted, faults>>

\* Mutant of Silent: the read has no deadline.
NeverSilent(c) == FALSE

\* A read fails because a newer connection has taken over, because the
\* client has gone, or because the client, never greeted, says nothing.
Silent(c) == ~greeted /\ writer[c] = "FAILED" /\ inbound[c] = <<>>

Leave(c) ==
  /\ handler[c] = "SERVING"
  /\ clients # c \/ socket # c \/ Silent(c)
  /\ handler' = [handler EXCEPT ![c] = "CLOSING"]
  /\ UNCHANGED <<rows, clients, writer, send, device, faults>>

\* A read or a statement of the reader fails.
ReaderFails(c) ==
  /\ handler[c] = "SERVING"
  /\ Fault
  /\ handler' = [handler EXCEPT ![c] = "CLOSING"]
  /\ UNCHANGED <<rows, clients, writer, send, device>>

\* Mutant of Current: the deferred unregister never finds itself current.
NeverCurrent(c) == FALSE

Current(c) == clients = c

\* The deferred cancel, Close and unregister: only the current connection
\* goes on to DisconnectDevice.
Unregister(c) ==
  /\ handler[c] = "CLOSING"
  /\ \/ /\ Current(c)
        /\ clients' = NoConnection
        /\ handler' = [handler EXCEPT ![c] = "DISCONNECTING"]
     \/ /\ ~Current(c)
        /\ handler' = [handler EXCEPT ![c] = "NONE"]
        /\ UNCHANGED clients
  /\ writer' = [writer EXCEPT ![c] = "NONE"]
  /\ send' = [send EXCEPT ![c] = <<>>]
  /\ inbound' = [inbound EXCEPT ![c] = <<>>]
  /\ UNCHANGED <<rows, socket, greeted, faults>>

DisconnectDevice(c) ==
  /\ handler[c] = "DISCONNECTING"
  /\ row' = "CLOSED"
  /\ handler' = [handler EXCEPT ![c] = "NONE"]
  /\ UNCHANGED <<trusted, pending, acked, clients, writer, send, device, faults>>

-----------------------------------------------------------------------------
(***************************************************************************)
(* The writer.  Its first act and every poll queue all that is pending,    *)
(* and it writes nothing before its first act is over.  (The statement's   *)
(* LIMIT of 100 is beyond the channel's 32.)                               *)
(***************************************************************************)
Queued(c) == send[c] \o pending

SendNotifications(c) ==
  \/ /\ Available
     /\ Len(Queued(c)) <= Capacity
     /\ send' = [send EXCEPT ![c] = Queued(c)]
     /\ writer' = [writer EXCEPT ![c] = "RUNNING"]
  \/ /\ Available
     /\ Len(Queued(c)) > Capacity
     /\ send' = [send EXCEPT ![c] = SubSeq(Queued(c), 1, Capacity)]
     /\ writer' = [writer EXCEPT ![c] = "FAILED"]
  \/ /\ ~Available
     /\ writer' = [writer EXCEPT ![c] = "FAILED"]
     /\ UNCHANGED send

StartWriter(c) ==
  /\ handler[c] \in Connected
  /\ writer[c] = "STARTING"
  /\ SendNotifications(c)
  /\ UNCHANGED <<rows, clients, handler, device, faults>>

\* The seconds between two ticks are enough for a writer that runs to write
\* what is queued, unless a write stalls.
Written(c) == writer[c] # "RUNNING" \/ send[c] = <<>>

Drained(c) ==
  \/ Written(c) /\ UNCHANGED faults
  \/ ~Written(c) /\ Fault

Poll(c) ==
  /\ handler[c] \in Connected
  /\ writer[c] = "RUNNING"
  /\ Drained(c)
  /\ SendNotifications(c)
  /\ UNCHANGED <<rows, clients, handler, device>>

\* A message is written, and the client, if it still listens here, handles
\* it: it acknowledges every notification it is sent.
Write(c) ==
  /\ handler[c] \in Connected
  /\ writer[c] = "RUNNING"
  /\ send[c] # <<>>
  /\ Len(inbound[c]) < MaxInbound
  /\ send' = [send EXCEPT ![c] = Tail(@)]
  /\ \/ /\ socket = c
        /\ Head(send[c]) \in Notifications
        /\ inbound' = [inbound EXCEPT ![c] = Append(@, Head(send[c]))]
        /\ UNCHANGED greeted
     \/ /\ socket = c
        /\ Head(send[c]) \notin Notifications
        /\ greeted' = (greeted \/ Head(send[c]) = "connected")
        /\ UNCHANGED inbound
     \/ socket # c /\ UNCHANGED <<inbound, greeted>>
  /\ UNCHANGED <<rows, clients, handler, writer, socket, faults>>

\* A write or a ping to a client that has gone fails; so may a statement.
WriterFails(c) ==
  /\ handler[c] \in Connected
  /\ writer[c] \in {"STARTING", "RUNNING"}
  /\ \/ socket # c /\ UNCHANGED faults
     \/ socket = c /\ Fault
  /\ writer' = [writer EXCEPT ![c] = "FAILED"]
  /\ UNCHANGED <<rows, clients, handler, send, device>>

-----------------------------------------------------------------------------
(***************************************************************************)
(* The client.                                                             *)
(***************************************************************************)
\* The periodic heartbeat, which starts with "connected".
Heartbeat(c) ==
  /\ socket = c
  /\ greeted
  /\ handler[c] \in Connected
  /\ ~\E i \in DOMAIN inbound[c] : inbound[c][i] = "heartbeat"
  /\ Drained(c)
  /\ inbound' = [inbound EXCEPT ![c] = Append(@, "heartbeat")]
  /\ UNCHANGED <<rows, hub, socket, greeted>>

HangUp ==
  /\ socket' = NoConnection
  /\ greeted' = FALSE
  /\ UNCHANGED <<rows, hub, inbound>>

\* onDone: the Node has closed the connection.
ScheduleReconnect(c) ==
  /\ socket = c
  /\ handler[c] \in {"NONE", "CLOSING", "DISCONNECTING"}
  /\ HangUp
  /\ UNCHANGED faults

\* The network fails: the client notices, the Node does not yet.
Drop(c) ==
  /\ socket = c
  /\ Fault
  /\ HangUp

-----------------------------------------------------------------------------
Reader(c) ==
  \/ Register(c)
  \/ Greet(c)
  \/ ReadHeartbeat(c)
  \/ ReadAck(c)
  \/ Leave(c)
  \/ Unregister(c)
  \/ DisconnectDevice(c)

Writer(c) ==
  \/ StartWriter(c)
  \/ Poll(c)
  \/ Write(c)

Next ==
  \/ \E n \in Notifications : Notify(n)
  \/ RevokeDevice
  \/ \E c \in Connections :
       \/ ConnectDevice(c)
       \/ Reader(c)
       \/ Writer(c)
       \/ Heartbeat(c)
       \/ ScheduleReconnect(c)
       \/ ReaderFails(c)
       \/ WriterFails(c)
       \/ Drop(c)

Spec == Init /\ [][Next]_vars

(***************************************************************************)
(* Both goroutines are scheduled; a tick stays in its channel and select   *)
(* chooses among what is ready at random, so that polls are not starved by *)
(* other messages; the client sends heartbeats, notices that it was        *)
(* disconnected and connects again.                                        *)
(***************************************************************************)
Fairness ==
  /\ \A c \in Connections :
       /\ WF_vars(Reader(c))
       /\ WF_vars(Writer(c))
       /\ SF_vars(Written(c) /\ Poll(c))
       /\ WF_vars(Written(c) /\ Heartbeat(c))
       /\ WF_vars(ScheduleReconnect(c))
  /\ WF_vars(\E c \in Connections : ConnectDevice(c))

FairSpec == Spec /\ Fairness

-----------------------------------------------------------------------------
(***************************************************************************)
(* Properties.                                                             *)
(***************************************************************************)

(***************************************************************************)
(* A device with no connection left is marked disconnected, however        *)
(* replaced and replacing connections shut down (the deferred unregister   *)
(* and DisconnectDevice of ServeHTTP).                                     *)
(***************************************************************************)
OfflineWhenGone ==
  (\A c \in Connections : handler[c] = "NONE") => row = "CLOSED"

(***************************************************************************)
(* The late DisconnectDevice of a replaced connection may mark a connected *)
(* device offline, but not for good: its next heartbeat finds no open row, *)
(* which makes it connect again.                                           *)
(***************************************************************************)
HealsOffline ==
  (socket # NoConnection /\ row = "CLOSED") ~> (row = "OPEN" \/ ~trusted)

(***************************************************************************)
(* RevokeDevice closes no websocket itself, yet every connection of a      *)
(* revoked device ends, by a heartbeat or a poll that is refused.          *)
(***************************************************************************)
RevokedDisconnects == ~trusted ~> (\A c \in Connections : handler[c] = "NONE")

(***************************************************************************)
(* "A reconnecting device processes unsynchronized metadata first"         *)
(* (docs/protocols/offline-delivery.md): a pending notification is         *)
(* delivered and acknowledged, through resends, replaced connections and   *)
(* lost ones, unless the device is revoked.                                *)
(***************************************************************************)
NotificationsArrive ==
  \A n \in Notifications : n \in PendingSet ~> (n \in acked \/ ~trusted)
=============================================================================
