---------------------------- MODULE AccessProofs ----------------------------
(***************************************************************************)
(* Proofs about Access, for every number of users, devices, sessions,      *)
(* secrets and concurrent requests and every limit of attempts.            *)
(***************************************************************************)
EXTENDS Access, TLAPS

(***************************************************************************)
(* The inductive invariant.  What a request has read stays true because    *)
(* it holds a row lock: on its secret from the first statement on, on the  *)
(* session from the UPDATE that attaches it.                               *)
(***************************************************************************)
\* The attempts stored with a secret are the answers that were compared.
SecretRows ==
  \A c \in Secrets :
    /\ IF secrets[c].kind = "ABSENT" THEN secrets[c].device = None /\ secrets[c].session = None
       ELSE secrets[c].device \in Devices /\ secrets[c].session \in Sessions
    /\ judged[c].wrong = secrets[c].attempts
    /\ judged[c].right = IF secrets[c].used THEN 1 ELSE 0

\* A request holds a secret exactly while it redeems it, and finds it as read.
Redeeming ==
  \A r \in Requests :
    /\ requests[r].pc \in {"judge", "bind"} <=> requests[r].secret # None
    /\ requests[r].secret # None =>
         \E row \in {secrets[requests[r].secret]} :
           /\ row.kind \in {"challenge", "code"}
           /\ ~row.used
           /\ row.attempts < MaximumAttempts
           /\ row.attempts = requests[r].attempts
           /\ row.kind = "challenge" => row.session = requests[r].session

OneRedeemer ==
  \A q, r \in Requests :
    requests[q].secret # None /\ requests[q].secret = requests[r].secret => q = r

\* A request acts for the user of the session it was authenticated with.
Actors ==
  \A r \in Requests :
    /\ requests[r].pc # "idle" => requests[r].user \in Users
    /\ requests[r].pc \in {"ready", "judge", "bind"} =>
         /\ requests[r].session # None
         /\ sessions[requests[r].session].status # "ABSENT"
         /\ sessions[requests[r].session].owner = requests[r].user

AbsentUnbound ==
  \A s \in Sessions :
    IF sessions[s].status = "ABSENT" THEN sessions[s].device = None ELSE sessions[s].owner \in Users

\* Between the UPDATE of a session and its commit the session stays attachable.
Binding(r) ==
  \E row \in {secrets[requests[r].secret]} :
    /\ row.kind = "challenge"
    /\ Live(row.session)
    /\ sessions[row.session].device \in {None, row.device}
    /\ devices[row.device].trust # "ABSENT"
    /\ devices[row.device].owner = sessions[row.session].owner

Attaching ==
  /\ \A r \in Requests : requests[r].pc = "bind" => Binding(r)
  /\ \A q, r \in Requests :
       requests[q].pc = "bind" /\ requests[r].pc = "bind"
         /\ requests[q].session = requests[r].session => q = r

IndInv ==
  /\ TypeOK
  /\ SecretRows
  /\ Redeeming
  /\ OneRedeemer
  /\ Actors
  /\ AbsentUnbound
  /\ Attaching

-----------------------------------------------------------------------------
(***************************************************************************)
(* The rows of the tables, and what their updates keep.                    *)
(***************************************************************************)
UserStates == {"ABSENT", "ENABLED", "DISABLED"}
DeviceRow == [owner : Users \cup {None}, trust : Trust]
SessionRow == [status : {"ABSENT", "LIVE", "ENDED", "DELETED"}, owner : Users \cup {None},
               device : Devices \cup {None}, token : 0..MaxRotations]
SecretRow == [kind : {"ABSENT", "challenge", "code", "DELETED"}, device : Devices \cup {None},
              session : Sessions \cup {None}, attempts : 0..MaximumAttempts, used : BOOLEAN]
RequestRow == [pc : {"idle", "login", "ready", "invite", "judge", "bind"},
               session : Sessions \cup {None}, user : Users \cup {None},
               secret : Secrets \cup {None}, attempts : 0..MaximumAttempts]
Tally == [wrong : Nat, right : Nat]

Typed ==
  /\ users \in [Users -> UserStates]
  /\ invitations \in SUBSET Users
  /\ devices \in [Devices -> DeviceRow]
  /\ sessions \in [Sessions -> SessionRow]
  /\ secrets \in [Secrets -> SecretRow]
  /\ requests \in [Requests -> RequestRow]
  /\ judged \in [Secrets -> Tally]

LEMMA TypedRows == ASSUME IndInv PROVE Typed
  BY DEF IndInv, TypeOK, Typed, UserStates, DeviceRow, SessionRow, SecretRow, RequestRow, Tally

LEMMA Collect ==
  ASSUME Typed', SecretRows', Redeeming', OneRedeemer', Actors', AbsentUnbound', Attaching'
  PROVE  IndInv'
  BY DEF IndInv, TypeOK, Typed, UserStates, DeviceRow, SessionRow, SecretRow, RequestRow, Tally

\* The rows a request that redeems a secret refers to.
LEMMA RedeemedRows ==
  ASSUME IndInv, NEW r \in Requests, requests[r].pc \in {"judge", "bind"}
  PROVE  /\ requests[r].secret \in Secrets
         /\ requests[r].session \in Sessions
         /\ requests[r].attempts \in Nat
         /\ secrets[requests[r].secret].session \in Sessions
         /\ secrets[requests[r].secret].device \in Devices
<1>1. requests[r].secret \in Secrets
  BY DEF IndInv, TypeOK, Redeeming
<1>2. requests[r].session \in Sessions
  BY DEF IndInv, TypeOK, Actors
<1>3. requests[r].attempts \in Nat
  BY AccessAssumption DEF IndInv, TypeOK
<1>4. secrets[requests[r].secret].kind # "ABSENT"
  BY DEF IndInv, Redeeming
<1>5. QED
  BY <1>1, <1>2, <1>3, <1>4 DEF IndInv, SecretRows

\* A request that ends stops reading; no other entry changes.
LEMMA EndEffect ==
  ASSUME Typed, NEW r \in Requests, End(r)
  PROVE  /\ requests' \in [Requests -> RequestRow]
         /\ \A q \in Requests : requests'[q] = IF q = r THEN Idle ELSE requests[q]
<1>1. requests \in [Requests -> RequestRow]
  BY DEF Typed
<1>2. Idle \in RequestRow
  BY AccessAssumption DEF Idle, RequestRow
<1>3. QED
  BY <1>1, <1>2 DEF End

(***************************************************************************)
(* What is being attached stays attachable as long as nobody else begins   *)
(* to bind and the rows it has locked, and the owner of its device, do not *)
(* change.                                                                 *)
(***************************************************************************)
RowsKept(c) ==
  /\ secrets'[c] = secrets[c]
  /\ sessions'[secrets[c].session] = sessions[secrets[c].session]
  /\ devices'[secrets[c].device].owner = devices[secrets[c].device].owner
  /\ devices'[secrets[c].device].trust # "ABSENT"

LEMMA AttachingKept ==
  ASSUME IndInv,
         \A q \in Requests : requests'[q].pc = "bind" => requests'[q] = requests[q],
         \A q \in Requests : requests[q].pc = "bind" /\ requests'[q] = requests[q] =>
           RowsKept(requests[q].secret)
  PROVE  Attaching'
<1>1. ASSUME NEW q \in Requests, requests'[q].pc = "bind"
      PROVE  requests'[q] = requests[q] /\ Binding(q) /\ Binding(q)'
  <2>1. requests'[q] = requests[q] /\ RowsKept(requests[q].secret) /\ Binding(q)
    BY <1>1 DEF IndInv, Attaching
  <2>2. PICK row \in {secrets[requests[q].secret]} :
          /\ row.kind = "challenge" /\ Live(row.session)
          /\ sessions[row.session].device \in {None, row.device}
          /\ devices[row.device].trust # "ABSENT"
          /\ devices[row.device].owner = sessions[row.session].owner
    BY <2>1 DEF Binding
  <2>3. /\ row = secrets'[requests'[q].secret]
        /\ sessions'[row.session] = sessions[row.session]
        /\ devices'[row.device].owner = devices[row.device].owner
        /\ devices'[row.device].trust # "ABSENT"
    BY <2>1, <2>2 DEF RowsKept
  <2>4. Binding(q)'
    BY <2>2, <2>3 DEF Binding, Live
  <2>5. QED
    BY <2>1, <2>4
<1>2. ASSUME NEW q \in Requests, NEW r \in Requests, requests'[q].pc = "bind",
             requests'[r].pc = "bind", requests'[q].session = requests'[r].session
      PROVE  q = r
  BY <1>1, <1>2 DEF IndInv, Attaching
<1>3. QED
  BY <1>1, <1>2 DEF Attaching

LEMMA BoundRows ==
  ASSUME IndInv, NEW q \in Requests, requests[q].pc = "bind",
         NEW c, c = requests[q].secret
  PROVE  /\ c \in Secrets
         /\ secrets[c].kind = "challenge"
         /\ secrets[c].session \in Sessions
         /\ secrets[c].device \in Devices
         /\ ~SessionFree(secrets[c].session)
         /\ Live(secrets[c].session)
         /\ ~SecretFree(c)
         /\ devices[secrets[c].device].trust # "ABSENT"
<1>1. /\ c \in Secrets
      /\ secrets[c].session \in Sessions
      /\ secrets[c].device \in Devices
  BY RedeemedRows
<1>2. Binding(q)
  BY DEF IndInv, Attaching
<1>3. secrets[c].session = requests[q].session
  BY <1>2 DEF IndInv, Redeeming, Binding
<1>4. QED
  BY <1>1, <1>2, <1>3 DEF Binding, SessionFree, SecretFree

-----------------------------------------------------------------------------
(***************************************************************************)
(* Statements that end live sessions, and perhaps revoke a device: no      *)
(* request goes on, and sessions that are being attached are waited for.   *)
(***************************************************************************)
Revoked ==
  \/ UNCHANGED devices
  \/ \E d \in Devices : /\ devices[d].trust # "ABSENT"
                        /\ devices' = [devices EXCEPT ![d].trust = "REVOKED"]

NobodyMoves == UNCHANGED requests \/ \E r \in Requests : End(r)

LEMMA EndSessionsPreserves ==
  ASSUME IndInv, NEW S \in SUBSET Sessions, \A s \in S : Live(s),
         sessions' = sessions \/ EndSessions(S),
         Revoked, NobodyMoves, UNCHANGED <<secrets, judged>>,
         users' \in [Users -> UserStates], invitations' \in SUBSET Users
  PROVE  IndInv'
<1>1. Typed
  BY TypedRows
<1>2. /\ requests' \in [Requests -> RequestRow]
      /\ \A q \in Requests : requests'[q] \in {requests[q], Idle}
  BY <1>1, EndEffect DEF NobodyMoves, Typed
<1>3. /\ devices' \in [Devices -> DeviceRow]
      /\ \A d \in Devices : /\ devices'[d].owner = devices[d].owner
                            /\ devices[d].trust # "ABSENT" => devices'[d].trust # "ABSENT"
  <2>1. devices \in [Devices -> DeviceRow]
    BY <1>1 DEF Typed
  <2>2. QED
    BY <2>1 DEF Revoked, DeviceRow, Trust
<1>4. /\ sessions' \in [Sessions -> SessionRow]
      /\ \A s \in Sessions :
           \/ sessions'[s] = sessions[s]
           \/ /\ SessionFree(s) /\ Live(s)
              /\ sessions'[s] = [sessions[s] EXCEPT !.status = "ENDED"]
  <2>1. sessions \in [Sessions -> SessionRow]
    BY <1>1 DEF Typed
  <2>2. QED
    BY <2>1 DEF EndSessions, SessionRow
<1>5. Typed'
  BY <1>1, <1>2, <1>3, <1>4 DEF Typed
<1>6. SecretRows'
  BY DEF IndInv, SecretRows
<1>7. Redeeming' /\ OneRedeemer'
  BY <1>2 DEF IndInv, Redeeming, OneRedeemer, Idle
<1>8. \A s \in Sessions : /\ sessions'[s].owner = sessions[s].owner
                          /\ sessions'[s].device = sessions[s].device
                          /\ sessions'[s].status = "ABSENT" <=> sessions[s].status = "ABSENT"
  BY <1>1, <1>4 DEF Typed, SessionRow, Live
<1>9. Actors'
  BY <1>1, <1>2, <1>8 DEF IndInv, Actors, Idle, Typed, RequestRow
<1>10. AbsentUnbound'
  BY <1>8 DEF IndInv, AbsentUnbound
<1>11. Attaching'
  <2>1. \A q \in Requests : requests'[q].pc = "bind" => requests'[q] = requests[q]
    BY <1>2 DEF Idle
  <2>2. ASSUME NEW q \in Requests, requests[q].pc = "bind"
        PROVE  RowsKept(requests[q].secret)
    BY <2>2, <1>3, <1>4, BoundRows DEF RowsKept
  <2>3. QED
    BY <2>1, <2>2, AttachingKept
<1>12. QED
  BY <1>5, <1>6, <1>7, <1>9, <1>10, <1>11, Collect

\* Statements that write neither devices nor sessions nor secrets.
LEMMA QuietPreserves ==
  ASSUME IndInv, NobodyMoves, UNCHANGED <<devices, sessions, secrets, judged>>,
         users' \in [Users -> UserStates], invitations' \in SUBSET Users
  PROVE  IndInv'
<1>1. {} \in SUBSET Sessions /\ (\A s \in {} : Live(s)) /\ Revoked
  BY DEF Revoked
<1>2. QED
  BY <1>1, EndSessionsPreserves

-----------------------------------------------------------------------------
(***************************************************************************)
(* Sessions and devices that appear, refresh or disappear.                 *)
(***************************************************************************)
\* A new session, with the device it was registered with or with none.
LEMMA NewSessionPreserves ==
  ASSUME IndInv, NEW s \in Sessions, NEW u \in Users, sessions[s].status = "ABSENT",
         NobodyMoves, UNCHANGED <<users, invitations, secrets, judged>>,
         \/ /\ sessions' = [sessions EXCEPT ![s].status = "LIVE", ![s].owner = u]
            /\ UNCHANGED devices
         \/ \E d \in Devices :
              /\ devices[d].trust = "ABSENT"
              /\ devices' = [devices EXCEPT ![d] = [owner |-> u, trust |-> "PENDING"]]
              /\ sessions' = [sessions EXCEPT ![s].status = "LIVE", ![s].owner = u, ![s].device = d]
  PROVE  IndInv'
<1>1. Typed
  BY TypedRows
<1>2. /\ requests' \in [Requests -> RequestRow]
      /\ \A q \in Requests : requests'[q] \in {requests[q], Idle}
  BY <1>1, EndEffect DEF NobodyMoves, Typed
<1>3. /\ devices' \in [Devices -> DeviceRow]
      /\ \A d \in Devices : devices[d].trust # "ABSENT" => devices'[d] = devices[d]
  <2>1. devices \in [Devices -> DeviceRow]
    BY <1>1 DEF Typed
  <2>2. QED
    BY <2>1 DEF DeviceRow, Trust
<1>4. /\ sessions' \in [Sessions -> SessionRow]
      /\ sessions'[s].status = "LIVE" /\ sessions'[s].owner = u
      /\ \A t \in Sessions \ {s} : sessions'[t] = sessions[t]
  <2>1. sessions \in [Sessions -> SessionRow]
    BY <1>1 DEF Typed
  <2>2. ASSUME sessions' = [sessions EXCEPT ![s].status = "LIVE", ![s].owner = u]
        PROVE  <1>4!1 /\ <1>4!2 /\ <1>4!3
    <3>1. PICK row : row = [sessions[s] EXCEPT !.status = "LIVE", !.owner = u]
      OBVIOUS
    <3>2. sessions[s] \in SessionRow
      BY <2>1
    <3>3. row \in SessionRow /\ row.status = "LIVE" /\ row.owner = u
      BY <3>1, <3>2 DEF SessionRow
    <3>4. sessions' = [sessions EXCEPT ![s] = row]
      BY <2>1, <2>2, <3>1
    <3>5. QED
      BY <2>1, <3>3, <3>4
  <2>3. ASSUME NEW d \in Devices,
               sessions' = [sessions EXCEPT ![s].status = "LIVE", ![s].owner = u, ![s].device = d]
        PROVE  <1>4!1 /\ <1>4!2 /\ <1>4!3
    <3>1. PICK row : row = [sessions[s] EXCEPT !.status = "LIVE", !.owner = u, !.device = d]
      OBVIOUS
    <3>2. sessions[s] \in SessionRow
      BY <2>1
    <3>3. row \in SessionRow /\ row.status = "LIVE" /\ row.owner = u
      BY <3>1, <3>2 DEF SessionRow
    <3>4. sessions' = [sessions EXCEPT ![s] = row]
      BY <2>1, <2>3, <3>1
    <3>5. QED
      BY <2>1, <3>3, <3>4
  <2>4. QED
    BY <2>2, <2>3
<1>5. Typed'
  BY <1>1, <1>2, <1>3, <1>4 DEF Typed
<1>6. SecretRows'
  BY DEF IndInv, SecretRows
<1>7. Redeeming' /\ OneRedeemer'
  BY <1>2 DEF IndInv, Redeeming, OneRedeemer, Idle
<1>8. Actors'
  <2> SUFFICES ASSUME NEW q \in Requests, requests'[q].pc # "idle"
               PROVE  /\ requests'[q].user \in Users
                      /\ requests'[q].pc \in {"ready", "judge", "bind"} =>
                           /\ requests'[q].session # None
                           /\ sessions'[requests'[q].session].status # "ABSENT"
                           /\ sessions'[requests'[q].session].owner = requests'[q].user
    BY <1>2 DEF Actors, Idle
  <2>1. requests'[q] = requests[q]
    BY <1>2 DEF Idle
  <2>2. requests[q].session \in Sessions \cup {None}
    BY <1>1 DEF Typed, RequestRow
  <2>3. QED
    BY <2>1, <2>2, <1>4 DEF IndInv, Actors
<1>9. AbsentUnbound'
  BY <1>4 DEF IndInv, AbsentUnbound
<1>10. Attaching'
  <2>1. \A q \in Requests : requests'[q].pc = "bind" => requests'[q] = requests[q]
    BY <1>2 DEF Idle
  <2>2. ASSUME NEW q \in Requests, requests[q].pc = "bind"
        PROVE  RowsKept(requests[q].secret)
    <3>1. /\ sessions'[secrets[requests[q].secret].session]
               = sessions[secrets[requests[q].secret].session]
          /\ devices'[secrets[requests[q].secret].device]
               = devices[secrets[requests[q].secret].device]
      BY <2>2, <1>3, <1>4, BoundRows DEF Live
    <3>2. QED
      BY <2>2, <3>1, BoundRows DEF RowsKept
  <2>3. QED
    BY <2>1, <2>2, AttachingKept
<1>11. QED
  BY <1>5, <1>6, <1>7, <1>8, <1>9, <1>10, Collect

\* A session's row changes while nobody attaches it: a refresh, or a device
\* that was created with it.
LEMMA FreeSessionPreserves ==
  ASSUME IndInv, NEW s \in Sessions, Live(s), SessionFree(s),
         NobodyMoves, UNCHANGED <<users, invitations, secrets, judged>>,
         \/ \E token \in 0..MaxRotations :
              /\ token < MaxRotations
              /\ sessions' = [sessions EXCEPT ![s].token = token + 1]
              /\ UNCHANGED devices
         \/ \E d \in Devices, u \in Users :
              /\ devices[d].trust = "ABSENT"
              /\ devices' = [devices EXCEPT ![d] = [owner |-> u, trust |-> "TRUSTED"]]
              /\ sessions' = [sessions EXCEPT ![s].device = d]
  PROVE  IndInv'
<1>1. Typed
  BY TypedRows
<1>2. /\ requests' \in [Requests -> RequestRow]
      /\ \A q \in Requests : requests'[q] \in {requests[q], Idle}
  BY <1>1, EndEffect DEF NobodyMoves, Typed
<1>3. /\ devices' \in [Devices -> DeviceRow]
      /\ \A d \in Devices : devices[d].trust # "ABSENT" => devices'[d] = devices[d]
  <2>1. devices \in [Devices -> DeviceRow]
    BY <1>1 DEF Typed
  <2>2. QED
    BY <2>1 DEF DeviceRow, Trust
<1>4. /\ sessions' \in [Sessions -> SessionRow]
      /\ sessions'[s].status = sessions[s].status /\ sessions'[s].owner = sessions[s].owner
      /\ \A t \in Sessions \ {s} : sessions'[t] = sessions[t]
  <2>1. sessions \in [Sessions -> SessionRow]
    BY <1>1 DEF Typed
  <2>2. ASSUME NEW token \in 0..MaxRotations, token < MaxRotations,
               sessions' = [sessions EXCEPT ![s].token = token + 1]
        PROVE  <1>4!1 /\ <1>4!2 /\ <1>4!3
    BY <2>1, <2>2, AccessAssumption DEF SessionRow
  <2>3. ASSUME NEW d \in Devices, sessions' = [sessions EXCEPT ![s].device = d]
        PROVE  <1>4!1 /\ <1>4!2 /\ <1>4!3
    BY <2>1, <2>3 DEF SessionRow
  <2>4. QED
    BY <2>2, <2>3
<1>5. Typed'
  BY <1>1, <1>2, <1>3, <1>4 DEF Typed
<1>6. SecretRows'
  BY DEF IndInv, SecretRows
<1>7. Redeeming' /\ OneRedeemer'
  BY <1>2 DEF IndInv, Redeeming, OneRedeemer, Idle
<1>8. Actors'
  BY <1>1, <1>2, <1>4 DEF IndInv, Actors, Idle, Typed, RequestRow
<1>9. AbsentUnbound'
  BY <1>4 DEF IndInv, AbsentUnbound, Live
<1>10. Attaching'
  <2>1. \A q \in Requests : requests'[q].pc = "bind" => requests'[q] = requests[q]
    BY <1>2 DEF Idle
  <2>2. ASSUME NEW q \in Requests, requests[q].pc = "bind"
        PROVE  RowsKept(requests[q].secret)
    BY <2>2, <1>3, <1>4, BoundRows DEF RowsKept
  <2>3. QED
    BY <2>1, <2>2, AttachingKept
<1>11. QED
  BY <1>5, <1>6, <1>7, <1>8, <1>9, <1>10, Collect

LEMMA DeleteDevicePreserves ==
  ASSUME IndInv, NEW r \in Requests, NEW d \in Devices, End(r), DeleteDevice(r, d)
  PROVE  IndInv'
<1> DEFINE gone == {s \in Sessions : sessions[s].device = d}
           lost == {c \in Secrets : secrets[c].device = d \/ secrets[c].session \in gone}
<1>1. Typed
  BY TypedRows
<1>2. /\ requests' \in [Requests -> RequestRow]
      /\ \A q \in Requests : requests'[q] = IF q = r THEN Idle ELSE requests[q]
  BY <1>1, EndEffect
<1>3. /\ devices' \in [Devices -> DeviceRow]
      /\ \A e \in Devices : /\ devices'[e].owner = devices[e].owner
                            /\ devices[e].trust # "ABSENT" => devices'[e].trust # "ABSENT"
  <2>1. devices \in [Devices -> DeviceRow]
    BY <1>1 DEF Typed
  <2>2. devices' = [devices EXCEPT ![d].trust = "DELETED"]
    BY DEF DeleteDevice
  <2>3. QED
    BY <2>1, <2>2 DEF DeviceRow, Trust
<1>4. /\ sessions' \in [Sessions -> SessionRow]
      /\ \A s \in Sessions :
           /\ sessions'[s].owner = sessions[s].owner
           /\ sessions'[s].device = sessions[s].device
           /\ IF s \in gone THEN SessionFree(s) /\ sessions'[s].status = "DELETED"
                            ELSE sessions'[s] = sessions[s]
  <2>1. sessions \in [Sessions -> SessionRow]
    BY <1>1 DEF Typed
  <2>2. /\ sessions' = [s \in Sessions |-> IF s \in gone THEN [sessions[s] EXCEPT !.status = "DELETED"]
                                                         ELSE sessions[s]]
        /\ \A s \in gone : SessionFree(s)
    BY DEF DeleteDevice
  <2>3. QED
    BY <2>1, <2>2 DEF SessionRow
<1>5. /\ secrets' \in [Secrets -> SecretRow]
      /\ \A c \in Secrets :
           IF c \in lost
           THEN /\ SecretFree(c) /\ secrets'[c].kind = "DELETED"
                /\ secrets'[c].device = secrets[c].device /\ secrets'[c].session = secrets[c].session
                /\ secrets'[c].attempts = secrets[c].attempts /\ secrets'[c].used = secrets[c].used
           ELSE secrets'[c] = secrets[c]
  <2>1. secrets \in [Secrets -> SecretRow]
    BY <1>1 DEF Typed
  <2>2. /\ secrets' = [c \in Secrets |-> IF c \in lost THEN [secrets[c] EXCEPT !.kind = "DELETED"]
                                                       ELSE secrets[c]]
        /\ \A c \in lost : SecretFree(c)
    BY DEF DeleteDevice
  <2>3. QED
    BY <2>1, <2>2 DEF SecretRow
<1>6. UNCHANGED <<users, invitations, judged>>
  BY DEF DeleteDevice
<1> HIDE DEF gone, lost
<1>7. Typed'
  BY <1>1, <1>2, <1>3, <1>4, <1>5, <1>6 DEF Typed
<1>8. SecretRows'
  BY <1>5, <1>6, AccessAssumption DEF IndInv, SecretRows, lost, gone
<1>9. Redeeming' /\ OneRedeemer'
  BY <1>1, <1>2, <1>5 DEF IndInv, Redeeming, OneRedeemer, Idle, SecretFree, Typed, RequestRow
<1>10. Actors'
  BY <1>1, <1>2, <1>4 DEF IndInv, Actors, Idle, Typed, RequestRow
<1>11. AbsentUnbound'
  BY <1>4, AccessAssumption DEF IndInv, AbsentUnbound, gone
<1>12. Attaching'
  <2>1. \A q \in Requests : requests'[q].pc = "bind" => requests'[q] = requests[q]
    BY <1>2 DEF Idle
  <2>2. ASSUME NEW q \in Requests, requests[q].pc = "bind"
        PROVE  RowsKept(requests[q].secret)
    BY <2>2, <1>3, <1>4, <1>5, BoundRows DEF RowsKept
  <2>3. QED
    BY <2>1, <2>2, AttachingKept
<1>13. QED
  BY <1>7, <1>8, <1>9, <1>10, <1>11, <1>12, Collect

-----------------------------------------------------------------------------
(***************************************************************************)
(* Requests that go on without writing a row.                              *)
(***************************************************************************)
\* A credential is read, a session is authenticated, an invitee is looked up.
LEMMA MovePreserves ==
  ASSUME IndInv, NEW r \in Requests, NEW row \in RequestRow,
         UNCHANGED <<users, invitations, devices, sessions, secrets, judged>>,
         requests' = [requests EXCEPT ![r] = row],
         requests[r].pc \notin {"judge", "bind"}, row.pc \in {"login", "ready", "invite"},
         row.secret = None, row.user \in Users,
         row.pc = "ready" => /\ row.session \in Sessions
                             /\ sessions[row.session].status # "ABSENT"
                             /\ sessions[row.session].owner = row.user
  PROVE  IndInv'
<1>1. Typed
  BY TypedRows
<1>2. /\ requests' \in [Requests -> RequestRow]
      /\ \A q \in Requests : requests'[q] = IF q = r THEN row ELSE requests[q]
  BY <1>1 DEF Typed
<1>3. Typed'
  BY <1>1, <1>2 DEF Typed
<1>4. SecretRows' /\ AbsentUnbound'
  BY DEF IndInv, SecretRows, AbsentUnbound
<1>5. Redeeming' /\ OneRedeemer'
  BY <1>2 DEF IndInv, Redeeming, OneRedeemer
<1>6. Actors'
  BY <1>2, AccessAssumption DEF IndInv, Actors
<1>7. Attaching'
  <2>1. \A q \in Requests : requests'[q].pc = "bind" => requests'[q] = requests[q]
    BY <1>2
  <2>2. ASSUME NEW q \in Requests, requests[q].pc = "bind"
        PROVE  RowsKept(requests[q].secret)
    BY <2>2, BoundRows DEF RowsKept
  <2>3. QED
    BY <2>1, <2>2, AttachingKept
<1>8. QED
  BY <1>3, <1>4, <1>5, <1>6, <1>7, Collect

\* SELECT ... FOR UPDATE of a secret that nobody holds.
LEMMA LockSecretPreserves ==
  ASSUME IndInv, NEW r \in Requests, NEW c \in Secrets, Ready(r), LockSecret(r, c),
         secrets[c].kind \in {"challenge", "code"},
         secrets[c].kind = "challenge" => secrets[c].session = requests[r].session
  PROVE  IndInv'
<1>1. Typed
  BY TypedRows
<1>2. UNCHANGED <<users, invitations, devices, sessions, secrets, judged>>
  BY DEF LockSecret
<1>3. /\ requests' \in [Requests -> RequestRow]
      /\ requests'[r].pc = "judge"
      /\ requests'[r].secret = c
      /\ requests'[r].attempts = secrets[c].attempts
      /\ requests'[r].session = requests[r].session
      /\ requests'[r].user = requests[r].user
      /\ \A q \in Requests \ {r} : requests'[q] = requests[q]
  <2>1. requests \in [Requests -> RequestRow] /\ secrets[c].attempts \in 0..MaximumAttempts
    BY <1>1 DEF Typed, SecretRow
  <2>2. requests' = [requests EXCEPT ![r].pc = "judge", ![r].secret = c,
                                     ![r].attempts = secrets[c].attempts]
    BY DEF LockSecret
  <2>3. [requests[r] EXCEPT !.pc = "judge", !.secret = c, !.attempts = secrets[c].attempts]
          \in RequestRow
    BY <2>1 DEF RequestRow
  <2>4. QED
    BY <2>1, <2>2, <2>3 DEF RequestRow
<1>4. Typed'
  BY <1>1, <1>2, <1>3 DEF Typed
<1>5. SecretRows' /\ AbsentUnbound'
  BY <1>2 DEF IndInv, SecretRows, AbsentUnbound
<1>6. Redeeming'
  <2>1. /\ ~secrets[c].used /\ secrets[c].attempts < MaximumAttempts
        /\ c # None
    BY AccessAssumption DEF LockSecret, Usable
  <2>2. QED
    BY <1>2, <1>3, <2>1 DEF IndInv, Redeeming
<1>7. OneRedeemer'
  BY <1>3 DEF IndInv, OneRedeemer, LockSecret, SecretFree
<1>8. Actors'
  BY <1>2, <1>3 DEF IndInv, Actors, Ready
<1>9. Attaching'
  <2>1. \A q \in Requests : requests'[q].pc = "bind" => requests'[q] = requests[q]
    BY <1>3
  <2>2. ASSUME NEW q \in Requests, requests[q].pc = "bind"
        PROVE  RowsKept(requests[q].secret)
    BY <2>2, <1>2, BoundRows DEF RowsKept
  <2>3. QED
    BY <2>1, <2>2, AttachingKept
<1>10. QED
  BY <1>4, <1>5, <1>6, <1>7, <1>8, <1>9, Collect

\* The UPDATE that attaches a session nobody else is attaching.
LEMMA AttachSessionPreserves ==
  ASSUME IndInv, NEW r \in Requests, AttachSession(r)
  PROVE  IndInv'
<1> DEFINE c == requests[r].secret
<1>1. Typed
  BY TypedRows
<1>2. /\ UNCHANGED <<users, invitations, devices, sessions, secrets, judged>>
      /\ requests[r].pc = "judge"
      /\ secrets[c].kind = "challenge"
      /\ SessionFree(secrets[c].session)
      /\ Attachable(secrets[c].session, secrets[c].device)
      /\ requests' = [requests EXCEPT ![r].pc = "bind"]
  BY DEF AttachSession, Become
<1>3. /\ requests' \in [Requests -> RequestRow]
      /\ requests'[r].pc = "bind"
      /\ requests'[r].secret = c
      /\ requests'[r].attempts = requests[r].attempts
      /\ requests'[r].session = requests[r].session
      /\ requests'[r].user = requests[r].user
      /\ \A q \in Requests \ {r} : requests'[q] = requests[q]
  <2>1. requests \in [Requests -> RequestRow]
    BY <1>1 DEF Typed
  <2>2. QED
    BY <2>1, <1>2 DEF RequestRow
<1> HIDE DEF c
<1>4. secrets[c].session = requests[r].session
  BY <1>2, RedeemedRows, AccessAssumption DEF IndInv, Redeeming, c
<1>5. Typed'
  BY <1>1, <1>2, <1>3 DEF Typed
<1>6. SecretRows' /\ AbsentUnbound'
  BY <1>2 DEF IndInv, SecretRows, AbsentUnbound
<1>7. Redeeming' /\ OneRedeemer'
  <2>1. ASSUME NEW q \in Requests
        PROVE  /\ requests'[q].secret = requests[q].secret
               /\ requests'[q].attempts = requests[q].attempts
               /\ requests'[q].session = requests[q].session
               /\ requests'[q].pc \in {"judge", "bind"} <=> requests[q].pc \in {"judge", "bind"}
    BY <1>2, <1>3 DEF c
  <2>2. Redeeming'
    BY <1>2, <2>1 DEF IndInv, Redeeming
  <2>3. OneRedeemer'
    BY <2>1 DEF IndInv, OneRedeemer
  <2>4. QED
    BY <2>2, <2>3
<1>8. Actors'
  BY <1>2, <1>3 DEF IndInv, Actors
<1>9. Attaching'
  <2>1. ASSUME NEW q \in Requests, requests'[q].pc = "bind"
        PROVE  Binding(q)'
    <3>1. CASE q = r
      BY <3>1, <1>2, <1>3 DEF Binding, Attachable, Live
    <3>2. CASE q # r
      BY <2>1, <3>2, <1>2, <1>3 DEF IndInv, Attaching, Binding, Live
    <3>3. QED
      BY <3>1, <3>2
  <2>2. ASSUME NEW q \in Requests, NEW p \in Requests,
               requests'[q].pc = "bind", requests'[p].pc = "bind",
               requests'[q].session = requests'[p].session
        PROVE  q = p
    BY <2>2, <1>2, <1>3, <1>4 DEF IndInv, Attaching, SessionFree
  <2>3. QED
    BY <2>1, <2>2 DEF Attaching
<1>10. QED
  BY <1>5, <1>6, <1>7, <1>8, <1>9, Collect

-----------------------------------------------------------------------------
(***************************************************************************)
(* Requests that write a secret.                                           *)
(***************************************************************************)
LEMMA IssuePreserves ==
  ASSUME IndInv, NEW r \in Requests, NEW c \in Secrets, NEW d \in Devices, NEW s \in Sessions,
         NEW kind \in {"challenge", "code"}, Issue(c, kind, d, s), End(r),
         UNCHANGED <<users, invitations, devices, sessions, judged>>
  PROVE  IndInv'
<1>1. Typed
  BY TypedRows
<1>2. /\ requests' \in [Requests -> RequestRow]
      /\ \A q \in Requests : requests'[q] = IF q = r THEN Idle ELSE requests[q]
  BY <1>1, EndEffect
<1>3. /\ secrets' \in [Secrets -> SecretRow]
      /\ secrets'[c].device = d /\ secrets'[c].session = s /\ secrets'[c].kind = kind
      /\ secrets'[c].attempts = secrets[c].attempts /\ secrets'[c].used = secrets[c].used
      /\ \A e \in Secrets \ {c} : secrets'[e] = secrets[e]
  <2>1. secrets \in [Secrets -> SecretRow]
    BY <1>1 DEF Typed
  <2>2. secrets' = [secrets EXCEPT ![c].kind = kind, ![c].device = d, ![c].session = s]
    BY DEF Issue
  <2>3. [secrets[c] EXCEPT !.kind = kind, !.device = d, !.session = s] \in SecretRow
    BY <2>1 DEF SecretRow
  <2>4. QED
    BY <2>1, <2>2, <2>3 DEF SecretRow
<1>4. \A q \in Requests : requests[q].secret # c
  BY AccessAssumption DEF IndInv, Redeeming, Issue
<1>5. Typed'
  BY <1>1, <1>2, <1>3 DEF Typed
<1>6. SecretRows' /\ AbsentUnbound'
  BY <1>3 DEF IndInv, SecretRows, AbsentUnbound
<1>7. Redeeming' /\ OneRedeemer'
  BY <1>1, <1>2, <1>3, <1>4 DEF IndInv, Redeeming, OneRedeemer, Idle, Typed, RequestRow
<1>8. Actors'
  BY <1>2 DEF IndInv, Actors, Idle
<1>9. Attaching'
  <2>1. \A q \in Requests : requests'[q].pc = "bind" => requests'[q] = requests[q]
    BY <1>2 DEF Idle
  <2>2. ASSUME NEW q \in Requests, requests[q].pc = "bind"
        PROVE  RowsKept(requests[q].secret)
    BY <2>2, <1>3, <1>4, BoundRows DEF RowsKept
  <2>3. QED
    BY <2>1, <2>2, AttachingKept
<1>10. QED
  BY <1>5, <1>6, <1>7, <1>8, <1>9, Collect

LEMMA SecretUsed ==
  ASSUME secrets \in [Secrets -> SecretRow], NEW c \in Secrets,
         secrets' = [secrets EXCEPT ![c].used = TRUE]
  PROVE  /\ secrets' \in [Secrets -> SecretRow]
         /\ secrets'[c].device = secrets[c].device
         /\ secrets'[c].session = secrets[c].session
         /\ secrets'[c].kind = secrets[c].kind
         /\ \A e \in Secrets \ {c} : secrets'[e] = secrets[e]
<1>1. secrets' \in [Secrets -> SecretRow]
  BY DEF SecretRow
<1>2. secrets'[c] = [secrets[c] EXCEPT !.used = TRUE]
  OBVIOUS
<1>3. QED
  BY <1>1, <1>2 DEF SecretRow

\* What an answer may write.
CountsWrong(c) ==
  /\ secrets' = [secrets EXCEPT ![c].attempts = secrets[c].attempts + 1]
  /\ judged' = [judged EXCEPT ![c].wrong = @ + 1]
  /\ secrets[c].attempts < MaximumAttempts

CountsRight(c) ==
  /\ secrets' = [secrets EXCEPT ![c].used = TRUE]
  /\ judged' = [judged EXCEPT ![c].right = @ + 1]
  /\ ~secrets[c].used

DevicesStand ==
  /\ devices' \in [Devices -> DeviceRow]
  /\ \A d \in Devices : /\ devices'[d].owner = devices[d].owner
                        /\ devices[d].trust # "ABSENT" => devices'[d].trust # "ABSENT"

SessionsStand(r) ==
  /\ sessions' \in [Sessions -> SessionRow]
  /\ \A s \in Sessions : /\ sessions'[s].status = sessions[s].status
                         /\ sessions'[s].owner = sessions[s].owner
                         /\ \/ sessions'[s] = sessions[s]
                            \/ /\ Live(s)
                               /\ \A q \in Requests \ {r} :
                                    requests[q].pc = "bind" => requests[q].session # s

\* The holder of a secret counts an answer and lets go; what others hold and
\* attach is not touched.
LEMMA AnswerPreserves ==
  ASSUME IndInv, NEW r \in Requests, NEW c \in Secrets, requests[r].secret = c, End(r),
         UNCHANGED <<users, invitations>>, CountsWrong(c) \/ CountsRight(c),
         DevicesStand, SessionsStand(r)
  PROVE  IndInv'
<1>1. Typed
  BY TypedRows
<1>2. /\ requests' \in [Requests -> RequestRow]
      /\ \A q \in Requests : requests'[q] = IF q = r THEN Idle ELSE requests[q]
  BY <1>1, EndEffect
<1>3. /\ secrets' \in [Secrets -> SecretRow]
      /\ secrets'[c].device = secrets[c].device
      /\ secrets'[c].session = secrets[c].session
      /\ secrets'[c].kind = secrets[c].kind
      /\ \A e \in Secrets \ {c} : secrets'[e] = secrets[e]
  <2>1. secrets \in [Secrets -> SecretRow]
    BY <1>1 DEF Typed
  <2>2. secrets[c].attempts < MaximumAttempts => secrets[c].attempts + 1 \in 0..MaximumAttempts
    BY <2>1, AccessAssumption DEF SecretRow
  <2>3. CASE CountsWrong(c)
    BY <2>1, <2>2, <2>3 DEF CountsWrong, SecretRow
  <2>4. CASE CountsRight(c)
    BY <2>1, <2>4, SecretUsed DEF CountsRight
  <2>5. QED
    BY <2>3, <2>4
<1>4. /\ judged' \in [Secrets -> Tally]
      /\ judged'[c].wrong = secrets'[c].attempts
      /\ judged'[c].right = IF secrets'[c].used THEN 1 ELSE 0
      /\ \A e \in Secrets \ {c} : judged'[e] = judged[e]
  <2>1. judged \in [Secrets -> Tally] /\ secrets \in [Secrets -> SecretRow]
    BY <1>1 DEF Typed
  <2>2. judged[c].wrong = secrets[c].attempts /\ judged[c].right = IF secrets[c].used THEN 1 ELSE 0
    BY DEF IndInv, SecretRows
  <2>3. CASE CountsWrong(c)
    BY <2>1, <2>2, <2>3 DEF CountsWrong, SecretRow, Tally
  <2>4. CASE CountsRight(c)
    BY <2>1, <2>2, <2>4 DEF CountsRight, SecretRow, Tally
  <2>5. QED
    BY <2>3, <2>4
<1>5. \A q \in Requests \ {r} : requests[q].secret # c
  BY AccessAssumption DEF IndInv, OneRedeemer
<1>6. Typed'
  BY <1>1, <1>2, <1>3, <1>4 DEF Typed, DevicesStand, SessionsStand
<1>7. SecretRows'
  BY <1>3, <1>4 DEF IndInv, SecretRows
<1>8. Redeeming' /\ OneRedeemer'
  BY <1>1, <1>2, <1>3, <1>5 DEF IndInv, Redeeming, OneRedeemer, Idle, Typed, RequestRow
<1>9. Actors'
  <2> SUFFICES ASSUME NEW q \in Requests, requests'[q].pc # "idle"
               PROVE  /\ requests'[q].user \in Users
                      /\ requests'[q].pc \in {"ready", "judge", "bind"} =>
                           /\ requests'[q].session # None
                           /\ sessions'[requests'[q].session].status # "ABSENT"
                           /\ sessions'[requests'[q].session].owner = requests'[q].user
    BY <1>2 DEF Actors, Idle
  <2>1. requests'[q] = requests[q]
    BY <1>2 DEF Idle
  <2>2. requests[q].session \in Sessions \cup {None}
    BY <1>1 DEF Typed, RequestRow
  <2>3. QED
    BY <2>1, <2>2 DEF IndInv, Actors, SessionsStand
<1>10. AbsentUnbound'
  BY DEF IndInv, AbsentUnbound, Live, SessionsStand
<1>11. Attaching'
  <2>1. \A q \in Requests : requests'[q].pc = "bind" => requests'[q] = requests[q]
    BY <1>2 DEF Idle
  <2>2. ASSUME NEW q \in Requests, requests[q].pc = "bind", requests'[q] = requests[q]
        PROVE  RowsKept(requests[q].secret)
    <3>1. q # r
      BY <1>2, <2>2 DEF Idle
    <3>2. requests[q].session = secrets[requests[q].secret].session
      BY <2>2, BoundRows DEF IndInv, Redeeming
    <3>3. QED
      BY <2>2, <3>1, <3>2, <1>3, <1>5, BoundRows DEF RowsKept, DevicesStand, SessionsStand
  <2>3. QED
    BY <2>1, <2>2, AttachingKept
<1>12. QED
  BY <1>6, <1>7, <1>8, <1>9, <1>10, <1>11, Collect

-----------------------------------------------------------------------------
LEMMA InitIndInv == Init => IndInv
<1> SUFFICES ASSUME Init PROVE IndInv
  OBVIOUS
<1>1. TypeOK
  BY AccessAssumption DEF Init, TypeOK, Idle, Trust
<1>2. SecretRows /\ Redeeming /\ OneRedeemer /\ Actors /\ AbsentUnbound /\ Attaching
  BY DEF Init, SecretRows, Redeeming, OneRedeemer, Actors, AbsentUnbound, Attaching, Idle
<1>3. QED
  BY <1>1, <1>2 DEF IndInv

\* Statements of requests that are idle or of no request at all.
LEMMA BesidePreserves ==
  ASSUME IndInv,
         \/ BootstrapAdmin
         \/ \E u \in Users : AcceptAdminInvitation(u) \/ ResetAdminPasswordByIdentifier(u)
         \/ \E u \in Users, d \in Devices, s \in Sessions : RegisterPending(u, d, s)
         \/ \E s \in Sessions, token \in 0..MaxRotations :
              RotateSession(s, token) \/ RevokeSessionByRefreshToken(s, token)
  PROVE  IndInv'
<1>1. Typed
  BY TypedRows
<1>2. CASE BootstrapAdmin
  <2>1. users' \in [Users -> UserStates]
    BY <1>1, <1>2 DEF Typed, UserStates, BootstrapAdmin
  <2>2. QED
    BY <1>1, <1>2, <2>1, QuietPreserves DEF BootstrapAdmin, NobodyMoves, Typed
<1>3. ASSUME NEW u \in Users, AcceptAdminInvitation(u)
      PROVE  IndInv'
  <2>1. users' \in [Users -> UserStates] /\ invitations' \in SUBSET Users
    BY <1>1, <1>3 DEF Typed, UserStates, AcceptAdminInvitation
  <2>2. QED
    BY <1>3, <2>1, QuietPreserves DEF AcceptAdminInvitation, NobodyMoves
<1>4. ASSUME NEW u \in Users, ResetAdminPasswordByIdentifier(u)
      PROVE  IndInv'
  <2>1. EndSessions(SessionsOfUser(u)) /\ UNCHANGED <<users, invitations, devices, secrets, judged, requests>>
    BY <1>4 DEF ResetAdminPasswordByIdentifier, ResetAdminPassword
  <2>2. SessionsOfUser(u) \in SUBSET Sessions /\ \A s \in SessionsOfUser(u) : Live(s)
    BY DEF SessionsOfUser
  <2>3. QED
    BY <1>1, <2>1, <2>2, EndSessionsPreserves DEF Revoked, NobodyMoves, Typed
<1>5. ASSUME NEW u \in Users, NEW d \in Devices, NEW s \in Sessions, RegisterPending(u, d, s)
      PROVE  IndInv'
  <2>1. NobodyMoves
    BY <1>5 DEF RegisterPending, NobodyMoves
  <2>2. QED
    BY <1>5, <2>1, NewSessionPreserves DEF RegisterPending
<1>6. ASSUME NEW s \in Sessions, NEW token \in 0..MaxRotations, RotateSession(s, token)
      PROVE  IndInv'
  <2>1. NobodyMoves
    BY <1>6 DEF RotateSession, NobodyMoves
  <2>2. QED
    BY <1>6, <2>1, FreeSessionPreserves DEF RotateSession, Rotatable
<1>7. ASSUME NEW s \in Sessions, NEW token \in 0..MaxRotations, RevokeSessionByRefreshToken(s, token)
      PROVE  IndInv'
  <2>1. /\ EndSessions({s}) /\ Live(s)
        /\ UNCHANGED <<users, invitations, devices, secrets, judged, requests>>
    BY <1>7 DEF RevokeSessionByRefreshToken, Rotatable
  <2>2. QED
    BY <1>1, <2>1, EndSessionsPreserves DEF Revoked, NobodyMoves, Typed
<1>8. QED
  BY <1>2, <1>3, <1>4, <1>5, <1>6, <1>7

\* Statements of an authenticated request that end it.
LEMMA ReadyPreserves ==
  ASSUME IndInv, NEW r \in Requests, DeviceRequest(r) \/ AdminRequest(r)
  PROVE  IndInv'
<1>1. Typed
  BY TypedRows
<1>2. /\ Ready(r) /\ End(r) /\ NobodyMoves
      /\ requests[r].session \in Sessions /\ requests[r].user \in Users
  BY <1>1 DEF DeviceRequest, AdminRequest, NobodyMoves, Typed, RequestRow, IndInv, Actors, Ready
<1>3. ASSUME NEW d \in Devices, CreateDevice(r, d)
      PROVE  IndInv'
  BY <1>2, <1>3, FreeSessionPreserves DEF CreateDevice
<1>4. ASSUME NEW d \in Devices, DeleteDevice(r, d)
      PROVE  IndInv'
  BY <1>2, <1>4, DeleteDevicePreserves
<1>5. ASSUME NEW d \in Devices, RevokeDevice(r, d) \/ RevokeAdminDevice(d)
      PROVE  IndInv'
  <2>1. /\ EndSessions(SessionsOfDevice(d)) /\ Revoked
        /\ UNCHANGED <<users, invitations, secrets, judged>>
    BY <1>5 DEF RevokeDevice, RevokeAdminDevice, Revoked
  <2>2. SessionsOfDevice(d) \in SUBSET Sessions /\ \A s \in SessionsOfDevice(d) : Live(s)
    BY DEF SessionsOfDevice
  <2>3. QED
    BY <1>1, <1>2, <2>1, <2>2, EndSessionsPreserves DEF Typed
<1>6. ASSUME NEW d \in Devices, NEW c \in Secrets,
             CreateDeviceSessionChallenge(r, c, d) \/ CreatePairingCode(r, c, d)
      PROVE  IndInv'
  BY <1>2, <1>6, IssuePreserves DEF CreateDeviceSessionChallenge, CreatePairingCode
<1>7. ASSUME NEW u \in Users, CreateAdminUser(u)
      PROVE  IndInv'
  <2>1. users' \in [Users -> UserStates]
    BY <1>1, <1>7 DEF Typed, UserStates, CreateAdminUser
  <2>2. QED
    BY <1>1, <1>2, <1>7, <2>1, QuietPreserves DEF CreateAdminUser, Typed
<1>8. ASSUME NEW u \in Users, DisableAdminUser(u) \/ ResetAdminPassword(u)
      PROVE  IndInv'
  <2>1. users' \in [Users -> UserStates]
    BY <1>1, <1>8 DEF Typed, UserStates, DisableAdminUser, ResetAdminPassword
  <2>2. EndSessions(SessionsOfUser(u)) /\ UNCHANGED <<invitations, devices, secrets, judged>>
    BY <1>8 DEF DisableAdminUser, ResetAdminPassword
  <2>3. SessionsOfUser(u) \in SUBSET Sessions /\ \A s \in SessionsOfUser(u) : Live(s)
    BY DEF SessionsOfUser
  <2>4. QED
    BY <1>1, <1>2, <2>1, <2>2, <2>3, EndSessionsPreserves DEF Revoked, Typed
<1>9. QED
  BY <1>3, <1>4, <1>5, <1>6, <1>7, <1>8
     DEF DeviceRequest, AdminRequest, CreateUser, DisableUser, ResetPassword, RevokeAnyDevice

\* The steps of a login, an invitation and a redemption.
LEMMA GoOnPreserves ==
  ASSUME IndInv, NEW r \in Requests,
         \/ \E u \in Users : CredentialByIdentifier(r, u)
         \/ \E s \in Sessions : CreateSession(r, s) \/ Authenticate(r, s)
         \/ InviteUser(r) \/ InsertInvitation(r) \/ Redeem(r) \/ AttachSession(r) \/ Rollback(r)
  PROVE  IndInv'
<1>1. /\ Typed
      /\ requests \in [Requests -> RequestRow]
  BY TypedRows DEF Typed
<1>2. ASSUME NEW u \in Users, CredentialByIdentifier(r, u)
      PROVE  IndInv'
  <2> DEFINE row == [requests[r] EXCEPT !.pc = "login", !.user = u]
  <2>1. /\ row \in RequestRow /\ row.pc = "login" /\ row.user = u /\ row.secret = requests[r].secret
        /\ requests' = [requests EXCEPT ![r] = row]
    BY <1>1, <1>2 DEF RequestRow, CredentialByIdentifier
  <2>2. requests[r].secret = None /\ requests[r].pc = "idle"
    BY <1>2 DEF IndInv, Redeeming, CredentialByIdentifier
  <2> HIDE DEF row
  <2>3. QED
    BY <1>2, <2>1, <2>2, MovePreserves DEF CredentialByIdentifier
<1>3. ASSUME NEW s \in Sessions, CreateSession(r, s)
      PROVE  IndInv'
  <2>1. NobodyMoves /\ requests[r].user \in Users
    BY <1>3 DEF CreateSession, NobodyMoves, IndInv, Actors
  <2>2. QED
    BY <1>3, <2>1, NewSessionPreserves DEF CreateSession
<1>4. ASSUME NEW s \in Sessions, Authenticate(r, s)
      PROVE  IndInv'
  <2> DEFINE row == [requests[r] EXCEPT !.pc = "ready", !.session = s, !.user = sessions[s].owner]
  <2>1. sessions[s].owner \in Users /\ sessions[s].status = "LIVE"
    BY <1>4 DEF IndInv, AbsentUnbound, Authenticate, SessionByAccessToken, Live
  <2>2. /\ row \in RequestRow /\ row.pc = "ready" /\ row.session = s /\ row.user = sessions[s].owner
        /\ row.secret = requests[r].secret
    BY <1>1, <2>1 DEF RequestRow
  <2>3. requests' = [requests EXCEPT ![r] = row]
    BY <1>4 DEF Authenticate
  <2>4. requests[r].secret = None /\ requests[r].pc = "idle"
    BY <1>4 DEF IndInv, Redeeming, Authenticate
  <2> HIDE DEF row
  <2>5. QED
    BY <1>4, <2>1, <2>2, <2>3, <2>4, MovePreserves DEF Authenticate
<1>5. ASSUME NEW u \in Users, Ready(r), CheckInvitee(r, u)
      PROVE  IndInv'
  <2> DEFINE row == [requests[r] EXCEPT !.pc = "invite", !.user = u]
  <2>1. /\ row \in RequestRow /\ row.pc = "invite" /\ row.user = u /\ row.secret = requests[r].secret
        /\ requests' = [requests EXCEPT ![r] = row]
    BY <1>1, <1>5 DEF RequestRow, CheckInvitee
  <2>2. requests[r].secret = None /\ requests[r].pc = "ready"
    BY <1>5 DEF IndInv, Redeeming, Ready
  <2> HIDE DEF row
  <2>3. QED
    BY <1>5, <2>1, <2>2, MovePreserves DEF CheckInvitee
<1>6. CASE InsertInvitation(r) \/ Rollback(r)
  <2>1. /\ NobodyMoves /\ UNCHANGED <<users, devices, sessions, secrets, judged>>
        /\ invitations' \in SUBSET Users
    BY <1>1, <1>6 DEF InsertInvitation, Rollback, NobodyMoves, IndInv, Actors, Typed
  <2>2. QED
    BY <1>1, <2>1, QuietPreserves DEF Typed
<1>7. ASSUME NEW c \in Secrets, Ready(r), RedeemDeviceSessionChallenge(r, c) \/ RedeemPairingCode(r, c)
      PROVE  IndInv'
  BY <1>7, LockSecretPreserves DEF RedeemDeviceSessionChallenge, RedeemPairingCode
<1>8. QED
  BY <1>2, <1>3, <1>4, <1>5, <1>6, <1>7, AttachSessionPreserves DEF InviteUser, Redeem

\* The answers.
LEMMA RefuseAnswerPreserves ==
  ASSUME IndInv, NEW r \in Requests, RefuseAnswer(r)
  PROVE  IndInv'
<1> DEFINE c == requests[r].secret
<1>1. /\ Typed
      /\ requests[r].pc = "judge" /\ c \in Secrets
      /\ End(r) /\ UNCHANGED <<users, invitations, devices, sessions>>
      /\ judged' = [judged EXCEPT ![c].wrong = @ + 1]
  BY TypedRows, RedeemedRows DEF RefuseAnswer
<1>2. secrets[c].attempts < MaximumAttempts /\ requests[r].attempts = secrets[c].attempts
  BY <1>1, AccessAssumption DEF IndInv, Redeeming
<1>3. secrets' = [secrets EXCEPT ![c].attempts = secrets[c].attempts + 1]
  BY <1>1, <1>2 DEF RefuseAnswer, Typed
<1> HIDE DEF c
<1>4. DevicesStand /\ SessionsStand(r) /\ requests[r].secret = c
  BY <1>1 DEF Typed, DevicesStand, SessionsStand, c
<1>5. CountsWrong(c)
  BY <1>1, <1>2, <1>3 DEF CountsWrong
<1>6. QED
  BY <1>1, <1>4, <1>5, AnswerPreserves

LEMMA CommitAttachPreserves ==
  ASSUME IndInv, NEW r \in Requests, CommitAttach(r)
  PROVE  IndInv'
<1> DEFINE c == requests[r].secret
           s == secrets[c].session
           d == secrets[c].device
<1>1. /\ Typed
      /\ requests[r].pc = "bind" /\ c \in Secrets /\ s \in Sessions /\ d \in Devices
      /\ End(r) /\ UNCHANGED <<users, invitations, devices>>
      /\ judged' = [judged EXCEPT ![c].right = @ + 1]
      /\ secrets' = [secrets EXCEPT ![c].used = TRUE]
      /\ sessions' = [sessions EXCEPT ![s].device = d]
  BY TypedRows, RedeemedRows DEF CommitAttach
<1>2. ~secrets[c].used /\ Live(s) /\ s = requests[r].session
  BY <1>1, BoundRows DEF IndInv, Redeeming
<1> HIDE DEF c, s, d
<1>3. /\ sessions' \in [Sessions -> SessionRow]
      /\ sessions'[s].status = sessions[s].status /\ sessions'[s].owner = sessions[s].owner
      /\ \A t \in Sessions \ {s} : sessions'[t] = sessions[t]
  <2>1. sessions \in [Sessions -> SessionRow]
    BY <1>1 DEF Typed
  <2>2. QED
    BY <1>1, <2>1 DEF SessionRow
<1>4. \A q \in Requests \ {r} : requests[q].pc = "bind" => requests[q].session # s
  BY <1>1, <1>2 DEF IndInv, Attaching
<1>5. DevicesStand /\ requests[r].secret = c
  BY <1>1 DEF Typed, DevicesStand, c
<1>6. SessionsStand(r)
  BY <1>2, <1>3, <1>4 DEF SessionsStand
<1>7. CountsRight(c)
  BY <1>1, <1>2 DEF CountsRight
<1>8. QED
  BY <1>1, <1>5, <1>6, <1>7, AnswerPreserves

LEMMA TrustDevicePreserves ==
  ASSUME IndInv, NEW r \in Requests, TrustDevice(r)
  PROVE  IndInv'
<1> DEFINE c == requests[r].secret
           d == secrets[c].device
<1>1. /\ Typed
      /\ requests[r].pc = "judge" /\ c \in Secrets /\ d \in Devices
      /\ End(r) /\ UNCHANGED <<users, invitations, sessions>>
      /\ judged' = [judged EXCEPT ![c].right = @ + 1]
      /\ secrets' = [secrets EXCEPT ![c].used = TRUE]
      /\ devices' = [devices EXCEPT ![d].trust = "TRUSTED"]
  BY TypedRows, RedeemedRows DEF TrustDevice
<1>2. ~secrets[c].used
  BY <1>1, AccessAssumption DEF IndInv, Redeeming
<1> HIDE DEF c, d
<1>3. DevicesStand
  <2>1. devices \in [Devices -> DeviceRow]
    BY <1>1 DEF Typed
  <2>2. QED
    BY <1>1, <2>1 DEF DevicesStand, DeviceRow, Trust
<1>4. SessionsStand(r) /\ requests[r].secret = c
  BY <1>1 DEF Typed, SessionsStand, c
<1>5. CountsRight(c)
  BY <1>1, <1>2 DEF CountsRight
<1>6. QED
  BY <1>1, <1>3, <1>4, <1>5, AnswerPreserves

LEMMA NextIndInv == IndInv /\ [Next]_vars => IndInv'
<1> SUFFICES ASSUME IndInv, [Next]_vars PROVE IndInv'
  OBVIOUS
<1>1. CASE UNCHANGED vars
  <2>1. UNCHANGED <<users, devices, sessions, secrets, invitations, judged, requests>>
    BY <1>1 DEF vars
  <2>2. TypeOK' /\ SecretRows'
    BY <2>1 DEF IndInv, TypeOK, SecretRows
  <2>3. Redeeming' /\ OneRedeemer'
    BY <2>1 DEF IndInv, Redeeming, OneRedeemer
  <2>4. Actors' /\ AbsentUnbound'
    BY <2>1 DEF IndInv, Actors, AbsentUnbound
  <2>5. Attaching'
    BY <2>1 DEF IndInv, Attaching, Binding, Live
  <2>6. QED
    BY <2>2, <2>3, <2>4, <2>5 DEF IndInv
<1>2. CASE Next
  <2>1. ASSUME NEW r \in Requests,
               \/ \E u \in Users : CredentialByIdentifier(r, u)
               \/ \E s \in Sessions : CreateSession(r, s) \/ Authenticate(r, s)
               \/ DeviceRequest(r) \/ AdminRequest(r) \/ InviteUser(r) \/ InsertInvitation(r)
               \/ Redeem(r) \/ RefuseAnswer(r) \/ AttachSession(r) \/ CommitAttach(r)
               \/ TrustDevice(r) \/ Rollback(r)
        PROVE  IndInv'
    BY <2>1, ReadyPreserves, GoOnPreserves, RefuseAnswerPreserves, CommitAttachPreserves,
       TrustDevicePreserves
  <2>2. CASE \/ BootstrapAdmin
             \/ \E u \in Users : AcceptAdminInvitation(u) \/ ResetAdminPasswordByIdentifier(u)
             \/ \E u \in Users, d \in Devices, s \in Sessions : RegisterPending(u, d, s)
             \/ \E s \in Sessions, token \in 0..MaxRotations :
                  RotateSession(s, token) \/ RevokeSessionByRefreshToken(s, token)
    BY <2>2, BesidePreserves
  <2>3. QED
    BY <1>2, <2>1, <2>2 DEF Next
<1>3. QED
  BY <1>1, <1>2

LEMMA Inductive == Spec => []IndInv
  BY InitIndInv, NextIndInv, PTL DEF Spec

-----------------------------------------------------------------------------
(***************************************************************************)
(* The properties.                                                         *)
(***************************************************************************)
\* Every row and request keeps its type, for any number of users, devices,
\* sessions, secrets and requests.
THEOREM TypeCorrect == Spec => []TypeOK
<1>1. IndInv => TypeOK
  BY DEF IndInv
<1>2. QED
  BY <1>1, Inductive, PTL

\* RedeemDeviceSessionChallenge and RedeemPairingCode: one right answer and no
\* more than MaximumAttempts wrong ones, however many requests compete.
THEOREM SpentSecrets == Spec => []SecretsSpent
<1>1. IndInv => SecretsSpent
  <2> SUFFICES ASSUME IndInv, NEW c \in Secrets
               PROVE  judged[c].wrong <= MaximumAttempts /\ judged[c].right <= 1
    BY DEF SecretsSpent
  <2>1. secrets[c].attempts \in 0..MaximumAttempts
    BY DEF IndInv, TypeOK
  <2>2. judged[c].wrong = secrets[c].attempts /\ judged[c].right \in {0, 1}
    BY DEF IndInv, SecretRows
  <2>3. QED
    BY <2>1, <2>2, AccessAssumption
<1>2. QED
  BY <1>1, Inductive, PTL

\* How a step may change the row of a session.
Rebound(s) ==
  \E d \in Devices : /\ Live(s)
                     /\ sessions[s].device \in {None, d}
                     /\ sessions'[s] = [sessions[s] EXCEPT !.device = d]
                     /\ devices'[d].owner = sessions[s].owner

SessionStep(s) ==
  \/ sessions'[s] = sessions[s]
  \/ /\ sessions[s].status = "ABSENT" /\ sessions[s].device = None
     /\ sessions'[s].device # None => devices'[sessions'[s].device].owner = sessions'[s].owner
  \/ Live(s) /\ sessions'[s].device = sessions[s].device
  \/ sessions'[s] = [sessions[s] EXCEPT !.status = "DELETED"]
  \/ Rebound(s)

LEMMA SessionSteps ==
  ASSUME IndInv, [Next]_vars, NEW s \in Sessions
  PROVE  SessionStep(s)
<1>1. /\ Typed /\ sessions \in [Sessions -> SessionRow] /\ devices \in [Devices -> DeviceRow]
      /\ AbsentUnbound
  BY TypedRows DEF Typed, IndInv
<1>2. CASE UNCHANGED sessions
  BY <1>2 DEF SessionStep
<1>3. ASSUME NEW u \in Users, NEW d \in Devices, NEW t \in Sessions, RegisterPending(u, d, t)
      PROVE  SessionStep(s)
  <2>1. /\ devices'[d].owner = u
        /\ sessions' = [sessions EXCEPT ![t] =
             [sessions[t] EXCEPT !.status = "LIVE", !.owner = u, !.device = d]]
    BY <1>1, <1>3 DEF RegisterPending
  <2>2. /\ [sessions[t] EXCEPT !.status = "LIVE", !.owner = u, !.device = d].device = d
        /\ [sessions[t] EXCEPT !.status = "LIVE", !.owner = u, !.device = d].owner = u
    BY <1>1 DEF SessionRow
  <2>3. sessions[t].status = "ABSENT" /\ sessions[t].device = None
    BY <1>1, <1>3 DEF RegisterPending, AbsentUnbound
  <2>4. QED
    BY <1>1, <2>1, <2>2, <2>3 DEF SessionStep
<1>4. ASSUME NEW t \in Sessions, NEW token \in 0..MaxRotations, RotateSession(t, token)
      PROVE  SessionStep(s)
  BY <1>1, <1>4 DEF RotateSession, Rotatable, SessionStep, SessionRow, Live
<1>5. ASSUME NEW S \in SUBSET Sessions, \A t \in S : Live(t), EndSessions(S)
      PROVE  SessionStep(s)
  BY <1>1, <1>5 DEF EndSessions, SessionStep, SessionRow
<1>6. ASSUME NEW r \in Requests, NEW t \in Sessions, CreateSession(r, t)
      PROVE  SessionStep(s)
  <2>1. sessions' = [sessions EXCEPT ![t] =
          [sessions[t] EXCEPT !.status = "LIVE", !.owner = requests[r].user]]
    BY <1>1, <1>6 DEF CreateSession
  <2>2. [sessions[t] EXCEPT !.status = "LIVE", !.owner = requests[r].user].device = sessions[t].device
    BY <1>1 DEF SessionRow
  <2>3. sessions[t].status = "ABSENT" /\ sessions[t].device = None
    BY <1>1, <1>6 DEF CreateSession, AbsentUnbound
  <2>4. QED
    BY <1>1, <2>1, <2>2, <2>3 DEF SessionStep
<1>7. ASSUME NEW r \in Requests, NEW d \in Devices, Ready(r), CreateDevice(r, d)
      PROVE  SessionStep(s)
  <2> DEFINE t == requests[r].session
  <2>1. t \in Sessions /\ sessions[t].owner = requests[r].user
    BY <1>1, <1>7 DEF IndInv, Actors, Ready, Typed, RequestRow
  <2>2. /\ Live(t) /\ sessions[t].device = None
        /\ sessions' = [sessions EXCEPT ![t].device = d]
        /\ devices'[d].owner = requests[r].user
    BY <1>1, <1>7 DEF CreateDevice
  <2> HIDE DEF t
  <2>3. QED
    BY <1>1, <2>1, <2>2 DEF SessionStep, Rebound
<1>8. ASSUME NEW r \in Requests, NEW d \in Devices, DeleteDevice(r, d)
      PROVE  SessionStep(s)
  BY <1>8 DEF DeleteDevice, SessionStep
<1>9. ASSUME NEW r \in Requests, CommitAttach(r)
      PROVE  SessionStep(s)
  <2> DEFINE c == requests[r].secret
             t == secrets[c].session
             d == secrets[c].device
  <2>1. /\ requests[r].pc = "bind" /\ UNCHANGED devices
        /\ sessions' = [sessions EXCEPT ![t].device = d]
    BY <1>9 DEF CommitAttach
  <2>2. t \in Sessions /\ d \in Devices
    BY <2>1, BoundRows
  <2>3. Live(t) /\ sessions[t].device \in {None, d} /\ devices[d].owner = sessions[t].owner
    BY <2>1 DEF IndInv, Attaching, Binding
  <2> HIDE DEF c, t, d
  <2>4. QED
    BY <1>1, <2>1, <2>2, <2>3 DEF SessionStep, Rebound
<1>10. QED
  <2>1. SUFFICES ASSUME Next, sessions' # sessions
                 PROVE  SessionStep(s)
    BY <1>2 DEF vars
  <2>2. \A u \in Users : SessionsOfUser(u) \in SUBSET Sessions /\ \A t \in SessionsOfUser(u) : Live(t)
    BY DEF SessionsOfUser
  <2>3. \A d \in Devices : SessionsOfDevice(d) \in SUBSET Sessions /\ \A t \in SessionsOfDevice(d) : Live(t)
    BY DEF SessionsOfDevice
  <2>4. ASSUME NEW u \in Users,
               ResetAdminPasswordByIdentifier(u) \/ DisableAdminUser(u) \/ ResetAdminPassword(u)
        PROVE  SessionStep(s)
    BY <1>5, <2>2, <2>4 DEF ResetAdminPasswordByIdentifier, DisableAdminUser, ResetAdminPassword
  <2>5. ASSUME NEW t \in Sessions, NEW token \in 0..MaxRotations, RevokeSessionByRefreshToken(t, token)
        PROVE  SessionStep(s)
    <3>1. {t} \in SUBSET Sessions /\ (\A e \in {t} : Live(e)) /\ EndSessions({t})
      BY <2>5 DEF RevokeSessionByRefreshToken, Rotatable
    <3>2. QED
      BY <1>5, <3>1
  <2>6. ASSUME NEW r \in Requests, DeviceRequest(r)
        PROVE  SessionStep(s)
    BY <1>5, <1>7, <1>8, <2>1, <2>3, <2>6
       DEF DeviceRequest, RevokeDevice, CreateDeviceSessionChallenge, CreatePairingCode
  <2>7. ASSUME NEW r \in Requests, AdminRequest(r)
        PROVE  SessionStep(s)
    BY <1>5, <2>1, <2>3, <2>4, <2>7
       DEF AdminRequest, CreateUser, CreateAdminUser, DisableUser, ResetPassword, RevokeAnyDevice,
           RevokeAdminDevice
  <2>8. ASSUME NEW r \in Requests,
               \/ \E u \in Users : CredentialByIdentifier(r, u)
               \/ \E t \in Sessions : Authenticate(r, t)
               \/ InviteUser(r) \/ InsertInvitation(r) \/ Redeem(r) \/ RefuseAnswer(r)
               \/ AttachSession(r) \/ TrustDevice(r) \/ Rollback(r)
        PROVE  FALSE
    BY <2>1, <2>8 DEF CredentialByIdentifier, Authenticate, InviteUser, CheckInvitee, InsertInvitation,
       Redeem, RedeemDeviceSessionChallenge, RedeemPairingCode, LockSecret, RefuseAnswer,
       AttachSession, TrustDevice, Rollback
  <2>9. ~BootstrapAdmin /\ \A u \in Users : ~AcceptAdminInvitation(u)
    BY <2>1 DEF BootstrapAdmin, AcceptAdminInvitation
  <2>10. QED
    BY <1>3, <1>4, <1>6, <1>9, <2>1, <2>4, <2>5, <2>6, <2>7, <2>8, <2>9 DEF Next

\* CreateDevice and RedeemDeviceSessionChallenge: a bound session stays bound to
\* its device, and the device is its user's, whatever requests are in flight.
THEOREM BindingsFixed == Spec => BindingFixed
<1>1. IndInv /\ [Next]_vars => [\A s \in Sessions : Bound(s)]_vars
  <2> SUFFICES ASSUME IndInv, [Next]_vars, NEW s \in Sessions
               PROVE  Bound(s)
    OBVIOUS
  <2>1. sessions \in [Sessions -> SessionRow]
    BY TypedRows DEF Typed
  <2>2. SessionStep(s)
    BY SessionSteps
  <2>3. QED
    BY <2>1, <2>2, AccessAssumption DEF SessionStep, Rebound, Bound, SessionRow
<1>2. QED
  BY <1>1, Inductive, PTL DEF Spec, BindingFixed

\* RotateSession, AttachSession and the rest never touch a session that has
\* ended, although they were checked while it was live.
THEOREM EndedInert == Spec => EndedSessionsInert
<1>1. IndInv /\ [Next]_vars => [\A s \in Sessions : Inert(s)]_vars
  <2> SUFFICES ASSUME IndInv, [Next]_vars, NEW s \in Sessions
               PROVE  Inert(s)
    OBVIOUS
  <2>1. SessionStep(s)
    BY SessionSteps
  <2>2. QED
    BY <2>1 DEF SessionStep, Rebound, Inert, Live
<1>2. QED
  BY <1>1, Inductive, PTL DEF Spec, EndedSessionsInert

\* RevokeDevice and RevokeAdminDevice are for good: TrustDevice looks again.
THEOREM RevokedStays == Spec => RevokedForever
<1> DEFINE Forever == \A d \in Devices : devices[d].trust = "REVOKED" => devices'[d].trust \in {"REVOKED", "DELETED"}
<1>1. IndInv /\ [Next]_vars => [Forever]_vars
  <2> SUFFICES ASSUME IndInv, [Next]_vars, NEW d \in Devices, devices[d].trust = "REVOKED"
               PROVE  devices'[d].trust \in {"REVOKED", "DELETED"}
    OBVIOUS
  <2>1. devices \in [Devices -> DeviceRow]
    BY TypedRows DEF Typed
  <2>2. ASSUME NEW e \in Devices, NEW row, devices[e].trust = "ABSENT",
               devices' = [devices EXCEPT ![e] = row]
        PROVE  devices'[d] = devices[d]
    BY <2>1, <2>2
  <2>3. ASSUME NEW e \in Devices, NEW t \in {"REVOKED", "DELETED"},
               devices' = [devices EXCEPT ![e].trust = t]
        PROVE  devices'[d].trust \in {"REVOKED", "DELETED"}
    BY <2>1, <2>3 DEF DeviceRow
  <2>4. ASSUME NEW r \in Requests, TrustDevice(r)
        PROVE  devices'[d] = devices[d]
    BY <2>1, <2>4 DEF TrustDevice, StillPending
  <2>5. ASSUME NEW u \in Users, NEW e \in Devices, NEW s \in Sessions, RegisterPending(u, e, s)
        PROVE  devices'[d] = devices[d]
    BY <2>2, <2>5 DEF RegisterPending
  <2>6. ASSUME NEW r \in Requests, NEW e \in Devices,
               CreateDevice(r, e) \/ DeleteDevice(r, e) \/ RevokeDevice(r, e) \/ RevokeAdminDevice(e)
        PROVE  devices'[d].trust \in {"REVOKED", "DELETED"}
    BY <2>2, <2>3, <2>6 DEF CreateDevice, DeleteDevice, RevokeDevice, RevokeAdminDevice
  <2>7. ASSUME NEW r \in Requests, DeviceRequest(r) \/ AdminRequest(r)
        PROVE  devices' = devices \/ devices'[d].trust \in {"REVOKED", "DELETED"}
    BY <2>6, <2>7 DEF DeviceRequest, AdminRequest, CreateDeviceSessionChallenge, CreatePairingCode,
       CreateUser, CreateAdminUser, DisableUser, DisableAdminUser, ResetPassword, ResetAdminPassword,
       RevokeAnyDevice
  <2>8. ASSUME NEW r \in Requests,
               \/ \E u \in Users : CredentialByIdentifier(r, u)
               \/ \E s \in Sessions : CreateSession(r, s) \/ Authenticate(r, s)
               \/ InviteUser(r) \/ InsertInvitation(r) \/ Redeem(r) \/ RefuseAnswer(r)
               \/ AttachSession(r) \/ CommitAttach(r) \/ Rollback(r)
        PROVE  devices' = devices
    BY <2>8 DEF CredentialByIdentifier, CreateSession, Authenticate, InviteUser, CheckInvitee,
       InsertInvitation, Redeem, RedeemDeviceSessionChallenge, RedeemPairingCode, LockSecret,
       RefuseAnswer, AttachSession, CommitAttach, Rollback
  <2>9. ASSUME \/ BootstrapAdmin
               \/ \E u \in Users : AcceptAdminInvitation(u) \/ ResetAdminPasswordByIdentifier(u)
               \/ \E s \in Sessions, token \in 0..MaxRotations :
                    RotateSession(s, token) \/ RevokeSessionByRefreshToken(s, token)
        PROVE  devices' = devices
    BY <2>9 DEF BootstrapAdmin, AcceptAdminInvitation, ResetAdminPasswordByIdentifier,
       ResetAdminPassword, RotateSession, RevokeSessionByRefreshToken
  <2>10. QED
    BY <2>4, <2>5, <2>7, <2>8, <2>9 DEF Next, vars
<1>2. QED
  BY <1>1, Inductive, PTL DEF Spec, RevokedForever
=============================================================================
