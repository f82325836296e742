------------------------------- MODULE Access -------------------------------
(***************************************************************************)
(* Users, sessions, devices and the two one-time secrets of NexDrop: the   *)
(* challenge that attaches a session to a device                           *)
(* (postgres/device_session.go) and the pairing code that makes a pending  *)
(* device trusted (RedeemPairingCode).                                     *)
(*                                                                         *)
(* A request is a process.  It authenticates (or reads a credential)       *)
(* first and runs its statements later, so it may act on a session that    *)
(* has ended meanwhile.  Transactions run under READ COMMITTED: a          *)
(* statement sees what is committed when it runs, waits for row locks and  *)
(* then checks its WHERE clause again.  A transaction whose statements     *)
(* meet others in a single place is one step; the redemption of a secret   *)
(* is several.  Tokens, codes and challenges that have lapsed only refuse  *)
(* requests, which a request that is never made covers; no clock is kept.  *)
(***************************************************************************)
EXTENDS Naturals, FiniteSets

CONSTANTS
  Users,            \* users, named by their unique username
  Admin,            \* the user BootstrapAdmin creates
  Devices,          \* identifiers of device rows
  Sessions,         \* identifiers of session rows
  Secrets,          \* identifiers of challenge and code rows
  Requests,         \* requests the Node serves at a time
  MaximumAttempts,  \* maximumChallengeAttempts and MaximumCodeAttempts
  MaxRotations,     \* bound: refreshes of one session
  None              \* no user, device, session or secret

ASSUME AccessAssumption ==
  /\ Admin \in Users
  /\ MaximumAttempts \in Nat
  /\ MaxRotations \in Nat
  /\ None \notin Users \cup Devices \cup Sessions \cup Secrets

VARIABLES
  users,        \* status of each user's row
  invitations,  \* usernames with an invitation not yet accepted
  devices,      \* row of each device
  sessions,     \* row of each session
  secrets,      \* row of each challenge or code
  requests,     \* what each request has read and does next
  judged        \* for each secret, the answers that were compared with it

vars == <<users, invitations, devices, sessions, secrets, requests, judged>>

Trust == {"ABSENT", "PENDING", "TRUSTED", "REVOKED", "DELETED"}
Idle == [pc |-> "idle", session |-> None, user |-> None, secret |-> None, attempts |-> 0]

Init ==
  /\ users = [u \in Users |-> "ABSENT"]
  /\ invitations = {}
  /\ devices = [d \in Devices |-> [owner |-> None, trust |-> "ABSENT"]]
  /\ sessions = [s \in Sessions |-> [status |-> "ABSENT", owner |-> None, device |-> None, token |-> 0]]
  /\ secrets = [c \in Secrets |-> [kind |-> "ABSENT", device |-> None, session |-> None,
                                   attempts |-> 0, used |-> FALSE]]
  /\ requests = [r \in Requests |-> Idle]
  /\ judged = [c \in Secrets |-> [wrong |-> 0, right |-> 0]]

(***************************************************************************)
(* Row locks: the secret's row from the first statement of a redemption to *)
(* its end, the session's row from the UPDATE that attaches it.            *)
(***************************************************************************)
\* Mutant of SecretFree and StillPending: the row is not locked or not checked.
NoLock(x) == TRUE

SecretFree(c) == \A r \in Requests : requests[r].secret # c

SessionFree(s) ==
  \A r \in Requests : requests[r].pc = "bind" => requests[r].session # s

Live(s) == sessions[s].status = "LIVE"
Become(r, pc) == requests' = [requests EXCEPT ![r].pc = pc]
End(r) == requests' = [requests EXCEPT ![r] = Idle]

(***************************************************************************)
(* Users: the first administrator, users made by an administrator,         *)
(* invitations, and the two operations that end every session of a user.   *)
(***************************************************************************)
BootstrapAdmin ==
  /\ \A u \in Users : users[u] = "ABSENT"
  /\ users' = [users EXCEPT ![Admin] = "ENABLED"]
  /\ UNCHANGED <<invitations, devices, sessions, secrets, requests, judged>>

CreateAdminUser(u) ==
  /\ users[u] = "ABSENT"
  /\ users' = [users EXCEPT ![u] = "ENABLED"]
  /\ UNCHANGED <<invitations, devices, sessions, secrets, judged>>

\* CreateAdminInvitation looks for the user first; the row is inserted later
\* and replaces an invitation that has lapsed.
CheckInvitee(r, u) ==
  /\ users[u] = "ABSENT"
  /\ requests' = [requests EXCEPT ![r].pc = "invite", ![r].user = u]
  /\ UNCHANGED <<users, invitations, devices, sessions, secrets, judged>>

InsertInvitation(r) ==
  /\ requests[r].pc = "invite"
  /\ invitations' = invitations \cup {requests[r].user}
  /\ End(r)
  /\ UNCHANGED <<users, devices, sessions, secrets, judged>>

AcceptAdminInvitation(u) ==
  /\ u \in invitations
  /\ users[u] = "ABSENT"
  /\ users' = [users EXCEPT ![u] = "ENABLED"]
  /\ invitations' = invitations \ {u}
  /\ UNCHANGED <<devices, sessions, secrets, requests, judged>>

EndSessions(S) ==
  /\ \A s \in S : SessionFree(s)
  /\ sessions' = [s \in Sessions |-> IF s \in S THEN [sessions[s] EXCEPT !.status = "ENDED"]
                                                ELSE sessions[s]]

SessionsOfUser(u) == {s \in Sessions : Live(s) /\ sessions[s].owner = u}
SessionsOfDevice(d) == {s \in Sessions : Live(s) /\ sessions[s].device = d}

DisableAdminUser(u) ==
  /\ users[u] = "ENABLED"
  /\ users' = [users EXCEPT ![u] = "DISABLED"]
  /\ EndSessions(SessionsOfUser(u))
  /\ UNCHANGED <<invitations, devices, secrets, judged>>

ResetAdminPassword(u) ==
  /\ users[u] = "ENABLED"
  /\ EndSessions(SessionsOfUser(u))
  /\ UNCHANGED <<users, invitations, devices, secrets, judged>>

\* The same reset from the command line, where nobody authenticates.
ResetAdminPasswordByIdentifier(u) ==
  /\ ResetAdminPassword(u)
  /\ UNCHANGED requests

(***************************************************************************)
(* Sessions.                                                               *)
(***************************************************************************)
\* Login reads the credential of an enabled user, checks password and TOTP
\* in the process, and inserts the session without looking again.
CredentialByIdentifier(r, u) ==
  /\ requests[r].pc = "idle"
  /\ users[u] = "ENABLED"
  /\ requests' = [requests EXCEPT ![r].pc = "login", ![r].user = u]
  /\ UNCHANGED <<users, invitations, devices, sessions, secrets, judged>>

CreateSession(r, s) ==
  /\ requests[r].pc = "login"
  /\ sessions[s].status = "ABSENT"
  /\ sessions' = [sessions EXCEPT ![s].status = "LIVE", ![s].owner = requests[r].user]
  /\ End(r)
  /\ UNCHANGED <<users, invitations, devices, secrets, judged>>

SessionByAccessToken(s) == Live(s) /\ users[sessions[s].owner] = "ENABLED"

Authenticate(r, s) ==
  /\ requests[r].pc = "idle"
  /\ SessionByAccessToken(s)
  /\ requests' = [requests EXCEPT ![r].pc = "ready", ![r].session = s, ![r].user = sessions[s].owner]
  /\ UNCHANGED <<users, invitations, devices, sessions, secrets, judged>>

\* Mutant of Rotatable: an ended session still rotates.
RotatableEnded(s, token) == sessions[s].status # "ABSENT" /\ sessions[s].token = token

\* The session that a presented refresh token belongs to: each rotation
\* replaces the token, so of all that were issued only the last one matches.
Rotatable(s, token) == Live(s) /\ sessions[s].token = token

RotateSession(s, token) ==
  /\ Rotatable(s, token)
  /\ SessionFree(s)
  /\ token < MaxRotations
  /\ sessions' = [sessions EXCEPT ![s].token = token + 1]
  /\ UNCHANGED <<users, invitations, devices, secrets, requests, judged>>

RevokeSessionByRefreshToken(s, token) ==
  /\ Rotatable(s, token)
  /\ EndSessions({s})
  /\ UNCHANGED <<users, invitations, devices, secrets, requests, judged>>

(***************************************************************************)
(* Devices.  A request in "ready" has been authenticated as its user.      *)
(***************************************************************************)
Ready(r) == requests[r].pc = "ready"
IsAdmin(r) == requests[r].user = Admin
Owns(r, d) == devices[d].owner = requests[r].user

CreateDevice(r, d) ==
  LET s == requests[r].session IN
  /\ devices[d].trust = "ABSENT"
  /\ Live(s) /\ sessions[s].device = None
  /\ SessionFree(s)
  /\ devices' = [devices EXCEPT ![d] = [owner |-> requests[r].user, trust |-> "TRUSTED"]]
  /\ sessions' = [sessions EXCEPT ![s].device = d]
  /\ UNCHANGED <<users, invitations, secrets, judged>>

\* Deletion cascades to the device's sessions, codes and challenges; it waits
\* for locks on them, and for an attachment under way, which has locked the
\* device's row through its foreign key.
DeleteDevice(r, d) ==
  LET gone == {s \in Sessions : sessions[s].device = d}
      lost == {c \in Secrets : secrets[c].device = d \/ secrets[c].session \in gone} IN
  /\ Owns(r, d)
  /\ devices[d].trust \in {"PENDING", "TRUSTED", "REVOKED"}
  /\ \A s \in gone : SessionFree(s)
  /\ \A c \in lost : SecretFree(c)
  /\ devices' = [devices EXCEPT ![d].trust = "DELETED"]
  /\ sessions' = [s \in Sessions |-> IF s \in gone THEN [sessions[s] EXCEPT !.status = "DELETED"]
                                                  ELSE sessions[s]]
  /\ secrets' = [c \in Secrets |-> IF c \in lost THEN [secrets[c] EXCEPT !.kind = "DELETED"]
                                                ELSE secrets[c]]
  /\ UNCHANGED <<users, invitations, judged>>

RevokeDevice(r, d) ==
  /\ devices[d].trust \in {"PENDING", "TRUSTED", "REVOKED"}
  /\ IsAdmin(r) \/ Owns(r, d)
  /\ devices' = [devices EXCEPT ![d].trust = "REVOKED"]
  /\ EndSessions(SessionsOfDevice(d))
  /\ UNCHANGED <<users, invitations, secrets, judged>>

RevokeAdminDevice(d) ==
  /\ devices[d].trust \in {"PENDING", "TRUSTED"}
  /\ devices' = [devices EXCEPT ![d].trust = "REVOKED"]
  /\ EndSessions(SessionsOfDevice(d))
  /\ UNCHANGED <<users, invitations, secrets, judged>>

\* No operation of this release makes a pending device; the schema's default
\* does, for a row another release wrote together with its session.
RegisterPending(u, d, s) ==
  /\ users[u] = "ENABLED"
  /\ devices[d].trust = "ABSENT"
  /\ sessions[s].status = "ABSENT"
  /\ devices' = [devices EXCEPT ![d] = [owner |-> u, trust |-> "PENDING"]]
  /\ sessions' = [sessions EXCEPT ![s].status = "LIVE", ![s].owner = u, ![s].device = d]
  /\ UNCHANGED <<users, invitations, secrets, requests, judged>>

(***************************************************************************)
(* One-time secrets.                                                       *)
(***************************************************************************)
Issue(c, kind, d, s) ==
  /\ secrets[c].kind = "ABSENT"
  /\ secrets' = [secrets EXCEPT ![c].kind = kind, ![c].device = d, ![c].session = s]

\* Mutant of Attachable: an attached session may be attached again.
AttachableUnbound(s, d) ==
  /\ Live(s)
  /\ devices[d].trust = "TRUSTED"
  /\ devices[d].owner = sessions[s].owner

\* A session may be attached to a trusted device of its user if it has no
\* device yet or has this one.
Attachable(s, d) ==
  /\ Live(s)
  /\ devices[d].trust = "TRUSTED"
  /\ devices[d].owner = sessions[s].owner
  /\ sessions[s].device \in {None, d}

CreateDeviceSessionChallenge(r, c, d) ==
  /\ Attachable(requests[r].session, d)
  /\ Issue(c, "challenge", d, requests[r].session)
  /\ UNCHANGED <<users, invitations, devices, sessions, judged>>

CreatePairingCode(r, c, d) ==
  /\ devices[d].trust = "PENDING"
  /\ Live(requests[r].session)
  /\ sessions[requests[r].session].device = d
  /\ Issue(c, "code", d, requests[r].session)
  /\ UNCHANGED <<users, invitations, devices, sessions, judged>>

\* SELECT ... FOR UPDATE: the answer is judged only after the attempts made
\* so far have been read under the row's lock.
Usable(c) == ~secrets[c].used /\ secrets[c].attempts < MaximumAttempts

LockSecret(r, c) ==
  /\ SecretFree(c)
  /\ Usable(c)
  /\ requests' = [requests EXCEPT ![r].pc = "judge", ![r].secret = c,
                                  ![r].attempts = secrets[c].attempts]
  /\ UNCHANGED <<users, invitations, devices, sessions, secrets, judged>>

RedeemDeviceSessionChallenge(r, c) ==
  /\ secrets[c].kind = "challenge"
  /\ secrets[c].session = requests[r].session
  /\ LockSecret(r, c)

RedeemPairingCode(r, c) ==
  LET s == requests[r].session
      target == devices[secrets[c].device] IN
  /\ secrets[c].kind = "code"
  /\ Live(s)
  /\ sessions[s].device # None /\ devices[sessions[s].device].trust = "TRUSTED"
  /\ target.owner = requests[r].user
  /\ target.trust = "PENDING"
  /\ LockSecret(r, c)

\* A wrong answer is counted and committed: in SQL for a challenge, from the
\* value read for a code.
RefuseAnswer(r) ==
  LET c == requests[r].secret IN
  /\ requests[r].pc = "judge"
  /\ secrets' = [secrets EXCEPT ![c].attempts =
                   IF secrets[c].kind = "code" THEN requests[r].attempts + 1 ELSE @ + 1]
  /\ judged' = [judged EXCEPT ![c].wrong = @ + 1]
  /\ End(r)
  /\ UNCHANGED <<users, invitations, devices, sessions>>

\* The right answer to a challenge: the UPDATE of the session, whose row stays
\* locked until the commit.
AttachSession(r) ==
  LET c == requests[r].secret IN
  /\ requests[r].pc = "judge"
  /\ secrets[c].kind = "challenge"
  /\ SessionFree(secrets[c].session)
  /\ Attachable(secrets[c].session, secrets[c].device)
  /\ Become(r, "bind")
  /\ UNCHANGED <<users, invitations, devices, sessions, secrets, judged>>

CommitAttach(r) ==
  LET c == requests[r].secret IN
  /\ requests[r].pc = "bind"
  /\ sessions' = [sessions EXCEPT ![secrets[c].session].device = secrets[c].device]
  /\ secrets' = [secrets EXCEPT ![c].used = TRUE]
  /\ judged' = [judged EXCEPT ![c].right = @ + 1]
  /\ End(r)
  /\ UNCHANGED <<users, invitations, devices>>

\* The right answer to a code: the device is trusted if it is still pending.
StillPending(d) == devices[d].trust = "PENDING"

TrustDevice(r) ==
  LET c == requests[r].secret
      d == secrets[c].device IN
  /\ requests[r].pc = "judge"
  /\ secrets[c].kind = "code"
  /\ StillPending(d)
  /\ devices' = [devices EXCEPT ![d].trust = "TRUSTED"]
  /\ secrets' = [secrets EXCEPT ![c].used = TRUE]
  /\ judged' = [judged EXCEPT ![c].right = @ + 1]
  /\ End(r)
  /\ UNCHANGED <<users, invitations, sessions>>

\* Refused, rolled back, cancelled or chosen by the deadlock detector.
Rollback(r) ==
  /\ requests[r].pc # "idle"
  /\ End(r)
  /\ UNCHANGED <<users, invitations, devices, sessions, secrets, judged>>

(***************************************************************************)
(* The services add the guards on the actor.                               *)
(***************************************************************************)
DeviceRequest(r) ==
  /\ Ready(r)
  /\ End(r)
  /\ \E d \in Devices :
       \/ CreateDevice(r, d)
       \/ DeleteDevice(r, d)
       \/ RevokeDevice(r, d)
       \/ \E c \in Secrets : \/ CreateDeviceSessionChallenge(r, c, d)
                            \/ CreatePairingCode(r, c, d)

\* An administrator may not disable the account it is using.
CreateUser(r, u) == IsAdmin(r) /\ CreateAdminUser(u)
DisableUser(r, u) == IsAdmin(r) /\ u # requests[r].user /\ DisableAdminUser(u)
ResetPassword(r, u) == IsAdmin(r) /\ ResetAdminPassword(u)
RevokeAnyDevice(r, d) == IsAdmin(r) /\ RevokeAdminDevice(d)

AdminRequest(r) ==
  /\ Ready(r)
  /\ End(r)
  /\ \/ \E u \in Users : CreateUser(r, u) \/ DisableUser(r, u) \/ ResetPassword(r, u)
     \/ \E d \in Devices : RevokeAnyDevice(r, d)

InviteUser(r) ==
  /\ Ready(r)
  /\ IsAdmin(r)
  /\ \E u \in Users : CheckInvitee(r, u)

Redeem(r) ==
  /\ Ready(r)
  /\ \E c \in Secrets : RedeemDeviceSessionChallenge(r, c) \/ RedeemPairingCode(r, c)

Next ==
  \/ BootstrapAdmin
  \/ \E u \in Users : AcceptAdminInvitation(u) \/ ResetAdminPasswordByIdentifier(u)
  \/ \E u \in Users, d \in Devices, s \in Sessions : RegisterPending(u, d, s)
  \/ \E s \in Sessions, token \in 0..MaxRotations :
       RotateSession(s, token) \/ RevokeSessionByRefreshToken(s, token)
  \/ \E r \in Requests :
       \/ \E u \in Users : CredentialByIdentifier(r, u)
       \/ \E s \in Sessions : CreateSession(r, s) \/ Authenticate(r, s)
       \/ DeviceRequest(r) \/ AdminRequest(r) \/ InviteUser(r) \/ InsertInvitation(r)
       \/ Redeem(r) \/ RefuseAnswer(r) \/ AttachSession(r) \/ CommitAttach(r)
       \/ TrustDevice(r) \/ Rollback(r)

Spec == Init /\ [][Next]_vars

-----------------------------------------------------------------------------
\* Every row and request has its type; attempt counts stay within the limit.
TypeOK ==
  /\ users \in [Users -> {"ABSENT", "ENABLED", "DISABLED"}]
  /\ invitations \subseteq Users
  /\ devices \in [Devices -> [owner : Users \cup {None}, trust : Trust]]
  /\ sessions \in [Sessions -> [status : {"ABSENT", "LIVE", "ENDED", "DELETED"},
                                owner : Users \cup {None}, device : Devices \cup {None},
                                token : 0..MaxRotations]]
  /\ secrets \in [Secrets -> [kind : {"ABSENT", "challenge", "code", "DELETED"},
                              device : Devices \cup {None}, session : Sessions \cup {None},
                              attempts : 0..MaximumAttempts, used : BOOLEAN]]
  /\ requests \in [Requests -> [pc : {"idle", "login", "ready", "invite", "judge", "bind"},
                                session : Sessions \cup {None}, user : Users \cup {None},
                                secret : Secrets \cup {None}, attempts : 0..MaximumAttempts]]
  /\ judged \in [Secrets -> [wrong : Nat, right : Nat]]

\* However many requests answer one challenge or one pairing code at the same
\* time, RedeemDeviceSessionChallenge and RedeemPairingCode compare at most
\* MaximumAttempts wrong answers with it and accept one right answer.
SecretsSpent ==
  \A c \in Secrets : judged[c].wrong <= MaximumAttempts /\ judged[c].right <= 1

\* A session that CreateDevice or an attachment has bound to a device stays
\* with it, whatever challenges for other devices it answers concurrently,
\* and it is only ever bound to a device of its own user.
Bound(s) ==
  IF sessions[s].device # None
  THEN sessions'[s].device = sessions[s].device
  ELSE sessions'[s].device # None => devices'[sessions'[s].device].owner = sessions'[s].owner

BindingFixed == [][\A s \in Sessions : Bound(s)]_vars

\* A session that was logged out, disabled with its user or revoked with its
\* device is not refreshed, attached or reopened by requests still under way;
\* all that can happen to its row is the cascade of a deleted device.
Inert(s) ==
  sessions[s].status \in {"ENDED", "DELETED"} =>
    sessions'[s] \in {sessions[s], [sessions[s] EXCEPT !.status = "DELETED"]}

EndedSessionsInert == [][\A s \in Sessions : Inert(s)]_vars

\* A revoked device is never trusted again, not even by a pairing code that was
\* locked and judged right before the revocation committed.
RevokedForever ==
  [][\A d \in Devices : devices[d].trust = "REVOKED" => devices'[d].trust \in {"REVOKED", "DELETED"}]_vars
=============================================================================
