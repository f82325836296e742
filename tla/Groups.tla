------------------------------- MODULE Groups -------------------------------
(***************************************************************************)
(* A group of NexDrop: its members and their roles, the devices shared     *)
(* with it, and the resolution of a transfer's targets                     *)
(* (group/service.go, ResolveTransferTargets and the group statements of   *)
(* postgres/store.go).                                                     *)
(*                                                                         *)
(* Each operation on members is one SQL statement.  It reads the role of   *)
(* the actor in its snapshot and may then wait for the row of the member,  *)
(* which it judges as it is after the wait: two steps.  Targets are        *)
(* resolved before the transaction that stores the transfer.               *)
(***************************************************************************)
EXTENDS Naturals, FiniteSets

CONSTANTS
  Users,     \* users of the Node
  Devices,   \* devices registered on it
  OwnerOf,   \* the user of each device
  Requests,  \* requests the Node serves at a time
  None       \* no user

VARIABLES
  group,      \* ABSENT, LIVE or DELETED
  owner,      \* owner_user_id
  role,       \* row of each user in group_members, NONE without one
  shared,     \* rows of group_devices
  trusted,    \* devices that are TRUSTED and not revoked
  linked,     \* whether rows of transfer_tasks refer to the group
  requests,   \* statements and requests under way
  appointed   \* history: users whose last change by the owner made them ADMIN

vars == <<group, owner, role, shared, trusted, linked, requests, appointed>>

TargetTypes == {"SINGLE", "MULTIPLE", "ALL_DEVICES", "GROUP_ALL", "GROUP_SELECTED"}
ToGroup == {"GROUP_ALL", "GROUP_SELECTED"}

Idle == [pc |-> "idle", actor |-> None, rank |-> "NONE", user |-> None, role |-> "NONE",
         grouped |-> FALSE, targets |-> {}]

Init ==
  /\ group = "ABSENT"
  /\ owner = None
  /\ role = [u \in Users |-> "NONE"]
  /\ shared = {}
  /\ trusted = Devices
  /\ linked = FALSE
  /\ requests = [r \in Requests |-> Idle]
  /\ appointed = {}

Members == {u \in Users : role[u] # "NONE"}
End(r) == requests' = [requests EXCEPT ![r] = Idle]

(***************************************************************************)
(* The group itself.                                                       *)
(***************************************************************************)
CreateGroup(u) ==
  /\ group = "ABSENT"
  /\ group' = "LIVE"
  /\ owner' = u
  /\ role' = [role EXCEPT ![u] = "OWNER"]
  /\ UNCHANGED <<shared, trusted, linked, requests, appointed>>

\* Members and shared devices go with the group's row.
Cascade ==
  /\ group' = "DELETED"
  /\ role' = [u \in Users |-> "NONE"]
  /\ shared' = {}
  /\ appointed' = {}
  /\ UNCHANGED <<owner, trusted, requests>>

\* The foreign key of transfer_tasks keeps a group that transfers refer to.
DeleteGroup(u) ==
  /\ group = "LIVE"
  /\ owner = u
  /\ ~linked
  /\ Cascade
  /\ UNCHANGED linked

\* The administrator's deletion takes the transfers out of the group first.
DeleteAdminGroup ==
  /\ group = "LIVE"
  /\ linked' = FALSE
  /\ Cascade

(***************************************************************************)
(* Members.                                                                *)
(***************************************************************************)
MayGrant(rank, newRole) == rank = "OWNER" \/ (rank = "ADMIN" /\ newRole = "MEMBER")

\* Mutant of MayOverwrite: an administrator's row counts as a member's.
MayOverwriteAny(rank, current) == current # "OWNER"

\* A row in the way is overwritten if it is a plain member's, or by the owner.
MayOverwrite(rank, current) == current # "OWNER" /\ (current = "MEMBER" \/ rank = "OWNER")

MayRemove(rank, current) ==
  /\ current \notin {"NONE", "OWNER"}
  /\ rank = "OWNER" \/ (rank = "ADMIN" /\ current = "MEMBER")

ReadActor(r, pc, actor, user, newRole) ==
  /\ requests[r].pc = "idle"
  /\ group = "LIVE"
  /\ requests' = [requests EXCEPT ![r] = [Idle EXCEPT !.pc = pc, !.actor = actor,
                    !.rank = role[actor], !.user = user, !.role = newRole]]
  /\ UNCHANGED <<group, owner, role, shared, trusted, linked, appointed>>

BeginAddMember(r, actor, user, newRole) ==
  /\ MayGrant(role[actor], newRole)
  /\ ReadActor(r, "add", actor, user, newRole)

BeginRemoveMember(r, actor, user) ==
  /\ MayRemove(role[actor], role[user])
  /\ ReadActor(r, "remove", actor, user, "NONE")

SetRole(r) ==
  /\ role' = [role EXCEPT ![requests[r].user] = requests[r].role]
  /\ appointed' = IF requests[r].rank = "OWNER"
                  THEN IF requests[r].role = "ADMIN" THEN appointed \cup {requests[r].user}
                                                     ELSE appointed \ {requests[r].user}
                  ELSE appointed

AddGroupMember(r) ==
  LET current == role[requests[r].user] IN
  /\ requests[r].pc = "add"
  /\ group = "LIVE"
  /\ current = "NONE" \/ MayOverwrite(requests[r].rank, current)
  /\ SetRole(r)
  /\ End(r)
  /\ UNCHANGED <<group, owner, shared, trusted, linked>>

\* The devices the member shared stay in group_devices.
RemoveGroupMember(r) ==
  /\ requests[r].pc = "remove"
  /\ MayRemove(requests[r].rank, role[requests[r].user])
  /\ SetRole(r)
  /\ End(r)
  /\ UNCHANGED <<group, owner, shared, trusted, linked>>

(***************************************************************************)
(* Shared devices.                                                         *)
(***************************************************************************)
MayHandle(u, d) == role[u] \in {"OWNER", "ADMIN"} \/ (role[u] = "MEMBER" /\ OwnerOf[d] = u)

AddGroupDevice(u, d) ==
  /\ group = "LIVE"
  /\ d \in trusted \ shared
  /\ OwnerOf[d] \in Members
  /\ MayHandle(u, d)
  /\ shared' = shared \cup {d}
  /\ UNCHANGED <<group, owner, role, trusted, linked, requests, appointed>>

RemoveGroupDevice(u, d) ==
  /\ d \in shared
  /\ MayHandle(u, d)
  /\ shared' = shared \ {d}
  /\ UNCHANGED <<group, owner, role, trusted, linked, requests, appointed>>

RevokeDevice(d) ==
  /\ d \in trusted
  /\ trusted' = trusted \ {d}
  /\ UNCHANGED <<group, owner, role, shared, linked, requests, appointed>>

(***************************************************************************)
(* Transfers.                                                              *)
(***************************************************************************)
\* The devices the query of a target type may return to a user who sends
\* from the device "from".
Eligible(u, from, type) ==
  LET own == {d \in Devices : OwnerOf[d] = u} IN
  CASE type \in {"SINGLE", "MULTIPLE"} -> own
    [] type = "ALL_DEVICES"            -> own \ {from}
    [] type \in ToGroup                -> IF u \in Members THEN shared ELSE {}

Selects(type) == type \in {"SINGLE", "MULTIPLE", "GROUP_SELECTED"}

\* Requested devices must all be eligible; otherwise all eligible ones are
\* taken.  Nobody to send to is an error.
ResolveTransferTargets(r, u, from, type, requested) ==
  LET found == Eligible(u, from, type) \cap trusted
      targets == IF Selects(type) THEN requested ELSE found IN
  /\ requests[r].pc = "idle"
  /\ OwnerOf[from] = u
  /\ targets \subseteq found
  /\ targets # {}
  /\ requests' = [requests EXCEPT ![r] = [Idle EXCEPT !.pc = "create", !.actor = u,
                                            !.grouped = type \in ToGroup, !.targets = targets]]
  /\ UNCHANGED <<group, owner, role, shared, trusted, linked, appointed>>

CreateTransfer(r) ==
  /\ requests[r].pc = "create"
  /\ requests[r].grouped => group = "LIVE"
  /\ linked' = (linked \/ requests[r].grouped)
  /\ End(r)
  /\ UNCHANGED <<group, owner, role, shared, trusted, appointed>>

Refuse(r) ==
  /\ requests[r].pc # "idle"
  /\ End(r)
  /\ UNCHANGED <<group, owner, role, shared, trusted, linked, appointed>>

MemberStep(r) ==
  \/ \E u, v \in Users :
       \/ \E newRole \in {"MEMBER", "ADMIN"} : BeginAddMember(r, u, v, newRole)
       \/ BeginRemoveMember(r, u, v)
  \/ AddGroupMember(r) \/ RemoveGroupMember(r)

TransferStep(r) ==
  \/ \E u \in Users, from \in Devices, type \in TargetTypes, requested \in SUBSET Devices :
       /\ Selects(type) <=> requested # {}
       /\ type = "SINGLE" => Cardinality(requested) = 1
       /\ ResolveTransferTargets(r, u, from, type, requested)
  \/ CreateTransfer(r)

Next ==
  \/ \E u \in Users : CreateGroup(u) \/ DeleteGroup(u)
  \/ DeleteAdminGroup
  \/ \E r \in Requests : MemberStep(r) \/ TransferStep(r) \/ Refuse(r)
  \/ \E u \in Users, d \in Devices : AddGroupDevice(u, d) \/ RemoveGroupDevice(u, d)
  \/ \E d \in Devices : RevokeDevice(d)

-----------------------------------------------------------------------------
\* Whatever statements of AddGroupMember and RemoveGroupMember overlap, the
\* group keeps exactly one OWNER row, its owner's, and the administrators are
\* those whom the owner has appointed: no administrator makes or unmakes one,
\* even if the rows change between reading the actor and writing the member.
GroupRanks ==
  /\ {u \in Users : role[u] = "OWNER"} = IF group = "LIVE" THEN {owner} ELSE {}
  /\ {u \in Users : role[u] = "ADMIN"} = appointed
=============================================================================
