------------------------------- MODULE Paging -------------------------------
(***************************************************************************)
(* Listings read page by page while rows come and go: transfers            *)
(* (ListTransferPage), failures and the audit log of the administrator     *)
(* (postgres/admin.go) and messages on a client (messagelifecycle.Page).   *)
(*                                                                         *)
(* A page holds the next rows behind a cursor, newest first; a cursor is   *)
(* the creation time and identifier of the last row of a page.  Creation   *)
(* times are taken before the row's transaction, so a row may appear       *)
(* anywhere in the order at any time.  Cursors travel signed; a client     *)
(* sends back the one it was given, and the signature keeps any other out. *)
(***************************************************************************)
EXTENDS Naturals, Sequences, FiniteSets, Functions

CONSTANTS
  Times, Ids,  \* creation times and identifiers, numbered in their order
  Limits,      \* page sizes clients ask for
  None         \* no cursor

Kinds == {"transfers", "failures", "audit", "messages"}
Keys == Times \X Ids

VARIABLES
  rows,    \* absent, present, or gone (hidden, deleted, no longer failed)
  listing, \* what the client has asked for and received
  steady   \* history: rows present ever since the listing began

vars == <<rows, listing, steady>>

NoListing == [pc |-> "idle", kind |-> "transfers", limit |-> 1, after |-> None, next |-> None,
              page |-> <<>>, read |-> 0, seen |-> <<>>]

Init ==
  /\ rows = [k \in Keys |-> "absent"]
  /\ listing = NoListing
  /\ steady = {}

(***************************************************************************)
(* The rows behind a cursor, and a page of them.                           *)
(***************************************************************************)
\* Mutant of Older: rows created at the same time are not told apart.
OlderByTime(k, cursor) == k[1] < cursor[1]

Older(k, cursor) == k[1] < cursor[1] \/ (k[1] = cursor[1] /\ k[2] < cursor[2])

Found(cursor) == {k \in Keys : rows[k] = "present" /\ (cursor = None \/ Older(k, cursor))}

\* The rows a query may answer with: all of them, in the order it asks for.
Behind(cursor) ==
  {s \in Bijection(1..Cardinality(Found(cursor)), Found(cursor)) :
     \A i, j \in DOMAIN s : i < j => ~Older(s[i], s[j])}

FirstOf(s, n) == IF Len(s) > n THEN SubSeq(s, 1, n) ELSE s

\* LIMIT + 1 rows are read; one more than the page holds means there is a next.
NextCursor(s, limit) == IF Len(s) > limit THEN s[limit] ELSE None

\* Page of messagelifecycle returns a cursor with every full page instead.
NextMessageCursor(s, limit) == IF Len(s) >= limit THEN s[limit] ELSE None

(***************************************************************************)
(* The client.                                                             *)
(***************************************************************************)
StartListing(kind, limit) ==
  /\ listing.pc \in {"idle", "done"}
  /\ listing' = [NoListing EXCEPT !.pc = "asking", !.kind = kind, !.limit = limit]
  /\ steady' = {k \in Keys : rows[k] = "present"}
  /\ UNCHANGED rows

\* The client has the page and goes on with its cursor, or is done.
Deliver(page, next) ==
  listing' = [listing EXCEPT !.pc = IF next = None THEN "done" ELSE "asking",
                             !.after = next, !.next = None, !.page = <<>>, !.read = 0,
                             !.seen = @ \o page]

(***************************************************************************)
(* The Node.                                                               *)
(***************************************************************************)
\* The keys of the page come from one query, the transfers from one each.
ListTransferPage ==
  /\ listing.pc = "asking"
  /\ listing.kind = "transfers"
  /\ \E found \in Behind(listing.after) :
       listing' = [listing EXCEPT !.pc = "reading", !.page = FirstOf(found, listing.limit),
                                  !.next = NextCursor(found, listing.limit)]
  /\ UNCHANGED <<rows, steady>>

GetTransfer ==
  /\ listing.pc = "reading"
  /\ listing.read < Len(listing.page)
  /\ rows[listing.page[listing.read + 1]] = "present"
  /\ listing' = [listing EXCEPT !.read = @ + 1]
  /\ UNCHANGED <<rows, steady>>

\* A transfer that is gone fails the whole page; the client asks again with
\* the cursor it has.
PageFails ==
  /\ listing.pc = "reading"
  /\ listing.read < Len(listing.page)
  /\ rows[listing.page[listing.read + 1]] # "present"
  /\ listing' = [listing EXCEPT !.pc = "asking", !.page = <<>>, !.next = None, !.read = 0]
  /\ UNCHANGED <<rows, steady>>

ListTransfers ==
  /\ listing.pc = "reading"
  /\ listing.read = Len(listing.page)
  /\ Deliver(listing.page, listing.next)
  /\ UNCHANGED <<rows, steady>>

AdminPage(kind) ==
  /\ listing.pc = "asking"
  /\ listing.kind = kind
  /\ \E found \in Behind(listing.after) :
       Deliver(FirstOf(found, listing.limit), NextCursor(found, listing.limit))
  /\ UNCHANGED <<rows, steady>>

ListAdminFailurePage == AdminPage("failures")
ListAdminAuditLogPage == AdminPage("audit")

Page ==
  /\ listing.pc = "asking"
  /\ listing.kind = "messages"
  /\ \E found \in Behind(listing.after) :
       Deliver(FirstOf(found, listing.limit), NextMessageCursor(found, listing.limit))
  /\ UNCHANGED <<rows, steady>>

(***************************************************************************)
(* Everybody else.                                                         *)
(***************************************************************************)
Appear(k) ==
  /\ rows[k] = "absent"
  /\ rows' = [rows EXCEPT ![k] = "present"]
  /\ UNCHANGED <<listing, steady>>

Disappear(k) ==
  /\ rows[k] = "present"
  /\ listing.kind # "audit"
  /\ rows' = [rows EXCEPT ![k] = "gone"]
  /\ steady' = steady \ {k}
  /\ UNCHANGED listing

Next ==
  \/ \E kind \in Kinds, limit \in Limits : StartListing(kind, limit)
  \/ ListTransferPage \/ GetTransfer \/ PageFails \/ ListTransfers
  \/ ListAdminFailurePage \/ ListAdminAuditLogPage \/ Page
  \/ \E k \in Keys : Appear(k) \/ Disappear(k)

-----------------------------------------------------------------------------
\* However rows appear and disappear between pages, between a page's keys and
\* its transfers, and with equal creation times, a listing shows no row twice,
\* goes strictly from newer to older, and at its end has shown every row that
\* was there all the time.
ListingFaithful ==
  /\ \A i, j \in DOMAIN listing.seen : i < j => Older(listing.seen[j], listing.seen[i])
  /\ listing.pc = "done" => steady \subseteq Range(listing.seen)
=============================================================================
