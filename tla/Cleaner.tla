------------------------------ MODULE Cleaner ------------------------------
(***************************************************************************)
(* The cleaner's passes over many files (internal/maintenance/cleaner.go): *)
(* the worker of the Node process, which runs one at startup and one every *)
(* hour, and the nexdrop cleanup command, a process of its own.  A pass    *)
(* lists at most Limit due files in the order of their deadlines, handles  *)
(* one after the other, and ends at the first error, whatever is left.     *)
(* NodeStorage has the steps of a pass within one file; here a file's      *)
(* bodies go in one step.                                                  *)
(***************************************************************************)
EXTENDS Naturals, FiniteSets

CONSTANTS
  Files,    \* files with bodies on the Node
  Deadline, \* files.expires_at; the files of one transfer often share it
  Limit,    \* the most files one pass takes
  Worker,   \* the pass of the Node process
  Command,  \* the pass of the command line
  Database  \* stands for the database, and for the process itself, in faulty

VARIABLES
  due,     \* files that ExpiredFiles selects while they are not EXPIRED
  expired, \* files whose status is EXPIRED
  gone,    \* files not EXPIRED yet whose bodies a pass has removed
  passes,  \* of each pass, its listing and whether the bodies of the file
           \*   at hand have been removed
  faulty   \* files with a body that cannot be removed, and Database while
           \*   its statements may fail

vars == <<due, expired, gone, passes, faulty>>

Passes == {Worker, Command}
Idle == [pc |-> "idle", todo |-> {}]

\* Mutant of Precedes: the listing has no ORDER BY.
PrecedesAny(f, others) == TRUE

\* ORDER BY expires_at: files with one deadline come in any order.
Precedes(f, others) == \A g \in others : Deadline[f] <= Deadline[g]

Selectable == due \ expired

\* LIMIT.
Listings ==
  {some \in SUBSET Selectable :
     /\ Cardinality(some) = IF Cardinality(Selectable) < Limit
                              THEN Cardinality(Selectable) ELSE Limit
     /\ \A f \in some : Precedes(f, Selectable \ some)}

Init ==
  /\ due = {}
  /\ expired = {}
  /\ gone = {}
  /\ passes = [p \in Passes |-> Idle]
  /\ faulty = {}

-----------------------------------------------------------------------------
\* A pass that lists nothing is over.
ExpiredFiles(p) ==
  /\ passes[p] = Idle
  /\ Selectable # {}
  /\ \E listing \in Listings :
       passes' = [passes EXCEPT ![p] = [pc |-> "removing", todo |-> listing]]
  /\ UNCHANGED <<due, expired, gone, faulty>>

\* Mutant of Removable: a body that is gone already is an error.
RemovableOnce(f) == f \notin faulty /\ f \notin gone

\* An error in os.Remove or from safePath; a body that is gone already is none.
Removable(f) == f \notin faulty

\* The next file of the listing.
AtHand(p, f) == f \in passes[p].todo /\ Precedes(f, passes[p].todo)

\* What was removed before the error stays removed.
RemoveBodies(p) ==
  /\ passes[p].pc = "removing"
  /\ \E f \in Files :
       /\ AtHand(p, f)
       /\ IF Removable(f)
            THEN /\ gone' = (gone \cup {f}) \ expired
                 /\ passes' = [passes EXCEPT ![p] = [pc |-> "marking", todo |-> @.todo, file |-> f]]
            ELSE /\ passes' = [passes EXCEPT ![p] = Idle]
                 /\ UNCHANGED gone
  /\ UNCHANGED <<due, expired, faulty>>

\* Mutant of GoOn: the loop does not stop after the last file.
GoOnPastEnd(rest) == [pc |-> "removing", todo |-> rest]

GoOn(rest) == IF rest = {} THEN Idle ELSE [pc |-> "removing", todo |-> rest]

\* ErrNotFound for a file that is EXPIRED by now ends the pass, too.
MarkFileExpired(p) ==
  /\ passes[p].pc = "marking"
  /\ LET f == passes[p].file
     IN /\ expired' = expired \cup {f}
        /\ gone' = gone \ {f}
        /\ passes' = [passes EXCEPT ![p] =
             IF f \in expired THEN Idle ELSE GoOn(passes[p].todo \ {f})]
  /\ UNCHANGED <<due, faulty>>

\* A statement fails, is cancelled, or the process ends.
Abandon(p) ==
  /\ Database \in faulty
  /\ passes[p] # Idle
  /\ passes' = [passes EXCEPT ![p] = Idle]
  /\ UNCHANGED <<due, expired, gone, faulty>>

-----------------------------------------------------------------------------
\* The deadline passes, or the last delivery is a day old.
BecomeDue(f) ==
  /\ f \notin due
  /\ due' = due \cup {f}
  /\ UNCHANGED <<expired, gone, passes, faulty>>

\* Another file of the transfer is completed: a delivered target is open again.
Reopen(f) ==
  /\ f \in due
  /\ due' = due \ {f}
  /\ UNCHANGED <<expired, gone, passes, faulty>>

\* DeleteGroupContent expires a file; the cleaner does not come to it again.
DeleteGroupContent(f) ==
  /\ f \notin expired
  /\ expired' = expired \cup {f}
  /\ gone' = gone \ {f}
  /\ UNCHANGED <<due, passes, faulty>>

Fail(x) ==
  /\ x \notin faulty
  /\ faulty' = faulty \cup {x}
  /\ UNCHANGED <<due, expired, gone, passes>>

Recover(x) ==
  /\ x \in faulty
  /\ faulty' = faulty \ {x}
  /\ UNCHANGED <<due, expired, gone, passes>>

PassStep(p) == ExpiredFiles(p) \/ RemoveBodies(p) \/ MarkFileExpired(p)

Next ==
  \/ \E p \in Passes : PassStep(p) \/ Abandon(p)
  \/ \E f \in Files : BecomeDue(f) \/ Reopen(f) \/ DeleteGroupContent(f)
  \/ \E x \in Files \cup {Database} : Fail(x) \/ Recover(x)

\* Start's ticker, and a pass goes on once begun.  Nothing else is promised:
\* not the command, no repair, no deadline.
Fairness == WF_vars(PassStep(Worker))

Spec == Init /\ [][Next]_vars /\ Fairness

-----------------------------------------------------------------------------
\* Sets of files, and the listings of the passes.
TypeOK ==
  /\ due \subseteq Files /\ expired \subseteq Files
  /\ gone \subseteq Files \ expired
  /\ faulty \subseteq Files \cup {Database}
  /\ passes \in [Passes -> {Idle}
       \cup [pc : {"removing"}, todo : SUBSET Files \ {{}}]
       \cup [pc : {"marking"}, todo : SUBSET Files, file : Files]]

\* A pass fails before it reaches f: at a file with an earlier deadline, or
\* with the same, at f itself, or at the database.
Blocked(f) == Database \in faulty \/ \E g \in Files \cap faulty : Deadline[g] <= Deadline[f]

(***************************************************************************)
(* A file that stays due is expired although every pass ends at its first  *)
(* error, passes leave a file half done, take their listings side by side  *)
(* and find files marked by another: what cannot be removed holds up only  *)
(* the files whose deadlines are not earlier.                              *)
(***************************************************************************)
DueFilesExpire ==
  \A f \in Files : <>[](f \in due /\ ~Blocked(f)) => <>(f \in expired)
=============================================================================
