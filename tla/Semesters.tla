------------------------------ MODULE Semesters ------------------------------
(***************************************************************************)
(* The table of semesters (app/models/semester.rb, app/admin/semesters.rb).*)
(* Semester.for_date finds the semester of a date or creates it, in two    *)
(* statements of threads that run side by side; administrators create      *)
(* semesters by name, rename and destroy them.  Nothing is unique.         *)
(***************************************************************************)
EXTENDS SemesterHelper

CONSTANTS
    Months,         \* the dates semesters are looked up for
    Names,          \* what an administrator types
    Ids,            \* primary keys; bounds the number of rows in TLC
    Workers,        \* the threads that serve requests
    None

ASSUME MonthsAssumption == Months \subseteq Month(2000, 4)..Month(2099, 12)
ASSUME NamesAssumption == Names \subseteq Name \cup {Unmatched}
ASSUME IdsAssumption == Ids \subseteq Nat
ASSUME NoneAssumption == Unmatched \notin Name /\ None \notin Ids

VARIABLES
    semesters,      \* the rows of the table
    used,           \* the primary keys given out so far
    req,            \* req[w]: the lookup of thread w
    renamed,        \* history: the rows an administrator has renamed
    overlapped      \* history: a thread took a step during another's request

vars == <<semesters, used, req, renamed, overlapped>>

Sid == {date2sid(m) : m \in Month(2000, 1)..Month(2100, 12)}

Row == [id : Ids, sid : Sid, name : Name \cup {Unmatched}]

Request == [pc : {"answered", "create"}, date : Int, id : Ids \cup {None}]

-----------------------------------------------------------------------------

Fresh == Ids \ used

(* START_16_WEEKS has looked up the semester of October 2019 at boot. *)
FirstRow(i) == [id |-> i, sid |-> date2sid(Month(2019, 10)),
                name |-> sid2name(date2sid(Month(2019, 10)))]

Init ==
    /\ \E i \in Ids : /\ \A j \in Ids : i <= j
                      /\ semesters = {FirstRow(i)}
                      /\ used = {i}
    /\ req = [w \in Workers |-> [pc |-> "answered", date |-> 0, id |-> None]]
    /\ renamed = {}
    /\ overlapped = FALSE

Insert(i, sid, name) ==
    /\ i \in Fresh
    /\ \A j \in Fresh : i <= j
    /\ semesters' = semesters \cup {[id |-> i, sid |-> sid, name |-> name]}
    /\ used' = used \cup {i}

Answer(w, date, i) ==
    req' = [req EXCEPT ![w] = [pc |-> "answered", date |-> date, id |-> i]]

(* Mutant: the semester is created without looking for it. *)
for_date_creates(w, date) ==
    /\ req[w].pc = "answered"
    /\ req' = [req EXCEPT ![w] =
                  [pc |-> "create", date |-> date, id |-> None]]
    /\ UNCHANGED <<semesters, used, renamed>>

(* Semester.for_date: where(sid: sid).first, whichever of them that is *)
for_date(w, date) ==
    LET found == {s \in semesters : s.sid = date2sid(date)}
    IN  /\ req[w].pc = "answered"
        /\ \/ \E s \in found : Answer(w, date, s.id)
           \/ /\ found = {}
              /\ req' = [req EXCEPT ![w] =
                            [pc |-> "create", date |-> date, id |-> None]]
        /\ UNCHANGED <<semesters, used, renamed>>

current(w) == \E today \in Months : for_date(w, today)

(* Semester.create(sid: sid), with the name from before_save *)
CreateForDate(w) ==
    LET sid == date2sid(req[w].date)
    IN  /\ req[w].pc = "create"
        /\ \E i \in Ids : /\ Insert(i, sid, sid2name(sid))
                          /\ Answer(w, req[w].date, i)
        /\ UNCHANGED renamed

(* A thread is killed between looking for a semester and creating it. *)
Crash(w) ==
    /\ req[w].pc = "create"
    /\ Answer(w, 0, None)
    /\ UNCHANGED <<semesters, used, renamed>>

(* Semester#previous and Semester#next, six months from the first day.  The *)
(* dates they may lead to are bounded.                                      *)
Neighbour(w) ==
    \E s \in semesters :
        \E date \in {start_day(s.sid) - 6, start_day(s.sid) + 6} \cap Months :
            for_date(w, date)

(* ActiveAdmin create: the sid from before_save, which raises on nonsense *)
AdminCreate(w, name) ==
    /\ req[w].pc = "answered"
    /\ name # Unmatched
    /\ \E i \in Ids : Insert(i, name2sid(name), name)
    /\ UNCHANGED <<req, renamed>>

(* ActiveAdmin update: before_save leaves a sid that is there alone. *)
AdminRename(w, s, name) ==
    /\ req[w].pc = "answered"
    /\ semesters' = (semesters \ {s}) \cup {[s EXCEPT !.name = name]}
    /\ renamed' = renamed \cup {s.id}
    /\ UNCHANGED <<used, req>>

AdminDestroy(w, s) ==
    /\ req[w].pc = "answered"
    /\ semesters' = semesters \ {s}
    /\ UNCHANGED <<used, req, renamed>>

Step(w) ==
    \/ current(w)
    \/ Neighbour(w)
    \/ CreateForDate(w)
    \/ Crash(w)
    \/ \E name \in Names : AdminCreate(w, name)
    \/ \E s \in semesters : AdminDestroy(w, s)
    \/ \E s \in semesters, name \in Names : AdminRename(w, s, name)

Overlap(w) ==
    overlapped' = \/ overlapped
                  \/ \E v \in Workers \ {w} : req[v].pc # "answered"

Next == \E w \in Workers : Step(w) /\ Overlap(w)

Spec == Init /\ [][Next]_vars

-----------------------------------------------------------------------------
(* Properties *)

(* The table, the lookups and the primary keys have their types. *)
TypeOK ==
    /\ semesters \subseteq Row
    /\ used \subseteq Ids
    /\ {s.id : s \in semesters} \cup renamed \subseteq used
    /\ req \in [Workers -> Request]
    /\ overlapped \in BOOLEAN

(***************************************************************************)
(* Whoever looks up the semester of a date, whether it was there, created  *)
(* by name or created on the way, gets one that has begun on that date and *)
(* ends, six months later, after it.                                       *)
(***************************************************************************)
ForDateCovers ==
    \A w \in Workers, s \in semesters :
        req[w].id = s.id =>
            /\ start_day(s.sid) <= req[w].date
            /\ req[w].date < start_day(s.sid) + 6

(***************************************************************************)
(* Name and sid of a row denote the same semester, whichever was given and *)
(* whichever before_save derived, until an administrator changes the name. *)
(***************************************************************************)
NamesDenoteSids ==
    \A s \in semesters : s.id \notin renamed => name2sid(s.name) = s.sid

(***************************************************************************)
(* As long as no two requests have overlapped, a lookup does not add a     *)
(* second row for a semester that is in the table.                         *)
(***************************************************************************)
LookupAddsNoDuplicate ==
    [][\A w \in Workers :
        (CreateForDate(w) /\ ~overlapped')
            => \A s \in semesters : s.sid # date2sid(req[w].date)]_vars

=============================================================================
