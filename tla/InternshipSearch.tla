-------------------------- MODULE InternshipSearch --------------------------
(***************************************************************************)
(* The search for internships of earlier students                          *)
(* (app/controllers/searches_controller.rb, searches_helper.rb), limited   *)
(* by app/models/user_can_see_internship.rb, and the administrator's       *)
(* reset.  A search form directs its two buttons by the number of          *)
(* internships the user had seen when the page was made, so a page and the *)
(* table can disagree; the limit itself is checked, counted and spent in   *)
(* separate statements of threads that run side by side.                   *)
(*                                                                         *)
(* A search is the set of internships its four filters let through.  The   *)
(* literal 12 of the helper, the controller and the form is the            *)
(* INTERNSHIP_LIMIT of the model.                                          *)
(***************************************************************************)
EXTENDS Naturals, FiniteSets

CONSTANTS
    Users,              \* accounts; each has a student or is an admin
    Admins,             \* those of them that see everything
    Internships,        \* the internships at the start
    Past,               \* start_date < today: what a search looks through
    Recent,             \* start_date > two years ago: what shuffle picks from
    Searches,           \* the ways the form can be filled in
    Match,              \* Match[s]: the internships the filters of s let through
    Workers,            \* the threads that serve requests
    INTERNSHIP_LIMIT,
    Copies,             \* distinguishes equal rows; bounds their number in TLC
    None

ASSUME SetsAssumption ==
    /\ Admins \subseteq Users
    /\ Past \subseteq Internships
    /\ Recent \subseteq Internships
    /\ Match \in [Searches -> SUBSET Internships]
ASSUME LimitAssumption == INTERNSHIP_LIMIT \in Nat \ {0}
ASSUME CopiesAssumption == Copies \subseteq Nat
ASSUME WorkersAssumption == IsFiniteSet(Workers) /\ Workers # {}
ASSUME NoneAssumption == None \notin Users \cup Searches \cup Internships

VARIABLES
    internships,    \* the rows of the table internships
    rows,           \* the rows of the table user_can_see_internships
    page,           \* page[u]: the form on the page user u looks at
    req,            \* req[w]: the request thread w serves, or served last
    overlapped      \* history: a thread took a step during another's request

vars == <<internships, rows, page, req, overlapped>>

Row == [user : Users, internship : Internships, copy : Copies]

(* full: the form leads to no_more_results; confirm: the search the        *)
(* confirmation dialogue would run.                                        *)
Page == [full : BOOLEAN, confirm : Searches \cup {None}]

PC == {"answered", "find", "check_limit", "create", "viewed", "render",
       "destroy_all"}

Action == {"show_results", "shuffle", "no_more_results", "reset_limit"}

Answer == {None, "results", "popup", "reset", "error"}

RequestRecord ==
    [pc : PC, user : Users \cup {None}, action : Action \cup {None},
     search : Searches \cup {None},
     todo : SUBSET Internships,
     internship : Internships \cup {None},
     granted : SUBSET Internships,
     full : BOOLEAN,                \* previous_results.count == 12 when read
     doomed : SUBSET Row,           \* loaded by destroy_all, not yet deleted
     shown : SUBSET Internships,    \* @results as the page lists them
     answer : Answer]

(* A thread at work knows whose request it serves, and for what. *)
Request ==
    {r \in RequestRecord :
        /\ r.pc # "answered" => r.user \in Users /\ r.action \in Action
        /\ r.pc \in {"check_limit", "create"} => r.internship \in Internships
        /\ r.pc \in {"viewed", "render"} => r.action = "show_results"
        /\ r.pc # "answered" /\ r.action = "show_results"
             => r.search \in Searches}

-----------------------------------------------------------------------------
(* Queries *)

RowsFor(u) == {r \in rows : r.user = u}

RowsOf(u, i) == {r \in RowsFor(u) : r.internship = i}

Visible(u) == {r.internship : r \in RowsFor(u)}

(* Mutant: <= for <. *)
check_limit_inclusive(u) == Cardinality(RowsFor(u)) <= INTERNSHIP_LIMIT

check_limit(u) == Cardinality(RowsFor(u)) < INTERNSHIP_LIMIT

(* previous_associated_internships(user).count == 12 *)
IsFull(u) == Cardinality(RowsFor(u)) = INTERNSHIP_LIMIT

(* Primary keys are never reused, not even while a reset still holds them. *)
Held == rows \cup UNION {req[w].doomed : w \in Workers}

Fresh(u, i) ==
    {[user |-> u, internship |-> i, copy |-> n] : n \in Copies} \ Held

collect_results(s) == Past \cap Match[s] \cap internships

(* Array#sample(12): any 12 elements, or all of them when there are fewer. *)
Samples(S) ==
    {T \in SUBSET S :
        \/ T = S /\ Cardinality(S) <= INTERNSHIP_LIMIT
        \/ Cardinality(T) = INTERNSHIP_LIMIT}

-----------------------------------------------------------------------------
(* Steps of the requests *)

Idle == [pc |-> "answered", user |-> None, action |-> None, search |-> None,
         todo |-> {}, internship |-> None, granted |-> {}, full |-> FALSE,
         doomed |-> {}, shown |-> {}, answer |-> None]

Init ==
    /\ internships = Internships
    /\ rows = {}
    /\ page = [u \in Users |-> [full |-> FALSE, confirm |-> None]]
    /\ req = [w \in Workers |-> Idle]
    /\ overlapped = FALSE

Begin(w, u, a, s, results) ==
    req' = [req EXCEPT ![w] =
              [Idle EXCEPT !.pc = "find", !.user = u, !.action = a,
                           !.search = s, !.todo = results, !.full = IsFull(u)]]

Finish(w, a) == req' = [req EXCEPT ![w] = [Idle EXCEPT !.answer = a]]

Show(u, full, confirm) ==
    page' = [page EXCEPT ![u] = [full |-> full, confirm |-> confirm]]

(* searches#start_search: a new form *)
StartSearch(w, u) ==
    /\ req[w].pc = "answered"
    /\ Show(u, IsFull(u), None)
    /\ UNCHANGED <<internships, rows, req>>

(***************************************************************************)
(* searches#show_results: for an admin everything found; for a student a   *)
(* sample that is then checked against the limit one by one.               *)
(***************************************************************************)
ShowResults(w, u, s) ==
    \/ /\ u \in Admins
       /\ Finish(w, "results")
    \/ /\ u \notin Admins
       /\ \E sample \in Samples(collect_results(s)) :
             Begin(w, u, "show_results", s, sample)

(***************************************************************************)
(* The search button.  An admin's form leads to show_results and a full    *)
(* user's to no_more_results (below); all others to confirm_results, which *)
(* asks when there are many results and redirects to show_results if not.  *)
(***************************************************************************)
Search(w, u, s) ==
    /\ req[w].pc = "answered"
    /\ ~page[u].full
    /\ \/ /\ u \notin Admins
          /\ Cardinality(collect_results(s)) > INTERNSHIP_LIMIT \div 2
          /\ Show(u, IsFull(u), s)
          /\ UNCHANGED req
       \/ /\ \/ u \in Admins
             \/ Cardinality(collect_results(s)) <= INTERNSHIP_LIMIT \div 2
          /\ ShowResults(w, u, s)
          /\ UNCHANGED page
    /\ UNCHANGED <<internships, rows>>

(* "Show the results anyway", in the dialogue of confirm_results *)
Confirm(w, u) ==
    /\ req[w].pc = "answered"
    /\ page[u].confirm # None
    /\ ShowResults(w, u, page[u].confirm)
    /\ UNCHANGED <<internships, rows, page>>

(***************************************************************************)
(* pick_random_internship and show_one_random_result: one of the recent    *)
(* internships, checked against the limit unless the user is an admin.     *)
(* When there is none the list holds only nil, and the next statement      *)
(* fails on it.                                                            *)
(***************************************************************************)
PickRandom(w, u, a) ==
    \/ /\ Recent \cap internships = {}
       /\ Finish(w, "error")
    \/ \E i \in Recent \cap internships :
          \/ u \notin Admins /\ Begin(w, u, a, None, {i})
          \/ u \in Admins /\ Finish(w, "results")

(* searches#shuffle: the random button *)
Shuffle(w, u) ==
    /\ req[w].pc = "answered"
    /\ ~page[u].full
    /\ PickRandom(w, u, "shuffle")
    /\ UNCHANGED <<internships, rows, page>>

(* Mutant: > 12 for == 12. *)
NoMoreResultsBeyond(w, u) ==
    /\ req[w].pc = "answered"
    /\ page[u].full
    /\ \/ /\ Cardinality(RowsFor(u)) > INTERNSHIP_LIMIT
          /\ Finish(w, "popup")
          /\ Show(u, TRUE, None)
       \/ /\ Cardinality(RowsFor(u)) <= INTERNSHIP_LIMIT
          /\ PickRandom(w, u, "no_more_results")
          /\ UNCHANGED page
    /\ UNCHANGED <<internships, rows>>

(***************************************************************************)
(* searches#no_more_results, where both buttons of a full user's form      *)
(* lead: it counts again, and serves a random internship if the user is    *)
(* not exactly at the limit.                                               *)
(***************************************************************************)
NoMoreResults(w, u) ==
    /\ req[w].pc = "answered"
    /\ page[u].full
    /\ \/ /\ IsFull(u)
          /\ Finish(w, "popup")
          /\ Show(u, TRUE, None)
       \/ /\ ~IsFull(u)
          /\ PickRandom(w, u, "no_more_results")
          /\ UNCHANGED page
    /\ UNCHANGED <<internships, rows>>

(***************************************************************************)
(* internship_search: Internship.find raises when i is gone; an internship *)
(* the user has a row for is visible without further checks.               *)
(***************************************************************************)
FindInternship(w) ==
    /\ req[w].pc = "find"
    /\ \E i \in req[w].todo :
        \/ i \notin internships /\ Finish(w, "error")
        \/ /\ i \in internships
           /\ i \in Visible(req[w].user)
           /\ req' = [req EXCEPT ![w].todo = @ \ {i}, ![w].granted = @ \cup {i}]
        \/ /\ i \in internships
           /\ i \notin Visible(req[w].user)
           /\ req' = [req EXCEPT ![w].pc = "check_limit",
                                 ![w].internship = i, ![w].todo = @ \ {i}]
    /\ UNCHANGED <<internships, rows, page>>

(* internship_search: return false unless check_limit *)
CheckLimit(w) ==
    /\ req[w].pc = "check_limit"
    /\ \/ /\ check_limit(req[w].user)
          /\ req' = [req EXCEPT ![w].pc = "create"]
       \/ /\ ~check_limit(req[w].user)
          /\ req' = [req EXCEPT ![w].pc = "find", ![w].internship = None]
    /\ UNCHANGED <<internships, rows, page>>

(* Mutant: the user's row is updated instead of a new one created. *)
CreateReplaces(w) ==
    LET i == req[w].internship
        fresh == Fresh(req[w].user, i)
    IN  /\ req[w].pc = "create"
        /\ i \in internships
        /\ \E r \in fresh : rows' = (rows \ RowsFor(req[w].user)) \cup {r}
        /\ req' = [req EXCEPT ![w].pc = "find", ![w].internship = None,
                              ![w].granted = @ \cup {i}]
        /\ UNCHANGED <<internships, page>>

(* internship_search: create; a foreign key refuses a destroyed internship. *)
Create(w) ==
    LET i == req[w].internship
        fresh == Fresh(req[w].user, i)
    IN  /\ req[w].pc = "create"
        /\ \/ /\ i \in internships
              /\ \E r \in fresh :
                    /\ \A other \in fresh : r.copy <= other.copy
                    /\ rows' = rows \cup {r}
              /\ req' = [req EXCEPT ![w].pc = "find", ![w].internship = None,
                                    ![w].granted = @ \cup {i}]
           \/ /\ i \notin internships
              /\ Finish(w, "error")
              /\ UNCHANGED rows
        /\ UNCHANGED <<internships, page>>

(***************************************************************************)
(* The sample has been checked.  A random pick is shown as it is, on a     *)
(* page whose form was directed by the count from before the pick.         *)
(***************************************************************************)
SampleChecked(w) ==
    /\ req[w].pc = "find"
    /\ req[w].todo = {}
    /\ \/ /\ req[w].action = "show_results"
          /\ req' = [req EXCEPT ![w].pc = "viewed"]
          /\ UNCHANGED page
       \/ /\ req[w].action # "show_results"
          /\ Finish(w, "results")
          /\ Show(req[w].user, req[w].full, None)
    /\ UNCHANGED <<internships, rows>>

(* Mutant: what was seen before is not filtered by the search. *)
ViewedInternshipsUnfiltered(w) ==
    /\ req[w].pc = "viewed"
    /\ req' = [req EXCEPT ![w].pc = "render",
                  ![w].shown =
                    IF Cardinality(req[w].granted) < INTERNSHIP_LIMIT
                      THEN req[w].granted \cup Visible(req[w].user)
                      ELSE req[w].granted]
    /\ UNCHANGED <<internships, rows, page>>

(***************************************************************************)
(* viewed_internships: with fewer than 12 results, add what the user has   *)
(* seen before and filter the whole by the search.                         *)
(***************************************************************************)
ViewedInternships(w) ==
    LET granted == req[w].granted
        seen == Visible(req[w].user)
    IN  /\ req[w].pc = "viewed"
        /\ req' = [req EXCEPT ![w].pc = "render",
                      ![w].shown =
                        IF Cardinality(granted) < INTERNSHIP_LIMIT
                          THEN (granted \cup seen) \cap Match[req[w].search]
                          ELSE granted]
        /\ UNCHANGED <<internships, rows, page>>

(* The end of show_results: set_previous_results directs the new form. *)
RenderResults(w) ==
    /\ req[w].pc = "render"
    /\ Finish(w, "results")
    /\ Show(req[w].user, IsFull(req[w].user), None)
    /\ UNCHANGED <<internships, rows>>

(* reset_limit: destroy_all loads the rows and deletes them one by one. *)
ResetLimit(w, u) ==
    /\ req[w].pc = "answered"
    /\ req' = [req EXCEPT ![w] =
                 [Idle EXCEPT !.pc = "destroy_all", !.user = u,
                              !.action = "reset_limit", !.doomed = RowsFor(u)]]
    /\ UNCHANGED <<internships, rows, page>>

DestroyRow(w) ==
    /\ req[w].pc = "destroy_all"
    /\ \E r \in req[w].doomed :
        /\ rows' = rows \ {r}
        /\ req' = [req EXCEPT ![w].doomed = @ \ {r}]
    /\ UNCHANGED <<internships, page>>

ResetDone(w) ==
    /\ req[w].pc = "destroy_all"
    /\ req[w].doomed = {}
    /\ Finish(w, "reset")
    /\ UNCHANGED <<internships, rows, page>>

(* An internship is destroyed together with the rows that make it visible. *)
DestroyInternship(i) ==
    /\ i \in internships
    /\ internships' = internships \ {i}
    /\ rows' = {r \in rows : r.internship # i}
    /\ UNCHANGED <<page, req>>

Accept(w) ==
    \E u \in Users :
        \/ StartSearch(w, u)
        \/ \E s \in Searches : Search(w, u, s)
        \/ Confirm(w, u)
        \/ Shuffle(w, u)
        \/ NoMoreResults(w, u)
        \/ ResetLimit(w, u)

Serve(w) ==
    \/ FindInternship(w)
    \/ CheckLimit(w)
    \/ Create(w)
    \/ SampleChecked(w)
    \/ ViewedInternships(w)
    \/ RenderResults(w)
    \/ DestroyRow(w)
    \/ ResetDone(w)

Overlap(w) ==
    overlapped' = \/ overlapped
                  \/ \E v \in Workers \ {w} : req[v].pc # "answered"

Next ==
    \/ \E w \in Workers : (Accept(w) \/ Serve(w)) /\ Overlap(w)
    \/ /\ \E i \in Internships : DestroyInternship(i)
       /\ UNCHANGED overlapped

Spec == Init /\ [][Next]_vars

-----------------------------------------------------------------------------
(* Properties *)

Creating(u) == {w \in Workers : req[w].pc = "create" /\ req[w].user = u}

(* The tables, the pages and every request record have their types. *)
TypeOK ==
    /\ internships \subseteq Internships
    /\ rows \subseteq Row
    /\ page \in [Users -> Page]
    /\ req \in [Workers -> Request]
    /\ overlapped \in BOOLEAN

(***************************************************************************)
(* However many searches of one user run at once, internship_search lets   *)
(* the user past the limit by at most the number of the other threads.     *)
(***************************************************************************)
OvershootBound ==
    \A u \in Users :
        Cardinality(RowsFor(u)) + Cardinality(Creating(u))
            <= INTERNSHIP_LIMIT + Cardinality(Workers) - 1

(***************************************************************************)
(* A student's search lists exactly those of the internships the student   *)
(* has ever seen, before or in this search, that match it: nothing that    *)
(* was not paid for, and nothing seen once gets lost at the limit.  (As    *)
(* long as no two requests have overlapped, and no internship of the list  *)
(* is destroyed before the list is shown.)                                 *)
(***************************************************************************)
ListsExactlySeenMatches ==
    \A w \in Workers :
        /\ ~overlapped
        /\ req[w].pc = "render"
        /\ req[w].shown \subseteq internships
        => req[w].shown = Visible(req[w].user) \cap Match[req[w].search]

(***************************************************************************)
(* A user who is out of search slots, and whose form knows, is told so and *)
(* is not served another result page: as long as no two requests have      *)
(* overlapped.                                                             *)
(***************************************************************************)
OutOfSlots(w, u) == NoMoreResults(w, u) /\ ~check_limit(u)

FullUserIsTold ==
    [][\A w \in Workers, u \in Users :
        (OutOfSlots(w, u) /\ ~overlapped') => req'[w].answer = "popup"]_vars

VisibleNow == [u \in Users |-> [k \in {"search"} |-> Visible(u)]]

Slack == [k \in {"search"} |-> INTERNSHIP_LIMIT + Cardinality(Workers) - 1]

Quota == INSTANCE VisibilityQuota
            WITH Kinds <- {"search"}, Objects <- Internships,
                 Allowance <- Slack, visible <- VisibleNow

(* Every step keeps the quota of distinct internships. *)
ImplementsQuota == Quota!Spec

=============================================================================
