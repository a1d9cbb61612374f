----------------------- MODULE InternshipSearchProofs -----------------------
(***************************************************************************)
(* For any users, internships, searches and any number of threads: how far *)
(* concurrent searches get past the limit, and that the table of visible   *)
(* internships implements the abstract quota, although internships and     *)
(* their rows are destroyed meanwhile; and, for requests that do not       *)
(* overlap, that a search lists exactly what it should and that a user at  *)
(* the limit is told.                                                      *)
(***************************************************************************)
EXTENDS InternshipSearch, FiniteSetTheorems, TLAPS

-----------------------------------------------------------------------------
(* Types *)

(* Idle is a request record. *)
LEMMA IdleType == Idle \in Request
  BY DEF Idle, Request, RequestRecord, PC, Action, Answer

(* Replacing a request by a new one, or by an answer, keeps the type. *)
LEMMA BeginType ==
  ASSUME TypeOK, NEW w \in Workers, NEW u \in Users, NEW a \in Action,
         NEW s \in Searches \cup {None}, NEW S \in SUBSET Internships,
         a = "show_results" => s \in Searches, Begin(w, u, a, s, S)
  PROVE  req' \in [Workers -> Request]
  <1>1. IsFull(u) \in BOOLEAN
    BY DEF IsFull
  <1>2. [Idle EXCEPT !.pc = "find", !.user = u, !.action = a, !.search = s,
                     !.todo = S, !.full = IsFull(u)] \in Request
    BY <1>1, IdleType DEF Request, RequestRecord, PC, Idle
  <1>3. QED
    BY <1>2 DEF Begin, TypeOK

LEMMA FinishType ==
  ASSUME TypeOK, NEW w \in Workers, NEW a \in Answer, Finish(w, a)
  PROVE  req' \in [Workers -> Request]
  <1>1. [Idle EXCEPT !.answer = a] \in Request
    BY IdleType DEF Request, RequestRecord, PC, Idle
  <1>2. QED
    BY <1>1 DEF Finish, TypeOK

(* A page shown is a page. *)
LEMMA ShowType ==
  ASSUME TypeOK, NEW u \in Users, NEW full \in BOOLEAN,
         NEW confirm \in Searches \cup {None}, Show(u, full, confirm)
  PROVE  page' \in [Users -> Page]
  BY DEF Show, TypeOK, Page

(* Both ways in which a search or a random pick begins keep the types. *)
LEMMA ShowResultsType ==
  ASSUME TypeOK, NEW w \in Workers, NEW u \in Users, NEW s \in Searches,
         ShowResults(w, u, s)
  PROVE  req' \in [Workers -> Request]
  <1>1. CASE Finish(w, "results")
    BY <1>1, FinishType DEF Answer
  <1>2. CASE \E sample \in Samples(collect_results(s)) :
                Begin(w, u, "show_results", s, sample)
    <2>1. PICK sample \in Samples(collect_results(s)) :
             Begin(w, u, "show_results", s, sample)
      BY <1>2
    <2>2. sample \subseteq Internships
      BY SetsAssumption DEF Samples, collect_results
    <2>3. QED
      BY <2>1, <2>2, BeginType DEF Action
  <1>3. QED
    BY <1>1, <1>2 DEF ShowResults

LEMMA PickRandomType ==
  ASSUME TypeOK, NEW w \in Workers, NEW u \in Users, NEW a \in Action,
         a # "show_results", PickRandom(w, u, a)
  PROVE  req' \in [Workers -> Request]
  <1>1. CASE \E x \in Answer : Finish(w, x)
    BY <1>1, FinishType
  <1>2. CASE \E i \in Recent \cap internships : Begin(w, u, a, None, {i})
    BY <1>2, BeginType, SetsAssumption
  <1>3. QED
    BY <1>1, <1>2 DEF PickRandom, Answer

(* The first state has its types. *)
LEMMA InitType == Init => TypeOK
  <1>1. [full |-> FALSE, confirm |-> None] \in Page
    BY DEF Page
  <1>2. QED
    BY <1>1, IdleType DEF Init, TypeOK

(* The rows, internships, pages and requests always have their types. *)
THEOREM TypeCorrect == Spec => []TypeOK
  <1>1. Init => TypeOK
    BY InitType
  <1>2. TypeOK /\ [Next]_vars => TypeOK'
    <2> SUFFICES ASSUME TypeOK, [Next]_vars PROVE TypeOK'
      OBVIOUS
    <2>1. ASSUME NEW w \in Workers, NEW u \in Users, StartSearch(w, u),
                 Overlap(w)
          PROVE  TypeOK'
      <3>1. IsFull(u) \in BOOLEAN
        BY DEF IsFull
      <3>2. page' \in [Users -> Page]
        BY <2>1, <3>1, ShowType DEF StartSearch
      <3>3. QED
        BY <2>1, <3>2 DEF StartSearch, Overlap, TypeOK
    <2>2. ASSUME NEW w \in Workers, NEW u \in Users, NEW s \in Searches,
                 Search(w, u, s), Overlap(w)
          PROVE  TypeOK'
      <3>1. CASE Show(u, IsFull(u), s) /\ UNCHANGED req
        <4>1. IsFull(u) \in BOOLEAN
          BY DEF IsFull
        <4>2. page' \in [Users -> Page]
          BY <3>1, <4>1, ShowType
        <4>3. QED
          BY <2>2, <3>1, <4>2 DEF Search, Overlap, TypeOK
      <3>2. CASE ShowResults(w, u, s) /\ UNCHANGED page
        <4>1. req' \in [Workers -> Request]
          BY <3>2, ShowResultsType
        <4>2. QED
          BY <2>2, <3>2, <4>1 DEF Search, Overlap, TypeOK
      <3>3. QED
        BY <2>2, <3>1, <3>2 DEF Search
    <2>3. ASSUME NEW w \in Workers, NEW u \in Users, Confirm(w, u), Overlap(w)
          PROVE  TypeOK'
      <3>1. page[u].confirm \in Searches
        BY <2>3 DEF Confirm, TypeOK, Page
      <3>2. req' \in [Workers -> Request]
        BY <2>3, <3>1, ShowResultsType DEF Confirm
      <3>3. QED
        BY <2>3, <3>2 DEF Confirm, Overlap, TypeOK
    <2>4. ASSUME NEW w \in Workers, NEW u \in Users, Shuffle(w, u), Overlap(w)
          PROVE  TypeOK'
      <3>1. req' \in [Workers -> Request]
        BY <2>4, PickRandomType DEF Shuffle, Action
      <3>2. QED
        BY <2>4, <3>1 DEF Shuffle, Overlap, TypeOK
    <2>5. ASSUME NEW w \in Workers, NEW u \in Users, NoMoreResults(w, u),
                 Overlap(w)
          PROVE  TypeOK'
      <3>1. CASE Finish(w, "popup") /\ Show(u, TRUE, None)
        <4>1. req' \in [Workers -> Request]
          BY <3>1, FinishType DEF Answer
        <4>2. page' \in [Users -> Page]
          BY <3>1, ShowType
        <4>3. QED
          BY <2>5, <4>1, <4>2 DEF NoMoreResults, Overlap, TypeOK
      <3>2. CASE PickRandom(w, u, "no_more_results") /\ UNCHANGED page
        <4>1. req' \in [Workers -> Request]
          BY <3>2, PickRandomType DEF Action
        <4>2. QED
          BY <2>5, <3>2, <4>1 DEF NoMoreResults, Overlap, TypeOK
      <3>3. QED
        BY <2>5, <3>1, <3>2 DEF NoMoreResults
    <2>6. ASSUME NEW w \in Workers, NEW u \in Users, ResetLimit(w, u),
                 Overlap(w)
          PROVE  TypeOK'
      <3>1. RowsFor(u) \subseteq Row
        BY DEF RowsFor, TypeOK
      <3>2. [Idle EXCEPT !.pc = "destroy_all", !.user = u,
                         !.action = "reset_limit", !.doomed = RowsFor(u)]
              \in Request
        BY <3>1, IdleType DEF Request, RequestRecord, PC, Action, Idle
      <3>3. QED
        BY <2>6, <3>2 DEF ResetLimit, Overlap, TypeOK
    <2>7. ASSUME NEW w \in Workers, FindInternship(w), Overlap(w)
          PROVE  TypeOK'
      <3>1. req[w] \in Request /\ req[w].pc = "find"
        BY <2>7 DEF TypeOK, FindInternship
      <3>2. PICK i \in req[w].todo :
              \/ Finish(w, "error")
              \/ req' = [req EXCEPT ![w].todo = @ \ {i},
                                    ![w].granted = @ \cup {i}]
              \/ req' = [req EXCEPT ![w].pc = "check_limit",
                                    ![w].internship = i, ![w].todo = @ \ {i}]
        BY <2>7 DEF FindInternship
      <3>3. i \in Internships
        BY <3>1, <3>2 DEF Request, RequestRecord
      <3>4. CASE Finish(w, "error")
        <4>1. req' \in [Workers -> Request]
          BY <3>4, FinishType DEF Answer
        <4>2. QED
          BY <2>7, <4>1 DEF FindInternship, Overlap, TypeOK
      <3>5. CASE req' = [req EXCEPT ![w].todo = @ \ {i},
                                    ![w].granted = @ \cup {i}]
        <4>1. [req[w] EXCEPT !.todo = @ \ {i}, !.granted = @ \cup {i}]
                \in Request
          BY <3>1, <3>3 DEF Request, RequestRecord
        <4>2. QED
          BY <2>7, <3>5, <4>1 DEF FindInternship, Overlap, TypeOK
      <3>6. CASE req' = [req EXCEPT ![w].pc = "check_limit",
                                    ![w].internship = i, ![w].todo = @ \ {i}]
        <4>1. [req[w] EXCEPT !.pc = "check_limit", !.internship = i,
                             !.todo = @ \ {i}] \in Request
          BY <3>1, <3>3 DEF Request, RequestRecord, PC
        <4>2. QED
          BY <2>7, <3>6, <4>1 DEF FindInternship, Overlap, TypeOK
      <3>7. QED
        BY <3>2, <3>4, <3>5, <3>6
    <2>8. ASSUME NEW w \in Workers, CheckLimit(w), Overlap(w)
          PROVE  TypeOK'
      <3>1. req[w] \in Request /\ req[w].pc = "check_limit"
        BY <2>8 DEF TypeOK, CheckLimit
      <3>2. /\ [req[w] EXCEPT !.pc = "create"] \in Request
            /\ [req[w] EXCEPT !.pc = "find", !.internship = None] \in Request
        BY <3>1 DEF Request, RequestRecord, PC
      <3>3. QED
        BY <2>8, <3>2 DEF CheckLimit, Overlap, TypeOK
    <2>9. ASSUME NEW w \in Workers, Create(w), Overlap(w)
          PROVE  TypeOK'
      <3>1. req[w] \in Request /\ req[w].pc = "create"
        BY <2>9 DEF TypeOK, Create
      <3>2. CASE Finish(w, "error") /\ UNCHANGED rows
        <4>1. req' \in [Workers -> Request]
          BY <3>2, FinishType DEF Answer
        <4>2. QED
          BY <2>9, <3>2, <4>1 DEF Create, Overlap, TypeOK
      <3>3. CASE req[w].internship \in internships
        <4>1. PICK r \in Fresh(req[w].user, req[w].internship) :
                rows' = rows \cup {r}
          BY <2>9, <3>3 DEF Create
        <4>2. r \in Row
          BY <3>1, <4>1 DEF Fresh, Row, Request, RequestRecord
        <4>3. [req[w] EXCEPT !.pc = "find", !.internship = None,
                             !.granted = @ \cup {req[w].internship}] \in Request
          BY <3>1 DEF Request, RequestRecord, PC
        <4>4. req' \in [Workers -> Request]
          BY <2>9, <3>3, <4>3 DEF Create, TypeOK
        <4>5. QED
          BY <2>9, <4>1, <4>2, <4>4 DEF Create, Overlap, TypeOK
      <3>4. QED
        BY <2>9, <3>2, <3>3 DEF Create
    <2>10. ASSUME NEW w \in Workers, SampleChecked(w), Overlap(w)
           PROVE  TypeOK'
      <3>1. req[w] \in Request /\ req[w].pc = "find"
        BY <2>10 DEF TypeOK, SampleChecked
      <3>2. CASE req[w].action = "show_results"
        <4>1. [req[w] EXCEPT !.pc = "viewed"] \in Request
          BY <3>1, <3>2 DEF Request, RequestRecord, PC
        <4>2. QED
          BY <2>10, <3>2, <4>1 DEF SampleChecked, Overlap, TypeOK
      <3>3. CASE req[w].action # "show_results"
        <4>1. req[w].user \in Users /\ req[w].full \in BOOLEAN
          BY <3>1 DEF Request, RequestRecord
        <4>2. req' \in [Workers -> Request] /\ page' \in [Users -> Page]
          BY <2>10, <3>3, <4>1, FinishType, ShowType DEF SampleChecked, Answer
        <4>3. QED
          BY <2>10, <4>2 DEF SampleChecked, Overlap, TypeOK
      <3>4. QED
        BY <3>2, <3>3
    <2>11. ASSUME NEW w \in Workers, ViewedInternships(w), Overlap(w)
           PROVE  TypeOK'
      <3>1. req[w] \in Request /\ req[w].pc = "viewed"
        BY <2>11 DEF TypeOK, ViewedInternships
      <3>2. /\ req[w].granted \subseteq Internships
            /\ req[w].search \in Searches
            /\ Match[req[w].search] \subseteq Internships
        BY <3>1, SetsAssumption DEF Request, RequestRecord
      <3> DEFINE list == IF Cardinality(req[w].granted) < INTERNSHIP_LIMIT
                           THEN (req[w].granted \cup Visible(req[w].user))
                                  \cap Match[req[w].search]
                           ELSE req[w].granted
      <3>3. list \subseteq Internships
        BY <3>2
      <3> HIDE DEF list
      <3>4. [req[w] EXCEPT !.pc = "render", !.shown = list] \in Request
        BY <3>1, <3>3 DEF Request, RequestRecord, PC
      <3>5. req' = [req EXCEPT ![w] = [req[w] EXCEPT !.pc = "render",
                                                     !.shown = list]]
        BY <2>11 DEF ViewedInternships, list, TypeOK
      <3>6. QED
        BY <2>11, <3>4, <3>5 DEF ViewedInternships, Overlap, TypeOK
    <2>12. ASSUME NEW w \in Workers, RenderResults(w), Overlap(w)
           PROVE  TypeOK'
      <3>1. req[w].user \in Users /\ IsFull(req[w].user) \in BOOLEAN
        BY <2>12 DEF RenderResults, TypeOK, Request, IsFull
      <3>2. req' \in [Workers -> Request] /\ page' \in [Users -> Page]
        BY <2>12, <3>1, FinishType, ShowType DEF RenderResults, Answer
      <3>3. QED
        BY <2>12, <3>2 DEF RenderResults, Overlap, TypeOK
    <2>13. ASSUME NEW w \in Workers, DestroyRow(w), Overlap(w)
           PROVE  TypeOK'
      <3>1. req[w] \in Request
        BY DEF TypeOK
      <3>2. PICK r \in req[w].doomed :
              /\ rows' = rows \ {r}
              /\ req' = [req EXCEPT ![w].doomed = @ \ {r}]
        BY <2>13 DEF DestroyRow
      <3>3. [req[w] EXCEPT !.doomed = @ \ {r}] \in Request
        BY <3>1 DEF Request, RequestRecord
      <3>4. QED
        BY <2>13, <3>2, <3>3 DEF DestroyRow, Overlap, TypeOK
    <2>14. ASSUME NEW w \in Workers, ResetDone(w), Overlap(w)
           PROVE  TypeOK'
      <3>1. req' \in [Workers -> Request]
        BY <2>14, FinishType DEF ResetDone, Answer
      <3>2. QED
        BY <2>14, <3>1 DEF ResetDone, Overlap, TypeOK
    <2>15. ASSUME NEW i \in Internships, DestroyInternship(i),
                  UNCHANGED overlapped
           PROVE  TypeOK'
      BY <2>15 DEF DestroyInternship, TypeOK
    <2>16. CASE UNCHANGED vars
      BY <2>16 DEF vars, TypeOK
    <2>17. QED
      BY <2>1, <2>2, <2>3, <2>4, <2>5, <2>6, <2>7, <2>8, <2>9, <2>10, <2>11,
         <2>12, <2>13, <2>14, <2>15, <2>16 DEF Next, Accept, Serve
  <1>3. QED
    BY <1>1, <1>2, PTL DEF Spec

-----------------------------------------------------------------------------
(* Counting rows and threads *)

(* Selections of finite tables, and of the threads, can be counted. *)
LEMMA Countable ==
  ASSUME IsFiniteSet(rows), NEW u
  PROVE  /\ IsFiniteSet(RowsFor(u))
         /\ Cardinality(RowsFor(u)) \in Nat
         /\ IsFiniteSet(Creating(u))
         /\ Cardinality(Creating(u)) \in Nat
         /\ Cardinality(Creating(u)) <= Cardinality(Workers)
         /\ Cardinality(Workers) \in Nat \ {0}
  <1>1. RowsFor(u) \subseteq rows /\ Creating(u) \subseteq Workers
    BY DEF RowsFor, Creating
  <1>2. Cardinality(Workers) \in Nat \ {0}
    BY FS_CardinalityType, FS_EmptySet, WorkersAssumption
  <1>3. QED
    BY <1>1, <1>2, FS_Subset, FS_CardinalityType, WorkersAssumption

(* No thread turns to create in this step. *)
NoNewCreator ==
  \A v \in Workers :
      req'[v].pc = "create" =>
          req[v].pc = "create" /\ req'[v].user = req[v].user

(* A step that adds no row and no creating thread keeps the bound. *)
LEMMA BoundKept ==
  ASSUME IsFiniteSet(rows), OvershootBound, rows' \subseteq rows, NoNewCreator
  PROVE  IsFiniteSet(rows') /\ OvershootBound'
  <1>1. IsFiniteSet(rows')
    BY FS_Subset
  <1>2. ASSUME NEW u \in Users
        PROVE  Cardinality(RowsFor(u)') + Cardinality(Creating(u)')
                 <= INTERNSHIP_LIMIT + Cardinality(Workers) - 1
    <2>1. RowsFor(u)' \subseteq RowsFor(u) /\ Creating(u)' \subseteq Creating(u)
      BY DEF RowsFor, Creating, NoNewCreator
    <2>2. /\ Cardinality(RowsFor(u)') <= Cardinality(RowsFor(u))
          /\ Cardinality(RowsFor(u)') \in Nat
          /\ Cardinality(Creating(u)') <= Cardinality(Creating(u))
          /\ Cardinality(Creating(u)') \in Nat
      BY <2>1, Countable, FS_Subset, FS_CardinalityType
    <2>3. Cardinality(RowsFor(u)) + Cardinality(Creating(u))
            <= INTERNSHIP_LIMIT + Cardinality(Workers) - 1
      BY DEF OvershootBound
    <2>4. QED
      BY <2>2, <2>3, Countable, LimitAssumption
  <1>3. QED
    BY <1>1, <1>2 DEF OvershootBound

(***************************************************************************)
(* A thread that has found room: the rows are fewer than the limit and the *)
(* threads about to create, itself included, at most all of them.          *)
(***************************************************************************)
LEMMA BoundKeptByCheck ==
  ASSUME TypeOK, IsFiniteSet(rows), OvershootBound, NEW w \in Workers,
         CheckLimit(w), check_limit(req[w].user)
  PROVE  OvershootBound'
  <1>1. rows' = rows /\ req' = [req EXCEPT ![w].pc = "create"]
    BY DEF CheckLimit
  <1>2. ASSUME NEW u \in Users
        PROVE  Cardinality(RowsFor(u)') + Cardinality(Creating(u)')
                 <= INTERNSHIP_LIMIT + Cardinality(Workers) - 1
    <2>1. RowsFor(u)' = RowsFor(u)
      BY <1>1 DEF RowsFor
    <2>2. /\ Cardinality(Creating(u)') \in Nat
          /\ Cardinality(Creating(u)') <= Cardinality(Workers)
      BY FS_Subset, FS_CardinalityType, WorkersAssumption DEF Creating
    <2>3. CASE req[w].user = u
      BY <2>1, <2>2, <2>3, Countable, LimitAssumption DEF check_limit
    <2>4. CASE req[w].user # u
      <3>1. Creating(u)' = Creating(u)
        BY <1>1, <2>4 DEF Creating, TypeOK, Request, RequestRecord
      <3>2. QED
        BY <2>1, <3>1 DEF OvershootBound
    <2>5. QED
      BY <2>3, <2>4
  <1>3. QED
    BY <1>2 DEF OvershootBound

(* Creating a row turns a creating thread into a row. *)
LEMMA BoundKeptByCreate ==
  ASSUME TypeOK, IsFiniteSet(rows), OvershootBound, NEW w \in Workers,
         Create(w), req[w].internship \in internships
  PROVE  IsFiniteSet(rows') /\ OvershootBound'
  <1> DEFINE me == req[w].user
  <1>1. PICK r \in Fresh(me, req[w].internship) : rows' = rows \cup {r}
    BY DEF Create
  <1>2. r \notin rows /\ r.user = me
    BY DEF Fresh, Held
  <1>3. IsFiniteSet(rows')
    BY <1>1, FS_AddElement
  <1>4. /\ req[w].pc = "create"
        /\ \A v \in Workers : v # w => req'[v] = req[v]
        /\ req'[w].pc = "find"
    BY DEF Create, TypeOK, Request, RequestRecord
  <1>5. ASSUME NEW u \in Users
        PROVE  Cardinality(RowsFor(u)') + Cardinality(Creating(u)')
                 <= INTERNSHIP_LIMIT + Cardinality(Workers) - 1
    <2>1. CASE me = u
      <3>1. RowsFor(u)' = RowsFor(u) \cup {r} /\ r \notin RowsFor(u)
        BY <1>1, <1>2, <2>1 DEF RowsFor
      <3>2. Cardinality(RowsFor(u)') = Cardinality(RowsFor(u)) + 1
        BY <3>1, Countable, FS_AddElement
      <3>3. /\ Creating(u)' = Creating(u) \ {w}
            /\ w \in Creating(u)
            /\ IsFiniteSet(Creating(u))
        BY <1>4, <2>1, Countable DEF Creating
      <3>4. Cardinality(Creating(u)') = Cardinality(Creating(u)) - 1
        BY <3>3, FS_RemoveElement
      <3>5. Cardinality(RowsFor(u)) + Cardinality(Creating(u))
              <= INTERNSHIP_LIMIT + Cardinality(Workers) - 1
        BY DEF OvershootBound
      <3>6. QED
        BY <3>2, <3>4, <3>5, Countable, LimitAssumption
    <2>2. CASE me # u
      <3>1. RowsFor(u)' = RowsFor(u)
        BY <1>1, <1>2, <2>2 DEF RowsFor
      <3>2. Creating(u)' = Creating(u)
        BY <1>4, <2>2 DEF Creating
      <3>3. QED
        BY <3>1, <3>2 DEF OvershootBound
    <2>3. QED
      BY <2>1, <2>2
  <1>6. QED
    BY <1>3, <1>5 DEF OvershootBound

-----------------------------------------------------------------------------
(* The inductive invariant *)

Inv == TypeOK /\ IsFiniteSet(rows) /\ OvershootBound

(* Beginning or finishing a request makes no thread create. *)
LEMMA BeginFinish ==
  ASSUME TypeOK, NEW w \in Workers, NEW u, NEW a, NEW s, NEW S,
         Begin(w, u, a, s, S) \/ Finish(w, a)
  PROVE  NoNewCreator
  BY DEF Begin, Finish, Idle, NoNewCreator, TypeOK

LEMMA ResultsPick ==
  ASSUME TypeOK, NEW w \in Workers, NEW u, NEW s, NEW a,
         ShowResults(w, u, s) \/ PickRandom(w, u, a)
  PROVE  NoNewCreator
  <1>1. CASE ShowResults(w, u, s)
    BY <1>1, BeginFinish DEF ShowResults
  <1>2. CASE PickRandom(w, u, a)
    BY <1>2, BeginFinish DEF PickRandom
  <1>3. QED
    BY <1>1, <1>2

(* Every statement but a passed check and a creation leaves the bound alone. *)
LEMMA OtherSteps ==
  ASSUME TypeOK, [Next]_vars,
         \A w \in Workers :
            /\ ~(CheckLimit(w) /\ check_limit(req[w].user))
            /\ ~(Create(w) /\ req[w].internship \in internships)
  PROVE  rows' \subseteq rows /\ NoNewCreator
  <1>1. ASSUME NEW w \in Workers, NEW u \in Users,
               \/ StartSearch(w, u)
               \/ \E s \in Searches : Search(w, u, s)
               \/ Confirm(w, u) \/ Shuffle(w, u) \/ NoMoreResults(w, u)
        PROVE  rows' \subseteq rows /\ NoNewCreator
    <2>1. rows' = rows
      BY <1>1 DEF StartSearch, Search, Confirm, Shuffle, NoMoreResults
    <2>2. CASE UNCHANGED req
      BY <2>1, <2>2 DEF NoNewCreator
    <2>3. CASE \/ \E s : ShowResults(w, u, s)
               \/ \E a : PickRandom(w, u, a)
               \/ Finish(w, "popup")
      BY <2>1, <2>3, ResultsPick, BeginFinish
    <2>4. QED
      BY <1>1, <2>2, <2>3
         DEF StartSearch, Search, Confirm, Shuffle, NoMoreResults
  <1>2. ASSUME NEW w \in Workers, NEW u \in Users, ResetLimit(w, u)
        PROVE  rows' \subseteq rows /\ NoNewCreator
    BY <1>2 DEF ResetLimit, Idle, NoNewCreator, TypeOK
  <1>3. ASSUME NEW w \in Workers, FindInternship(w)
        PROVE  rows' \subseteq rows /\ NoNewCreator
    <2>1. CASE Finish(w, "error")
      BY <1>3, <2>1, BeginFinish DEF FindInternship
    <2>2. CASE ~Finish(w, "error")
      BY <1>3, <2>2 DEF FindInternship, NoNewCreator, TypeOK, Request, RequestRecord
    <2>3. QED
      BY <2>1, <2>2
  <1>4. ASSUME NEW w \in Workers, CheckLimit(w)
        PROVE  rows' \subseteq rows /\ NoNewCreator
    BY <1>4 DEF CheckLimit, NoNewCreator, TypeOK, Request, RequestRecord
  <1>5. ASSUME NEW w \in Workers, Create(w)
        PROVE  rows' \subseteq rows /\ NoNewCreator
    BY <1>5, BeginFinish DEF Create
  <1>6. ASSUME NEW w \in Workers, SampleChecked(w)
        PROVE  rows' \subseteq rows /\ NoNewCreator
    <2>1. CASE Finish(w, "results")
      BY <1>6, <2>1, BeginFinish DEF SampleChecked
    <2>2. CASE req' = [req EXCEPT ![w].pc = "viewed"]
      BY <1>6, <2>2 DEF SampleChecked, NoNewCreator, TypeOK, Request, RequestRecord
    <2>3. QED
      BY <1>6, <2>1, <2>2 DEF SampleChecked
  <1>7. ASSUME NEW w \in Workers, ViewedInternships(w)
        PROVE  rows' \subseteq rows /\ NoNewCreator
    <2>1. rows' = rows /\ req'[w].pc = "render"
      BY <1>7 DEF ViewedInternships, TypeOK, Request, RequestRecord
    <2>2. \A v \in Workers : v # w => req'[v] = req[v]
      BY <1>7 DEF ViewedInternships, TypeOK
    <2>3. QED
      BY <2>1, <2>2 DEF NoNewCreator
  <1>8. ASSUME NEW w \in Workers, RenderResults(w) \/ ResetDone(w)
        PROVE  rows' \subseteq rows /\ NoNewCreator
    BY <1>8, BeginFinish DEF RenderResults, ResetDone
  <1>9. ASSUME NEW w \in Workers, DestroyRow(w)
        PROVE  rows' \subseteq rows /\ NoNewCreator
    BY <1>9 DEF DestroyRow, NoNewCreator, TypeOK, Request, RequestRecord
  <1>10. ASSUME NEW i \in Internships, DestroyInternship(i)
         PROVE  rows' \subseteq rows /\ NoNewCreator
    BY <1>10 DEF DestroyInternship, NoNewCreator
  <1>11. CASE UNCHANGED vars
    BY <1>11 DEF vars, NoNewCreator
  <1>12. QED
    BY <1>1, <1>2, <1>3, <1>4, <1>5, <1>6, <1>7, <1>8, <1>9, <1>10, <1>11
       DEF Next, Accept, Serve

LEMMA InvIsInductive == Inv /\ TypeOK' /\ [Next]_vars => Inv'
  <1> SUFFICES ASSUME Inv, TypeOK', [Next]_vars PROVE Inv'
    OBVIOUS
  <1>1. CASE \E w \in Workers : CheckLimit(w) /\ check_limit(req[w].user)
    BY <1>1, BoundKeptByCheck DEF Inv, CheckLimit
  <1>2. CASE \E w \in Workers : Create(w) /\ req[w].internship \in internships
    BY <1>2, BoundKeptByCreate DEF Inv
  <1>3. CASE \A w \in Workers :
               /\ ~(CheckLimit(w) /\ check_limit(req[w].user))
               /\ ~(Create(w) /\ req[w].internship \in internships)
    BY <1>3, OtherSteps, BoundKept DEF Inv
  <1>4. QED
    BY <1>1, <1>2, <1>3

LEMMA InvHolds == Spec => []Inv
  <1>1. Init => Inv
    <2> SUFFICES ASSUME Init PROVE Inv
      OBVIOUS
    <2>1. TypeOK
      BY InitType
    <2>2. IsFiniteSet(rows)
      BY FS_EmptySet DEF Init
    <2>3. ASSUME NEW u \in Users
          PROVE  Cardinality(RowsFor(u)) + Cardinality(Creating(u))
                   <= INTERNSHIP_LIMIT + Cardinality(Workers) - 1
      <3>1. RowsFor(u) = {} /\ Creating(u) = {}
        BY DEF Init, Idle, RowsFor, Creating
      <3>2. QED
        BY <2>2, <3>1, LimitAssumption, Countable, FS_EmptySet
    <2>4. QED
      BY <2>1, <2>2, <2>3 DEF Inv, OvershootBound
  <1>2. QED
    BY <1>1, InvIsInductive, TypeCorrect, PTL DEF Spec

(***************************************************************************)
(* Any number of threads gets a user past the limit by at most the number  *)
(* of the other threads.                                                   *)
(***************************************************************************)
THEOREM Overshoot == Spec => []OvershootBound
  BY InvHolds, PTL DEF Inv

-----------------------------------------------------------------------------
(* Refinement of the abstract quota *)

(* A user sees at most as many internships as there are rows. *)
LEMMA VisibleAtMostRows ==
  ASSUME IsFiniteSet(rows), NEW u
  PROVE  /\ IsFiniteSet(Visible(u))
         /\ Cardinality(Visible(u)) \in Nat
         /\ Cardinality(Visible(u)) <= Cardinality(RowsFor(u))
  <1> DEFINE f == [r \in RowsFor(u) |-> r.internship]
  <1>1. f \in Surjection(RowsFor(u), Visible(u))
    BY DEF Surjection, Visible
  <1>2. QED
    BY <1>1, Countable, FS_Surjection, FS_CardinalityType

(* A step that leaves the rows alone leaves what is visible alone. *)
LEMMA SameRowsSameVisible ==
  ASSUME rows' = rows
  PROVE  UNCHANGED VisibleNow
  BY DEF VisibleNow, Visible, RowsFor

(* Creating a row grants its internship, or stutters when it is a copy. *)
LEMMA CreateImplementsGrant ==
  ASSUME Inv, NEW w \in Workers, Create(w), req[w].internship \in internships
  PROVE  [Quota!Next]_VisibleNow
  <1> DEFINE me == req[w].user
             i == req[w].internship
  <1>1. PICK r \in Fresh(me, i) : rows' = rows \cup {r}
    BY DEF Create
  <1>2. r.user = me /\ r.internship = i
    BY DEF Fresh
  <1>3. me \in Users /\ i \in Internships
    BY DEF Create, Inv, TypeOK, Request, RequestRecord
  <1>4. ASSUME NEW u \in Users
        PROVE  Visible(u)' = IF u = me THEN Visible(u) \cup {i} ELSE Visible(u)
    <2>1. CASE u = me
      <3>1. RowsFor(u)' = RowsFor(u) \cup {r}
        BY <1>1, <1>2, <2>1 DEF RowsFor
      <3>2. QED
        BY <1>2, <2>1, <3>1 DEF Visible
    <2>2. CASE u # me
      <3>1. RowsFor(u)' = RowsFor(u)
        BY <1>1, <1>2, <2>2 DEF RowsFor
      <3>2. QED
        BY <2>2, <3>1 DEF Visible
    <2>3. QED
      BY <2>1, <2>2
  <1>5. VisibleNow' = [VisibleNow EXCEPT ![me]["search"] = @ \cup {i}]
    BY <1>3, <1>4 DEF VisibleNow
  <1>6. Cardinality(VisibleNow[me]["search"]) < Slack["search"]
    <2>1. w \in Creating(me)
      BY DEF Create, Creating
    <2>2. Cardinality(Creating(me)) >= 1
      BY <2>1, Countable, FS_EmptySet DEF Inv
    <2>3. Cardinality(RowsFor(me)) + Cardinality(Creating(me))
            <= INTERNSHIP_LIMIT + Cardinality(Workers) - 1
      BY <1>3 DEF Inv, OvershootBound
    <2>4. VisibleNow[me]["search"] = Visible(me)
      BY <1>3 DEF VisibleNow
    <2>5. QED
      BY <2>2, <2>3, <2>4, LimitAssumption, Countable, VisibleAtMostRows
         DEF Inv, Slack
  <1>7. CASE i \in VisibleNow[me]["search"]
    <2>1. i \in Visible(me)
      BY <1>3, <1>7 DEF VisibleNow
    <2>2. \A u \in Users : Visible(u)' = Visible(u)
      BY <1>4, <2>1
    <2>3. QED
      BY <2>2 DEF VisibleNow
  <1>8. CASE i \notin VisibleNow[me]["search"]
    <2>1. Quota!Grant(me, "search", i)
      <3>1. Quota!Cardinality(VisibleNow[me]["search"])
              = Cardinality(VisibleNow[me]["search"])
        BY DEF Quota!Cardinality, Cardinality
      <3>2. QED
        BY <1>5, <1>6, <1>8, <3>1 DEF Quota!Grant
    <2>2. QED
      BY <1>3, <2>1 DEF Quota!Next
  <1>9. QED
    BY <1>7, <1>8

(* Deleting a row forgets its internship, or stutters when a copy remains. *)
LEMMA DestroyImplementsForget ==
  ASSUME Inv, NEW w \in Workers, DestroyRow(w)
  PROVE  [Quota!Next]_VisibleNow
  <1>1. PICK r \in req[w].doomed : rows' = rows \ {r}
    BY DEF DestroyRow
  <1>2. r \in Row
    BY DEF Inv, TypeOK, Request, RequestRecord
  <1> DEFINE me == r.user
             i == r.internship
  <1>3. me \in Users /\ i \in Internships
    BY <1>2 DEF Row
  <1>4. ASSUME NEW u \in Users, u # me
        PROVE  Visible(u)' = Visible(u)
    <2>1. RowsFor(u)' = RowsFor(u)
      BY <1>1, <1>4 DEF RowsFor
    <2>2. QED
      BY <2>1 DEF Visible
  <1>5. CASE i \in Visible(me)' \/ i \notin Visible(me)
    <2>1. \A o : o # i => (o \in Visible(me)' <=> o \in Visible(me))
      BY <1>1 DEF Visible, RowsFor
    <2>2. i \in Visible(me)' => i \in Visible(me)
      BY <1>1 DEF Visible, RowsFor
    <2>3. Visible(me)' = Visible(me)
      BY <1>5, <2>1, <2>2 DEF Visible
    <2>4. \A u \in Users : Visible(u)' = Visible(u)
      BY <1>4, <2>3
    <2>5. QED
      BY <2>4 DEF VisibleNow
  <1>6. CASE i \notin Visible(me)' /\ i \in Visible(me)
    <2>1. Visible(me)' = Visible(me) \ {i}
      BY <1>1, <1>6 DEF Visible, RowsFor
    <2>2. VisibleNow' = [VisibleNow EXCEPT ![me]["search"] = @ \ {i}]
      BY <1>3, <1>4, <2>1 DEF VisibleNow
    <2>3. i \in VisibleNow[me]["search"]
      BY <1>3, <1>6 DEF VisibleNow
    <2>4. QED
      BY <1>3, <2>2, <2>3 DEF Quota!Next, Quota!Forget
  <1>7. QED
    BY <1>5, <1>6

(* An internship that is destroyed is withdrawn from everybody. *)
LEMMA DestroyImplementsWithdraw ==
  ASSUME Inv, NEW i \in Internships, DestroyInternship(i)
  PROVE  [Quota!Next]_VisibleNow
  <1>1. rows' = {r \in rows : r.internship # i}
    BY DEF DestroyInternship
  <1>2. \A u \in Users : Visible(u)' = Visible(u) \ {i}
    BY <1>1 DEF Visible, RowsFor
  <1>3. Quota!Withdraw(i)
    BY <1>2 DEF Quota!Withdraw, VisibleNow
  <1>4. QED
    BY <1>3 DEF Quota!Next

(* No other statement touches the rows. *)
LEMMA RowsChangeOnlyBy ==
  ASSUME TypeOK, [Next]_vars,
         \A w \in Workers :
            /\ ~(Create(w) /\ req[w].internship \in internships)
            /\ ~DestroyRow(w),
         \A i \in Internships : ~DestroyInternship(i)
  PROVE  rows' = rows
  <1>1. ASSUME NEW w \in Workers, Serve(w)
        PROVE  rows' = rows
    <2>1. CASE Create(w)
      BY <2>1 DEF Create
    <2>2. QED
      BY <1>1, <2>1 DEF Serve, FindInternship, CheckLimit, SampleChecked,
         ViewedInternships, RenderResults, ResetDone
  <1>2. ASSUME NEW w \in Workers, Accept(w)
        PROVE  rows' = rows
    BY <1>2 DEF Accept, StartSearch, Search, Confirm, Shuffle, NoMoreResults,
       ResetLimit
  <1>3. QED
    BY <1>1, <1>2 DEF Next, vars

(***************************************************************************)
(* The table of visible internships, filled by concurrent searches, keeps  *)
(* the abstract quota with one object of slack per additional thread.      *)
(***************************************************************************)
THEOREM Refinement == Spec => ImplementsQuota
  <1>1. Init => Quota!Init
    BY DEF Init, Quota!Init, VisibleNow, Visible, RowsFor
  <1>2. Inv /\ [Next]_vars => [Quota!Next]_VisibleNow
    <2> SUFFICES ASSUME Inv, [Next]_vars PROVE [Quota!Next]_VisibleNow
      OBVIOUS
    <2>1. CASE \E w \in Workers : Create(w) /\ req[w].internship \in internships
      BY <2>1, CreateImplementsGrant
    <2>2. CASE \E w \in Workers : DestroyRow(w)
      BY <2>2, DestroyImplementsForget
    <2>3. CASE \E i \in Internships : DestroyInternship(i)
      BY <2>3, DestroyImplementsWithdraw
    <2>4. CASE /\ \A w \in Workers :
                    /\ ~(Create(w) /\ req[w].internship \in internships)
                    /\ ~DestroyRow(w)
               /\ \A i \in Internships : ~DestroyInternship(i)
      BY <2>4, RowsChangeOnlyBy, SameRowsSameVisible DEF Inv
    <2>5. QED
      BY <2>1, <2>2, <2>3, <2>4
  <1>3. QED
    BY <1>1, <1>2, InvHolds, PTL DEF Spec, ImplementsQuota, Quota!Spec

-----------------------------------------------------------------------------
(* One request at a time *)

(* A student's search has been granted and lists only what matches, and of *)
(* that, what the student can see, as far as it has not been destroyed.    *)
Searching(v) ==
  LET matches == Match[req[v].search]
      seen == Visible(req[v].user)
  IN  /\ req[v].pc \notin {"answered", "destroy_all"}
      /\ req[v].action = "show_results"
      =>
        /\ req[v].granted \cup req[v].todo \subseteq matches
        /\ req[v].pc \in {"check_limit", "create"}
             => req[v].internship \in matches
        /\ req[v].granted \cap internships \subseteq seen
        /\ req[v].pc = "render" /\ req[v].shown \subseteq internships
             => req[v].shown = seen \cap matches

(* ... and a thread about to create a row has room for it. *)
Fine(v) ==
  /\ Searching(v)
  /\ req[v].pc = "create" => check_limit(req[v].user)

(***************************************************************************)
(* As long as no two requests have overlapped, one thread at most is at    *)
(* work, nobody is beyond the limit, and the thread's search is fine.      *)
(***************************************************************************)
Solo ==
  ~overlapped =>
    /\ \A v, w \in Workers :
          req[v].pc # "answered" /\ req[w].pc # "answered" => v = w
    /\ \A u \in Users : Cardinality(RowsFor(u)) <= INTERNSHIP_LIMIT
    /\ \A v \in Workers : Fine(v)

(***************************************************************************)
(* A step that overlaps with no request finds the other threads idle, so   *)
(* that only the thread that takes it has to be looked at.                 *)
(***************************************************************************)
LEMMA OneThreadSteps ==
  ASSUME TypeOK, NEW w \in Workers, Overlap(w), ~overlapped',
         \A v \in Workers \ {w} : req'[v] = req[v],
         Fine(w)',
         \A u \in Users : Cardinality(RowsFor(u)') <= INTERNSHIP_LIMIT
  PROVE  Solo'
  <1>1. \A v \in Workers : v # w => req[v].pc = "answered"
    BY DEF Overlap
  <1>2. \A v \in Workers : v # w => req'[v].pc = "answered"
    BY <1>1
  <1>3. ASSUME NEW v \in Workers
        PROVE  Fine(v)'
    <2>1. CASE v = w
      BY <2>1
    <2>2. CASE v # w
      BY <1>2, <2>2 DEF Fine, Searching
    <2>3. QED
      BY <2>1, <2>2
  <1>4. QED
    BY <1>2, <1>3 DEF Solo

(* The beginning and the end of a request *)
LEMMA FinishFine ==
  ASSUME TypeOK, NEW w \in Workers, NEW a, Finish(w, a)
  PROVE  Fine(w)' /\ \A v \in Workers \ {w} : req'[v] = req[v]
  BY DEF Finish, TypeOK, Idle, Fine, Searching

LEMMA BeginFine ==
  ASSUME TypeOK, NEW w \in Workers, NEW u, NEW a, NEW s, NEW S,
         Begin(w, u, a, s, S), a = "show_results" => S \subseteq Match[s]
  PROVE  Fine(w)' /\ \A v \in Workers \ {w} : req'[v] = req[v]
  <1>1. req'[w] = [Idle EXCEPT !.pc = "find", !.user = u, !.action = a,
                               !.search = s, !.todo = S, !.full = IsFull(u)]
    BY DEF Begin, TypeOK
  <1>2. /\ req'[w].pc = "find"
        /\ req'[w].action = a
        /\ req'[w].search = s
        /\ req'[w].todo = S
        /\ req'[w].granted = {}
    BY <1>1 DEF Idle
  <1>3. Fine(w)'
    BY <1>2 DEF Fine, Searching
  <1>4. QED
    BY <1>3 DEF Begin, TypeOK

(* Accepting a request: the sample is taken from what matches. *)
LEMMA AcceptFine ==
  ASSUME TypeOK, NEW w \in Workers, Accept(w), req' # req
  PROVE  Fine(w)' /\ \A v \in Workers \ {w} : req'[v] = req[v]
  <1>1. CASE \E u, s : ShowResults(w, u, s)
    <2>1. PICK u, s : ShowResults(w, u, s)
      BY <1>1
    <2>2. \A S \in Samples(collect_results(s)) : S \subseteq Match[s]
      BY DEF Samples, collect_results
    <2>3. QED
      BY <2>1, <2>2, BeginFine, FinishFine DEF ShowResults
  <1>2. CASE \E u, a : a # "show_results" /\ PickRandom(w, u, a)
    BY <1>2, BeginFine, FinishFine DEF PickRandom
  <1>3. CASE Finish(w, "popup")
    BY <1>3, FinishFine
  <1>4. CASE \E u \in Users : ResetLimit(w, u)
    <2>1. PICK u \in Users : ResetLimit(w, u)
      BY <1>4
    <2>2. req'[w] = [Idle EXCEPT !.pc = "destroy_all", !.user = u,
                                 !.action = "reset_limit",
                                 !.doomed = RowsFor(u)]
      BY <2>1 DEF ResetLimit, TypeOK
    <2>3. req'[w].pc = "destroy_all" /\ req'[w].action = "reset_limit"
      BY <2>2 DEF Idle
    <2>4. Fine(w)'
      BY <2>3 DEF Fine, Searching
    <2>5. QED
      BY <2>1, <2>4 DEF ResetLimit, TypeOK
  <1>5. QED
    BY <1>1, <1>2, <1>3, <1>4
       DEF Accept, StartSearch, Search, Confirm, Shuffle, NoMoreResults

(* Looking for the row of the next internship of the sample *)
LEMMA FindFine ==
  ASSUME TypeOK, NEW w \in Workers, FindInternship(w), Fine(w)
  PROVE  Fine(w)' /\ \A v \in Workers \ {w} : req'[v] = req[v]
  <1> DEFINE r == req[w]
  <1>1. /\ r \in RequestRecord
        /\ r.pc = "find"
        /\ UNCHANGED <<internships, rows>>
    BY DEF FindInternship, TypeOK, Request
  <1>2. \A u : Visible(u)' = Visible(u)
    BY <1>1 DEF Visible, RowsFor
  <1>3. PICK i \in r.todo :
          \/ Finish(w, "error")
          \/ /\ i \in Visible(r.user)
             /\ req' = [req EXCEPT ![w].todo = @ \ {i},
                                   ![w].granted = @ \cup {i}]
          \/ req' = [req EXCEPT ![w].pc = "check_limit",
                                ![w].internship = i, ![w].todo = @ \ {i}]
    BY DEF FindInternship
  <1>4. CASE Finish(w, "error")
    BY <1>4, FinishFine
  <1>5. CASE /\ i \in Visible(r.user)
             /\ req' = [req EXCEPT ![w].todo = @ \ {i},
                                   ![w].granted = @ \cup {i}]
    <2>1. req'[w] = [r EXCEPT !.todo = @ \ {i}, !.granted = @ \cup {i}]
      BY <1>5 DEF TypeOK
    <2>2. /\ req'[w].pc = "find"
          /\ req'[w].user = r.user
          /\ req'[w].action = r.action
          /\ req'[w].search = r.search
          /\ req'[w].todo = r.todo \ {i}
          /\ req'[w].granted = r.granted \cup {i}
      BY <1>1, <2>1 DEF RequestRecord
    <2>3. Fine(w)'
      BY <1>1, <1>2, <1>5, <2>2 DEF Fine, Searching
    <2>4. QED
      BY <1>5, <2>3 DEF TypeOK
  <1>6. CASE req' = [req EXCEPT ![w].pc = "check_limit",
                                ![w].internship = i, ![w].todo = @ \ {i}]
    <2>1. req'[w] = [r EXCEPT !.pc = "check_limit", !.internship = i,
                              !.todo = @ \ {i}]
      BY <1>6 DEF TypeOK
    <2>2. /\ req'[w].pc = "check_limit"
          /\ req'[w].user = r.user
          /\ req'[w].action = r.action
          /\ req'[w].search = r.search
          /\ req'[w].internship = i
          /\ req'[w].todo = r.todo \ {i}
          /\ req'[w].granted = r.granted
      BY <1>1, <2>1 DEF RequestRecord
    <2>3. Fine(w)'
      BY <1>1, <1>2, <1>3, <2>2 DEF Fine, Searching
    <2>4. QED
      BY <1>6, <2>3 DEF TypeOK
  <1>7. QED
    BY <1>3, <1>4, <1>5, <1>6

LEMMA CheckFine ==
  ASSUME TypeOK, NEW w \in Workers, CheckLimit(w), Fine(w)
  PROVE  Fine(w)' /\ \A v \in Workers \ {w} : req'[v] = req[v]
  <1> DEFINE r == req[w]
  <1>1. /\ r \in RequestRecord
        /\ r.pc = "check_limit"
        /\ UNCHANGED <<internships, rows>>
    BY DEF CheckLimit, TypeOK, Request
  <1>2. \A u : /\ Visible(u)' = Visible(u)
               /\ check_limit(u)' <=> check_limit(u)
    BY <1>1 DEF Visible, RowsFor, check_limit
  <1>3. CASE check_limit(r.user) /\ req' = [req EXCEPT ![w].pc = "create"]
    <2>1. req'[w] = [r EXCEPT !.pc = "create"]
      BY <1>3 DEF TypeOK
    <2>2. /\ req'[w].pc = "create"
          /\ req'[w].user = r.user
          /\ req'[w].action = r.action
          /\ req'[w].search = r.search
          /\ req'[w].internship = r.internship
          /\ req'[w].todo = r.todo
          /\ req'[w].granted = r.granted
      BY <1>1, <2>1 DEF RequestRecord
    <2>3. Fine(w)'
      BY <1>1, <1>2, <1>3, <2>2 DEF Fine, Searching
    <2>4. QED
      BY <1>3, <2>3 DEF TypeOK
  <1>4. CASE req' = [req EXCEPT ![w].pc = "find", ![w].internship = None]
    <2>1. req'[w] = [r EXCEPT !.pc = "find", !.internship = None]
      BY <1>4 DEF TypeOK
    <2>2. /\ req'[w].pc = "find"
          /\ req'[w].user = r.user
          /\ req'[w].action = r.action
          /\ req'[w].search = r.search
          /\ req'[w].todo = r.todo
          /\ req'[w].granted = r.granted
      BY <1>1, <2>1 DEF RequestRecord
    <2>3. Fine(w)'
      BY <1>1, <1>2, <2>2 DEF Fine, Searching
    <2>4. QED
      BY <1>4, <2>3 DEF TypeOK
  <1>5. QED
    BY <1>3, <1>4 DEF CheckLimit

(* What is granted now has its row now, and there was room for it. *)
LEMMA CreateFine ==
  ASSUME TypeOK, IsFiniteSet(rows), NEW w \in Workers, Create(w), Fine(w),
         \A u \in Users : Cardinality(RowsFor(u)) <= INTERNSHIP_LIMIT
  PROVE  /\ Fine(w)' /\ \A v \in Workers \ {w} : req'[v] = req[v]
         /\ \A u \in Users : Cardinality(RowsFor(u)') <= INTERNSHIP_LIMIT
  <1> DEFINE r == req[w]
             i == r.internship
  <1>1. /\ r \in RequestRecord
        /\ r.pc = "create"
        /\ UNCHANGED internships
    BY DEF Create, TypeOK, Request
  <1>2. CASE Finish(w, "error") /\ UNCHANGED rows
    <2>1. \A u : RowsFor(u)' = RowsFor(u)
      BY <1>2 DEF RowsFor
    <2>2. QED
      BY <1>2, <2>1, FinishFine
  <1>3. CASE i \in internships
    <2>1. PICK row \in Fresh(r.user, i) : rows' = rows \cup {row}
      BY <1>3 DEF Create
    <2>2. row \notin rows /\ row.user = r.user /\ row.internship = i
      BY DEF Fresh, Held
    <2>3. \A u : u = r.user => RowsFor(u)' = RowsFor(u) \cup {row}
      BY <2>1, <2>2 DEF RowsFor
    <2>4. \A u : u # r.user => RowsFor(u)' = RowsFor(u)
      BY <2>1, <2>2 DEF RowsFor
    <2>5. \A u : u = r.user => Visible(u)' = Visible(u) \cup {i}
      BY <2>2, <2>3 DEF Visible
    <2>6. ASSUME NEW u \in Users
          PROVE  Cardinality(RowsFor(u)') <= INTERNSHIP_LIMIT
      <3>1. CASE u = r.user
        <4>1. row \notin RowsFor(u)
          BY <2>2 DEF RowsFor
        <4>2. Cardinality(RowsFor(u)') = Cardinality(RowsFor(u)) + 1
          BY <2>3, <3>1, <4>1, Countable, FS_AddElement
        <4>3. Cardinality(RowsFor(u)) < INTERNSHIP_LIMIT
          BY <1>1, <3>1 DEF Fine, check_limit
        <4>4. QED
          BY <4>2, <4>3, Countable, LimitAssumption
      <3>2. CASE u # r.user
        <4>1. RowsFor(u)' = RowsFor(u)
          BY <2>4, <3>2
        <4>2. QED
          BY <4>1
      <3>3. QED
        BY <3>1, <3>2
    <2>7. req' = [req EXCEPT ![w].pc = "find", ![w].internship = None,
                             ![w].granted = @ \cup {i}]
      BY <1>3 DEF Create
    <2>8. req'[w] = [r EXCEPT !.pc = "find", !.internship = None,
                              !.granted = @ \cup {i}]
      BY <2>7 DEF TypeOK
    <2>9. /\ req'[w].pc = "find"
          /\ req'[w].user = r.user
          /\ req'[w].action = r.action
          /\ req'[w].search = r.search
          /\ req'[w].todo = r.todo
          /\ req'[w].granted = r.granted \cup {i}
      BY <1>1, <2>8 DEF RequestRecord
    <2>10. Fine(w)'
      BY <1>1, <2>5, <2>9 DEF Fine, Searching
    <2>11. QED
      BY <2>6, <2>7, <2>10 DEF TypeOK
  <1>4. QED
    BY <1>2, <1>3 DEF Create

LEMMA SampleFine ==
  ASSUME TypeOK, NEW w \in Workers, SampleChecked(w), Fine(w)
  PROVE  Fine(w)' /\ \A v \in Workers \ {w} : req'[v] = req[v]
  <1> DEFINE r == req[w]
  <1>1. /\ r \in RequestRecord
        /\ r.pc = "find"
        /\ UNCHANGED <<internships, rows>>
    BY DEF SampleChecked, TypeOK, Request
  <1>2. \A u : Visible(u)' = Visible(u)
    BY <1>1 DEF Visible, RowsFor
  <1>3. CASE Finish(w, "results")
    BY <1>3, FinishFine
  <1>4. CASE req' = [req EXCEPT ![w].pc = "viewed"]
    <2>1. req'[w] = [r EXCEPT !.pc = "viewed"]
      BY <1>4 DEF TypeOK
    <2>2. /\ req'[w].pc = "viewed"
          /\ req'[w].user = r.user
          /\ req'[w].action = r.action
          /\ req'[w].search = r.search
          /\ req'[w].todo = r.todo
          /\ req'[w].granted = r.granted
      BY <1>1, <2>1 DEF RequestRecord
    <2>3. Fine(w)'
      BY <1>1, <1>2, <2>2 DEF Fine, Searching
    <2>4. QED
      BY <1>4, <2>3 DEF TypeOK
  <1>5. QED
    BY <1>3, <1>4 DEF SampleChecked

(***************************************************************************)
(* The list: with fewer than the limit granted, everything seen is added;  *)
(* with the limit granted, nothing else can have been seen.                *)
(***************************************************************************)
LEMMA ViewedFine ==
  ASSUME TypeOK, IsFiniteSet(rows), NEW w \in Workers, ViewedInternships(w),
         Fine(w),
         \A u \in Users : Cardinality(RowsFor(u)) <= INTERNSHIP_LIMIT
  PROVE  Fine(w)' /\ \A v \in Workers \ {w} : req'[v] = req[v]
  <1> DEFINE r == req[w]
             seen == Visible(r.user)
             matches == Match[r.search]
             list == IF Cardinality(r.granted) < INTERNSHIP_LIMIT
                       THEN (r.granted \cup seen) \cap matches
                       ELSE r.granted
  <1>1. /\ r \in RequestRecord
        /\ r.pc = "viewed"
        /\ r.action = "show_results"
        /\ r.user \in Users
        /\ UNCHANGED <<internships, rows>>
    BY DEF ViewedInternships, TypeOK, Request
  <1>2. \A u : Visible(u)' = Visible(u)
    BY <1>1 DEF Visible, RowsFor
  <1>3. r.granted \subseteq matches /\ r.granted \cap internships \subseteq seen
    BY <1>1 DEF Fine, Searching
  <1>4. ASSUME list \subseteq internships
        PROVE  list = seen \cap matches
    <2>1. CASE Cardinality(r.granted) < INTERNSHIP_LIMIT
      <3>1. list = (r.granted \cup seen) \cap matches
        BY <2>1
      <3>2. QED
        BY <1>3, <1>4, <3>1
    <2>2. CASE ~(Cardinality(r.granted) < INTERNSHIP_LIMIT)
      <3>1. list = r.granted /\ r.granted \subseteq seen
        BY <1>3, <1>4, <2>2
      <3>2. IsFiniteSet(seen) /\ Cardinality(seen) <= INTERNSHIP_LIMIT
        BY <1>1, Countable, VisibleAtMostRows, LimitAssumption
      <3>3. /\ Cardinality(r.granted) <= Cardinality(seen)
            /\ Cardinality(r.granted) = Cardinality(seen) => seen = r.granted
            /\ Cardinality(r.granted) \in Nat
            /\ Cardinality(seen) \in Nat
        BY <3>1, <3>2, FS_Subset, FS_CardinalityType
      <3>4. seen = r.granted
        BY <2>2, <3>2, <3>3, LimitAssumption
      <3>5. QED
        BY <1>3, <3>1, <3>4
    <2>3. QED
      BY <2>1, <2>2
  <1>5. req' = [req EXCEPT ![w].pc = "render", ![w].shown = list]
    BY DEF ViewedInternships
  <1> HIDE DEF list
  <1>6. req'[w] = [r EXCEPT !.pc = "render", !.shown = list]
    BY <1>5 DEF TypeOK
  <1>7. /\ req'[w].pc = "render"
        /\ req'[w].user = r.user
        /\ req'[w].action = r.action
        /\ req'[w].search = r.search
        /\ req'[w].todo = r.todo
        /\ req'[w].granted = r.granted
        /\ req'[w].shown = list
    BY <1>1, <1>6 DEF RequestRecord
  <1>8. Fine(w)'
    BY <1>1, <1>2, <1>4, <1>7 DEF Fine, Searching
  <1>9. QED
    BY <1>5, <1>8 DEF TypeOK

(* The end of a request, and the steps of a reset *)
LEMMA EndFine ==
  ASSUME TypeOK, NEW w \in Workers,
         RenderResults(w) \/ DestroyRow(w) \/ ResetDone(w), Fine(w)
  PROVE  Fine(w)' /\ \A v \in Workers \ {w} : req'[v] = req[v]
  <1>1. CASE \E a : Finish(w, a)
    BY <1>1, FinishFine
  <1>2. CASE DestroyRow(w)
    <2>1. req[w] \in RequestRecord /\ req[w].pc = "destroy_all"
      BY <1>2 DEF DestroyRow, TypeOK, Request
    <2>2. PICK row : req' = [req EXCEPT ![w].doomed = @ \ {row}]
      BY <1>2 DEF DestroyRow
    <2>3. req'[w] = [req[w] EXCEPT !.doomed = @ \ {row}]
      BY <2>2 DEF TypeOK
    <2>4. req'[w].pc = "destroy_all"
      BY <2>1, <2>3 DEF RequestRecord
    <2>5. Fine(w)'
      BY <2>4 DEF Fine, Searching
    <2>6. QED
      BY <2>2, <2>5 DEF TypeOK
  <1>3. QED
    BY <1>1, <1>2 DEF RenderResults, ResetDone

(* Destroying an internship takes its rows and leaves the rest as it was. *)
LEMMA DestroyInternshipFine ==
  ASSUME TypeOK, IsFiniteSet(rows), NEW i \in Internships,
         DestroyInternship(i), UNCHANGED overlapped, Solo
  PROVE  Solo'
  <1>1. /\ internships' = internships \ {i}
        /\ rows' = {r \in rows : r.internship # i}
        /\ req' = req
    BY DEF DestroyInternship
  <1>2. \A u : Visible(u)' = Visible(u) \ {i}
    BY <1>1 DEF Visible, RowsFor
  <1>3. \A u : /\ RowsFor(u)' \subseteq RowsFor(u)
               /\ Cardinality(RowsFor(u)') \in Nat
               /\ Cardinality(RowsFor(u)) \in Nat
               /\ Cardinality(RowsFor(u)') <= Cardinality(RowsFor(u))
    <2>1. \A u : RowsFor(u)' \subseteq RowsFor(u)
      BY <1>1 DEF RowsFor
    <2>2. QED
      BY <2>1, Countable, FS_Subset, FS_CardinalityType
  <1>4. ASSUME NEW v \in Workers, Fine(v)
        PROVE  Fine(v)'
    <2> DEFINE r == req[v]
    <2>1. req'[v] = r /\ Searching(v)
      BY <1>1, <1>4 DEF Fine
    <2>2. \A u, S : /\ S \cap internships \subseteq Visible(u)
                         => S \cap internships' \subseteq Visible(u)'
                    /\ S \subseteq internships' => S \subseteq internships
      BY <1>1, <1>2
    <2>3. \A u, S, M : S \subseteq internships' /\ S = Visible(u) \cap M
                         => S = Visible(u)' \cap M
      BY <1>1, <1>2
    <2>4. Searching(v)'
      BY <2>1, <2>2, <2>3 DEF Searching
    <2>5. \A u : check_limit(u) => check_limit(u)'
      BY <1>3, LimitAssumption DEF check_limit
    <2>6. QED
      BY <1>4, <2>1, <2>4, <2>5 DEF Fine
  <1>5. ASSUME NEW u \in Users, Cardinality(RowsFor(u)) <= INTERNSHIP_LIMIT
        PROVE  Cardinality(RowsFor(u)') <= INTERNSHIP_LIMIT
    BY <1>3, <1>5, LimitAssumption
  <1>6. QED
    BY <1>1, <1>4, <1>5 DEF Solo

LEMMA SoloIsInductive == Inv /\ Solo /\ [Next]_vars => Solo'
  <1> SUFFICES ASSUME Inv, Solo, [Next]_vars PROVE Solo'
    OBVIOUS
  <1>1. TypeOK /\ IsFiniteSet(rows)
    BY DEF Inv
  <1>2. ASSUME NEW w \in Workers, Accept(w) \/ Serve(w), Overlap(w)
        PROVE  Solo'
    <2>1. SUFFICES ASSUME ~overlapped' PROVE Solo'
      BY DEF Solo
    <2>2. /\ ~overlapped
          /\ Fine(w)
          /\ \A u \in Users : Cardinality(RowsFor(u)) <= INTERNSHIP_LIMIT
      BY <1>2, <2>1 DEF Overlap, Solo
    <2>3. ASSUME rows' \subseteq rows, NEW u \in Users
          PROVE  Cardinality(RowsFor(u)') <= INTERNSHIP_LIMIT
      <3>1. RowsFor(u)' \subseteq RowsFor(u)
        BY <2>3 DEF RowsFor
      <3>2. /\ Cardinality(RowsFor(u)') <= Cardinality(RowsFor(u))
            /\ Cardinality(RowsFor(u)') \in Nat
        BY <1>1, <3>1, Countable, FS_Subset, FS_CardinalityType
      <3>3. QED
        BY <1>1, <2>2, <3>2, Countable, LimitAssumption
    <2>4. ASSUME rows' \subseteq rows,
                 Fine(w)' /\ \A v \in Workers \ {w} : req'[v] = req[v]
          PROVE  Solo'
      BY <1>1, <1>2, <2>1, <2>3, <2>4, OneThreadSteps
    <2>5. CASE Accept(w)
      <3>1. rows' = rows /\ internships' = internships
        BY <2>5 DEF Accept, StartSearch, Search, Confirm, Shuffle,
                    NoMoreResults, ResetLimit
      <3>2. CASE req' = req
        <4>1. \A u : Visible(u)' = Visible(u) /\ RowsFor(u)' = RowsFor(u)
          BY <3>1 DEF Visible, RowsFor
        <4>2. Fine(w)'
          BY <2>2, <3>1, <3>2, <4>1 DEF Fine, Searching, check_limit
        <4>3. QED
          BY <2>4, <3>1, <3>2, <4>2
      <3>3. QED
        BY <1>1, <2>4, <2>5, <3>1, <3>2, AcceptFine
    <2>6. CASE Create(w)
      BY <1>1, <1>2, <2>1, <2>2, <2>6, CreateFine, OneThreadSteps
    <2>7. CASE Serve(w) /\ ~Create(w)
      <3>1. rows' \subseteq rows
        BY <2>7 DEF Serve, FindInternship, CheckLimit, SampleChecked,
                    ViewedInternships, RenderResults, DestroyRow, ResetDone
      <3>2. Fine(w)' /\ \A v \in Workers \ {w} : req'[v] = req[v]
        BY <1>1, <2>2, <2>7, FindFine, CheckFine, SampleFine, ViewedFine,
           EndFine DEF Serve
      <3>3. QED
        BY <2>4, <3>1, <3>2
    <2>8. QED
      BY <1>2, <2>5, <2>6, <2>7
  <1>3. ASSUME NEW i \in Internships, DestroyInternship(i),
               UNCHANGED overlapped
        PROVE  Solo'
    BY <1>1, <1>3, DestroyInternshipFine
  <1>4. CASE UNCHANGED vars
    <2>1. \A u : Visible(u)' = Visible(u) /\ RowsFor(u)' = RowsFor(u)
      BY <1>4 DEF Visible, RowsFor, vars
    <2>2. QED
      BY <1>4, <2>1 DEF vars, Solo, Fine, Searching, check_limit
  <1>5. QED
    BY <1>2, <1>3, <1>4 DEF Next

LEMMA SoloHolds == Spec => []Solo
  <1>1. Init => Solo
    <2> SUFFICES ASSUME Init PROVE Solo
      OBVIOUS
    <2>1. \A v \in Workers : req[v].pc = "answered"
      BY DEF Init, Idle
    <2>2. \A u : RowsFor(u) = {}
      BY DEF Init, RowsFor
    <2>3. \A u \in Users : Cardinality(RowsFor(u)) <= INTERNSHIP_LIMIT
      BY <2>2, FS_EmptySet, LimitAssumption
    <2>4. \A v \in Workers : Fine(v)
      BY <2>1 DEF Fine, Searching
    <2>5. \A v, w \in Workers :
             req[v].pc # "answered" /\ req[w].pc # "answered" => v = w
      BY <2>1
    <2>6. QED
      BY <2>3, <2>4, <2>5 DEF Solo
  <1>2. QED
    BY <1>1, SoloIsInductive, InvHolds, PTL DEF Spec

(***************************************************************************)
(* A search that overlaps with nothing lists exactly what the student has  *)
(* ever seen and what matches, whatever the limit, the samples and the     *)
(* internships destroyed meanwhile.                                        *)
(***************************************************************************)
THEOREM ListIsExact == Spec => []ListsExactlySeenMatches
  <1>1. Inv /\ Solo => ListsExactlySeenMatches
    <2> SUFFICES ASSUME Inv, Solo, NEW w \in Workers, ~overlapped,
                        req[w].pc = "render",
                        req[w].shown \subseteq internships
                 PROVE  req[w].shown
                          = Visible(req[w].user) \cap Match[req[w].search]
      BY DEF ListsExactlySeenMatches
    <2>1. req[w].action = "show_results"
      BY DEF Inv, TypeOK, Request
    <2>2. QED
      BY <2>1 DEF Solo, Fine, Searching
  <1>2. QED
    BY <1>1, InvHolds, SoloHolds, PTL

(***************************************************************************)
(* Who has used up the limit, one request after the other, has exactly     *)
(* INTERNSHIP_LIMIT rows and not more, so that the == of no_more_results   *)
(* notices.                                                                *)
(***************************************************************************)
THEOREM FullUsersAreTold == Spec => FullUserIsTold
  <1>1. Inv /\ Solo /\ [Next]_vars =>
          [\A w \in Workers, u \in Users :
              (OutOfSlots(w, u) /\ ~overlapped')
                => req'[w].answer = "popup"]_vars
    <2> SUFFICES ASSUME Inv, Solo, [Next]_vars, ~UNCHANGED vars,
                        NEW w \in Workers, NEW u \in Users,
                        OutOfSlots(w, u), ~overlapped'
                 PROVE  req'[w].answer = "popup"
      OBVIOUS
    <2>1. ~overlapped
      BY DEF Next, Overlap
    <2>2. Cardinality(RowsFor(u)) <= INTERNSHIP_LIMIT
      BY <2>1 DEF Solo
    <2>3. ~(Cardinality(RowsFor(u)) < INTERNSHIP_LIMIT)
      BY DEF OutOfSlots, check_limit
    <2>4. IsFull(u)
      BY <2>2, <2>3, Countable, LimitAssumption DEF Inv, IsFull
    <2>5. Finish(w, "popup")
      BY <2>4 DEF OutOfSlots, NoMoreResults
    <2>6. QED
      BY <2>5 DEF Finish, Idle, Inv, TypeOK
  <1>2. QED
    BY <1>1, InvHolds, SoloHolds, PTL DEF Spec, FullUserIsTold

=============================================================================
