---------------------- MODULE CompanyVisibilityProofs ----------------------
(***************************************************************************)
(* For any users, companies, limits and any number of threads: how far     *)
(* concurrent requests get past a limit, how often a row is stored, that   *)
(* what is granted is recorded and what has been seen is never refused,    *)
(* that a list of suggestions is the whole list, and that the table of     *)
(* visible companies implements the abstract quota.                        *)
(***************************************************************************)
EXTENDS CompanyVisibility, FiniteSetTheorems, TLAPS

-----------------------------------------------------------------------------
(* Types *)

(* Idle is a request record. *)
LEMMA IdleType == Idle \in Request
  BY DEF Idle, Request, RequestRecord, PC, Answer, Reply, Kinds

(* Replacing a request record by another one keeps the type of req. *)
LEMMA BeginType ==
  ASSUME TypeOK, NEW w \in Workers, NEW u \in Users, NEW k \in Kinds,
         NEW S \in SUBSET Companies, Begin(w, u, k, S)
  PROVE  req' \in [Workers -> Request]
  <1>1. Visible(u, k) \subseteq Companies
    BY DEF TypeOK, Visible, RowsFor, Row
  <1>2. [Idle EXCEPT !.pc = "find", !.user = u, !.kind = k,
                     !.todo = S, !.known = Visible(u, k)] \in Request
    BY <1>1 DEF Idle, Request, RequestRecord, PC, Answer, Reply
  <1>3. QED
    BY <1>2 DEF Begin, TypeOK

LEMMA FinishType ==
  ASSUME TypeOK, NEW w \in Workers, NEW a \in Answer, Finish(w, a)
  PROVE  req' \in [Workers -> Request]
  BY IdleType, NoneAssumption DEF Finish, TypeOK, Request, RequestRecord, PC, Idle, Answer, Reply, Kinds

(* The rows, companies and requests always have their types. *)
THEOREM TypeCorrect == Spec => []TypeOK
  <1>1. Init => TypeOK
    BY IdleType DEF Init, TypeOK
  <1>2. TypeOK /\ [Next]_vars => TypeOK'
    <2> SUFFICES ASSUME TypeOK, [Next]_vars PROVE TypeOK'
      OBVIOUS
    <2> USE DEF TypeOK
    <2>1. ASSUME NEW w \in Workers, NEW u \in Users,
                 NEW fuzzy \in SUBSET companies, NEW exact \in SUBSET companies,
                 Suggest(w, u, fuzzy, exact)
          PROVE  TypeOK'
      <3>1. search_name(fuzzy, exact) \in SUBSET Companies
        BY DEF search_name
      <3>2. CASE Begin(w, u, "company_search", search_name(fuzzy, exact))
        BY <2>1, <3>1, <3>2, BeginType DEF Suggest, Kinds
      <3>3. CASE \E a \in Answer :
                    req' = [req EXCEPT ![w] = [Idle EXCEPT !.answer = a]]
        BY <2>1, <3>3, IdleType DEF Suggest, Request, RequestRecord, Idle, PC, Kinds
      <3>4. QED
        BY <2>1, <3>2, <3>3 DEF Suggest, case_for_count, Answer, Reply
    <2>2. ASSUME NEW w \in Workers, NEW u \in Users, NEW c \in Companies,
                 SuggestAddress(w, u, c)
          PROVE  TypeOK'
      BY <2>2, BeginType DEF SuggestAddress, Kinds
    <2>3. ASSUME NEW w \in Workers, NEW u \in Users, NEW k \in Kinds,
                 ResetLimit(w, u, k)
          PROVE  TypeOK'
      <3>1. RowsFor(u, k) \subseteq Row
        BY DEF RowsFor
      <3>2. QED
        BY <2>3, <3>1, IdleType DEF ResetLimit, Request, RequestRecord, Idle, PC, Kinds, Answer, Reply
    <2>4. ASSUME NEW w \in Workers, FindCompany(w)
          PROVE  TypeOK'
      <3>1. PICK c \in req[w].todo :
              \/ Finish(w, "error")
              \/ req' = [req EXCEPT ![w].todo = @ \ {c},
                                    ![w].granted = @ \cup {c},
                                    ![w].known = @ \cup {c}]
              \/ req' = [req EXCEPT ![w].pc = "check_limit", ![w].company = c,
                                    ![w].todo = @ \ {c}]
        BY <2>4 DEF FindCompany
      <3>2. c \in Companies
        BY DEF Request, RequestRecord
      <3>3. CASE Finish(w, "error")
        BY <2>4, <3>3, FinishType DEF FindCompany, Answer, Reply
      <3>4. CASE ~Finish(w, "error")
        <4>1. /\ req[w] \in Request
              /\ req[w].pc = "find"
              /\ UNCHANGED <<companies, rows>>
          BY <2>4 DEF FindCompany
        <4>2. CASE req' = [req EXCEPT ![w].todo = @ \ {c},
                                      ![w].granted = @ \cup {c},
                                      ![w].known = @ \cup {c}]
          <5>1. req'[w] \in Request
            BY <3>2, <4>1, <4>2 DEF Request, RequestRecord
          <5>2. QED
            BY <4>1, <4>2, <5>1
        <4>3. CASE req' = [req EXCEPT ![w].pc = "check_limit",
                                      ![w].company = c, ![w].todo = @ \ {c}]
          <5>1. [req[w] EXCEPT !.pc = "check_limit", !.company = c,
                               !.todo = @ \ {c}] \in Request
            BY <3>2, <4>1 DEF Request, RequestRecord, PC
          <5>2. QED
            BY <4>1, <4>3, <5>1
        <4>4. QED
          BY <3>1, <3>4, <4>2, <4>3
      <3>5. QED
        BY <3>3, <3>4
    <2>5. ASSUME NEW w \in Workers, CheckLimit(w)
          PROVE  TypeOK'
      <3>1. req[w] \in Request
        OBVIOUS
      <3>2. CASE req' = [req EXCEPT ![w].pc = "create"]
        BY <2>5, <3>1, <3>2 DEF CheckLimit, Request, RequestRecord, PC
      <3>3. CASE req' = [req EXCEPT ![w].pc = "find", ![w].company = None,
                                    ![w].refused = @ \cup {req[w].company}]
        BY <2>5, <3>1, <3>3 DEF CheckLimit, Request, RequestRecord, PC
      <3>4. QED
        BY <2>5, <3>2, <3>3 DEF CheckLimit
    <2>6. ASSUME NEW w \in Workers, Create(w)
          PROVE  TypeOK'
      <3>1. CASE Finish(w, "error") /\ UNCHANGED rows
        BY <2>6, <3>1, FinishType DEF Create, Answer, Reply
      <3>2. CASE req[w].company \in companies
        <4>1. PICK r \in Fresh(req[w].user, req[w].kind, req[w].company) :
                rows' = rows \cup {r}
          BY <2>6, <3>2 DEF Create
        <4>2. r \in Row
          BY <2>6, <4>1 DEF Create, Fresh, Row, Request, RequestRecord
        <4>3. rows' \subseteq Row
          BY <4>1, <4>2
        <4>4. req' \in [Workers -> Request]
          BY <2>6, <3>2 DEF Create, Request, RequestRecord, PC
        <4>5. QED
          BY <2>6, <4>3, <4>4 DEF Create
      <3>3. QED
        BY <2>6, <3>1, <3>2 DEF Create
    <2>7. ASSUME NEW w \in Workers, ResultsChecked(w)
          PROVE  TypeOK'
      <3>1. CASE \E a \in Answer : Finish(w, a)
        BY <2>7, <3>1, FinishType DEF ResultsChecked
      <3>2. CASE req' = [req EXCEPT ![w].pc = "under_limit_search"]
        BY <2>7, <3>2 DEF ResultsChecked, Request, RequestRecord, PC
      <3>3. QED
        BY <2>7, <3>1, <3>2 DEF ResultsChecked, Answer, Reply
    <2>8. ASSUME NEW w \in Workers, UnderLimitSearch(w)
          PROVE  TypeOK'
      <3>1. CASE Finish(w, "limit_exceeded")
        BY <2>8, <3>1, FinishType DEF UnderLimitSearch, Answer, Reply
      <3>2. CASE req' = [req EXCEPT ![w].pc = "under_limit_suggest"]
        BY <2>8, <3>2 DEF UnderLimitSearch, Request, RequestRecord, PC
      <3>3. QED
        BY <2>8, <3>1, <3>2 DEF UnderLimitSearch
    <2>9. ASSUME NEW w \in Workers, UnderLimitSuggest(w)
          PROVE  TypeOK'
      BY <2>9, FinishType DEF UnderLimitSuggest, Answer, Reply
    <2>10. ASSUME NEW w \in Workers, DestroyRow(w)
          PROVE  TypeOK'
      <3>1. PICK r \in req[w].doomed :
              /\ rows' = rows \ {r}
              /\ req' = [v \in Workers |->
                           IF v = w THEN [req[w] EXCEPT !.doomed = @ \ {r}]
                                    ELSE Forgets(v, r)]
        BY <2>10 DEF DestroyRow
      <3>2. ASSUME NEW v \in Workers
            PROVE  Forgets(v, r) \in Request
        <4>1. req[v] \in Request
          OBVIOUS
        <4>2. [req[v] EXCEPT !.known = @ \ {r.company}, !.refused = {}]
                \in Request
          BY <4>1 DEF Request, RequestRecord
        <4>3. QED
          BY <4>1, <4>2 DEF Forgets
      <3>3. [req[w] EXCEPT !.doomed = @ \ {r}] \in Request
        BY DEF Request, RequestRecord
      <3>4. req' \in [Workers -> Request]
        BY <3>1, <3>2, <3>3
      <3>5. QED
        BY <2>10, <3>1, <3>4 DEF DestroyRow
    <2>11. ASSUME NEW w \in Workers, ResetDone(w)
          PROVE  TypeOK'
      BY <2>11, FinishType DEF ResetDone, Answer, Reply
    <2>12. ASSUME NEW c \in Companies, DestroyCompany(c)
          PROVE  TypeOK'
      BY <2>12 DEF DestroyCompany
    <2>13. CASE UNCHANGED vars
      BY <2>13 DEF vars
    <2>14. QED
      BY <2>1, <2>2, <2>3, <2>4, <2>5, <2>6, <2>7, <2>8, <2>9, <2>10, <2>11,
         <2>12, <2>13 DEF Next, Accept, Serve
  <1>3. QED
    BY <1>1, <1>2, PTL DEF Spec

-----------------------------------------------------------------------------
(* Counting rows and threads *)

(* Selections of finite tables, and of the threads, can be counted. *)
LEMMA Countable ==
  ASSUME IsFiniteSet(rows), NEW u, NEW k
  PROVE  /\ IsFiniteSet(RowsFor(u, k))
         /\ Cardinality(RowsFor(u, k)) \in Nat
         /\ IsFiniteSet(Creating(u, k))
         /\ Cardinality(Creating(u, k)) \in Nat
         /\ Cardinality(Creating(u, k)) <= Cardinality(Workers)
         /\ Cardinality(Workers) \in Nat \ {0}
  <1>1. RowsFor(u, k) \subseteq rows /\ Creating(u, k) \subseteq Workers
    BY DEF RowsFor, Creating
  <1>2. Cardinality(Workers) \in Nat \ {0}
    BY FS_CardinalityType, FS_EmptySet, WorkersAssumption
  <1>3. QED
    BY <1>1, <1>2, FS_Subset, FS_CardinalityType, WorkersAssumption

(* No thread turns to create in this step. *)
NoNewCreator ==
  \A v \in Workers :
      req'[v].pc = "create" =>
          /\ req[v].pc = "create"
          /\ req'[v].user = req[v].user
          /\ req'[v].kind = req[v].kind

(* A step that adds no row and no creating thread keeps the bound. *)
LEMMA BoundKept ==
  ASSUME IsFiniteSet(rows), OvershootBound, rows' \subseteq rows, NoNewCreator
  PROVE  IsFiniteSet(rows') /\ OvershootBound'
  <1>1. IsFiniteSet(rows')
    BY FS_Subset
  <1>2. ASSUME NEW u \in Users, NEW k \in Kinds
        PROVE  Cardinality(RowsFor(u, k)') + Cardinality(Creating(u, k)')
                 <= LIMITS[k] + Cardinality(Workers) - 1
    <2>1. RowsFor(u, k)' \subseteq RowsFor(u, k)
      BY DEF RowsFor
    <2>2. Creating(u, k)' \subseteq Creating(u, k)
      BY DEF Creating, NoNewCreator
    <2>3. /\ Cardinality(RowsFor(u, k)') <= Cardinality(RowsFor(u, k))
          /\ Cardinality(RowsFor(u, k)') \in Nat
      BY <2>1, Countable, FS_Subset, FS_CardinalityType
    <2>4. /\ Cardinality(Creating(u, k)') <= Cardinality(Creating(u, k))
          /\ Cardinality(Creating(u, k)') \in Nat
      BY <2>2, Countable, FS_Subset, FS_CardinalityType
    <2>5. Cardinality(RowsFor(u, k)) + Cardinality(Creating(u, k))
            <= LIMITS[k] + Cardinality(Workers) - 1
      BY DEF OvershootBound
    <2>6. LIMITS[k] \in Nat
      BY LimitsAssumption
    <2>7. QED
      BY <2>3, <2>4, <2>5, <2>6, Countable
  <1>3. QED
    BY <1>1, <1>2 DEF OvershootBound

(***************************************************************************)
(* A thread that has found room: the rows are fewer than the limit and the *)
(* threads about to create, itself included, at most all of them.          *)
(***************************************************************************)
LEMMA BoundKeptByCheck ==
  ASSUME TypeOK, IsFiniteSet(rows), OvershootBound, NEW w \in Workers,
         CheckLimit(w), check_limit(req[w].user, req[w].kind)
  PROVE  OvershootBound'
  <1>1. /\ rows' = rows
        /\ req' = [req EXCEPT ![w].pc = "create"]
        /\ req[w].pc = "check_limit"
    BY DEF CheckLimit
  <1>2. ASSUME NEW u \in Users, NEW k \in Kinds
        PROVE  Cardinality(RowsFor(u, k)') + Cardinality(Creating(u, k)')
                 <= LIMITS[k] + Cardinality(Workers) - 1
    <2>1. RowsFor(u, k)' = RowsFor(u, k)
      BY <1>1 DEF RowsFor
    <2>2. /\ Cardinality(Creating(u, k)') \in Nat
          /\ Cardinality(Creating(u, k)') <= Cardinality(Workers)
      BY FS_Subset, FS_CardinalityType, WorkersAssumption DEF Creating
    <2>3. LIMITS[k] \in Nat
      BY LimitsAssumption
    <2>4. CASE req[w].user = u /\ req[w].kind = k
      <3>1. Cardinality(RowsFor(u, k)) < LIMITS[k]
        BY <2>4 DEF check_limit
      <3>2. QED
        BY <2>1, <2>2, <2>3, <3>1, Countable
    <2>5. CASE ~(req[w].user = u /\ req[w].kind = k)
      <3>1. Creating(u, k)' = Creating(u, k)
        BY <1>1, <2>5 DEF Creating, TypeOK, Request, RequestRecord
      <3>2. QED
        BY <2>1, <3>1 DEF OvershootBound
    <2>6. QED
      BY <2>4, <2>5
  <1>3. QED
    BY <1>2 DEF OvershootBound

(* Creating a row turns a creating thread into a row. *)
LEMMA BoundKeptByCreate ==
  ASSUME TypeOK, IsFiniteSet(rows), OvershootBound, NEW w \in Workers,
         Create(w), req[w].company \in companies
  PROVE  IsFiniteSet(rows') /\ OvershootBound'
  <1> DEFINE me == req[w].user
             mine == req[w].kind
  <1>1. PICK r \in Fresh(me, mine, req[w].company) : rows' = rows \cup {r}
    BY DEF Create
  <1>2. /\ r \notin rows
        /\ r.user = me
        /\ r.kind = mine
    BY DEF Fresh, Held
  <1>3. IsFiniteSet(rows')
    BY <1>1, FS_AddElement
  <1>4. /\ req[w].pc = "create"
        /\ \A v \in Workers : v # w => req'[v] = req[v]
        /\ req'[w].pc = "find"
    BY DEF Create, TypeOK, Request, RequestRecord
  <1>5. ASSUME NEW u \in Users, NEW k \in Kinds
        PROVE  Cardinality(RowsFor(u, k)') + Cardinality(Creating(u, k)')
                 <= LIMITS[k] + Cardinality(Workers) - 1
    <2>1. CASE me = u /\ mine = k
      <3>1. RowsFor(u, k)' = RowsFor(u, k) \cup {r}
        BY <1>1, <1>2, <2>1 DEF RowsFor
      <3>2. r \notin RowsFor(u, k)
        BY <1>2 DEF RowsFor
      <3>3. Cardinality(RowsFor(u, k)') = Cardinality(RowsFor(u, k)) + 1
        BY <3>1, <3>2, Countable, FS_AddElement
      <3>4. Creating(u, k)' = Creating(u, k) \ {w}
        BY <1>4 DEF Creating
      <3>5. w \in Creating(u, k)
        BY <1>4, <2>1 DEF Creating
      <3>6. Cardinality(Creating(u, k)') = Cardinality(Creating(u, k)) - 1
        BY <3>4, <3>5, Countable, FS_RemoveElement
      <3>7. Cardinality(RowsFor(u, k)) + Cardinality(Creating(u, k))
              <= LIMITS[k] + Cardinality(Workers) - 1
        BY DEF OvershootBound
      <3>8. LIMITS[k] \in Nat
        BY LimitsAssumption
      <3>9. QED
        BY <3>3, <3>6, <3>7, <3>8, Countable
    <2>2. CASE ~(me = u /\ mine = k)
      <3>1. RowsFor(u, k)' = RowsFor(u, k)
        BY <1>1, <1>2, <2>2 DEF RowsFor
      <3>2. Creating(u, k)' = Creating(u, k)
        BY <1>4, <2>2 DEF Creating
      <3>3. QED
        BY <3>1, <3>2 DEF OvershootBound
    <2>3. QED
      BY <2>1, <2>2
  <1>6. QED
    BY <1>3, <1>5 DEF OvershootBound

-----------------------------------------------------------------------------
(* The inductive invariant *)

Inv == TypeOK /\ IsFiniteSet(rows) /\ OvershootBound

(* Beginning or finishing a request makes no thread create. *)
LEMMA BeginFinish ==
  ASSUME TypeOK, NEW w \in Workers, NEW u, NEW k, NEW S, NEW a,
         Begin(w, u, k, S) \/ Finish(w, a)
  PROVE  NoNewCreator
  BY DEF Begin, Finish, Idle, NoNewCreator, TypeOK

(* Every statement but a passed check and a creation leaves the bound alone. *)
LEMMA OtherSteps ==
  ASSUME TypeOK, [Next]_vars,
         \A w \in Workers :
            /\ ~(CheckLimit(w) /\ check_limit(req[w].user, req[w].kind))
            /\ ~(Create(w) /\ req[w].company \in companies)
  PROVE  rows' \subseteq rows /\ NoNewCreator
  <1>1. ASSUME NEW w \in Workers, NEW u \in Users,
               NEW fuzzy \in SUBSET companies, NEW exact \in SUBSET companies,
               Suggest(w, u, fuzzy, exact)
        PROVE  rows' \subseteq rows /\ NoNewCreator
    <2>1. CASE Begin(w, u, "company_search", search_name(fuzzy, exact))
      BY <1>1, <2>1, BeginFinish DEF Suggest
    <2>2. CASE \E a : req' = [req EXCEPT ![w] = [Idle EXCEPT !.answer = a]]
      BY <1>1, <2>2 DEF Suggest, Idle, NoNewCreator, TypeOK
    <2>3. QED
      BY <1>1, <2>1, <2>2 DEF Suggest
  <1>2. ASSUME NEW w \in Workers, NEW u \in Users, NEW c \in Companies,
               SuggestAddress(w, u, c)
        PROVE  rows' \subseteq rows /\ NoNewCreator
    BY <1>2, BeginFinish DEF SuggestAddress
  <1>3. ASSUME NEW w \in Workers, NEW u \in Users, NEW k \in Kinds,
               ResetLimit(w, u, k)
        PROVE  rows' \subseteq rows /\ NoNewCreator
    BY <1>3 DEF ResetLimit, Idle, NoNewCreator, TypeOK
  <1>4. ASSUME NEW w \in Workers, FindCompany(w)
        PROVE  rows' \subseteq rows /\ NoNewCreator
    <2>1. CASE Finish(w, "error")
      BY <1>4, <2>1, BeginFinish DEF FindCompany
    <2>2. CASE ~Finish(w, "error")
      BY <1>4, <2>2 DEF FindCompany, NoNewCreator, TypeOK, Request, RequestRecord
    <2>3. QED
      BY <2>1, <2>2
  <1>5. ASSUME NEW w \in Workers, CheckLimit(w)
        PROVE  rows' \subseteq rows /\ NoNewCreator
    BY <1>5 DEF CheckLimit, NoNewCreator, TypeOK, Request, RequestRecord
  <1>6. ASSUME NEW w \in Workers, Create(w)
        PROVE  rows' \subseteq rows /\ NoNewCreator
    BY <1>6, BeginFinish DEF Create
  <1>7. ASSUME NEW w \in Workers, ResultsChecked(w)
        PROVE  rows' \subseteq rows /\ NoNewCreator
    <2>1. CASE \E a : Finish(w, a)
      BY <1>7, <2>1, BeginFinish DEF ResultsChecked
    <2>2. CASE req' = [req EXCEPT ![w].pc = "under_limit_search"]
      BY <1>7, <2>2 DEF ResultsChecked, NoNewCreator, TypeOK, Request, RequestRecord
    <2>3. QED
      BY <1>7, <2>1, <2>2 DEF ResultsChecked
  <1>8. ASSUME NEW w \in Workers, UnderLimitSearch(w)
        PROVE  rows' \subseteq rows /\ NoNewCreator
    <2>1. CASE Finish(w, "limit_exceeded")
      BY <1>8, <2>1, BeginFinish DEF UnderLimitSearch
    <2>2. CASE req' = [req EXCEPT ![w].pc = "under_limit_suggest"]
      BY <1>8, <2>2 DEF UnderLimitSearch, NoNewCreator, TypeOK, Request, RequestRecord
    <2>3. QED
      BY <1>8, <2>1, <2>2 DEF UnderLimitSearch
  <1>9. ASSUME NEW w \in Workers, UnderLimitSuggest(w)
        PROVE  rows' \subseteq rows /\ NoNewCreator
    BY <1>9, BeginFinish DEF UnderLimitSuggest
  <1>10. ASSUME NEW w \in Workers, DestroyRow(w)
         PROVE  rows' \subseteq rows /\ NoNewCreator
    <2>1. PICK r \in req[w].doomed :
            /\ rows' = rows \ {r}
            /\ req' = [v \in Workers |->
                         IF v = w THEN [req[w] EXCEPT !.doomed = @ \ {r}]
                                  ELSE Forgets(v, r)]
      BY <1>10 DEF DestroyRow
    <2>2. QED
      BY <2>1 DEF Forgets, NoNewCreator, TypeOK, Request, RequestRecord
  <1>11. ASSUME NEW w \in Workers, ResetDone(w)
         PROVE  rows' \subseteq rows /\ NoNewCreator
    BY <1>11, BeginFinish DEF ResetDone
  <1>12. ASSUME NEW c \in Companies, DestroyCompany(c)
         PROVE  rows' \subseteq rows /\ NoNewCreator
    BY <1>12 DEF DestroyCompany, NoNewCreator
  <1>13. CASE UNCHANGED vars
    BY <1>13 DEF vars, NoNewCreator
  <1>14. QED
    BY <1>1, <1>2, <1>3, <1>4, <1>5, <1>6, <1>7, <1>8, <1>9, <1>10, <1>11,
       <1>12, <1>13 DEF Next, Accept, Serve

LEMMA InvIsInductive == Inv /\ TypeOK' /\ [Next]_vars => Inv'
  <1> SUFFICES ASSUME Inv, TypeOK', [Next]_vars PROVE Inv'
    OBVIOUS
  <1>1. CASE \E w \in Workers :
                CheckLimit(w) /\ check_limit(req[w].user, req[w].kind)
    BY <1>1, BoundKeptByCheck DEF Inv, CheckLimit
  <1>2. CASE \E w \in Workers : Create(w) /\ req[w].company \in companies
    BY <1>2, BoundKeptByCreate DEF Inv
  <1>3. CASE \A w \in Workers :
               /\ ~(CheckLimit(w) /\ check_limit(req[w].user, req[w].kind))
               /\ ~(Create(w) /\ req[w].company \in companies)
    BY <1>3, OtherSteps, BoundKept DEF Inv
  <1>4. QED
    BY <1>1, <1>2, <1>3

LEMMA InvHolds == Spec => []Inv
  <1>1. Init => Inv
    <2> SUFFICES ASSUME Init PROVE Inv
      OBVIOUS
    <2>1. TypeOK
      BY IdleType DEF Init, TypeOK
    <2>2. IsFiniteSet(rows)
      BY FS_EmptySet DEF Init
    <2>3. ASSUME NEW u \in Users, NEW k \in Kinds
          PROVE  Cardinality(RowsFor(u, k)) + Cardinality(Creating(u, k))
                   <= LIMITS[k] + Cardinality(Workers) - 1
      <3>1. RowsFor(u, k) = {} /\ Creating(u, k) = {}
        BY DEF Init, Idle, RowsFor, Creating
      <3>2. LIMITS[k] \in Nat
        BY LimitsAssumption
      <3>3. QED
        BY <2>2, <3>1, <3>2, Countable, FS_EmptySet
    <2>4. QED
      BY <2>1, <2>2, <2>3 DEF Inv, OvershootBound
  <1>2. QED
    BY <1>1, InvIsInductive, TypeCorrect, PTL DEF Spec

(***************************************************************************)
(* Any number of threads gets a user past a limit by at most the number of *)
(* the other threads.                                                      *)
(***************************************************************************)
THEOREM Overshoot == Spec => []OvershootBound
  BY InvHolds, PTL DEF Inv

(***************************************************************************)
(* With a single thread check_created_by keeps the limits as they are      *)
(* written.                                                                *)
(***************************************************************************)
THEOREM SequentialLimit ==
  ASSUME Cardinality(Workers) = 1
  PROVE  Spec => []WithinLimit
  <1>1. Inv => WithinLimit
    <2> SUFFICES ASSUME Inv, NEW u \in Users, NEW k \in Kinds
                 PROVE  Cardinality(RowsFor(u, k)) <= LIMITS[k]
      BY DEF WithinLimit
    <2>1. Cardinality(RowsFor(u, k)) + Cardinality(Creating(u, k)) <= LIMITS[k]
      BY LimitsAssumption DEF Inv, OvershootBound
    <2>2. QED
      BY <2>1, Countable, LimitsAssumption DEF Inv
  <1>2. QED
    BY <1>1, InvHolds, PTL

-----------------------------------------------------------------------------
(* Refinement of the abstract quota *)

(* A user sees at most as many companies as there are rows. *)
LEMMA VisibleAtMostRows ==
  ASSUME IsFiniteSet(rows), NEW u, NEW k
  PROVE  /\ IsFiniteSet(Visible(u, k))
         /\ Cardinality(Visible(u, k)) \in Nat
         /\ Cardinality(Visible(u, k)) <= Cardinality(RowsFor(u, k))
  <1> DEFINE f == [r \in RowsFor(u, k) |-> r.company]
  <1>1. f \in Surjection(RowsFor(u, k), Visible(u, k))
    BY DEF Surjection, Visible
  <1>2. QED
    BY <1>1, Countable, FS_Surjection, FS_CardinalityType

(* A step that leaves the rows alone leaves what is visible alone. *)
LEMMA SameRowsSameVisible ==
  ASSUME rows' = rows
  PROVE  UNCHANGED VisibleNow
  BY DEF VisibleNow, Visible, RowsFor

(* Creating a row grants its company, or stutters when the row is a copy. *)
LEMMA CreateImplementsGrant ==
  ASSUME Inv, NEW w \in Workers, Create(w), req[w].company \in companies
  PROVE  [Quota!Next]_VisibleNow
  <1> DEFINE me == req[w].user
             mine == req[w].kind
             c == req[w].company
  <1>1. PICK r \in Fresh(me, mine, c) : rows' = rows \cup {r}
    BY DEF Create
  <1>2. r.user = me /\ r.kind = mine /\ r.company = c
    BY DEF Fresh
  <1>3. me \in Users /\ mine \in Kinds /\ c \in Companies
    BY DEF Create, Inv, TypeOK, Request, RequestRecord
  <1>4. ASSUME NEW u \in Users, NEW k \in Kinds
        PROVE  Visible(u, k)' = IF u = me /\ k = mine
                                  THEN Visible(u, k) \cup {c} ELSE Visible(u, k)
    <2>1. CASE u = me /\ k = mine
      <3>1. RowsFor(u, k)' = RowsFor(u, k) \cup {r}
        BY <1>1, <1>2, <2>1 DEF RowsFor
      <3>2. QED
        BY <1>2, <2>1, <3>1 DEF Visible
    <2>2. CASE ~(u = me /\ k = mine)
      <3>1. RowsFor(u, k)' = RowsFor(u, k)
        BY <1>1, <1>2, <2>2 DEF RowsFor
      <3>2. QED
        BY <2>2, <3>1 DEF Visible
    <2>3. QED
      BY <2>1, <2>2
  <1>5. VisibleNow' = [VisibleNow EXCEPT ![me][mine] = @ \cup {c}]
    BY <1>3, <1>4 DEF VisibleNow
  <1>6. Cardinality(VisibleNow[me][mine]) < Slack[mine]
    <2>1. w \in Creating(me, mine)
      BY DEF Create, Creating
    <2>2. Cardinality(Creating(me, mine)) >= 1
      BY <2>1, Countable, FS_EmptySet DEF Inv
    <2>3. Cardinality(RowsFor(me, mine)) + Cardinality(Creating(me, mine))
            <= LIMITS[mine] + Cardinality(Workers) - 1
      BY <1>3 DEF Inv, OvershootBound
    <2>4. VisibleNow[me][mine] = Visible(me, mine)
      BY <1>3 DEF VisibleNow
    <2>5. LIMITS[mine] \in Nat
      BY <1>3, LimitsAssumption
    <2>6. QED
      BY <1>3, <2>2, <2>3, <2>4, <2>5, Countable, VisibleAtMostRows DEF Inv, Slack
  <1>7. CASE c \in VisibleNow[me][mine]
    <2>1. c \in Visible(me, mine)
      BY <1>3, <1>7 DEF VisibleNow
    <2>2. \A u \in Users, k \in Kinds : Visible(u, k)' = Visible(u, k)
      BY <1>4, <2>1
    <2>3. QED
      BY <2>2 DEF VisibleNow
  <1>8. CASE c \notin VisibleNow[me][mine]
    <2>1. Quota!Grant(me, mine, c)
      <3>1. Quota!Cardinality(VisibleNow[me][mine])
              = Cardinality(VisibleNow[me][mine])
        BY DEF Quota!Cardinality, Cardinality
      <3>2. QED
        BY <1>5, <1>6, <1>8, <3>1 DEF Quota!Grant
    <2>2. QED
      BY <1>3, <2>1 DEF Quota!Next
  <1>9. QED
    BY <1>7, <1>8

(* Deleting a row forgets its company, or stutters when a copy remains. *)
LEMMA DestroyImplementsForget ==
  ASSUME Inv, NEW w \in Workers, DestroyRow(w)
  PROVE  [Quota!Next]_VisibleNow
  <1>1. PICK r \in req[w].doomed : rows' = rows \ {r}
    BY DEF DestroyRow
  <1>2. r \in Row
    BY DEF Inv, TypeOK, Request, RequestRecord
  <1> DEFINE me == r.user
             mine == r.kind
             c == r.company
  <1>3. me \in Users /\ mine \in Kinds /\ c \in Companies
    BY <1>2 DEF Row
  <1>4. ASSUME NEW u \in Users, NEW k \in Kinds, ~(u = me /\ k = mine)
        PROVE  Visible(u, k)' = Visible(u, k)
    <2>1. RowsFor(u, k)' = RowsFor(u, k)
      BY <1>1, <1>4 DEF RowsFor
    <2>2. QED
      BY <2>1 DEF Visible
  <1>5. CASE c \in Visible(me, mine)' \/ c \notin Visible(me, mine)
    <2>1. \A o : o # c => (o \in Visible(me, mine)' <=> o \in Visible(me, mine))
      BY <1>1 DEF Visible, RowsFor
    <2>2. c \in Visible(me, mine)' => c \in Visible(me, mine)
      BY <1>1 DEF Visible, RowsFor
    <2>3. Visible(me, mine)' = Visible(me, mine)
      BY <1>5, <2>1, <2>2 DEF Visible
    <2>4. \A u \in Users, k \in Kinds : Visible(u, k)' = Visible(u, k)
      BY <1>4, <2>3
    <2>5. QED
      BY <2>4 DEF VisibleNow
  <1>6. CASE c \notin Visible(me, mine)' /\ c \in Visible(me, mine)
    <2>1. Visible(me, mine)' = Visible(me, mine) \ {c}
      BY <1>1, <1>6 DEF Visible, RowsFor
    <2>2. VisibleNow' = [VisibleNow EXCEPT ![me][mine] = @ \ {c}]
      BY <1>3, <1>4, <2>1 DEF VisibleNow
    <2>3. c \in VisibleNow[me][mine]
      BY <1>3, <1>6 DEF VisibleNow
    <2>4. QED
      BY <1>3, <2>2, <2>3 DEF Quota!Next, Quota!Forget
  <1>7. QED
    BY <1>5, <1>6

(* The statements that touch the rows are the creation and the deletion. *)
LEMMA RowsChangeOnlyBy ==
  ASSUME TypeOK, [Next]_vars,
         \A w \in Workers :
            /\ ~(Create(w) /\ req[w].company \in companies)
            /\ ~DestroyRow(w)
  PROVE  rows' = rows
  <1>1. ASSUME NEW w \in Workers, Serve(w)
        PROVE  rows' = rows
    <2>1. CASE Create(w)
      BY <2>1 DEF Create
    <2>2. QED
      BY <1>1, <2>1 DEF Serve, FindCompany, CheckLimit, ResultsChecked,
         UnderLimitSearch, UnderLimitSuggest, ResetDone
  <1>2. ASSUME NEW w \in Workers, Accept(w)
        PROVE  rows' = rows
    BY <1>2 DEF Accept, Suggest, SuggestAddress, ResetLimit
  <1>3. QED
    BY <1>1, <1>2 DEF Next, vars, DestroyCompany

(***************************************************************************)
(* The table of visible companies, filled by concurrent requests, keeps    *)
(* the abstract quota with one object of slack per additional thread.      *)
(***************************************************************************)
THEOREM Refinement == Spec => ImplementsQuota
  <1>1. Init => Quota!Init
    BY DEF Init, Quota!Init, VisibleNow, Visible, RowsFor
  <1>2. Inv /\ [Next]_vars => [Quota!Next]_VisibleNow
    <2> SUFFICES ASSUME Inv, [Next]_vars PROVE [Quota!Next]_VisibleNow
      OBVIOUS
    <2>1. CASE \E w \in Workers : Create(w) /\ req[w].company \in companies
      BY <2>1, CreateImplementsGrant
    <2>2. CASE \E w \in Workers : DestroyRow(w)
      BY <2>2, DestroyImplementsForget
    <2>3. CASE \A w \in Workers :
                 /\ ~(Create(w) /\ req[w].company \in companies)
                 /\ ~DestroyRow(w)
      BY <2>3, RowsChangeOnlyBy, SameRowsSameVisible DEF Inv
    <2>4. QED
      BY <2>1, <2>2, <2>3
  <1>3. QED
    BY <1>1, <1>2, InvHolds, PTL DEF Spec, ImplementsQuota, Quota!Spec

-----------------------------------------------------------------------------
(* What a thread knows about the user's companies *)

(***************************************************************************)
(* Nothing of the work is left to a thread that has answered or resets;    *)
(* what a thread knows has its row; and a company is known, refused, still *)
(* to be looked at, or the one that is being looked at, but not two of     *)
(* these, except that a known one may have to be looked at.                *)
(***************************************************************************)
Honest(v) ==
  /\ req[v].pc \in {"answered", "destroy_all"} => req[v].known = {}
  /\ req[v].known \subseteq Visible(req[v].user, req[v].kind)
  /\ req[v].refused \cap (req[v].known \cup req[v].todo) = {}
  /\ req[v].pc \in {"check_limit", "create"} =>
        req[v].company \notin req[v].known \cup req[v].todo \cup req[v].refused

(***************************************************************************)
(* A thread that has refused a company works for a user at the limit, so   *)
(* that under_limit? stops it before it can answer with a suggestion.      *)
(***************************************************************************)
Complete(v) ==
  /\ req[v].pc # "answered" => req[v].answer = None
  /\ req[v].pc \in {"under_limit_search", "under_limit_suggest"}
       => req[v].kind = "company_search"
  /\ req[v].pc # "answered" /\ req[v].refused # {}
       => LIMITS[req[v].kind] <= Cardinality(RowsFor(req[v].user, req[v].kind))
  /\ (\/ req[v].pc \in {"under_limit_suggest", "destroy_all"}
      \/ req[v].answer = "suggestion")
       => req[v].refused = {}

Knowledge == \A v \in Workers : Honest(v) /\ Complete(v)

(* What a thread knows stays true while other threads add rows. *)
LEMMA StaysTold ==
  ASSUME TypeOK, IsFiniteSet(rows'), rows \subseteq rows',
         NEW v \in Workers, Honest(v), Complete(v), req'[v] = req[v]
  PROVE  Honest(v)' /\ Complete(v)'
  <1> DEFINE u == req[v].user
             k == req[v].kind
  <1>1. RowsFor(u, k) \subseteq RowsFor(u, k)'
    BY DEF RowsFor
  <1>2. Visible(u, k) \subseteq Visible(u, k)'
    BY <1>1 DEF Visible
  <1>3. Honest(v)'
    BY <1>2 DEF Honest
  <1>4. ASSUME req[v].pc # "answered", req[v].refused # {}
        PROVE  LIMITS[k] <= Cardinality(RowsFor(u, k)')
    <2>1. IsFiniteSet(RowsFor(u, k)')
      BY FS_Subset DEF RowsFor
    <2>2. /\ Cardinality(RowsFor(u, k)) <= Cardinality(RowsFor(u, k)')
          /\ Cardinality(RowsFor(u, k)) \in Nat
          /\ Cardinality(RowsFor(u, k)') \in Nat
      BY <1>1, <2>1, FS_Subset, FS_CardinalityType
    <2>3. LIMITS[k] \in Nat
      BY <1>4, LimitsAssumption DEF TypeOK, Request
    <2>4. LIMITS[k] <= Cardinality(RowsFor(u, k))
      BY <1>4 DEF Complete
    <2>5. QED
      BY <2>2, <2>3, <2>4
  <1>5. Complete(v)'
    BY <1>4 DEF Complete
  <1>6. QED
    BY <1>3, <1>5

(* A step that only adds rows is up to the thread that takes it. *)
LEMMA UpToOneThread ==
  ASSUME TypeOK, Knowledge, IsFiniteSet(rows'), rows \subseteq rows',
         NEW w \in Workers, \A v \in Workers \ {w} : req'[v] = req[v],
         Honest(w)', Complete(w)'
  PROVE  Knowledge'
  <1>1. ASSUME NEW v \in Workers
        PROVE  Honest(v)' /\ Complete(v)'
    BY <1>1, StaysTold DEF Knowledge
  <1>2. QED
    BY <1>1 DEF Knowledge

(* The beginning and the end of a request *)
LEMMA BeginTold ==
  ASSUME TypeOK, Knowledge, IsFiniteSet(rows), rows' = rows,
         NEW w \in Workers, NEW u \in Users, NEW k \in Kinds, NEW S,
         Begin(w, u, k, S)
  PROVE  Knowledge'
  <1>1. req'[w] = [Idle EXCEPT !.pc = "find", !.user = u, !.kind = k,
                               !.todo = S, !.known = Visible(u, k)]
    BY DEF Begin, TypeOK
  <1>2. Visible(u, k)' = Visible(u, k)
    BY DEF Visible, RowsFor
  <1>3. Honest(w)' /\ Complete(w)'
    BY <1>1, <1>2 DEF Honest, Complete, Idle
  <1>4. QED
    BY <1>3, UpToOneThread DEF Begin, TypeOK

LEMMA FinishTold ==
  ASSUME TypeOK, Knowledge, IsFiniteSet(rows), rows' = rows,
         NEW w \in Workers, NEW a, Finish(w, a),
         a = "suggestion" => req[w].refused = {}
  PROVE  Knowledge'
  <1>1. req'[w] = [Idle EXCEPT !.refused = req[w].refused, !.answer = a]
    BY DEF Finish, TypeOK
  <1>2. Honest(w)' /\ Complete(w)'
    BY <1>1 DEF Honest, Complete, Idle
  <1>3. QED
    BY <1>2, UpToOneThread DEF Finish, TypeOK

(* Accepting a request *)
LEMMA AcceptTold ==
  ASSUME TypeOK, Knowledge, IsFiniteSet(rows), NEW w \in Workers, Accept(w)
  PROVE  Knowledge'
  <1>1. ASSUME NEW u \in Users, NEW fuzzy \in SUBSET companies,
               NEW exact \in SUBSET companies, Suggest(w, u, fuzzy, exact)
        PROVE  Knowledge'
    <2>1. CASE Begin(w, u, "company_search", search_name(fuzzy, exact))
      BY <1>1, <2>1, BeginTold DEF Suggest, Kinds
    <2>2. CASE \E a : req' = [req EXCEPT ![w] = [Idle EXCEPT !.answer = a]]
      <3>1. PICK a : req' = [req EXCEPT ![w] = [Idle EXCEPT !.answer = a]]
        BY <2>2
      <3>2. req'[w] = [Idle EXCEPT !.answer = a]
        BY <3>1 DEF TypeOK
      <3>3. Honest(w)' /\ Complete(w)'
        BY <3>2 DEF Honest, Complete, Idle
      <3>4. QED
        BY <1>1, <3>1, <3>3, UpToOneThread DEF Suggest, TypeOK
    <2>3. QED
      BY <1>1, <2>1, <2>2 DEF Suggest
  <1>2. ASSUME NEW u \in Users, NEW c \in Companies, SuggestAddress(w, u, c)
        PROVE  Knowledge'
    BY <1>2, BeginTold DEF SuggestAddress, Kinds
  <1>3. ASSUME NEW u \in Users, NEW k \in Kinds, ResetLimit(w, u, k)
        PROVE  Knowledge'
    <2>1. req'[w] = [Idle EXCEPT !.pc = "destroy_all", !.user = u, !.kind = k,
                                 !.doomed = RowsFor(u, k)]
      BY <1>3 DEF ResetLimit, TypeOK
    <2>2. Honest(w)' /\ Complete(w)'
      BY <2>1 DEF Honest, Complete, Idle
    <2>3. QED
      BY <1>3, <2>2, UpToOneThread DEF ResetLimit, TypeOK
  <1>4. QED
    BY <1>1, <1>2, <1>3 DEF Accept

(* Looking for the row of the next company *)
LEMMA FindTold ==
  ASSUME TypeOK, Knowledge, IsFiniteSet(rows), NEW w \in Workers,
         FindCompany(w)
  PROVE  Knowledge'
  <1> DEFINE r == req[w]
  <1>1. /\ r.pc = "find"
        /\ UNCHANGED <<companies, rows>>
        /\ r \in RequestRecord
        /\ Honest(w)
        /\ Complete(w)
    BY DEF FindCompany, Knowledge, TypeOK, Request
  <1>2. \A u, k : Visible(u, k)' = Visible(u, k)
    BY <1>1 DEF Visible, RowsFor
  <1>3. \A u, k : RowsFor(u, k)' = RowsFor(u, k)
    BY <1>1 DEF RowsFor
  <1>4. PICK c \in r.todo :
          \/ Finish(w, "error")
          \/ /\ c \in Visible(r.user, r.kind)
             /\ req' = [req EXCEPT ![w].todo = @ \ {c},
                                   ![w].granted = @ \cup {c},
                                   ![w].known = @ \cup {c}]
          \/ /\ c \notin Visible(r.user, r.kind)
             /\ req' = [req EXCEPT ![w].pc = "check_limit",
                                   ![w].company = c, ![w].todo = @ \ {c}]
    BY DEF FindCompany
  <1>5. CASE Finish(w, "error")
    BY <1>1, <1>5, FinishTold
  <1>6. CASE /\ c \in Visible(r.user, r.kind)
             /\ req' = [req EXCEPT ![w].todo = @ \ {c},
                                   ![w].granted = @ \cup {c},
                                   ![w].known = @ \cup {c}]
    <2>1. req'[w] = [r EXCEPT !.todo = @ \ {c}, !.granted = @ \cup {c},
                              !.known = @ \cup {c}]
      BY <1>6 DEF TypeOK
    <2>2. /\ req'[w].pc = "find"
          /\ req'[w].user = r.user
          /\ req'[w].kind = r.kind
          /\ req'[w].answer = r.answer
          /\ req'[w].refused = r.refused
          /\ req'[w].todo = r.todo \ {c}
          /\ req'[w].known = r.known \cup {c}
      BY <1>1, <2>1 DEF RequestRecord
    <2>3. Honest(w)'
      BY <1>1, <1>2, <1>6, <2>2 DEF Honest
    <2>4. Complete(w)'
      BY <1>1, <1>3, <2>2 DEF Complete
    <2>5. QED
      BY <1>1, <1>6, <2>3, <2>4, UpToOneThread DEF TypeOK
  <1>7. CASE /\ c \notin Visible(r.user, r.kind)
             /\ req' = [req EXCEPT ![w].pc = "check_limit",
                                   ![w].company = c, ![w].todo = @ \ {c}]
    <2>1. req'[w] = [r EXCEPT !.pc = "check_limit", !.company = c,
                              !.todo = @ \ {c}]
      BY <1>7 DEF TypeOK
    <2>2. /\ req'[w].pc = "check_limit"
          /\ req'[w].company = c
          /\ req'[w].user = r.user
          /\ req'[w].kind = r.kind
          /\ req'[w].answer = r.answer
          /\ req'[w].refused = r.refused
          /\ req'[w].todo = r.todo \ {c}
          /\ req'[w].known = r.known
      BY <1>1, <2>1 DEF RequestRecord
    <2>3. Honest(w)'
      BY <1>1, <1>2, <1>7, <2>2 DEF Honest
    <2>4. Complete(w)'
      BY <1>1, <1>3, <2>2 DEF Complete
    <2>5. QED
      BY <1>1, <1>7, <2>3, <2>4, UpToOneThread DEF TypeOK
  <1>8. QED
    BY <1>4, <1>5, <1>6, <1>7

(* Counting: a refusal has met the limit. *)
LEMMA CheckTold ==
  ASSUME TypeOK, Knowledge, IsFiniteSet(rows), NEW w \in Workers,
         CheckLimit(w)
  PROVE  Knowledge'
  <1> DEFINE r == req[w]
  <1>1. /\ r.pc = "check_limit"
        /\ UNCHANGED <<companies, rows>>
        /\ r \in RequestRecord
        /\ r.kind \in Kinds
        /\ Honest(w)
        /\ Complete(w)
    BY DEF CheckLimit, Knowledge, TypeOK, Request
  <1>2. \A u, k : Visible(u, k)' = Visible(u, k)
    BY <1>1 DEF Visible, RowsFor
  <1>3. \A u, k : RowsFor(u, k)' = RowsFor(u, k)
    BY <1>1 DEF RowsFor
  <1>4. CASE req' = [req EXCEPT ![w].pc = "create"]
    <2>1. /\ req'[w] = [r EXCEPT !.pc = "create"]
      BY <1>4 DEF TypeOK
    <2>2. /\ req'[w].pc = "create"
          /\ req'[w].company = r.company
          /\ req'[w].user = r.user
          /\ req'[w].kind = r.kind
          /\ req'[w].answer = r.answer
          /\ req'[w].refused = r.refused
          /\ req'[w].todo = r.todo
          /\ req'[w].known = r.known
      BY <1>1, <2>1 DEF RequestRecord
    <2>3. Honest(w)'
      BY <1>1, <1>2, <2>2 DEF Honest
    <2>4. Complete(w)'
      BY <1>1, <1>3, <2>2 DEF Complete
    <2>5. QED
      BY <1>1, <1>4, <2>3, <2>4, UpToOneThread DEF TypeOK
  <1>5. CASE /\ ~check_limit(r.user, r.kind)
             /\ req' = [req EXCEPT ![w].pc = "find", ![w].company = None,
                                   ![w].refused = @ \cup {r.company}]
    <2>1. req'[w] = [r EXCEPT !.pc = "find", !.company = None,
                              !.refused = @ \cup {r.company}]
      BY <1>5 DEF TypeOK
    <2>2. /\ req'[w].pc = "find"
          /\ req'[w].user = r.user
          /\ req'[w].kind = r.kind
          /\ req'[w].answer = r.answer
          /\ req'[w].refused = r.refused \cup {r.company}
          /\ req'[w].todo = r.todo
          /\ req'[w].known = r.known
      BY <1>1, <2>1 DEF RequestRecord
    <2>3. Honest(w)'
      BY <1>1, <1>2, <2>2 DEF Honest
    <2>4. LIMITS[r.kind] <= Cardinality(RowsFor(r.user, r.kind))
      <3>1. /\ LIMITS[r.kind] \in Nat
            /\ Cardinality(RowsFor(r.user, r.kind)) \in Nat
        BY <1>1, Countable, LimitsAssumption
      <3>2. QED
        BY <1>5, <3>1 DEF check_limit
    <2>5. Complete(w)'
      BY <1>1, <1>3, <2>2, <2>4, NoneAssumption DEF Complete, Reply
    <2>6. QED
      BY <1>1, <1>5, <2>3, <2>5, UpToOneThread DEF TypeOK
  <1>6. QED
    BY <1>4, <1>5 DEF CheckLimit

(* Creating the row that the grant is recorded in *)
LEMMA CreateTold ==
  ASSUME TypeOK, Knowledge, IsFiniteSet(rows), NEW w \in Workers, Create(w)
  PROVE  Knowledge'
  <1> DEFINE r == req[w]
             c == r.company
  <1>1. /\ r.pc = "create"
        /\ r \in RequestRecord
        /\ r.kind \in Kinds
        /\ Honest(w)
        /\ Complete(w)
    BY DEF Create, Knowledge, TypeOK, Request
  <1>2. CASE Finish(w, "error") /\ UNCHANGED rows
    BY <1>2, FinishTold
  <1>3. CASE c \in companies
    <2>1. PICK row \in Fresh(r.user, r.kind, c) : rows' = rows \cup {row}
      BY <1>3 DEF Create
    <2>2. row.user = r.user /\ row.kind = r.kind /\ row.company = c
      BY DEF Fresh
    <2>3. IsFiniteSet(rows') /\ rows \subseteq rows'
      BY <2>1, FS_AddElement
    <2>4. \A u, k : u = r.user /\ k = r.kind
                     => RowsFor(u, k)' = RowsFor(u, k) \cup {row}
      BY <2>1, <2>2 DEF RowsFor
    <2>5. \A u, k : Visible(u, k) \subseteq Visible(u, k)'
      BY <2>1 DEF Visible, RowsFor
    <2>6. \A u, k : u = r.user /\ k = r.kind => c \in Visible(u, k)'
      BY <2>2, <2>4 DEF Visible
    <2>7. req' = [req EXCEPT ![w].pc = "find", ![w].company = None,
                             ![w].granted = @ \cup {c},
                             ![w].known = @ \cup {c}]
      BY <1>3 DEF Create
    <2>8. req'[w] = [r EXCEPT !.pc = "find", !.company = None,
                              !.granted = @ \cup {c}, !.known = @ \cup {c}]
      BY <2>7 DEF TypeOK
    <2>9. /\ req'[w].pc = "find"
          /\ req'[w].user = r.user
          /\ req'[w].kind = r.kind
          /\ req'[w].answer = r.answer
          /\ req'[w].refused = r.refused
          /\ req'[w].todo = r.todo
          /\ req'[w].known = r.known \cup {c}
      BY <1>1, <2>8 DEF RequestRecord
    <2>10. Honest(w)'
      BY <1>1, <2>5, <2>9, <2>6 DEF Honest
    <2>11. \A u, k : /\ Cardinality(RowsFor(u, k))
                           <= Cardinality(RowsFor(u, k)')
                     /\ Cardinality(RowsFor(u, k)') \in Nat
                     /\ Cardinality(RowsFor(u, k)) \in Nat
      <3>1. SUFFICES ASSUME NEW u, NEW k
                     PROVE  /\ Cardinality(RowsFor(u, k))
                                 <= Cardinality(RowsFor(u, k)')
                            /\ Cardinality(RowsFor(u, k)') \in Nat
                            /\ Cardinality(RowsFor(u, k)) \in Nat
        OBVIOUS
      <3>2. RowsFor(u, k) \subseteq RowsFor(u, k)' /\ RowsFor(u, k)' \subseteq rows'
        BY <2>3 DEF RowsFor
      <3>3. IsFiniteSet(RowsFor(u, k)')
        BY <2>3, <3>2, FS_Subset
      <3>4. QED
        BY <3>2, <3>3, FS_Subset, FS_CardinalityType
    <2>12. LIMITS[r.kind] \in Nat
      BY <1>1, LimitsAssumption
    <2>13. Complete(w)'
      BY <1>1, <2>9, <2>11, <2>12 DEF Complete
    <2>14. QED
      BY <2>3, <2>7, <2>10, <2>13, UpToOneThread DEF TypeOK
  <1>4. QED
    BY <1>2, <1>3 DEF Create

(* The answer: both counts below their limits mean nothing was refused. *)
LEMMA AnswerTold ==
  ASSUME TypeOK, Knowledge, IsFiniteSet(rows), NEW w \in Workers,
         \/ ResultsChecked(w)
         \/ UnderLimitSearch(w)
         \/ UnderLimitSuggest(w)
         \/ ResetDone(w)
  PROVE  Knowledge'
  <1> DEFINE r == req[w]
  <1>1. /\ rows' = rows
        /\ r.pc # "answered"
        /\ r \in RequestRecord
        /\ r.kind \in Kinds
        /\ Honest(w)
        /\ Complete(w)
    BY DEF ResultsChecked, UnderLimitSearch, UnderLimitSuggest, ResetDone,
           Knowledge, TypeOK, Request
  <1>2. \A u, k : Visible(u, k)' = Visible(u, k)
    BY <1>1 DEF Visible, RowsFor
  <1>3. \A u, k : RowsFor(u, k)' = RowsFor(u, k)
    BY <1>1 DEF RowsFor
  <1>4. CASE \E a : Finish(w, a) /\ (a = "suggestion" => r.refused = {})
    BY <1>1, <1>4, FinishTold
  <1>5. CASE ResultsChecked(w)
    <2>1. CASE /\ r.kind = "company_search"
               /\ r.pc = "find"
               /\ req' = [req EXCEPT ![w].pc = "under_limit_search"]
      <3>1. req'[w] = [r EXCEPT !.pc = "under_limit_search"]
        BY <2>1 DEF TypeOK
      <3>2. /\ req'[w].pc = "under_limit_search"
            /\ req'[w].user = r.user
            /\ req'[w].kind = r.kind
            /\ req'[w].answer = r.answer
            /\ req'[w].refused = r.refused
            /\ req'[w].todo = r.todo
            /\ req'[w].known = r.known
        BY <1>1, <3>1 DEF RequestRecord
      <3>3. Honest(w)'
        BY <1>1, <1>2, <3>2 DEF Honest
      <3>4. Complete(w)'
        BY <1>1, <1>3, <2>1, <3>2 DEF Complete
      <3>5. QED
        BY <1>1, <2>1, <3>3, <3>4, UpToOneThread DEF TypeOK
    <2>2. QED
      BY <1>4, <1>5, <2>1 DEF ResultsChecked
  <1>6. CASE UnderLimitSearch(w)
    <2>1. CASE /\ check_limit(r.user, "company_search")
               /\ req' = [req EXCEPT ![w].pc = "under_limit_suggest"]
      <3>1. req'[w] = [r EXCEPT !.pc = "under_limit_suggest"]
        BY <2>1 DEF TypeOK
      <3>2. /\ req'[w].pc = "under_limit_suggest"
            /\ req'[w].user = r.user
            /\ req'[w].kind = r.kind
            /\ req'[w].answer = r.answer
            /\ req'[w].refused = r.refused
            /\ req'[w].todo = r.todo
            /\ req'[w].known = r.known
        BY <1>1, <3>1 DEF RequestRecord
      <3>3. Honest(w)'
        BY <1>1, <1>2, <3>2 DEF Honest
      <3>4. r.kind = "company_search"
        BY <1>1, <1>6 DEF UnderLimitSearch, Complete
      <3>5. ~(LIMITS[r.kind] <= Cardinality(RowsFor(r.user, r.kind)))
        BY <1>1, <2>1, <3>4, Countable, LimitsAssumption DEF check_limit
      <3>6. r.refused = {}
        BY <1>1, <3>5 DEF Complete
      <3>7. Complete(w)'
        BY <1>1, <3>2, <3>4, <3>6 DEF Complete
      <3>8. QED
        BY <1>1, <2>1, <3>3, <3>7, UpToOneThread DEF TypeOK
    <2>2. QED
      BY <1>4, <1>6, <2>1 DEF UnderLimitSearch
  <1>7. CASE UnderLimitSuggest(w)
    <2>1. r.refused = {}
      BY <1>1, <1>7 DEF UnderLimitSuggest, Complete
    <2>2. QED
      BY <1>4, <1>7, <2>1 DEF UnderLimitSuggest
  <1>8. CASE ResetDone(w)
    BY <1>4, <1>8 DEF ResetDone
  <1>9. QED
    BY <1>5, <1>6, <1>7, <1>8

(***************************************************************************)
(* A reset takes a row away from everybody who works for its user, and     *)
(* leaves all others what they know.                                       *)
(***************************************************************************)
LEMMA DestroyTold ==
  ASSUME TypeOK, Knowledge, IsFiniteSet(rows), NEW w \in Workers,
         DestroyRow(w)
  PROVE  Knowledge'
  <1>1. PICK row \in req[w].doomed :
          /\ rows' = rows \ {row}
          /\ req' = [v \in Workers |->
                       IF v = w THEN [req[w] EXCEPT !.doomed = @ \ {row}]
                                ELSE Forgets(v, row)]
    BY DEF DestroyRow
  <1>2. ASSUME NEW v \in Workers
        PROVE  Honest(v)' /\ Complete(v)'
    <2> DEFINE r == req[v]
    <2>1. r \in RequestRecord /\ Honest(v) /\ Complete(v)
      BY DEF TypeOK, Request, Knowledge
    <2>2. CASE v = w
      <3>1. req'[v] = [r EXCEPT !.doomed = @ \ {row}]
        BY <1>1, <2>2
      <3>2. /\ req'[v].pc = "destroy_all"
            /\ req'[v].user = r.user
            /\ req'[v].kind = r.kind
            /\ req'[v].answer = r.answer
            /\ req'[v].refused = r.refused
            /\ req'[v].todo = r.todo
            /\ req'[v].known = r.known
            /\ r.pc = "destroy_all"
        BY <2>1, <2>2, <3>1 DEF DestroyRow, RequestRecord
      <3>3. r.known = {} /\ r.refused = {}
        BY <2>1, <3>2 DEF Honest, Complete
      <3>4. QED
        BY <2>1, <3>2, <3>3 DEF Honest, Complete
    <2>3. CASE v # w /\ r.user = row.user /\ r.kind = row.kind
      <3>1. req'[v] = [r EXCEPT !.known = @ \ {row.company}, !.refused = {}]
        BY <1>1, <2>3 DEF Forgets
      <3>2. /\ req'[v].pc = r.pc
            /\ req'[v].user = r.user
            /\ req'[v].kind = r.kind
            /\ req'[v].company = r.company
            /\ req'[v].answer = r.answer
            /\ req'[v].refused = {}
            /\ req'[v].todo = r.todo
            /\ req'[v].known = r.known \ {row.company}
        BY <2>1, <3>1 DEF RequestRecord
      <3>3. \A u, k : Visible(u, k) \ {row.company} \subseteq Visible(u, k)'
        BY <1>1 DEF Visible, RowsFor
      <3>4. QED
        BY <2>1, <3>2, <3>3 DEF Honest, Complete
    <2>4. CASE v # w /\ ~(r.user = row.user /\ r.kind = row.kind)
      <3>1. req'[v] = r
        BY <1>1, <2>4 DEF Forgets
      <3>2. \A u, k : u = r.user /\ k = r.kind => RowsFor(u, k)' = RowsFor(u, k)
        BY <1>1, <2>4 DEF RowsFor
      <3>3. \A u, k : u = r.user /\ k = r.kind => Visible(u, k)' = Visible(u, k)
        BY <3>2 DEF Visible
      <3>4. QED
        BY <2>1, <3>1, <3>2, <3>3 DEF Honest, Complete
    <2>5. QED
      BY <2>2, <2>3, <2>4
  <1>3. QED
    BY <1>2 DEF Knowledge

LEMMA KnowledgeIsInductive == Inv /\ Knowledge /\ [Next]_vars => Knowledge'
  <1> SUFFICES ASSUME Inv, Knowledge, [Next]_vars PROVE Knowledge'
    OBVIOUS
  <1>1. TypeOK /\ IsFiniteSet(rows)
    BY DEF Inv
  <1>2. ASSUME NEW w \in Workers, Accept(w)
        PROVE  Knowledge'
    BY <1>1, <1>2, AcceptTold
  <1>3. ASSUME NEW w \in Workers, Serve(w)
        PROVE  Knowledge'
    BY <1>1, <1>3, FindTold, CheckTold, CreateTold, AnswerTold, DestroyTold
       DEF Serve
  <1>4. ASSUME rows' = rows, req' = req
        PROVE  Knowledge'
    BY <1>1, <1>4, StaysTold DEF Knowledge
  <1>5. QED
    BY <1>2, <1>3, <1>4 DEF Next, DestroyCompany, vars

LEMMA KnowledgeHolds == Spec => []Knowledge
  <1>1. Init => Knowledge
    BY DEF Init, Knowledge, Honest, Complete, Idle
  <1>2. QED
    BY <1>1, KnowledgeIsInductive, InvHolds, PTL DEF Spec

(***************************************************************************)
(* Whatever a request was granted, or its user could see when it came in,  *)
(* keeps its row until a reset takes it.                                   *)
(***************************************************************************)
THEOREM GrantsAreRecorded == Spec => []GrantIsRecorded
  <1>1. Knowledge => GrantIsRecorded
    BY DEF Knowledge, Honest, GrantIsRecorded
  <1>2. QED
    BY <1>1, KnowledgeHolds, PTL

(***************************************************************************)
(* No company a user can see is ever refused, however the statements of    *)
(* the threads interleave.                                                 *)
(***************************************************************************)
THEOREM SeenStays == Spec => []SeenStaysVisible
  <1>1. Knowledge => SeenStaysVisible
    BY DEF Knowledge, Honest, SeenStaysVisible
  <1>2. QED
    BY <1>1, KnowledgeHolds, PTL

(***************************************************************************)
(* A list of suggestions is the whole list, for any limits and any number  *)
(* of threads.                                                             *)
(***************************************************************************)
THEOREM SuggestionsAreComplete == Spec => []SuggestionIsComplete
  <1>1. Knowledge => SuggestionIsComplete
    BY DEF Knowledge, Complete, SuggestionIsComplete
  <1>2. QED
    BY <1>1, KnowledgeHolds, PTL

-----------------------------------------------------------------------------
(* Copies of a row *)

(* Copies of a row, and the threads about to make one, can be counted. *)
LEMMA CopiesCountable ==
  ASSUME IsFiniteSet(rows), NEW u, NEW k, NEW c
  PROVE  /\ IsFiniteSet(RowsOf(u, k, c))
         /\ Cardinality(RowsOf(u, k, c)) \in Nat
         /\ IsFiniteSet(Missing(u, k, c))
         /\ Cardinality(Missing(u, k, c)) \in Nat
         /\ Cardinality(Missing(u, k, c)) <= Cardinality(Workers)
         /\ Cardinality(Workers) \in Nat
  <1>1. RowsOf(u, k, c) \subseteq rows /\ Missing(u, k, c) \subseteq Workers
    BY DEF RowsOf, RowsFor, Missing
  <1>2. QED
    BY <1>1, FS_Subset, FS_CardinalityType, WorkersAssumption

(***************************************************************************)
(* A thread that goes on to make a row has been about to make it before    *)
(* the step, or finds in this step that there is no such row.              *)
(***************************************************************************)
MissesWhatIsMissing ==
  \A v \in Workers :
      req'[v].pc \in {"check_limit", "create"} =>
          \/ /\ req[v].pc \in {"check_limit", "create"}
             /\ req'[v].user = req[v].user
             /\ req'[v].kind = req[v].kind
             /\ req'[v].company = req[v].company
          \/ RowsOf(req'[v].user, req'[v].kind, req'[v].company) = {}

(* Such a step keeps the bound, if it adds no row. *)
LEMMA CopiesKept ==
  ASSUME IsFiniteSet(rows), DuplicateBound, rows' \subseteq rows,
         MissesWhatIsMissing
  PROVE  DuplicateBound'
  <1>1. IsFiniteSet(rows')
    BY FS_Subset
  <1>2. ASSUME NEW u \in Users, NEW k \in Kinds, NEW c \in Companies
        PROVE  Cardinality(RowsOf(u, k, c)') + Cardinality(Missing(u, k, c)')
                 <= Cardinality(Workers)
    <2>1. RowsOf(u, k, c)' \subseteq RowsOf(u, k, c)
      BY DEF RowsOf, RowsFor
    <2>2. /\ Cardinality(RowsOf(u, k, c)') <= Cardinality(RowsOf(u, k, c))
          /\ Cardinality(RowsOf(u, k, c)') \in Nat
      BY <2>1, CopiesCountable, FS_Subset, FS_CardinalityType
    <2>3. /\ IsFiniteSet(Missing(u, k, c)')
          /\ Cardinality(Missing(u, k, c)') \in Nat
          /\ Cardinality(Missing(u, k, c)') <= Cardinality(Workers)
      <3>1. Missing(u, k, c)' \subseteq Workers
        BY DEF Missing
      <3>2. QED
        BY <3>1, FS_Subset, FS_CardinalityType, WorkersAssumption
    <2>4. CASE RowsOf(u, k, c) = {}
      <3>1. Cardinality(RowsOf(u, k, c)') = 0
        BY <2>1, <2>4, FS_EmptySet
      <3>2. QED
        BY <2>3, <3>1, CopiesCountable
    <2>5. CASE RowsOf(u, k, c) # {}
      <3>1. Missing(u, k, c)' \subseteq Missing(u, k, c)
        BY <2>5 DEF Missing, MissesWhatIsMissing
      <3>2. Cardinality(Missing(u, k, c)') <= Cardinality(Missing(u, k, c))
        BY <3>1, CopiesCountable, FS_Subset
      <3>3. Cardinality(RowsOf(u, k, c)) + Cardinality(Missing(u, k, c))
              <= Cardinality(Workers)
        BY DEF DuplicateBound
      <3>4. QED
        BY <2>2, <2>3, <3>2, <3>3, CopiesCountable
    <2>6. QED
      BY <2>4, <2>5
  <1>3. QED
    BY <1>2 DEF DuplicateBound

(* A creation turns a thread about to make the row into one more copy. *)
LEMMA CopiesKeptByCreate ==
  ASSUME TypeOK, IsFiniteSet(rows), DuplicateBound, NEW w \in Workers,
         Create(w), req[w].company \in companies
  PROVE  DuplicateBound'
  <1> DEFINE me == req[w].user
             mine == req[w].kind
             it == req[w].company
  <1>1. PICK r \in Fresh(me, mine, it) : rows' = rows \cup {r}
    BY DEF Create
  <1>2. /\ r \notin rows
        /\ r.user = me
        /\ r.kind = mine
        /\ r.company = it
    BY DEF Fresh, Held
  <1>3. /\ req[w].pc = "create"
        /\ \A v \in Workers : v # w => req'[v] = req[v]
        /\ req'[w].pc = "find"
    BY DEF Create, TypeOK, Request, RequestRecord
  <1>4. ASSUME NEW u \in Users, NEW k \in Kinds, NEW c \in Companies
        PROVE  Cardinality(RowsOf(u, k, c)') + Cardinality(Missing(u, k, c)')
                 <= Cardinality(Workers)
    <2>1. Cardinality(RowsOf(u, k, c)) + Cardinality(Missing(u, k, c))
            <= Cardinality(Workers)
      BY DEF DuplicateBound
    <2>2. CASE me = u /\ mine = k /\ it = c
      <3>1. RowsOf(u, k, c)' = RowsOf(u, k, c) \cup {r}
        BY <1>1, <1>2, <2>2 DEF RowsOf, RowsFor
      <3>2. r \notin RowsOf(u, k, c)
        BY <1>2 DEF RowsOf, RowsFor
      <3>3. Cardinality(RowsOf(u, k, c)') = Cardinality(RowsOf(u, k, c)) + 1
        BY <3>1, <3>2, CopiesCountable, FS_AddElement
      <3>4. Missing(u, k, c)' = Missing(u, k, c) \ {w}
        BY <1>3 DEF Missing
      <3>5. w \in Missing(u, k, c)
        BY <1>3, <2>2 DEF Missing
      <3>6. Cardinality(Missing(u, k, c)') = Cardinality(Missing(u, k, c)) - 1
        <4>1. IsFiniteSet(Missing(u, k, c))
          BY CopiesCountable
        <4>2. Cardinality(Missing(u, k, c) \ {w})
                = Cardinality(Missing(u, k, c)) - 1
          BY <3>5, <4>1, FS_RemoveElement
        <4>3. QED
          BY <3>4, <4>2
      <3>7. QED
        BY <2>1, <3>3, <3>6, CopiesCountable
    <2>3. CASE ~(me = u /\ mine = k /\ it = c)
      <3>1. RowsOf(u, k, c)' = RowsOf(u, k, c)
        BY <1>1, <1>2, <2>3 DEF RowsOf, RowsFor
      <3>2. Missing(u, k, c)' = Missing(u, k, c)
        BY <1>3, <2>3 DEF Missing
      <3>3. QED
        BY <2>1, <3>1, <3>2
    <2>4. QED
      BY <2>2, <2>3
  <1>5. QED
    BY <1>4 DEF DuplicateBound

(* Beginning or finishing a request leaves nothing to be created. *)
LEMMA BeginFinishMisses ==
  ASSUME TypeOK, NEW w \in Workers, NEW u, NEW k, NEW S, NEW a,
         Begin(w, u, k, S) \/ Finish(w, a)
  PROVE  MissesWhatIsMissing
  BY DEF Begin, Finish, Idle, MissesWhatIsMissing, TypeOK

(* Every statement but a creation that succeeds is such a step. *)
LEMMA AcceptMisses ==
  ASSUME TypeOK, NEW w \in Workers, Accept(w)
  PROVE  MissesWhatIsMissing
  <1>1. ASSUME NEW u \in Users, NEW fuzzy \in SUBSET companies,
               NEW exact \in SUBSET companies, Suggest(w, u, fuzzy, exact)
        PROVE  MissesWhatIsMissing
    <2>1. CASE Begin(w, u, "company_search", search_name(fuzzy, exact))
      BY <2>1, BeginFinishMisses
    <2>2. CASE \E a : req' = [req EXCEPT ![w] = [Idle EXCEPT !.answer = a]]
      BY <2>2 DEF Idle, MissesWhatIsMissing, TypeOK
    <2>3. QED
      BY <1>1, <2>1, <2>2 DEF Suggest
  <1>2. ASSUME NEW u \in Users, NEW c \in Companies, SuggestAddress(w, u, c)
        PROVE  MissesWhatIsMissing
    BY <1>2, BeginFinishMisses DEF SuggestAddress
  <1>3. ASSUME NEW u \in Users, NEW k \in Kinds, ResetLimit(w, u, k)
        PROVE  MissesWhatIsMissing
    BY <1>3 DEF ResetLimit, Idle, MissesWhatIsMissing, TypeOK
  <1>4. QED
    BY <1>1, <1>2, <1>3 DEF Accept

LEMMA ServeMisses ==
  ASSUME TypeOK, NEW w \in Workers, Serve(w),
         ~(Create(w) /\ req[w].company \in companies)
  PROVE  MissesWhatIsMissing
  <1> DEFINE r == req[w]
  <1>1. r \in RequestRecord
    BY DEF TypeOK, Request
  <1>2. ASSUME NEW n, req' = [req EXCEPT ![w] = n],
               \/ n.pc \notin {"check_limit", "create"}
               \/ /\ r.pc \in {"check_limit", "create"}
                  /\ n.user = r.user
                  /\ n.kind = r.kind
                  /\ n.company = r.company
               \/ RowsOf(n.user, n.kind, n.company) = {}
        PROVE  MissesWhatIsMissing
    <2>1. req'[w] = n /\ \A v \in Workers : v # w => req'[v] = req[v]
      BY <1>2 DEF TypeOK
    <2>2. QED
      BY <1>2, <2>1 DEF MissesWhatIsMissing
  <1>3. CASE \E a : Finish(w, a)
    BY <1>3, BeginFinishMisses
  <1>4. CASE FindCompany(w)
    <2>1. PICK c \in r.todo :
            \/ Finish(w, "error")
            \/ req' = [req EXCEPT ![w].todo = @ \ {c},
                                  ![w].granted = @ \cup {c},
                                  ![w].known = @ \cup {c}]
            \/ /\ c \notin Visible(r.user, r.kind)
               /\ req' = [req EXCEPT ![w].pc = "check_limit",
                                     ![w].company = c, ![w].todo = @ \ {c}]
      BY <1>4 DEF FindCompany
    <2> DEFINE n1 == [r EXCEPT !.todo = @ \ {c}, !.granted = @ \cup {c},
                               !.known = @ \cup {c}]
               n2 == [r EXCEPT !.pc = "check_limit", !.company = c,
                               !.todo = @ \ {c}]
    <2>2. CASE req' = [req EXCEPT ![w] = n1]
      <3>1. n1.pc = "find"
        BY <1>1, <1>4 DEF FindCompany, RequestRecord
      <3>2. QED
        BY <1>2, <2>2, <3>1
    <2>3. CASE /\ c \notin Visible(r.user, r.kind)
               /\ req' = [req EXCEPT ![w] = n2]
      <3>1. n2.user = r.user /\ n2.kind = r.kind /\ n2.company = c
        BY <1>1 DEF RequestRecord
      <3>2. RowsOf(r.user, r.kind, c) = {}
        BY <2>3 DEF RowsOf, Visible
      <3>3. QED
        BY <1>2, <2>3, <3>1, <3>2
    <2>4. QED
      BY <1>3, <2>1, <2>2, <2>3 DEF TypeOK
  <1>5. CASE CheckLimit(w)
    <2> DEFINE n1 == [r EXCEPT !.pc = "create"]
               n2 == [r EXCEPT !.pc = "find", !.company = None,
                               !.refused = @ \cup {r.company}]
    <2>1. /\ n1.user = r.user
          /\ n1.kind = r.kind
          /\ n1.company = r.company
          /\ n2.pc = "find"
      BY <1>1 DEF RequestRecord
    <2>2. \/ req' = [req EXCEPT ![w] = n1]
          \/ req' = [req EXCEPT ![w] = n2]
      BY <1>5 DEF CheckLimit, TypeOK
    <2>3. r.pc = "check_limit"
      BY <1>5 DEF CheckLimit
    <2>4. QED
      BY <1>2, <2>1, <2>2, <2>3
  <1>6. CASE ResultsChecked(w) \/ UnderLimitSearch(w)
    <2>1. CASE \E pc : /\ pc \notin {"check_limit", "create"}
                       /\ req' = [req EXCEPT ![w].pc = pc]
      <3>1. PICK pc : /\ pc \notin {"check_limit", "create"}
                      /\ req' = [req EXCEPT ![w].pc = pc]
        BY <2>1
      <3>2. req' = [req EXCEPT ![w] = [r EXCEPT !.pc = pc]]
        BY <3>1 DEF TypeOK
      <3>3. [r EXCEPT !.pc = pc].pc = pc
        BY <1>1 DEF RequestRecord
      <3>4. QED
        BY <1>2, <3>1, <3>2, <3>3
    <2>2. QED
      BY <1>3, <1>6, <2>1 DEF ResultsChecked, UnderLimitSearch
  <1>7. CASE DestroyRow(w)
    <2>1. PICK row \in r.doomed :
            req' = [v \in Workers |->
                      IF v = w THEN [r EXCEPT !.doomed = @ \ {row}]
                               ELSE Forgets(v, row)]
      BY <1>7 DEF DestroyRow
    <2>2. ASSUME NEW v \in Workers
          PROVE  /\ req'[v].pc = req[v].pc
                 /\ req'[v].user = req[v].user
                 /\ req'[v].kind = req[v].kind
                 /\ req'[v].company = req[v].company
      <3>1. req[v] \in RequestRecord
        BY DEF TypeOK, Request
      <3>2. CASE v = w
        BY <2>1, <3>1, <3>2 DEF RequestRecord
      <3>3. CASE v # w
        <4>1. req'[v] = Forgets(v, row)
          BY <2>1, <3>3
        <4>2. QED
          BY <3>1, <4>1 DEF Forgets, RequestRecord
      <3>4. QED
        BY <3>2, <3>3
    <2>3. QED
      BY <2>2 DEF MissesWhatIsMissing
  <1>8. QED
    BY <1>3, <1>4, <1>5, <1>6, <1>7
       DEF Serve, Create, UnderLimitSuggest, ResetDone

LEMMA CopiesInductive == Inv /\ DuplicateBound /\ [Next]_vars => DuplicateBound'
  <1> SUFFICES ASSUME Inv, DuplicateBound, [Next]_vars PROVE DuplicateBound'
    OBVIOUS
  <1>1. TypeOK /\ IsFiniteSet(rows)
    BY DEF Inv
  <1>2. CASE \E w \in Workers : Create(w) /\ req[w].company \in companies
    BY <1>1, <1>2, CopiesKeptByCreate
  <1>3. CASE \A w \in Workers : ~(Create(w) /\ req[w].company \in companies)
    <2>1. rows' \subseteq rows
      <3>1. CASE \E w \in Workers : DestroyRow(w)
        BY <3>1 DEF DestroyRow
      <3>2. CASE \A w \in Workers : ~DestroyRow(w)
        BY <1>1, <1>3, <3>2, RowsChangeOnlyBy
      <3>3. QED
        BY <3>1, <3>2
    <2>2. MissesWhatIsMissing
      <3>1. CASE req' = req
        BY <3>1 DEF MissesWhatIsMissing
      <3>2. QED
        BY <1>1, <1>3, <3>1, AcceptMisses, ServeMisses
           DEF Next, DestroyCompany, vars
    <2>3. QED
      BY <1>1, <2>1, <2>2, CopiesKept
  <1>4. QED
    BY <1>2, <1>3

(***************************************************************************)
(* Without a unique index a row can be stored twice, but never more often  *)
(* than there are threads, and threads about to store it count already.    *)
(***************************************************************************)
THEOREM Duplicates == Spec => []DuplicateBound
  <1>1. Init => DuplicateBound
    <2> SUFFICES ASSUME Init, NEW u \in Users, NEW k \in Kinds,
                        NEW c \in Companies
                 PROVE  Cardinality(RowsOf(u, k, c))
                            + Cardinality(Missing(u, k, c))
                          <= Cardinality(Workers)
      BY DEF DuplicateBound
    <2>1. RowsOf(u, k, c) = {} /\ Missing(u, k, c) = {}
      BY DEF Init, Idle, RowsOf, RowsFor, Missing
    <2>2. Cardinality(Workers) \in Nat
      BY FS_CardinalityType, WorkersAssumption
    <2>3. QED
      BY <2>1, <2>2, FS_EmptySet
  <1>2. QED
    BY <1>1, CopiesInductive, InvHolds, PTL DEF Spec

=============================================================================
