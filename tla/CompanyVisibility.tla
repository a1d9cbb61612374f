------------------------- MODULE CompanyVisibility -------------------------
(***************************************************************************)
(* How many companies a user gets to see while looking for the place of    *)
(* an internship: app/models/user_can_see_company.rb, with the two         *)
(* requests that spend the limits (companies#suggest and                   *)
(* company_addresses#suggest_address), the two administrator requests      *)
(* that reset them, and companies#destroy.                                 *)
(*                                                                         *)
(* check_created_by looks for a row, counts the rows and creates a row in  *)
(* three statements without a transaction, a lock or a unique index, and   *)
(* the application serves requests on several threads, so every statement  *)
(* is a step of its own here.  Company.find and the where(...).empty?      *)
(* after it are one step: a company destroyed between the two has the      *)
(* effect of one destroyed just after.                                     *)
(***************************************************************************)
EXTENDS Naturals, FiniteSets

CONSTANTS
    Users,          \* accounts; each has a student
    Companies,      \* the companies in the database at the start
    Workers,        \* the threads that serve requests
    LIMITS,         \* UserCanSeeCompany::LIMITS
    ResultLimit,    \* the longest list companies#suggest offers
    Copies,         \* distinguishes equal rows; bounds their number in TLC
    None

Kinds == {"company_suggest", "company_search"}

Reply == {"addresses", "suggestion", "no_match", "too_many", "limit_exceeded",
          "reset", "error"}

ASSUME LimitsAssumption == LIMITS \in [Kinds -> Nat \ {0}]
ASSUME CopiesAssumption == Copies \subseteq Nat
ASSUME WorkersAssumption == IsFiniteSet(Workers) /\ Workers # {}
ASSUME NoneAssumption == None \notin Users \cup Kinds \cup Companies \cup Reply

VARIABLES
    companies,  \* the rows of the table companies
    rows,       \* the rows of the table user_can_see_companies
    req         \* req[w]: the request thread w serves, or served last

vars == <<companies, rows, req>>

Row == [user : Users, kind : Kinds, company : Companies, copy : Copies]

PC == {"answered", "find", "check_limit", "create", "under_limit_search",
       "under_limit_suggest", "destroy_all"}

Answer == Reply \cup {None}

RequestRecord ==
    [pc : PC, user : Users \cup {None}, kind : Kinds \cup {None},
     todo : SUBSET Companies,       \* results the select has not reached
     company : Companies \cup {None},
     granted : SUBSET Companies,    \* check_created_by returned true
     refused : SUBSET Companies,    \* history: ... returned false, and no
                                    \* reset has deleted rows of it since
     known : SUBSET Companies,      \* history: visible at the start or granted
                                    \* since, and not reset meanwhile
     doomed : SUBSET Row,           \* loaded by destroy_all, not yet deleted
     answer : Answer]

(* A thread at work knows whose request it serves, and for which company. *)
Request ==
    {r \in RequestRecord :
        /\ r.pc # "answered" => r.user \in Users /\ r.kind \in Kinds
        /\ r.pc \in {"check_limit", "create"} => r.company \in Companies}

-----------------------------------------------------------------------------
(* Queries on user_can_see_companies *)

(* Mutant: the scope forgets the kind. *)
RowsOfEveryKind(u, k) == {r \in rows : r.user = u}

RowsFor(u, k) == {r \in rows : r.user = u /\ r.kind = k}

RowsOf(u, k, c) == {r \in RowsFor(u, k) : r.company = c}

Visible(u, k) == {r.company : r \in RowsFor(u, k)}

(* Mutant: <= for <. *)
check_limit_inclusive(u, k) == Cardinality(RowsFor(u, k)) <= LIMITS[k]

check_limit(u, k) == Cardinality(RowsFor(u, k)) < LIMITS[k]

(* Primary keys are never reused, not even while a reset still holds them. *)
Held == rows \cup UNION {req[w].doomed : w \in Workers}

Fresh(u, k, c) ==
    {[user |-> u, kind |-> k, company |-> c, copy |-> n] : n \in Copies} \ Held

-----------------------------------------------------------------------------
(* CompaniesHelper: which companies a name search offers *)

search_name(fuzzy, exact) ==
    IF Cardinality(fuzzy) > ResultLimit THEN exact ELSE fuzzy

case_for_count(count, fuzzy_count) ==
    LET c == IF count = 0 THEN fuzzy_count ELSE count
    IN  CASE c = 0 -> "no_match"
          [] c \in 1..ResultLimit -> "suggestion"
          [] OTHER -> "too_many"
-----------------------------------------------------------------------------
(* Steps of the requests *)

Idle == [pc |-> "answered", user |-> None, kind |-> None, todo |-> {},
         company |-> None, granted |-> {}, refused |-> {}, known |-> {},
         doomed |-> {}, answer |-> None]

Init ==
    /\ companies = Companies
    /\ rows = {}
    /\ req = [w \in Workers |-> Idle]

Begin(w, u, k, results) ==
    req' = [req EXCEPT ![w] =
              [Idle EXCEPT !.pc = "find", !.user = u, !.kind = k,
                           !.todo = results, !.known = Visible(u, k)]]

(* The thread keeps nothing of a request but, for the properties, what it *)
(* refused and how it answered.                                           *)
Finish(w, a) ==
    req' = [req EXCEPT ![w] =
              [Idle EXCEPT !.refused = req[w].refused, !.answer = a]]

(***************************************************************************)
(* companies#suggest: the user types a name.  fuzzy and exact are what     *)
(* with_fuzzy_name and with_name match; every exact match is a fuzzy one.  *)
(***************************************************************************)
Suggest(w, u, fuzzy, exact) ==
    LET results == search_name(fuzzy, exact)
        case == case_for_count(Cardinality(results), Cardinality(fuzzy))
    IN  /\ req[w].pc = "answered"
        /\ exact \subseteq fuzzy
        /\ fuzzy \subseteq companies
        /\ \/ case = "suggestion" /\ Begin(w, u, "company_search", results)
           \/ /\ case # "suggestion"
              /\ req' = [req EXCEPT ![w] = [Idle EXCEPT !.answer = case]]
        /\ UNCHANGED <<companies, rows>>

(***************************************************************************)
(* company_addresses#suggest_address: the user follows the link of a       *)
(* company, which may have been destroyed since the page was served.       *)
(***************************************************************************)
SuggestAddress(w, u, c) ==
    /\ req[w].pc = "answered"
    /\ Begin(w, u, "company_suggest", {c})
    /\ UNCHANGED <<companies, rows>>

(* Mutant: the limit is checked before looking for the user's row. *)
FindCompanyNoLookup(w) ==
    /\ req[w].pc = "find"
    /\ \E c \in req[w].todo :
        \/ c \notin companies /\ Finish(w, "error")
        \/ /\ c \in companies
           /\ req' = [req EXCEPT ![w].pc = "check_limit", ![w].company = c,
                                 ![w].todo = @ \ {c}]
    /\ UNCHANGED <<companies, rows>>

(* Mutant: the select never gets past a company that is visible already. *)
FindCompanyStays(w) ==
    /\ req[w].pc = "find"
    /\ \E c \in req[w].todo :
        \/ c \notin companies /\ Finish(w, "error")
        \/ /\ c \in companies
           /\ c \in Visible(req[w].user, req[w].kind)
           /\ req' = [req EXCEPT ![w].granted = @ \cup {c}]
        \/ /\ c \in companies
           /\ c \notin Visible(req[w].user, req[w].kind)
           /\ req' = [req EXCEPT ![w].pc = "check_limit", ![w].company = c,
                                 ![w].todo = @ \ {c}]
    /\ UNCHANGED <<companies, rows>>

(***************************************************************************)
(* check_created_by, first statements: Company.find raises when c is gone; *)
(* a company the user has a row for is visible without further checks.     *)
(***************************************************************************)
FindCompany(w) ==
    /\ req[w].pc = "find"
    /\ \E c \in req[w].todo :
        \/ c \notin companies /\ Finish(w, "error")
        \/ /\ c \in companies
           /\ c \in Visible(req[w].user, req[w].kind)
           /\ req' = [req EXCEPT ![w].todo = @ \ {c},
                                 ![w].granted = @ \cup {c},
                                 ![w].known = @ \cup {c}]
        \/ /\ c \in companies
           /\ c \notin Visible(req[w].user, req[w].kind)
           /\ req' = [req EXCEPT ![w].pc = "check_limit", ![w].company = c,
                                 ![w].todo = @ \ {c}]
    /\ UNCHANGED <<companies, rows>>

(* check_created_by: return false unless check_limit *)
CheckLimit(w) ==
    /\ req[w].pc = "check_limit"
    /\ \/ /\ check_limit(req[w].user, req[w].kind)
          /\ req' = [req EXCEPT ![w].pc = "create"]
       \/ /\ ~check_limit(req[w].user, req[w].kind)
          /\ req' = [req EXCEPT ![w].pc = "find", ![w].company = None,
                                ![w].refused = @ \cup {req[w].company}]
    /\ UNCHANGED <<companies, rows>>

(* Mutant: new for create: the row is never saved. *)
CreateUnsaved(w) ==
    /\ req[w].pc = "create"
    /\ req' = [req EXCEPT ![w].pc = "find", ![w].company = None,
                          ![w].granted = @ \cup {req[w].company},
                          ![w].known = @ \cup {req[w].company}]
    /\ UNCHANGED <<companies, rows>>

(***************************************************************************)
(* check_created_by: create, then return true.  The foreign key to         *)
(* companies fails the insert, and the request, when the company is gone.  *)
(***************************************************************************)
Create(w) ==
    LET c == req[w].company
        fresh == Fresh(req[w].user, req[w].kind, c)
    IN  /\ req[w].pc = "create"
        /\ \/ /\ c \in companies
              /\ \E r \in fresh :
                    /\ \A other \in fresh : r.copy <= other.copy
                    /\ rows' = rows \cup {r}
              /\ req' = [req EXCEPT ![w].pc = "find", ![w].company = None,
                                    ![w].granted = @ \cup {c},
                                    ![w].known = @ \cup {c}]
           \/ /\ c \notin companies
              /\ Finish(w, "error")
              /\ UNCHANGED rows
        /\ UNCHANGED companies

(***************************************************************************)
(* Every result has been checked.  suggest_address lists the addresses or  *)
(* reports the limit; suggest goes on to look at both limits.              *)
(***************************************************************************)
ResultsChecked(w) ==
    /\ req[w].pc = "find"
    /\ req[w].todo = {}
    /\ \/ /\ req[w].kind = "company_suggest"
          /\ Finish(w, IF req[w].granted = {} THEN "limit_exceeded"
                                              ELSE "addresses")
       \/ /\ req[w].kind = "company_search"
          /\ req' = [req EXCEPT ![w].pc = "under_limit_search"]
    /\ UNCHANGED <<companies, rows>>

(* Mutant: under_limit? looks at company_suggest only. *)
UnderLimitSearchIgnored(w) ==
    /\ req[w].pc = "under_limit_search"
    /\ req' = [req EXCEPT ![w].pc = "under_limit_suggest"]
    /\ UNCHANGED <<companies, rows>>

(***************************************************************************)
(* under_limit?, the two counts behind companies#suggest's @under_limit:   *)
(* the view lists the suggestions only if both are below their limits.     *)
(***************************************************************************)
UnderLimitSearch(w) ==
    /\ req[w].pc = "under_limit_search"
    /\ \/ /\ check_limit(req[w].user, "company_search")
          /\ req' = [req EXCEPT ![w].pc = "under_limit_suggest"]
       \/ /\ ~check_limit(req[w].user, "company_search")
          /\ Finish(w, "limit_exceeded")
    /\ UNCHANGED <<companies, rows>>

UnderLimitSuggest(w) ==
    /\ req[w].pc = "under_limit_suggest"
    /\ Finish(w, IF check_limit(req[w].user, "company_suggest")
                    THEN "suggestion" ELSE "limit_exceeded")
    /\ UNCHANGED <<companies, rows>>

(***************************************************************************)
(* reset_limit_search and reset_limit_suggest: where(...).destroy_all      *)
(* loads the rows of the user and then deletes them one at a time.         *)
(***************************************************************************)
ResetLimit(w, u, k) ==
    /\ req[w].pc = "answered"
    /\ req' = [req EXCEPT ![w] =
                 [Idle EXCEPT !.pc = "destroy_all", !.user = u, !.kind = k,
                              !.doomed = RowsFor(u, k)]]
    /\ UNCHANGED <<companies, rows>>

(* What thread v knows, and what it has refused, when r is deleted *)
Forgets(v, r) ==
    IF req[v].user = r.user /\ req[v].kind = r.kind
      THEN [req[v] EXCEPT !.known = @ \ {r.company}, !.refused = {}]
      ELSE req[v]

(* Mutant: the rows are loaded but not deleted. *)
DestroyRowKeeps(w) ==
    /\ req[w].pc = "destroy_all"
    /\ \E r \in req[w].doomed : req' = [req EXCEPT ![w].doomed = @ \ {r}]
    /\ UNCHANGED <<companies, rows>>

DestroyRow(w) ==
    /\ req[w].pc = "destroy_all"
    /\ \E r \in req[w].doomed :
        /\ rows' = rows \ {r}
        /\ req' = [v \in Workers |->
                    IF v = w THEN [req[w] EXCEPT !.doomed = @ \ {r}]
                             ELSE Forgets(v, r)]
    /\ UNCHANGED companies

ResetDone(w) ==
    /\ req[w].pc = "destroy_all"
    /\ req[w].doomed = {}
    /\ Finish(w, "reset")
    /\ UNCHANGED <<companies, rows>>

(***************************************************************************)
(* companies#destroy: the foreign key of user_can_see_companies keeps a    *)
(* company that somebody has seen.                                         *)
(***************************************************************************)
DestroyCompany(c) ==
    /\ c \in companies
    /\ \A r \in rows : r.company # c
    /\ companies' = companies \ {c}
    /\ UNCHANGED <<rows, req>>

(* The statements a thread executes once it has accepted a request *)
Serve(w) ==
    \/ FindCompany(w)
    \/ CheckLimit(w)
    \/ Create(w)
    \/ ResultsChecked(w)
    \/ UnderLimitSearch(w)
    \/ UnderLimitSuggest(w)
    \/ DestroyRow(w)
    \/ ResetDone(w)

Accept(w) ==
    \E u \in Users :
        \/ \E fuzzy, exact \in SUBSET companies : Suggest(w, u, fuzzy, exact)
        \/ \E c \in Companies : SuggestAddress(w, u, c)
        \/ \E k \in Kinds : ResetLimit(w, u, k)

Next ==
    \/ \E w \in Workers : Accept(w) \/ Serve(w)
    \/ \E c \in Companies : DestroyCompany(c)

Spec == Init /\ [][Next]_vars

(* A thread that has accepted a request keeps running; nobody has to ask. *)
FairSpec == Spec /\ \A w \in Workers : WF_vars(Serve(w))

-----------------------------------------------------------------------------
(* Properties *)

Creating(u, k) ==
    {w \in Workers : req[w].pc = "create" /\ req[w].user = u /\ req[w].kind = k}

Missing(u, k, c) ==
    {w \in Workers : /\ req[w].pc \in {"check_limit", "create"}
                     /\ req[w].user = u
                     /\ req[w].kind = k
                     /\ req[w].company = c}

(* The tables and every request record have their types. *)
TypeOK ==
    /\ companies \subseteq Companies
    /\ rows \subseteq Row
    /\ req \in [Workers -> Request]

(***************************************************************************)
(* However many threads run check_created_by at once, a user gets past a   *)
(* limit by at most the number of other threads: the rows there are and    *)
(* the rows about to be created are bounded together.                      *)
(***************************************************************************)
OvershootBound ==
    \A u \in Users, k \in Kinds :
        Cardinality(RowsFor(u, k)) + Cardinality(Creating(u, k))
            <= LIMITS[k] + Cardinality(Workers) - 1

(***************************************************************************)
(* The table has no unique index, so where(...).empty? and create can      *)
(* store a row twice, but never more often than there are threads.         *)
(***************************************************************************)
DuplicateBound ==
    \A u \in Users, k \in Kinds, c \in Companies :
        Cardinality(RowsOf(u, k, c)) + Cardinality(Missing(u, k, c))
            <= Cardinality(Workers)

(***************************************************************************)
(* A company that was visible to the user when the request came in, or     *)
(* that the request has been granted, keeps its row until a reset takes    *)
(* it: nothing is granted without being counted.                           *)
(***************************************************************************)
GrantIsRecorded ==
    \A w \in Workers : req[w].known \subseteq Visible(req[w].user, req[w].kind)

(***************************************************************************)
(* Seen companies stay visible at the limit: check_created_by never        *)
(* refuses a company the user could see when the request came in, unless   *)
(* an administrator's reset took it away meanwhile.                        *)
(***************************************************************************)
SeenStaysVisible ==
    \A w \in Workers : req[w].refused \cap req[w].known = {}

(* The limits as the class states them: at most LIMITS[k] rows per user. *)
WithinLimit ==
    \A u \in Users, k \in Kinds : Cardinality(RowsFor(u, k)) <= LIMITS[k]

(***************************************************************************)
(* When companies#suggest lists suggestions it lists every match: a match  *)
(* dropped by the limit leaves the limit reached, and under_limit? then    *)
(* suppresses the list, unless a reset has come between the two.           *)
(***************************************************************************)
SuggestionIsComplete ==
    \A w \in Workers : req[w].answer = "suggestion" => req[w].refused = {}

(***************************************************************************)
(* The page that says the limit has been exceeded is the answer to a       *)
(* request that was refused something.                                     *)
(***************************************************************************)
ExceededMeansRefused ==
    \A w \in Workers :
        req[w].answer = "limit_exceeded" => req[w].refused # {}

(***************************************************************************)
(* Visibility implements the abstract quota, with one more object per      *)
(* additional thread: exactly the quota when a single thread serves.       *)
(***************************************************************************)
VisibleNow == [u \in Users |-> [k \in Kinds |-> Visible(u, k)]]

Slack == [k \in Kinds |-> LIMITS[k] + Cardinality(Workers) - 1]

Quota == INSTANCE VisibilityQuota
            WITH Objects <- Companies, Allowance <- Slack, visible <- VisibleNow

(* Every step keeps the quota of distinct companies, allowing for threads. *)
ImplementsQuota == Quota!Spec

(* A request that has been accepted is answered. *)
RequestsAreAnswered ==
    \A w \in Workers : req[w].pc # "answered" ~> req[w].pc = "answered"

(***************************************************************************)
(* A reset frees the user: once destroy_all has loaded all the rows of the *)
(* user there comes a moment at which the user is below the limit again.   *)
(* Rows created behind the reset's back are those of threads that counted  *)
(* before it, so this needs fewer other threads than the limit has places. *)
(***************************************************************************)
ResetGivesRoom ==
    \A u \in Users, k \in Kinds :
        (\E w \in Workers : /\ req[w].pc = "destroy_all"
                            /\ req[w].user = u
                            /\ req[w].kind = k
                            /\ req[w].doomed = RowsFor(u, k))
            ~> check_limit(u, k)

=============================================================================
