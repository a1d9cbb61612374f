---------------------- MODULE MCCompanyVisibility -----------------------
(* Instances of CompanyVisibility for TLC: small limits, and one more copy *)
(* of a row than the threads can create, so that a surplus would show.     *)
EXTENDS CompanyVisibility, TLC

CONSTANTS SuggestLimit, SearchLimit

MCLIMITS == [k \in Kinds |->
               IF k = "company_suggest" THEN SuggestLimit ELSE SearchLimit]

MCCopies == 1..(Cardinality(Workers) + 1)

Symmetry == Permutations(Users) \cup Permutations(Companies)
                \cup Permutations(Workers)

(* The part of the behaviours in which nobody searches by name: it keeps   *)
(* liveness checking small, and both kinds run the same statements.        *)
SuggestOnly == \A w \in Workers : req'[w].kind # "company_search"

SuggestOnlySpec ==
    /\ Init /\ [][Next /\ SuggestOnly]_vars
    /\ \A w \in Workers : WF_vars(Serve(w))

=============================================================================
