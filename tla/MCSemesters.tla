----------------------------- MODULE MCSemesters -----------------------------
(* Instance of Semesters and InternshipDuration for TLC.  The table and the *)
(* form share no state: in a behaviour one of them moves, the other rests.  *)
(* Dates on both sides of every kind of boundary, a name without its second *)
(* year and a meaningless one.                                              *)
EXTENDS Semesters, MCInternshipDuration, TLC

MCMonths == {Month(2019, 3), Month(2019, 4), Month(2019, 10), Month(2020, 3)}

MCNames == {[marker |-> SUMMER, year |-> 19, next |-> NoYear],
            [marker |-> WINTER, year |-> 18, next |-> 19],
            Unmatched}

Symmetry == Permutations(Workers)

VARIABLE moving         \* what moves

MCVars == <<vars, durationVars, moving>>

MCInit ==
    /\ moving \in {"table", "form"}
    /\ Init
    /\ DurationInit
    /\ moving = "table" => form.semester = START_16_WEEKS

MCNext ==
    \/ moving = "table" /\ Next /\ UNCHANGED <<durationVars, moving>>
    \/ moving = "form" /\ DurationNext /\ UNCHANGED <<vars, moving>>

MCSpec == MCInit /\ [][MCNext]_MCVars

=============================================================================
