----------------------- MODULE MCInternshipSearch ------------------------
(* Instances of InternshipSearch for TLC.  One search form matches every   *)
(* internship and one only some; the newest internship has not begun, so   *)
(* only the random button shows it, and it is the only one of the last two *)
(* years.                                                                  *)
EXTENDS InternshipSearch, TLC

CONSTANTS i1, i2, i3, Everything, Specific

MCMatch == [s \in Searches |->
              IF s = Specific THEN {i1, i3} \cap Internships ELSE Internships]

MCPast == Internships \ {i3}

MCRecent == {i3}

MCCopies == 1..(Cardinality(Workers) + 1)

MCSymmetry == Permutations(Workers)

=============================================================================
