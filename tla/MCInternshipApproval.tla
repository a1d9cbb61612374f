---------------------- MODULE MCInternshipApproval ----------------------
(* Instances of InternshipApproval for TLC *)
EXTENDS InternshipApproval, TLC

Symmetry == Permutations(Students) \cup Permutations(Internships)
                \cup Permutations(Workers) \cup Permutations(Texts)

=============================================================================
