------------------------ MODULE MCInternshipDuration ------------------------
(* Instance of InternshipDuration for TLC: a week of first days, and last  *)
(* days around zero, 4, 16 and 19 weeks, in the last semester that         *)
(* required 19 weeks and the first that required 16.                       *)
EXTENDS InternshipDuration

MCStarts == 0..6

MCEnds == (-4)..6 \cup 22..36 \cup 106..120 \cup 127..141

MCSids == {date2sid(Month(2019, 4)), date2sid(Month(2019, 10))}

=============================================================================
