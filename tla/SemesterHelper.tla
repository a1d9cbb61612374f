--------------------------- MODULE SemesterHelper ---------------------------
(***************************************************************************)
(* Conversions between dates, semester ids and semester names              *)
(* (app/models/semester_helper.rb).                                        *)
(*                                                                         *)
(* Semesters begin on the first of a month, so a date is the number of its *)
(* month, counted from the year 0.  A sid such as 2013.1 is kept as 20131, *)
(* ten times its value: the code multiplies it by ten wherever it takes it *)
(* apart.  A name is what name2sid's pattern finds in it: "WS 12/13" has   *)
(* the marker WS, the year 12 and the following year 13, which the pattern *)
(* allows to be missing; a text in which it finds nothing is Unmatched.    *)
(***************************************************************************)
EXTENDS Integers

CONSTANT Unmatched      \* a text that is not the name of a semester

SUMMER == "SS"
WINTER == "WS"

Month(year, month) == 12 * year + month - 1

YearOf(m) == m \div 12

SEM_NO == [s \in {SUMMER, WINTER} |-> IF s = SUMMER THEN 1 ELSE 2]

start_day_for(year, sow) == Month(year, IF sow = SUMMER THEN 4 ELSE 10)

(* Mutant: January to March belong to the winter that follows. *)
date2sid_calendar_year(m) ==
    LET year == YearOf(m)
    IN  10 * year + IF /\ start_day_for(year, SUMMER) <= m
                       /\ m < start_day_for(year, WINTER) THEN 1 ELSE 2

date2sid(m) ==
    LET year == YearOf(m)
    IN  CASE m < start_day_for(year, SUMMER) -> 10 * (year - 1) + 2
          [] m >= start_day_for(year, WINTER) -> 10 * year + 2
          [] OTHER -> 10 * year + 1

sid2year(sid) == sid \div 10

winter_or_summer(sid) == IF sid % 10 = 1 THEN SUMMER ELSE WINTER

start_day(sid) == start_day_for(sid2year(sid), winter_or_summer(sid))

(* Names of the years 2000 to 2099; NoYear for a name without the second. *)
NoYear == -1

Name == [marker : {SUMMER, WINTER}, year : 0..99, next : 0..100 \cup {NoYear}]

sid2name(sid) ==
    LET year == sid2year(sid) % 100
    IN  [marker |-> winter_or_summer(sid), year |-> year,
         next |-> IF winter_or_summer(sid) = WINTER THEN year + 1 ELSE NoYear]

(* Mutant: the year of a winter semester is the one it ends in. *)
name2sid_end_year(name) ==
    10 * (2000 + IF name.next = NoYear THEN name.year ELSE name.next)
        + SEM_NO[name.marker]

name2sid(name) == 10 * (2000 + name.year) + SEM_NO[name.marker]

=============================================================================
