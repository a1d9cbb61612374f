------------------------- MODULE InternshipDuration -------------------------
(***************************************************************************)
(* How long an internship lasts and whether that is long enough: on the    *)
(* server (app/models/internship_duration.rb) and once more in the         *)
(* JavaScript of the form (app/views/internships/_form_internship.html.erb)*)
(* that tells the student while the dates are being typed.                 *)
(*                                                                         *)
(* A date is the number of its day; day 0 is a Monday.                     *)
(***************************************************************************)
EXTENDS SemesterHelper, FiniteSets

CONSTANTS
    Starts, Ends,   \* the dates that are typed
    Sids,           \* the semesters the form offers
    NoDate          \* an empty date field

ASSUME DatesAssumption == Starts \cup Ends \subseteq Int /\ NoDate \notin Int
ASSUME SidsAssumption == Sids \subseteq Int

VARIABLES
    form,           \* the fields of the form in the browser
    note,           \* the verdict written next to the dates
    by              \* who wrote it

durationVars == <<form, note, by>>

Form == [start_date : Starts \cup {NoDate}, end_date : Ends \cup {NoDate},
         semester : Sids]

Validation == {"date_missing", "negative", "too_short", "ok_for_part", "ok"}

DatesGiven == form.start_date # NoDate /\ form.end_date # NoDate

-----------------------------------------------------------------------------
(* The server *)

weekday(d) == d % 7

Friday == 4
Saturday == 5
Sunday == 6

(* Mutant: Saturday is treated like Friday. *)
adjust_saturday(d) ==
    CASE weekday(d) \in {Friday, Saturday} -> d + 3
      [] weekday(d) = Sunday -> d + 1
      [] OTHER -> d

(* An internship that ends at a weekend ends on the next Monday. *)
adjust(d) ==
    CASE weekday(d) = Friday -> d + 3
      [] weekday(d) = Saturday -> d + 2
      [] weekday(d) = Sunday -> d + 1
      [] OTHER -> d

(* Hundredths of a week: (days.to_f / 7).round(2); a tie cannot occur. *)
weeks(start_date, end_date) ==
    (200 * (adjust(end_date) - start_date) + 7) \div 14

START_16_WEEKS == date2sid(Month(2019, 10))

required_weeks(sid) == IF sid >= START_16_WEEKS THEN 16 ELSE 19

do_validation(hundredths, sid) ==
    CASE hundredths < 0 -> "negative"
      [] hundredths \in 0..399 -> "too_short"
      [] hundredths \in 400..(100 * required_weeks(sid) - 1) -> "ok_for_part"
      [] OTHER -> "ok"

validation(f) ==
    IF f.start_date = NoDate \/ f.end_date = NoDate
      THEN "date_missing"
      ELSE do_validation(weeks(f.start_date, f.end_date), f.semester)

valid_duration(f) == validation(f) \notin {"negative", "too_short"}

-----------------------------------------------------------------------------
(* The browser *)

(* Mutant: whole weeks only. *)
weeksBetween_floor(start_date, end_date) == (end_date - start_date) \div 7

(* Math.round of the weeks, without the adjustment; a tie cannot occur. *)
weeksBetween(start_date, end_date) ==
    (2 * (end_date - start_date) + 7) \div 14

validate(duration) ==
    CASE duration < 0 -> "negative"
      [] duration \in 0..3 -> "too_short"
      [] duration \in 4..15 -> "ok_for_part"
      [] OTHER -> "ok"

(* A missing date ends the function with an exception and leaves the note. *)
validateDuration(f) ==
    IF f.start_date = NoDate \/ f.end_date = NoDate
      THEN UNCHANGED <<note, by>>
      ELSE /\ by' = "browser"
           /\ note' = validate(weeksBetween(f.start_date, f.end_date))

-----------------------------------------------------------------------------

Empty(sid) == [start_date |-> NoDate, end_date |-> NoDate, semester |-> sid]

DurationInit ==
    /\ form \in {Empty(sid) : sid \in Sids}
    /\ note = validation(form)
    /\ by = "server"

(* The student changes a date, or clears it, and leaves the field. *)
TypeStart(d) ==
    /\ form' = [form EXCEPT !.start_date = d]
    /\ validateDuration(form')

TypeEnd(d) ==
    /\ form' = [form EXCEPT !.end_date = d]
    /\ validateDuration(form')

(* Choosing a semester does not run validateDuration. *)
ChooseSemester(sid) ==
    /\ form' = [form EXCEPT !.semester = sid]
    /\ UNCHANGED <<note, by>>

(* The form is saved and opened again. *)
Save ==
    /\ note' = validation(form)
    /\ by' = "server"
    /\ UNCHANGED form

DurationNext ==
    \/ \E d \in Starts \cup {NoDate} : TypeStart(d)
    \/ \E d \in Ends \cup {NoDate} : TypeEnd(d)
    \/ \E sid \in Sids : ChooseSemester(sid)
    \/ Save

DurationSpec == DurationInit /\ [][DurationNext]_durationVars

-----------------------------------------------------------------------------
(* Properties *)

(* The form, the note and its author have their types. *)
DurationTypeOK ==
    /\ form \in Form
    /\ note \in Validation
    /\ by \in {"server", "browser"}
    /\ by = "browser" => note # "date_missing"

(* Working days, Monday to Friday, from one date to another *)
WorkingDays(a, b) == Cardinality({d \in a..b : weekday(d) < Friday + 1})

(***************************************************************************)
(* What the weeks mean.  The server accepts a duration only if it has the  *)
(* working days of 4 weeks, and of as many as the semester requires for    *)
(* the whole course; and an internship that starts on a Monday and has     *)
(* these days is accepted, whether it ends on the Friday or the weekend.   *)
(***************************************************************************)
WeeksAreWorkingWeeks ==
    DatesGiven =>
        LET worked == WorkingDays(form.start_date, form.end_date)
            required == required_weeks(form.semester)
            exact == weekday(form.start_date) = 0
        IN  /\ valid_duration(form) => worked >= 5 * 4
            /\ validation(form) = "ok" => worked >= 5 * required
            /\ exact /\ worked >= 5 * 4 => valid_duration(form)
            /\ exact /\ worked >= 5 * required => validation(form) = "ok"

(***************************************************************************)
(* The browser's verdict on two dates is never stricter than the server's: *)
(* no student is told that dates are too short which the server accepts.   *)
(***************************************************************************)
Rank == [v \in Validation |->
            CASE v = "negative" -> 1
              [] v = "too_short" -> 2
              [] v = "ok_for_part" -> 3
              [] v = "ok" -> 4
              [] OTHER -> 0]

BrowserNeverStricter ==
    (by = "browser" /\ DatesGiven) => Rank[note] >= Rank[validation(form)]

(* The browser and the server judge two dates alike. *)
BrowserAgrees == (by = "browser" /\ DatesGiven) => note = validation(form)

=============================================================================
