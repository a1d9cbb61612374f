--------------------------- MODULE SemestersProofs ---------------------------
(***************************************************************************)
(* For all dates, names and threads: the conversions of SemesterHelper fit *)
(* together, and so do the rows that Semesters stores and looks up; and    *)
(* what the browser says of the dates of an internship in a semester is    *)
(* never stricter than what the server says, which rounds and moves the    *)
(* end but still means working weeks.                                      *)
(***************************************************************************)
EXTENDS Semesters, InternshipDuration, FiniteSetTheorems, WellFoundedInduction,
        TLAPS

-----------------------------------------------------------------------------
(* The arithmetic of semester ids *)

(* A month lies in its year. *)
LEMMA MonthInYear ==
  ASSUME NEW m \in Int
  PROVE  /\ YearOf(m) \in Int
         /\ 12 * YearOf(m) <= m
         /\ m < 12 * YearOf(m) + 12
  BY DEF YearOf

(* The id of a semester falls apart into its year and its half. *)
LEMMA SidParts ==
  ASSUME NEW y \in Int
  PROVE  /\ sid2year(10 * y + 1) = y
         /\ sid2year(10 * y + 2) = y
         /\ (10 * y + 1) % 10 = 1
         /\ (10 * y + 2) % 10 = 2
  BY DEF sid2year

(* The semester of a month is the summer or the winter of one year. *)
LEMMA SidOfMonth ==
  ASSUME NEW m \in Int
  PROVE  \E y \in Int :
            \/ date2sid(m) = 10 * y + 1 /\ 12 * y + 3 <= m /\ m < 12 * y + 9
            \/ date2sid(m) = 10 * y + 2 /\ 12 * y + 9 <= m /\ m < 12 * y + 15
  <1> DEFINE y == YearOf(m)
  <1>1. y \in Int /\ 12 * y <= m /\ m < 12 * y + 12
    BY MonthInYear
  <1>2. start_day_for(y, SUMMER) = 12 * y + 3 /\ start_day_for(y, WINTER) = 12 * y + 9
    BY <1>1 DEF start_day_for, Month, SUMMER, WINTER
  <1>3. CASE m < 12 * y + 3
    <2>1. date2sid(m) = 10 * (y - 1) + 2
      BY <1>1, <1>2, <1>3 DEF date2sid
    <2>2. y - 1 \in Int /\ 12 * (y - 1) + 9 <= m /\ m < 12 * (y - 1) + 15
      BY <1>1, <1>3
    <2>3. QED
      BY <2>1, <2>2
  <1>4. CASE m >= 12 * y + 9
    <2>1. date2sid(m) = 10 * y + 2
      BY <1>1, <1>2, <1>4 DEF date2sid
    <2>2. QED
      BY <1>1, <1>4, <2>1
  <1>5. CASE ~(m < 12 * y + 3) /\ ~(m >= 12 * y + 9)
    <2>1. date2sid(m) = 10 * y + 1
      BY <1>1, <1>2, <1>5 DEF date2sid
    <2>2. QED
      BY <1>1, <1>5, <2>1
  <1>6. QED
    BY <1>3, <1>4, <1>5

(* The semester of a month has begun and lasts six months. *)
LEMMA MonthInSemester ==
  ASSUME NEW m \in Int
  PROVE  start_day(date2sid(m)) <= m /\ m < start_day(date2sid(m)) + 6
  <1>1. PICK y \in Int :
            \/ date2sid(m) = 10 * y + 1 /\ 12 * y + 3 <= m /\ m < 12 * y + 9
            \/ date2sid(m) = 10 * y + 2 /\ 12 * y + 9 <= m /\ m < 12 * y + 15
    BY SidOfMonth
  <1>2. CASE date2sid(m) = 10 * y + 1 /\ 12 * y + 3 <= m /\ m < 12 * y + 9
    <2>1. sid2year(date2sid(m)) = y /\ winter_or_summer(date2sid(m)) = SUMMER
      BY <1>2, SidParts DEF winter_or_summer
    <2>2. start_day(date2sid(m)) = 12 * y + 3
      BY <2>1 DEF start_day, start_day_for, Month, SUMMER, WINTER
    <2>3. QED
      BY <1>2, <2>2
  <1>3. CASE date2sid(m) = 10 * y + 2 /\ 12 * y + 9 <= m /\ m < 12 * y + 15
    <2>1. sid2year(date2sid(m)) = y /\ winter_or_summer(date2sid(m)) = WINTER
      BY <1>3, SidParts DEF winter_or_summer
    <2>2. start_day(date2sid(m)) = 12 * y + 9
      BY <2>1 DEF start_day, start_day_for, Month, SUMMER, WINTER
    <2>3. QED
      BY <1>3, <2>2
  <1>4. QED
    BY <1>1, <1>2, <1>3

(* Converting a sid of this century to a name and back. *)
LEMMA NameRoundTrip ==
  ASSUME NEW y \in 2000..2099, NEW sid \in {10 * y + 1, 10 * y + 2}
  PROVE  sid2name(sid) \in Name /\ name2sid(sid2name(sid)) = sid
  <1>1. sid2year(sid) = y
    BY SidParts
  <1>2. y % 100 = y - 2000
    OBVIOUS
  <1>3. CASE sid = 10 * y + 1
    <2>1. winter_or_summer(sid) = SUMMER
      BY <1>3, SidParts DEF winter_or_summer
    <2>2. sid2name(sid) = [marker |-> SUMMER, year |-> y - 2000, next |-> NoYear]
      BY <1>1, <1>2, <2>1 DEF sid2name, SUMMER, WINTER
    <2>3. QED
      BY <1>3, <2>2 DEF Name, name2sid, SEM_NO, SUMMER, WINTER, NoYear
  <1>4. CASE sid = 10 * y + 2
    <2>1. winter_or_summer(sid) = WINTER
      BY <1>4, SidParts DEF winter_or_summer
    <2>2. sid2name(sid) = [marker |-> WINTER, year |-> y - 2000,
                           next |-> y - 2000 + 1]
      BY <1>1, <1>2, <2>1 DEF sid2name, SUMMER, WINTER
    <2>3. QED
      BY <1>4, <2>2 DEF Name, name2sid, SEM_NO, SUMMER, WINTER, NoYear
  <1>5. QED
    BY <1>3, <1>4

-----------------------------------------------------------------------------
(* The table *)

(* Semesters looked up for these dates can be named. *)
LEMMA NamedSid ==
  ASSUME NEW m \in Months
  PROVE  /\ m \in Int
         /\ date2sid(m) \in Sid
         /\ sid2name(date2sid(m)) \in Name
         /\ name2sid(sid2name(date2sid(m))) = date2sid(m)
  <1>1. m \in Int /\ 24003 <= m /\ m <= 25199
    BY MonthsAssumption DEF Month
  <1>2. m \in Month(2000, 1)..Month(2100, 12)
    BY <1>1 DEF Month
  <1>3. PICK y \in Int :
            \/ date2sid(m) = 10 * y + 1 /\ 12 * y + 3 <= m /\ m < 12 * y + 9
            \/ date2sid(m) = 10 * y + 2 /\ 12 * y + 9 <= m /\ m < 12 * y + 15
    BY <1>1, SidOfMonth
  <1>4. y \in 2000..2099 /\ date2sid(m) \in {10 * y + 1, 10 * y + 2}
    BY <1>1, <1>3
  <1>5. QED
    BY <1>1, <1>2, <1>4, NameRoundTrip DEF Sid

(* The sids that names of this century stand for. *)
LEMMA SidOfName ==
  ASSUME NEW name \in Name
  PROVE  name2sid(name) \in Sid
  <1> DEFINE y == 2000 + name.year
             sow == name.marker
             m == start_day_for(y, sow)
  <1>1. y \in 2000..2099 /\ sow \in {SUMMER, WINTER}
    BY DEF Name
  <1>2. CASE sow = SUMMER
    <2>1. m = 12 * y + 3 /\ name2sid(name) = 10 * y + 1
      BY <1>1, <1>2 DEF start_day_for, Month, name2sid, SEM_NO, SUMMER, WINTER
    <2>2. m \in Int /\ m \in Month(2000, 1)..Month(2100, 12)
      BY <1>1, <2>1 DEF Month
    <2> HIDE DEF m
    <2>3. \E z \in Int :
              \/ date2sid(m) = 10 * z + 1 /\ 12 * z + 3 <= m /\ m < 12 * z + 9
              \/ date2sid(m) = 10 * z + 2 /\ 12 * z + 9 <= m /\ m < 12 * z + 15
      BY <2>2, SidOfMonth
    <2>4. date2sid(m) = 10 * y + 1
      BY <1>1, <2>1, <2>3
    <2>5. date2sid(m) \in Sid
      BY <2>2 DEF Sid
    <2>6. QED
      BY <2>1, <2>4, <2>5
  <1>3. CASE sow = WINTER
    <2>1. m = 12 * y + 9 /\ name2sid(name) = 10 * y + 2
      BY <1>1, <1>3 DEF start_day_for, Month, name2sid, SEM_NO, SUMMER, WINTER
    <2>2. m \in Int /\ m \in Month(2000, 1)..Month(2100, 12)
      BY <1>1, <2>1 DEF Month
    <2> HIDE DEF m
    <2>3. \E z \in Int :
              \/ date2sid(m) = 10 * z + 1 /\ 12 * z + 3 <= m /\ m < 12 * z + 9
              \/ date2sid(m) = 10 * z + 2 /\ 12 * z + 9 <= m /\ m < 12 * z + 15
      BY <2>2, SidOfMonth
    <2>4. date2sid(m) = 10 * y + 2
      BY <1>1, <2>1, <2>3
    <2>5. date2sid(m) \in Sid
      BY <2>2 DEF Sid
    <2>6. QED
      BY <2>1, <2>4, <2>5
  <1>4. QED
    BY <1>1, <1>2, <1>3

(* No two rows have the same primary key. *)
Keyed == \A s, t \in semesters : s.id = t.id => s = t

(***************************************************************************)
(* A lookup remembers only keys that have been given out, and what it      *)
(* found or created has, as long as it is there, the sid of its date.      *)
(***************************************************************************)
Remembered ==
    \A w \in Workers :
        /\ req[w].id \in used \cup {None}
        /\ req[w].pc = "create" => req[w].date \in Months
        /\ \A s \in semesters : req[w].id = s.id => s.sid = date2sid(req[w].date)

(* The inductive invariant *)
Inv == TypeOK /\ Keyed /\ Remembered /\ NamesDenoteSids

(* Every step keeps the types. *)
LEMMA TypeKept == Inv /\ [Next]_vars => TypeOK'
  <1> SUFFICES ASSUME Inv, [Next]_vars PROVE TypeOK'
    OBVIOUS
  <1> USE DEF TypeOK, Keyed, Remembered
  <1>1. ASSUME NEW w \in Workers, Step(w), Overlap(w)
        PROVE  TypeOK'
    <2>0. overlapped' \in BOOLEAN
      BY <1>1 DEF Overlap, Inv
    <2>1. ASSUME NEW date \in Months, for_date(w, date)
          PROVE  TypeOK'
      <3>1. date \in Int
        BY NamedSid
      <3>2. ASSUME NEW s \in semesters, Answer(w, date, s.id)
            PROVE  req' \in [Workers -> Request]
        <4>1. s.id \in Ids
          BY DEF Inv, Row
        <4>2. QED
          BY <3>1, <3>2, <4>1 DEF Inv, Answer, Request
      <3>3. ASSUME req' = [req EXCEPT ![w] =
                              [pc |-> "create", date |-> date, id |-> None]]
            PROVE  req' \in [Workers -> Request]
        BY <3>1, <3>3 DEF Inv, Request
      <3>4. req' \in [Workers -> Request]
        BY <2>1, <3>2, <3>3 DEF for_date
      <3>5. QED
        BY <2>0, <2>1, <3>4 DEF for_date, Inv
    <2>2. CASE current(w)
      BY <2>1, <2>2 DEF current
    <2>3. CASE Neighbour(w)
      BY <2>1, <2>3 DEF Neighbour
    <2>4. CASE CreateForDate(w)
      <3> DEFINE date == req[w].date
                 sid == date2sid(req[w].date)
      <3>1. PICK i \in Ids : Insert(i, sid, sid2name(sid)) /\ Answer(w, date, i)
        BY <2>4 DEF CreateForDate
      <3>2. date \in Int /\ sid \in Sid /\ sid2name(sid) \in Name
        BY <2>4, NamedSid DEF CreateForDate, Inv
      <3>3. [id |-> i, sid |-> sid, name |-> sid2name(sid)] \in Row
        BY <3>2 DEF Row
      <3>4. semesters' \subseteq Row /\ used' \subseteq Ids
        BY <3>1, <3>3 DEF Insert, Inv
      <3>5. ({s.id : s \in semesters} \cup renamed \subseteq used)'
        BY <2>4, <3>1 DEF Insert, Inv, CreateForDate
      <3>6. req' \in [Workers -> Request]
        BY <3>1, <3>2 DEF Answer, Request, Inv
      <3>7. QED
        BY <2>0, <3>4, <3>5, <3>6
    <2>5. CASE Crash(w)
      <3>1. req' \in [Workers -> Request]
        BY <2>5 DEF Crash, Answer, Request, Inv
      <3>2. QED
        BY <2>0, <2>5, <3>1 DEF Crash, Inv
    <2>6. ASSUME NEW name \in Names, AdminCreate(w, name)
          PROVE  TypeOK'
      <3>1. name \in Name
        BY <2>6, NamesAssumption DEF AdminCreate
      <3>2. PICK i \in Ids : Insert(i, name2sid(name), name)
        BY <2>6 DEF AdminCreate
      <3>3. [id |-> i, sid |-> name2sid(name), name |-> name] \in Row
        BY <3>1, SidOfName DEF Row
      <3>4. semesters' \subseteq Row /\ used' \subseteq Ids
        BY <3>2, <3>3 DEF Insert, Inv
      <3>5. ({s.id : s \in semesters} \cup renamed \subseteq used)'
        BY <2>6, <3>2 DEF Insert, Inv, AdminCreate
      <3>6. QED
        BY <2>0, <2>6, <3>4, <3>5 DEF AdminCreate, Inv
    <2>7. ASSUME NEW s \in semesters, AdminDestroy(w, s)
          PROVE  TypeOK'
      BY <2>0, <2>7 DEF AdminDestroy, Inv
    <2>8. ASSUME NEW s \in semesters, NEW name \in Names, AdminRename(w, s, name)
          PROVE  TypeOK'
      <3>1. [s EXCEPT !.name = name] \in Row /\ [s EXCEPT !.name = name].id = s.id
        BY NamesAssumption DEF Inv, Row
      <3>2. QED
        <4>1. semesters' \subseteq Row
          BY <2>8, <3>1 DEF AdminRename, Inv
        <4>2. s.id \in used
          BY DEF Inv
        <4>3. ASSUME NEW t \in semesters'
              PROVE  t.id \in used
          BY <2>8, <3>1, <4>2 DEF AdminRename, Inv
        <4>4. renamed' \subseteq used /\ used' = used /\ req' = req
          BY <2>8, <4>2 DEF AdminRename, Inv
        <4>5. QED
          BY <2>0, <4>1, <4>3, <4>4 DEF Inv
    <2>9. QED
      BY <1>1, <2>2, <2>3, <2>4, <2>5, <2>6, <2>7, <2>8 DEF Step
  <1>2. CASE UNCHANGED vars
    BY <1>2 DEF vars, Inv
  <1>3. QED
    BY <1>1, <1>2 DEF Next

(* A new row has a new key, which nobody remembers yet. *)
LEMMA InsertKeeps ==
  ASSUME Inv, NEW i \in Ids, NEW sid, NEW name \in Name,
         name2sid(name) = sid, Insert(i, sid, name)
  PROVE  /\ Keyed'
         /\ renamed' = renamed => NamesDenoteSids'
         /\ \A w \in Workers : req[w].id \notin {i}
         /\ \A s \in semesters' : s \in semesters \/ (s.id = i /\ s.sid = sid)
         /\ used' = used \cup {i}
  <1> DEFINE row == [id |-> i, sid |-> sid, name |-> name]
  <1>1. i \notin used /\ semesters' = semesters \cup {row} /\ used' = used \cup {i}
    BY DEF Insert, Fresh
  <1>2. i # None
    BY NoneAssumption
  <1>3. \A s \in semesters : s.id \in used
    BY DEF Inv, TypeOK
  <1>4. Keyed'
    BY <1>1, <1>3 DEF Keyed, Inv
  <1>5. ASSUME renamed' = renamed PROVE NamesDenoteSids'
    BY <1>1, <1>5 DEF NamesDenoteSids, Inv
  <1>6. QED
    BY <1>1, <1>2, <1>4, <1>5 DEF Inv, Remembered

(* A lookup that finds its semester, or goes on to create it *)
LEMMA LookupKeeps ==
  ASSUME Inv, NEW w \in Workers, NEW date \in Months, for_date(w, date)
  PROVE  Keyed' /\ Remembered' /\ NamesDenoteSids'
  <1>1. UNCHANGED <<semesters, used, renamed>>
    BY DEF for_date
  <1>2. Keyed' /\ NamesDenoteSids'
    BY <1>1 DEF Inv, Keyed, NamesDenoteSids
  <1>3. ASSUME NEW s \in semesters, s.sid = date2sid(date), Answer(w, date, s.id)
        PROVE  Remembered'
    <2>1. s.id \in used /\ \A t \in semesters : s.id = t.id => t = s
      BY DEF Inv, Keyed, TypeOK
    <2>2. req' = [req EXCEPT ![w] =
                     [pc |-> "answered", date |-> date, id |-> s.id]]
      BY <1>3 DEF Answer
    <2>3. QED
      BY <1>1, <1>3, <2>1, <2>2 DEF Inv, Remembered, TypeOK
  <1>4. ASSUME req' = [req EXCEPT ![w] =
                          [pc |-> "create", date |-> date, id |-> None]]
        PROVE  Remembered'
    <2>1. \A s \in semesters : s.id # None
      BY NoneAssumption DEF Inv, TypeOK, Row
    <2>2. QED
      BY <1>1, <1>4, <2>1 DEF Inv, Remembered, TypeOK
  <1>5. QED
    BY <1>2, <1>3, <1>4 DEF for_date

LEMMA InvIsInductive == Inv /\ [Next]_vars => Inv'
  <1> SUFFICES ASSUME Inv, [Next]_vars PROVE Keyed' /\ Remembered' /\ NamesDenoteSids'
    BY TypeKept DEF Inv
  <1> USE DEF Keyed, Remembered, NamesDenoteSids
  <1>1. ASSUME NEW w \in Workers, Step(w)
        PROVE  Keyed' /\ Remembered' /\ NamesDenoteSids'
    <2>1. CASE current(w)
      BY <2>1, LookupKeeps DEF current
    <2>2. CASE Neighbour(w)
      BY <2>2, LookupKeeps DEF Neighbour
    <2>3. CASE CreateForDate(w)
      <3> DEFINE date == req[w].date
                 sid == date2sid(req[w].date)
      <3>1. PICK i \in Ids : Insert(i, sid, sid2name(sid)) /\ Answer(w, date, i)
        BY <2>3 DEF CreateForDate
      <3>2. /\ date \in Months
            /\ sid2name(sid) \in Name
            /\ name2sid(sid2name(sid)) = sid
            /\ renamed' = renamed
        BY <2>3, NamedSid DEF CreateForDate, Inv
      <3> HIDE DEF sid
      <3>3. /\ Keyed'
            /\ NamesDenoteSids'
            /\ \A v \in Workers : req[v].id # i
            /\ \A s \in semesters' : s \in semesters \/ (s.id = i /\ s.sid = sid)
            /\ used' = used \cup {i}
        BY <3>1, <3>2, InsertKeeps
      <3>4. \A s \in semesters : s.id # i
        BY <3>1 DEF Insert, Fresh, Inv, TypeOK
      <3>5. req' = [req EXCEPT ![w] = [pc |-> "answered", date |-> date, id |-> i]]
        BY <3>1 DEF Answer
      <3>6. Remembered'
        BY <3>3, <3>4, <3>5 DEF sid, Inv, TypeOK
      <3>7. QED
        BY <3>3, <3>6
    <2>4. CASE Crash(w)
      <3>1. \A s \in semesters : s.id # None
        BY NoneAssumption DEF Inv, TypeOK, Row
      <3>2. QED
        BY <2>4, <3>1 DEF Crash, Answer, Inv, TypeOK
    <2>5. ASSUME NEW name \in Names, AdminCreate(w, name)
          PROVE  Keyed' /\ Remembered' /\ NamesDenoteSids'
      <3>1. name \in Name /\ UNCHANGED <<req, renamed>>
        BY <2>5, NamesAssumption DEF AdminCreate
      <3>2. PICK i \in Ids : Insert(i, name2sid(name), name)
        BY <2>5 DEF AdminCreate
      <3>3. /\ Keyed'
            /\ NamesDenoteSids'
            /\ \A v \in Workers : req[v].id # i
            /\ \A s \in semesters' : s \in semesters \/ s.id = i
            /\ used' = used \cup {i}
        BY <3>1, <3>2, InsertKeeps
      <3>4. QED
        BY <3>1, <3>3 DEF Inv
    <2>6. ASSUME NEW s \in semesters, AdminDestroy(w, s)
          PROVE  Keyed' /\ Remembered' /\ NamesDenoteSids'
      BY <2>6 DEF AdminDestroy, Inv
    <2>7. ASSUME NEW s \in semesters, NEW name \in Names, AdminRename(w, s, name)
          PROVE  Keyed' /\ Remembered' /\ NamesDenoteSids'
      <3> DEFINE row == [s EXCEPT !.name = name]
      <3>1. row.id = s.id /\ row.sid = s.sid
        BY DEF Inv, TypeOK, Row
      <3>2. /\ semesters' = (semesters \ {s}) \cup {row}
            /\ renamed' = renamed \cup {s.id}
            /\ UNCHANGED <<used, req>>
        BY <2>7 DEF AdminRename
      <3> HIDE DEF row
      <3>3. QED
        BY <3>1, <3>2 DEF Inv
    <2>8. QED
      BY <1>1, <2>1, <2>2, <2>3, <2>4, <2>5, <2>6, <2>7 DEF Step
  <1>2. CASE UNCHANGED vars
    BY <1>2 DEF vars, Inv
  <1>3. QED
    BY <1>1, <1>2 DEF Next

LEMMA InvHolds == Spec => []Inv
  <1>1. Init => Inv
    <2> SUFFICES ASSUME Init PROVE Inv
      OBVIOUS
    <2> DEFINE m == Month(2019, 10)
    <2>1. m \in Month(2000, 4)..Month(2099, 12)
      BY DEF Month
    <2>2. m \in Int
      BY DEF Month
    <2>3. PICK i \in Ids : semesters = {FirstRow(i)} /\ used = {i}
      BY DEF Init
    <2>4. FirstRow(i) \in Row /\ name2sid(FirstRow(i).name) = FirstRow(i).sid
      <3>1. PICK y \in Int :
                \/ date2sid(m) = 10 * y + 1 /\ 12 * y + 3 <= m /\ m < 12 * y + 9
                \/ date2sid(m) = 10 * y + 2 /\ 12 * y + 9 <= m /\ m < 12 * y + 15
        BY <2>2, SidOfMonth
      <3>2. y \in 2000..2099 /\ date2sid(m) \in {10 * y + 1, 10 * y + 2}
        BY <3>1 DEF Month
      <3>3. m \in Month(2000, 1)..Month(2100, 12)
        BY DEF Month
      <3> HIDE DEF m
      <3>4. date2sid(m) \in Sid
        BY <3>3 DEF Sid
      <3>5. QED
        BY <3>2, <3>4, NameRoundTrip DEF FirstRow, Row, m
    <2>5. i # None /\ FirstRow(i).id = i
      BY NoneAssumption DEF FirstRow
    <2>6. req \in [Workers -> Request]
      <3>1. [pc |-> "answered", date |-> 0, id |-> None] \in Request
        BY DEF Request
      <3>2. QED
        BY <3>1 DEF Init
    <2>7. overlapped \in BOOLEAN /\ renamed = {}
      BY DEF Init
    <2>8. TypeOK
      BY <2>3, <2>4, <2>5, <2>6, <2>7 DEF TypeOK
    <2>9. NamesDenoteSids
      BY <2>3, <2>4 DEF NamesDenoteSids
    <2>10. \A w \in Workers : req[w].id = None /\ req[w].pc = "answered"
      BY DEF Init
    <2>11. QED
      BY <2>3, <2>5, <2>8, <2>9, <2>10 DEF Inv, Keyed, Remembered
  <1>2. QED
    BY <1>1, InvIsInductive, PTL DEF Spec

(***************************************************************************)
(* The rows, the keys and the lookups have their types, for any dates of   *)
(* this century, any names and any number of threads.                      *)
(***************************************************************************)
THEOREM TypeCorrect == Spec => []TypeOK
  BY InvHolds, PTL DEF Inv

(* A semester that nobody has renamed has the name of its sid. *)
THEOREM NamesCorrect == Spec => []NamesDenoteSids
  BY InvHolds, PTL DEF Inv

(***************************************************************************)
(* Looking up the semester of a date yields one that has begun on that     *)
(* date and ends after it, however the table has come about.               *)
(***************************************************************************)
THEOREM LookupCorrect == Spec => []ForDateCovers
  <1>1. Inv => ForDateCovers
    <2> SUFFICES ASSUME Inv, NEW w \in Workers, NEW s \in semesters, req[w].id = s.id
                 PROVE  /\ start_day(s.sid) <= req[w].date
                        /\ req[w].date < start_day(s.sid) + 6
      BY DEF ForDateCovers
    <2>1. s.sid = date2sid(req[w].date) /\ req[w].date \in Int
      BY DEF Inv, Remembered, TypeOK, Request
    <2>2. QED
      BY <2>1, MonthInSemester
  <1>2. QED
    BY <1>1, InvHolds, PTL

(* Until requests overlap, a lookup about to create has seen all the rows. *)
NothingMissed ==
    ~overlapped =>
        \A w \in Workers : req[w].pc = "create" =>
            \A s \in semesters : s.sid # date2sid(req[w].date)

(* Only a lookup that has found nothing goes on to create. *)
LEMMA CreateFoundNothing ==
  ASSUME TypeOK, NEW w \in Workers, Step(w), req'[w].pc = "create"
  PROVE  /\ semesters' = semesters
         /\ \A s \in semesters : s.sid # date2sid(req'[w].date)
  <1>1. ASSUME NEW date \in Months, for_date(w, date)
        PROVE  /\ semesters' = semesters
               /\ \A s \in semesters : s.sid # date2sid(req'[w].date)
    <2>1. CASE \A s \in semesters : s.sid # date2sid(date)
      BY <1>1, <2>1 DEF for_date, Answer, TypeOK
    <2>2. CASE \E s \in semesters : s.sid = date2sid(date)
      BY <1>1, <2>2 DEF for_date, Answer, TypeOK
    <2>3. QED
      BY <2>1, <2>2
  <1>2. ~CreateForDate(w) /\ ~Crash(w)
    BY DEF CreateForDate, Crash, Answer, TypeOK
  <1>3. /\ \A name \in Names : ~AdminCreate(w, name)
        /\ \A s \in semesters : ~AdminDestroy(w, s)
        /\ \A s \in semesters, name \in Names : ~AdminRename(w, s, name)
    BY DEF AdminCreate, AdminDestroy, AdminRename
  <1>4. QED
    BY <1>1, <1>2, <1>3 DEF Step, current, Neighbour

(* A step of one thread leaves the lookups of the others alone. *)
LEMMA OthersUntouched ==
  ASSUME TypeOK, NEW w \in Workers, Step(w), NEW v \in Workers, v # w
  PROVE  req'[v] = req[v]
  BY DEF Step, current, Neighbour, for_date, CreateForDate, Crash, Answer,
         AdminCreate, AdminDestroy, AdminRename, TypeOK

LEMMA NothingMissedHolds == Spec => []NothingMissed
  <1>1. Init => NothingMissed
    BY DEF Init, NothingMissed
  <1>2. TypeOK /\ NothingMissed /\ [Next]_vars => NothingMissed'
    <2> SUFFICES ASSUME TypeOK, NothingMissed, [Next]_vars, ~overlapped',
                        NEW v \in Workers, req'[v].pc = "create"
                 PROVE  \A s \in semesters' : s.sid # date2sid(req'[v].date)
      BY DEF NothingMissed
    <2>1. ASSUME NEW w \in Workers, Step(w), Overlap(w)
          PROVE  \A s \in semesters' : s.sid # date2sid(req'[v].date)
      <3>1. CASE v = w
        BY <2>1, <3>1, CreateFoundNothing
      <3>2. CASE v # w
        BY <2>1, <3>2, OthersUntouched DEF Overlap, TypeOK, Request
      <3>3. QED
        BY <3>1, <3>2
    <2>2. CASE UNCHANGED vars
      BY <2>2 DEF vars, NothingMissed
    <2>3. QED
      BY <2>1, <2>2 DEF Next
  <1>3. QED
    BY <1>1, <1>2, TypeCorrect, PTL DEF Spec

(***************************************************************************)
(* Only lookups that overlap can store a semester twice.                   *)
(***************************************************************************)
THEOREM NoDuplicates == Spec => LookupAddsNoDuplicate
  <1>1. NothingMissed /\ [Next]_vars =>
            [\A w \in Workers :
                (CreateForDate(w) /\ ~overlapped')
                    => \A s \in semesters : s.sid # date2sid(req[w].date)]_vars
    <2> SUFFICES ASSUME NothingMissed, [Next]_vars, NEW w \in Workers,
                        CreateForDate(w), ~overlapped'
                 PROVE  \A s \in semesters : s.sid # date2sid(req[w].date)
      OBVIOUS
    <2>1. req[w].pc = "create"
      BY DEF CreateForDate
    <2>2. ~overlapped
      BY DEF Next, Overlap, vars
    <2>3. QED
      BY <2>1, <2>2 DEF NothingMissed
  <1>2. QED
    BY <1>1, NothingMissedHolds, PTL DEF Spec, LookupAddsNoDuplicate

-----------------------------------------------------------------------------
(* The two ways to measure *)

(* Moving an end at the weekend to Monday adds at most three days. *)
LEMMA AdjustBound ==
  ASSUME NEW d \in Int
  PROVE  adjust(d) \in Int /\ d <= adjust(d) /\ adjust(d) <= d + 3
  BY DEF adjust, weekday, Friday, Saturday, Sunday

(* The server's hundredths of a week reach whole weeks with whole weeks. *)
LEMMA WeeksBound ==
  ASSUME NEW a \in Int, NEW b \in Int
  PROVE  /\ weeks(a, b) \in Int
         /\ weeks(a, b) >= 0 => b - a >= -3
         /\ weeks(a, b) >= 400 => b - a >= 25
         /\ weeks(a, b) >= 1600 => b - a >= 109
  <1>1. /\ adjust(b) - a \in Int
        /\ adjust(b) - a <= b - a + 3
    BY AdjustBound
  <1>2. ASSUME NEW n \in Int
        PROVE  /\ (200 * n + 7) \div 14 \in Int
               /\ (200 * n + 7) \div 14 >= 0 => n >= 0
               /\ (200 * n + 7) \div 14 >= 400 => n >= 28
               /\ (200 * n + 7) \div 14 >= 1600 => n >= 112
    OBVIOUS
  <1>3. QED
    BY <1>1, <1>2 DEF weeks

(* The browser's whole weeks, rounded, reach them three days earlier. *)
LEMMA WeeksBetweenBound ==
  ASSUME NEW a \in Int, NEW b \in Int
  PROVE  /\ weeksBetween(a, b) \in Int
         /\ b - a >= -3 => weeksBetween(a, b) >= 0
         /\ b - a >= 25 => weeksBetween(a, b) >= 4
         /\ b - a >= 109 => weeksBetween(a, b) >= 16
  <1> DEFINE n == b - a
  <1>1. ASSUME NEW i \in Int
        PROVE  /\ (2 * i + 7) \div 14 \in Int
               /\ i >= -3 => (2 * i + 7) \div 14 >= 0
               /\ i >= 25 => (2 * i + 7) \div 14 >= 4
               /\ i >= 109 => (2 * i + 7) \div 14 >= 16
    OBVIOUS
  <1>2. n \in Int
    OBVIOUS
  <1>3. QED
    BY <1>1, <1>2 DEF weeksBetween

(* Both verdicts grow with the weeks. *)
LEMMA NeverStricter ==
  ASSUME NEW a \in Int, NEW b \in Int, NEW sid \in Int
  PROVE  /\ validate(weeksBetween(a, b)) \in Validation \ {"date_missing"}
         /\ do_validation(weeks(a, b), sid) \in Validation
         /\ Rank[validate(weeksBetween(a, b))]
                >= Rank[do_validation(weeks(a, b), sid)]
  <1> DEFINE h == weeks(a, b)
             w == weeksBetween(a, b)
  <1>1. /\ h \in Int /\ w \in Int
        /\ h >= 0 => w >= 0
        /\ h >= 400 => w >= 4
        /\ h >= 1600 => w >= 16
    <2>1. /\ h \in Int
          /\ h >= 0 => b - a >= -3
          /\ h >= 400 => b - a >= 25
          /\ h >= 1600 => b - a >= 109
      BY WeeksBound
    <2>2. /\ w \in Int
          /\ b - a >= -3 => w >= 0
          /\ b - a >= 25 => w >= 4
          /\ b - a >= 109 => w >= 16
      BY WeeksBetweenBound
    <2>3. QED
      BY <2>1, <2>2
  <1> HIDE DEF h, w
  <1>2. required_weeks(sid) \in {16, 19}
    BY DEF required_weeks
  <1>3. /\ Rank["negative"] = 1 /\ Rank["too_short"] = 2
        /\ Rank["ok_for_part"] = 3 /\ Rank["ok"] = 4
    BY DEF Rank, Validation
  <1>4. /\ w < 0 => validate(w) = "negative"
        /\ w >= 0 /\ w < 4 => validate(w) = "too_short"
        /\ w >= 4 /\ w < 16 => validate(w) = "ok_for_part"
        /\ w >= 16 => validate(w) = "ok"
    BY <1>1 DEF validate
  <1>5. /\ h < 0 => do_validation(h, sid) = "negative"
        /\ h >= 0 /\ h < 400 => do_validation(h, sid) = "too_short"
        /\ h >= 400 /\ h < 1600 => do_validation(h, sid) = "ok_for_part"
        /\ h >= 1600 => do_validation(h, sid) \in {"ok_for_part", "ok"}
    BY <1>1, <1>2 DEF do_validation
  <1>6. QED
    BY <1>1, <1>3, <1>4, <1>5 DEF Validation, h, w

-----------------------------------------------------------------------------
(* The form *)

(* The browser's note belongs to the dates that are on the form. *)
DurationInv ==
    /\ DurationTypeOK
    /\ (by = "browser" /\ DatesGiven)
          => note = validate(weeksBetween(form.start_date, form.end_date))

LEMMA DatesAreInt ==
  ASSUME NEW f \in Form, f.start_date # NoDate, f.end_date # NoDate
  PROVE  f.start_date \in Int /\ f.end_date \in Int /\ f.semester \in Int
  BY DatesAssumption, SidsAssumption DEF Form

LEMMA ValidationType ==
  ASSUME NEW f \in Form
  PROVE  validation(f) \in Validation
  <1>1. CASE f.start_date = NoDate \/ f.end_date = NoDate
    BY <1>1 DEF validation, Validation
  <1>2. CASE f.start_date # NoDate /\ f.end_date # NoDate
    BY <1>2, DatesAreInt, NeverStricter DEF validation
  <1>3. QED
    BY <1>1, <1>2

(* Leaving a date field keeps the invariant. *)
LEMMA ValidateKeeps ==
  ASSUME DurationInv, form' \in Form, validateDuration(form')
  PROVE  DurationInv'
  <1>1. CASE form'.start_date = NoDate \/ form'.end_date = NoDate
    BY <1>1 DEF validateDuration, DurationInv, DurationTypeOK, DatesGiven
  <1>2. CASE form'.start_date # NoDate /\ form'.end_date # NoDate
    <2>1. by' = "browser"
          /\ note' = validate(weeksBetween(form'.start_date, form'.end_date))
      BY <1>2 DEF validateDuration
    <2>2. note' \in Validation \ {"date_missing"}
      BY <1>2, <2>1, DatesAreInt, NeverStricter
    <2>3. QED
      BY <2>1, <2>2 DEF DurationInv, DurationTypeOK
  <1>3. QED
    BY <1>1, <1>2

LEMMA DurationInvHolds == DurationSpec => []DurationInv
  <1>1. DurationInit => DurationInv
    <2> SUFFICES ASSUME DurationInit PROVE DurationInv
      OBVIOUS
    <2>1. form \in Form
      BY DEF DurationInit, Empty, Form
    <2>2. QED
      BY <2>1, ValidationType DEF DurationInit, DurationInv, DurationTypeOK
  <1>2. DurationInv /\ [DurationNext]_durationVars => DurationInv'
    <2> SUFFICES ASSUME DurationInv, [DurationNext]_durationVars PROVE DurationInv'
      OBVIOUS
    <2>1. ASSUME NEW d \in Starts \cup {NoDate}, TypeStart(d)
          PROVE  DurationInv'
      <3>1. form' \in Form
        BY <2>1 DEF TypeStart, DurationInv, DurationTypeOK, Form
      <3>2. QED
        BY <2>1, <3>1, ValidateKeeps DEF TypeStart
    <2>2. ASSUME NEW d \in Ends \cup {NoDate}, TypeEnd(d)
          PROVE  DurationInv'
      <3>1. form' \in Form
        BY <2>2 DEF TypeEnd, DurationInv, DurationTypeOK, Form
      <3>2. QED
        BY <2>2, <3>1, ValidateKeeps DEF TypeEnd
    <2>3. ASSUME NEW sid \in Sids, ChooseSemester(sid)
          PROVE  DurationInv'
      <3>1. /\ form' \in Form
            /\ form'.start_date = form.start_date
            /\ form'.end_date = form.end_date
        BY <2>3 DEF ChooseSemester, DurationInv, DurationTypeOK, Form
      <3>2. QED
        BY <2>3, <3>1 DEF ChooseSemester, DurationInv, DurationTypeOK, DatesGiven
    <2>4. CASE Save
      BY <2>4, ValidationType DEF Save, DurationInv, DurationTypeOK
    <2>5. CASE UNCHANGED durationVars
      BY <2>5 DEF durationVars, DurationInv, DurationTypeOK, DatesGiven
    <2>6. QED
      BY <2>1, <2>2, <2>3, <2>4, <2>5 DEF DurationNext
  <1>3. QED
    BY <1>1, <1>2, PTL DEF DurationSpec

(* The form and the note have their types. *)
THEOREM DurationTypeCorrect == DurationSpec => []DurationTypeOK
  BY DurationInvHolds, PTL DEF DurationInv

(***************************************************************************)
(* Whatever dates a student types, in whatever order, the browser does not *)
(* call them shorter than the server will.                                 *)
(***************************************************************************)
THEOREM NeverStricterThanServer == DurationSpec => []BrowserNeverStricter
  <1>1. DurationInv => BrowserNeverStricter
    <2> SUFFICES ASSUME DurationInv, by = "browser", DatesGiven
                 PROVE  Rank[note] >= Rank[validation(form)]
      BY DEF BrowserNeverStricter
    <2>1. form \in Form
      BY DEF DurationInv, DurationTypeOK
    <2>2. QED
      BY <2>1, DatesAreInt, NeverStricter DEF DurationInv, DatesGiven, validation
  <1>2. QED
    BY <1>1, DurationInvHolds, PTL

-----------------------------------------------------------------------------
(* Working days *)

(* Working days from day 0, a Monday, to the day before m; fewer than none *)
(* if m lies before.                                                       *)
WorkedBefore(m) == 5 * (m \div 7) + (IF m % 7 < 5 THEN m % 7 ELSE 5)

LEMMA WorkedNumbers ==
  ASSUME NEW m \in Int
  PROVE  /\ WorkedBefore(m) \in Int
         /\ WorkedBefore(m + 1) = WorkedBefore(m) + (IF m % 7 < 5 THEN 1 ELSE 0)
         /\ WorkedBefore(m + 28) = WorkedBefore(m) + 20
         /\ WorkedBefore(m + 112) = WorkedBefore(m) + 80
         /\ WorkedBefore(m + 133) = WorkedBefore(m) + 95
  <1>1. m \div 7 \in Int /\ m % 7 \in 0..6 /\ m = 7 * (m \div 7) + (m % 7)
    OBVIOUS
  <1>2. WorkedBefore(m) \in Int
    BY <1>1 DEF WorkedBefore
  <1>3. WorkedBefore(m + 1) = WorkedBefore(m) + (IF m % 7 < 5 THEN 1 ELSE 0)
    <2>1. CASE m % 7 < 6
      <3>1. (m + 1) \div 7 = m \div 7 /\ (m + 1) % 7 = (m % 7) + 1
        BY <2>1
      <3>2. QED
        BY <1>1, <3>1 DEF WorkedBefore
    <2>2. CASE m % 7 = 6
      <3>1. (m + 1) \div 7 = m \div 7 + 1 /\ (m + 1) % 7 = 0
        BY <2>2
      <3>2. QED
        BY <1>1, <2>2, <3>1 DEF WorkedBefore
    <2>3. QED
      BY <1>1, <2>1, <2>2
  <1>4. /\ (m + 28) \div 7 = m \div 7 + 4 /\ (m + 28) % 7 = m % 7
        /\ (m + 112) \div 7 = m \div 7 + 16 /\ (m + 112) % 7 = m % 7
        /\ (m + 133) \div 7 = m \div 7 + 19 /\ (m + 133) % 7 = m % 7
    OBVIOUS
  <1>5. QED
    BY <1>1, <1>2, <1>3, <1>4 DEF WorkedBefore

LEMMA WorkedGrows ==
  ASSUME NEW m \in Int, NEW n \in Int, m <= n
  PROVE  WorkedBefore(m) <= WorkedBefore(n)
  <1>1. /\ m \div 7 \in Int /\ m % 7 \in 0..6 /\ m = 7 * (m \div 7) + (m % 7)
        /\ n \div 7 \in Int /\ n % 7 \in 0..6 /\ n = 7 * (n \div 7) + (n % 7)
    OBVIOUS
  <1>2. QED
    BY <1>1 DEF WorkedBefore

(* Counting the working days one by one gives their number.                *)
LEMMA CountsWorked ==
  ASSUME NEW a \in Int, NEW b \in Int, b >= a - 1
  PROVE  WorkingDays(a, b) = WorkedBefore(b + 1) - WorkedBefore(a)
  <1> DEFINE D(n) == {d \in a..(a + n - 1) : weekday(d) < Friday + 1}
             P(n) == /\ IsFiniteSet(D(n))
                     /\ Cardinality(D(n)) = WorkedBefore(a + n) - WorkedBefore(a)
  <1>1. P(0)
    <2>1. D(0) = {}
      OBVIOUS
    <2>2. IsFiniteSet({}) /\ Cardinality({}) = 0
      BY FS_EmptySet
    <2>3. WorkedBefore(a + 0) - WorkedBefore(a) = 0
      BY WorkedNumbers
    <2>4. QED
      BY <2>1, <2>2, <2>3
  <1>2. ASSUME NEW n \in Nat, P(n)
        PROVE  P(n + 1)
    <2>1. /\ a + n \in Int /\ a + (n + 1) - 1 = a + n /\ a + (n + 1) = (a + n) + 1
          /\ WorkedBefore(a) \in Int /\ WorkedBefore(a + n) \in Int
          /\ WorkedBefore((a + n) + 1) =
                WorkedBefore(a + n) + (IF (a + n) % 7 < 5 THEN 1 ELSE 0)
      <3>1. a + n \in Int /\ a + (n + 1) - 1 = a + n /\ a + (n + 1) = (a + n) + 1
        OBVIOUS
      <3>2. WorkedBefore(a) \in Int
        BY WorkedNumbers
      <3>3. /\ WorkedBefore(a + n) \in Int
            /\ WorkedBefore((a + n) + 1) =
                  WorkedBefore(a + n) + (IF (a + n) % 7 < 5 THEN 1 ELSE 0)
        BY <3>1, WorkedNumbers
      <3>4. QED
        BY <3>1, <3>2, <3>3
    <2>2. a + n \notin D(n)
      OBVIOUS
    <2>3. weekday(a + n) < Friday + 1 <=> (a + n) % 7 < 5
      BY <2>1 DEF weekday, Friday
    <2>4. CASE (a + n) % 7 < 5
      <3>1. D(n + 1) = D(n) \cup {a + n}
        BY <2>1, <2>3, <2>4
      <3> HIDE DEF D
      <3>2. /\ IsFiniteSet(D(n) \cup {a + n})
            /\ Cardinality(D(n) \cup {a + n}) = Cardinality(D(n)) + 1
        BY <1>2, <2>2, FS_AddElement
      <3>3. WorkedBefore(a + (n + 1)) = WorkedBefore(a + n) + 1
        BY <2>1, <2>4
      <3>4. Cardinality(D(n)) = WorkedBefore(a + n) - WorkedBefore(a)
        BY <1>2
      <3>5. Cardinality(D(n + 1)) = WorkedBefore(a + (n + 1)) - WorkedBefore(a)
        <4>1. Cardinality(D(n + 1)) = Cardinality(D(n)) + 1
          BY <3>1, <3>2
        <4> DEFINE x == WorkedBefore(a + n)
                   y == WorkedBefore(a)
                   z == WorkedBefore(a + (n + 1))
                   c == Cardinality(D(n))
        <4>2. x \in Int /\ y \in Int /\ z = x + 1 /\ c = x - y
          BY <2>1, <3>3, <3>4
        <4> HIDE DEF x, y, z, c
        <4>3. c + 1 = z - y
          BY <4>2
        <4>4. QED
          BY <4>1, <4>3 DEF c, y, z
      <3>6. QED
        BY <3>1, <3>2, <3>5
    <2>5. CASE ~((a + n) % 7 < 5)
      <3>1. D(n + 1) = D(n)
        BY <2>1, <2>3, <2>5
      <3> HIDE DEF D
      <3>2. QED
        BY <1>2, <2>1, <2>5, <3>1
    <2>6. QED
      BY <2>4, <2>5
  <1> HIDE DEF P
  <1>3. \A n \in Nat : P(n)
    <2> DEFINE S == {n \in Nat : ~P(n)}
    <2> SUFFICES ASSUME S # {} PROVE FALSE
      OBVIOUS
    <2>1. IsWellFoundedOn(OpToRel(<, Nat), Nat)
      BY NatLessThanWellFounded
    <2>2. PICK x \in S : \A y \in S : ~(<<y, x>> \in OpToRel(<, Nat))
      BY <2>1, WFMin
    <2>3. x # 0 /\ x \in Nat
      BY <1>1, <2>2
    <2>4. x - 1 \in Nat /\ (x - 1) + 1 = x
      BY <2>3
    <2>5. <<x - 1, x>> \in OpToRel(<, Nat)
      BY <2>3, <2>4 DEF OpToRel
    <2>6. P(x - 1)
      BY <2>2, <2>4, <2>5
    <2>7. QED
      BY <1>2, <2>2, <2>4, <2>6
  <1> DEFINE n == b - a + 1
  <1>4. n \in Nat /\ a + n - 1 = b /\ a + n = b + 1
    OBVIOUS
  <1>5. P(n)
    BY <1>3, <1>4
  <1> HIDE DEF n
  <1>6. Cardinality({d \in a..(a + n - 1) : weekday(d) < Friday + 1})
          = WorkedBefore(a + n) - WorkedBefore(a)
    BY <1>5 DEF P, D
  <1>7. QED
    BY <1>4, <1>6 DEF WorkingDays

(* Whole weeks up to the Monday that an end is moved to hold five working  *)
(* days each.                                                              *)
LEMMA WeeksAreWorked ==
  ASSUME NEW a \in Int, NEW b \in Int, NEW n \in {4, 16, 19},
         adjust(b) - a >= 7 * n
  PROVE  WorkingDays(a, b) >= 5 * n
  <1>1. /\ b % 7 \in 0..6 /\ adjust(b) \in Int
        /\ b % 7 = 4 => adjust(b) = b + 3
        /\ b % 7 = 5 => adjust(b) = b + 2
        /\ b % 7 = 6 => adjust(b) = b + 1
        /\ b % 7 < 4 => adjust(b) = b
    BY DEF adjust, weekday, Friday, Saturday, Sunday
  <1>2. b >= a - 1
    BY <1>1
  <1>3. WorkedBefore(adjust(b)) <= WorkedBefore(b + 1)
    <2>1. WorkedBefore(b) \in Int
      BY WorkedNumbers
    <2>2. CASE b % 7 < 4
      BY <1>1, <2>2, WorkedGrows
    <2>3. CASE b % 7 >= 4
      <3>1. adjust(b) = 7 * (b \div 7) + 7
        BY <1>1, <2>3
      <3>2. adjust(b) \div 7 = b \div 7 + 1 /\ adjust(b) % 7 = 0
        BY <3>1
      <3>3. WorkedBefore(adjust(b)) = 5 * (b \div 7) + 5
        BY <3>2 DEF WorkedBefore
      <3>4. b % 7 \in 4..5 => (b + 1) \div 7 = b \div 7 /\ (b + 1) % 7 = (b % 7) + 1
        OBVIOUS
      <3>5. b % 7 = 6 => (b + 1) \div 7 = b \div 7 + 1 /\ (b + 1) % 7 = 0
        OBVIOUS
      <3>6. WorkedBefore(b + 1) = 5 * (b \div 7) + 5
        <4>1. CASE b % 7 = 6
          BY <3>5, <4>1 DEF WorkedBefore
        <4>2. CASE b % 7 \in 4..5
          BY <3>4, <4>2 DEF WorkedBefore
        <4>3. QED
          BY <1>1, <2>3, <4>1, <4>2
      <3>7. QED
        BY <3>3, <3>6
    <2>4. QED
      BY <1>1, <2>2, <2>3
  <1>4. WorkedBefore(a + 7 * n) <= WorkedBefore(adjust(b))
    BY <1>1, WorkedGrows
  <1>5. WorkedBefore(a + 7 * n) = WorkedBefore(a) + 5 * n
    <2>1. /\ WorkedBefore(a + 28) = WorkedBefore(a) + 20
          /\ WorkedBefore(a + 112) = WorkedBefore(a) + 80
          /\ WorkedBefore(a + 133) = WorkedBefore(a) + 95
      BY WorkedNumbers
    <2>2. /\ n = 4 => 7 * n = 28 /\ 5 * n = 20
          /\ n = 16 => 7 * n = 112 /\ 5 * n = 80
          /\ n = 19 => 7 * n = 133 /\ 5 * n = 95
      OBVIOUS
    <2>3. QED
      BY <2>1, <2>2
  <1>6. /\ WorkedBefore(a) \in Int /\ WorkedBefore(b + 1) \in Int
        /\ WorkedBefore(adjust(b)) \in Int
    BY <1>1, WorkedNumbers
  <1>7. WorkingDays(a, b) = WorkedBefore(b + 1) - WorkedBefore(a)
    BY <1>2, CountsWorked
  <1>8. QED
    BY <1>3, <1>4, <1>5, <1>6, <1>7

(* Five working days for each week from a Monday on reach the Monday after.*)
LEMMA WorkedAreWeeks ==
  ASSUME NEW a \in Int, NEW b \in Int, NEW n \in {4, 16, 19},
         weekday(a) = 0, WorkingDays(a, b) >= 5 * n
  PROVE  adjust(b) - a >= 7 * n
  <1>1. /\ b % 7 \in 0..6 /\ adjust(b) \in Int
        /\ b % 7 = 4 => adjust(b) = b + 3
        /\ b % 7 = 5 => adjust(b) = b + 2
        /\ b % 7 = 6 => adjust(b) = b + 1
        /\ b % 7 < 4 => adjust(b) = b
    BY DEF adjust, weekday, Friday, Saturday, Sunday
  <1>2. b >= a - 1
    <2> SUFFICES ASSUME b < a - 1 PROVE FALSE
      OBVIOUS
    <2>1. {d \in a..b : weekday(d) < Friday + 1} = {}
      OBVIOUS
    <2>2. WorkingDays(a, b) = 0
      BY <2>1, FS_EmptySet DEF WorkingDays
    <2>3. QED
      BY <2>2
  <1>3. WorkedBefore(b + 1) - WorkedBefore(a) >= 5 * n
    BY <1>2, CountsWorked
  <1>4. a % 7 = 0 /\ WorkedBefore(a) = 5 * (a \div 7) /\ a = 7 * (a \div 7)
    BY DEF weekday, WorkedBefore
  <1>5. WorkedBefore(b + 1) \in Int /\ WorkedBefore(b + 1) >= 5 * (a \div 7 + n)
    <2>1. b + 1 \in Int
      OBVIOUS
    <2>2. WorkedBefore(b + 1) \in Int
      BY <2>1, WorkedNumbers
    <2>3. QED
      BY <1>3, <1>4, <2>2
  <1>6. CASE b % 7 = 6
    <2>1. (b + 1) \div 7 = b \div 7 + 1 /\ (b + 1) % 7 = 0
      BY <1>6
    <2>2. WorkedBefore(b + 1) = 5 * (b \div 7 + 1)
      BY <2>1 DEF WorkedBefore
    <2>3. b \div 7 + 1 >= a \div 7 + n
      BY <1>5, <2>2
    <2>4. b = 7 * (b \div 7) + 6
      BY <1>6
    <2>5. QED
      BY <1>1, <1>4, <1>6, <2>3, <2>4
  <1>7. CASE b % 7 \in 4..5
    <2>1. (b + 1) \div 7 = b \div 7 /\ (b + 1) % 7 = (b % 7) + 1
      BY <1>7
    <2>2. WorkedBefore(b + 1) = 5 * (b \div 7 + 1)
      BY <1>7, <2>1 DEF WorkedBefore
    <2>3. b \div 7 + 1 >= a \div 7 + n
      BY <1>5, <2>2
    <2>4. adjust(b) = 7 * (b \div 7) + 7
      BY <1>1, <1>7
    <2>5. QED
      BY <1>4, <2>3, <2>4
  <1>8. CASE b % 7 < 4
    <2>1. (b + 1) \div 7 = b \div 7 /\ (b + 1) % 7 = (b % 7) + 1
      BY <1>8
    <2>2. WorkedBefore(b + 1) < 5 * (b \div 7 + 1)
      BY <1>1, <1>8, <2>1 DEF WorkedBefore
    <2>3. b \div 7 >= a \div 7 + n
      BY <1>5, <2>2
    <2>4. b = 7 * (b \div 7) + (b % 7)
      OBVIOUS
    <2>5. QED
      BY <1>1, <1>4, <1>8, <2>3, <2>4
  <1>9. QED
    BY <1>1, <1>6, <1>7, <1>8

(* The hundredths of a week reach a number of weeks when the days do.      *)
LEMMA Hundredths ==
  ASSUME NEW a \in Int, NEW b \in Int, NEW n \in {4, 16, 19}
  PROVE  weeks(a, b) \in Int /\ (weeks(a, b) >= 100 * n <=> adjust(b) - a >= 7 * n)
  <1> DEFINE d == adjust(b) - a
  <1>1. d \in Int
    BY DEF adjust, weekday, Friday, Saturday, Sunday
  <1>2. ASSUME NEW i \in Int
        PROVE  /\ (200 * i + 7) \div 14 \in Int
               /\ (200 * i + 7) \div 14 >= 400 <=> i >= 28
               /\ (200 * i + 7) \div 14 >= 1600 <=> i >= 112
               /\ (200 * i + 7) \div 14 >= 1900 <=> i >= 133
    OBVIOUS
  <1>3. QED
    BY <1>1, <1>2 DEF weeks

(***************************************************************************)
(* For any two dates and any semester: the server accepts a duration only  *)
(* if it has the working days of four weeks, and calls it enough for the   *)
(* whole course only if it has those the semester requires; a duration     *)
(* that begins on a Monday and has them is never refused.                  *)
(***************************************************************************)
THEOREM WeeksAreRight == DurationSpec => []WeeksAreWorkingWeeks
  <1>1. DurationInv => WeeksAreWorkingWeeks
    <2> SUFFICES ASSUME DurationInv, DatesGiven PROVE WeeksAreWorkingWeeks
      BY DEF WeeksAreWorkingWeeks
    <2> DEFINE a == form.start_date
               b == form.end_date
               r == required_weeks(form.semester)
               h == weeks(a, b)
               worked == WorkingDays(a, b)
    <2>1. a \in Int /\ b \in Int /\ r \in {4, 16, 19} /\ r \in {16, 19}
      BY DatesAreInt DEF DurationInv, DurationTypeOK, DatesGiven, required_weeks
    <2>2. validation(form) = do_validation(h, form.semester)
      BY DEF validation, DatesGiven
    <2>3. /\ h \in Int
          /\ h >= 400 <=> adjust(b) - a >= 28
          /\ h >= 100 * r <=> adjust(b) - a >= 7 * r
      <3> HIDE DEF a, b, r
      <3>1. ASSUME NEW n \in {4, 16, 19}
            PROVE  h \in Int /\ (h >= 100 * n <=> adjust(b) - a >= 7 * n)
        BY <2>1, Hundredths
      <3> HIDE DEF h
      <3>2. h \in Int /\ (h >= 100 * 4 <=> adjust(b) - a >= 7 * 4)
        BY <3>1
      <3>3. h >= 100 * r <=> adjust(b) - a >= 7 * r
        BY <2>1, <3>1
      <3>4. 100 * 4 = 400 /\ 7 * 4 = 28
        OBVIOUS
      <3>5. QED
        BY <3>2, <3>3, <3>4
    <2>4. /\ adjust(b) - a >= 28 => worked >= 5 * 4
          /\ adjust(b) - a >= 7 * r => worked >= 5 * r
      <3>1. adjust(b) - a >= 7 * 4 => worked >= 5 * 4
        BY <2>1, WeeksAreWorked
      <3>2. adjust(b) - a >= 7 * r => worked >= 5 * r
        BY <2>1, WeeksAreWorked
      <3>3. QED
        BY <3>1, <3>2
    <2>5. /\ weekday(a) = 0 /\ worked >= 5 * 4 => adjust(b) - a >= 28
          /\ weekday(a) = 0 /\ worked >= 5 * r => adjust(b) - a >= 7 * r
      <3>1. weekday(a) = 0 /\ worked >= 5 * 4 => adjust(b) - a >= 7 * 4
        BY <2>1, WorkedAreWeeks
      <3>2. weekday(a) = 0 /\ worked >= 5 * r => adjust(b) - a >= 7 * r
        BY <2>1, WorkedAreWeeks
      <3>3. QED
        BY <3>1, <3>2
    <2>6. /\ validation(form) \notin {"negative", "too_short"} <=> h >= 400
          /\ validation(form) = "ok" <=> h >= 100 * r
      <3> HIDE DEF h, r
      <3>1. /\ h < 0 => do_validation(h, form.semester) = "negative"
            /\ h >= 0 /\ h < 400 => do_validation(h, form.semester) = "too_short"
            /\ h >= 400 /\ h < 100 * r
                  => do_validation(h, form.semester) = "ok_for_part"
            /\ h >= 100 * r => do_validation(h, form.semester) = "ok"
        BY <2>1, <2>3 DEF do_validation, r
      <3>2. 100 * r >= 1600
        BY <2>1
      <3>3. QED
        BY <2>1, <2>2, <2>3, <3>1, <3>2
    <2>7. WeeksAreWorkingWeeks <=>
            /\ valid_duration(form) => worked >= 5 * 4
            /\ validation(form) = "ok" => worked >= 5 * r
            /\ weekday(a) = 0 /\ worked >= 5 * 4 => valid_duration(form)
            /\ weekday(a) = 0 /\ worked >= 5 * r => validation(form) = "ok"
      BY DEF WeeksAreWorkingWeeks
    <2> HIDE DEF a, b, r, h, worked
    <2>8. QED
      BY <2>3, <2>4, <2>5, <2>6, <2>7 DEF valid_duration
  <1>2. QED
    BY <1>1, DurationInvHolds, PTL

=============================================================================
