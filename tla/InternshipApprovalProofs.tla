---------------------- MODULE InternshipApprovalProofs ----------------------
(***************************************************************************)
(* For any students, internships, forms and any number of threads: the     *)
(* types, how many edits can still reach an internship that the officer    *)
(* has closed, and, for requests that do not overlap, that a student edits *)
(* only an open internship of the student's own and that a save that       *)
(* reports success has stored the whole form.                              *)
(***************************************************************************)
EXTENDS InternshipApproval, FiniteSetTheorems, TLAPS

-----------------------------------------------------------------------------
(* Rows and forms *)

(* What the columns can hold *)
LEMMA ColumnValues ==
  /\ Values("student") = Students
  /\ Values("address") = Addresses \cup {None}
  /\ Values("approved") = BOOLEAN
  /\ Values("registration_state") = RegistrationStates \cup {None}
  /\ \A c \in FormColumns : Values(c) = Texts
  BY ColumnsAssumption DEF Values, StateColumns

(* A function of the columns with fitting values is a row. *)
LEMMA RowOfColumns ==
  ASSUME NEW r, DOMAIN r = Columns, r = [c \in Columns |-> r[c]],
         \A c \in Columns : r[c] \in Values(c)
  PROVE  r \in Row
  <1>1. \A c \in Columns : r[c] \in AllValues
    BY DEF AllValues
  <1>2. QED
    BY <1>1 DEF Row

(* A new internship is a row. *)
LEMMA NewRow ==
  ASSUME NEW form \in StudentForms, NEW s \in Students
  PROVE  [c \in Columns |->
             CASE c \in FormColumns -> form[c]
               [] c = "student" -> s
               [] c = "approved" -> FALSE
               [] OTHER -> None] \in Row
  <1> DEFINE r == [c \in Columns |->
                     CASE c \in FormColumns -> form[c]
                       [] c = "student" -> s
                       [] c = "approved" -> FALSE
                       [] OTHER -> None]
  <1>1. ASSUME NEW c \in Columns
        PROVE  r[c] \in Values(c)
    <2>1. CASE c \in FormColumns
      BY <2>1, ColumnValues, ColumnsAssumption DEF StudentForms, StateColumns
    <2>2. CASE c = "student"
      BY <2>2, ColumnValues, ColumnsAssumption DEF StateColumns
    <2>3. CASE c = "approved"
      BY <2>3, ColumnValues, ColumnsAssumption DEF StateColumns
    <2>4. CASE c \in {"address", "registration_state"}
      <3>1. r[c] = None
        BY <2>4, ColumnsAssumption DEF StateColumns
      <3>2. QED
        BY <2>4, <3>1, ColumnValues
    <2>5. QED
      BY <2>1, <2>2, <2>3, <2>4 DEF Columns, StateColumns
  <1>2. DOMAIN r = Columns /\ r = [c \in Columns |-> r[c]]
    OBVIOUS
  <1> HIDE DEF r
  <1>3. QED
    BY <1>1, <1>2, RowOfColumns DEF r

(* The fields of a form are columns, and what they hold fits them. *)
LEMMA FormFits ==
  ASSUME NEW form \in StudentForms \cup OfficerForms \cup AddressForms
  PROVE  /\ DOMAIN form \subseteq Columns
         /\ \A c \in DOMAIN form : form[c] \in Values(c)
  <1>1. CASE form \in StudentForms
    BY <1>1, ColumnValues DEF StudentForms, Columns
  <1>2. CASE form \in AddressForms
    BY <1>2, ColumnValues DEF AddressForms, Columns, StateColumns
  <1>3. CASE form \in OfficerForms
    <2>1. PICK text \in [OfficerColumns -> Texts],
               state \in [student : Values("student"),
                          address : Values("address"),
                          approved : Values("approved"),
                          registration_state : Values("registration_state")] :
             form = [c \in OfficerColumns \cup StateColumns |->
                       IF c \in OfficerColumns THEN text[c] ELSE state[c]]
      BY <1>3 DEF OfficerForms
    <2>2. DOMAIN form = OfficerColumns \cup StateColumns
      BY <2>1
    <2>3. ASSUME NEW c \in OfficerColumns
          PROVE  form[c] \in Values(c)
      BY <2>1, <2>3, ColumnValues, ColumnsAssumption
    <2>4. ASSUME NEW c \in StateColumns
          PROVE  form[c] \in Values(c)
      <3>1. form[c] = state[c]
        BY <2>1, <2>4, ColumnsAssumption
      <3>2. QED
        BY <2>4, <3>1 DEF StateColumns
    <2>5. QED
      BY <2>2, <2>3, <2>4, ColumnsAssumption DEF Columns
  <1>4. QED
    BY <1>1, <1>2, <1>3

(* An UPDATE makes a row of a row. *)
LEMMA WrittenRow ==
  ASSUME NEW row \in Row, NEW loaded \in Row,
         NEW form \in StudentForms \cup OfficerForms \cup AddressForms
  PROVE  Written(row, loaded, form) \in Row
  <1> DEFINE r == Written(row, loaded, form)
  <1>1. DOMAIN r = Columns /\ r = [c \in Columns |-> r[c]]
    BY DEF Written
  <1>2. \A c \in Columns : r[c] \in Values(c)
    BY FormFits DEF Written, Row
  <1> HIDE DEF r
  <1>3. r \in Row
    BY <1>1, <1>2, RowOfColumns
  <1>4. QED
    BY <1>3 DEF r

-----------------------------------------------------------------------------
(* Types *)

(* What a thread says when it has finished is a request record. *)
LEMMA AnsweredType ==
  ASSUME NEW a \in Answer
  PROVE  Answered(a) \in Request
  BY DEF Answered, Request

(* What the fields of a request at work hold *)
LEMMA RequestFields ==
  ASSUME NEW r \in Request
  PROVE  /\ r.pc \in {"save", "destroy", "answered"}
         /\ r.pc # "answered" =>
              /\ r.internship \in Internships
              /\ r.loaded \in Row
              /\ r.answer = None
         /\ r.pc = "answered" => r.task = None /\ r.internship = None
         /\ r.pc = "save" =>
              /\ r.task \in {"update", "create_and_save", "save_address",
                             "officer_update"}
              /\ r.form \in StudentForms \cup OfficerForms \cup AddressForms
         /\ r.pc = "destroy" => r.task = "destroy" /\ r.form = None
  BY DEF Request, Task, Checked

LEMMA FinishType ==
  ASSUME TypeOK, NEW w \in Workers, NEW a \in Answer, Finish(w, a)
  PROVE  req' \in [Workers -> Request]
  BY AnsweredType DEF Finish, TypeOK

(* A loaded row and a form make a request to save, or to destroy. *)
LEMMA LoadType ==
  ASSUME TypeOK, NEW w \in Workers, NEW i \in Internships, Exists(i),
         NEW task, NEW s, NEW form, Load(w, task, s, i, form),
         \/ /\ task \in Task \ {"destroy"}
            /\ s \in Students \cup {None}
            /\ form \in StudentForms \cup OfficerForms \cup AddressForms
         \/ /\ task = "destroy"
            /\ s \in Students
            /\ form = None
  PROVE  req' \in [Workers -> Request]
  <1>1. internships[i] \in Row
    BY DEF Exists, TypeOK
  <1>2. [pc |-> IF task = "destroy" THEN "destroy" ELSE "save",
         task |-> task, student |-> s, internship |-> i,
         loaded |-> internships[i], form |-> form, answer |-> None] \in Request
    BY <1>1 DEF Request
  <1>3. QED
    BY <1>2 DEF Load, TypeOK

(* A student's request that is checked first *)
LEMMA AuthorizeType ==
  ASSUME TypeOK, NEW w \in Workers, NEW s \in Students, NEW task \in Checked,
         NEW form, Authorize(w, task, s, form),
         IF task = "destroy" THEN form = None
                             ELSE form \in StudentForms \cup AddressForms
  PROVE  req' \in [Workers -> Request]
  <1>1. tab[s] \in Internships
    BY DEF Authorize, TypeOK
  <1>2. CASE \E a \in Answer : Finish(w, a)
    BY <1>2, FinishType
  <1>3. CASE CanEdit(s, tab[s]) /\ Load(w, task, s, tab[s], form)
    <2>1. Exists(tab[s])
      BY <1>3 DEF CanEdit, Owns
    <2>2. QED
      BY <1>1, <1>3, <2>1, LoadType DEF Task, Checked
  <1>4. QED
    BY <1>2, <1>3 DEF Authorize, Answer

(***************************************************************************)
(* The rows, the tabs and the requests always have their types: whatever a *)
(* form and a stale row are merged into is a row.                          *)
(***************************************************************************)
THEOREM TypeCorrect == Spec => []TypeOK
  <1>1. Init => TypeOK
    <2>1. Answered(None) \in Request
      BY AnsweredType DEF Answer
    <2>2. ASSUME Init
          PROVE  /\ internships \in [Internships -> Row \cup {NotYet, Gone}]
                 /\ tab \in [Students -> Internships \cup {None}]
                 /\ req \in [Workers -> Request]
      BY <2>1, <2>2 DEF Init
    <2>3. ASSUME Init
          PROVE  late \in [Internships -> Nat] /\ overlapped \in BOOLEAN
      BY <2>3 DEF Init
    <2>4. QED
      BY <2>2, <2>3 DEF TypeOK
  <1>2. TypeOK /\ [Next]_vars => TypeOK'
    <2> SUFFICES ASSUME TypeOK, [Next]_vars PROVE TypeOK'
      OBVIOUS
    <2>1. ASSUME NEW w \in Workers, NEW s \in Students, NEW i \in Internships,
                 NEW form \in StudentForms, Create(w, s, i, form), Overlap(w)
          PROVE  TypeOK'
      <3>1. internships' \in [Internships -> Row \cup {NotYet, Gone}]
        BY <2>1, NewRow DEF Create, TypeOK
      <3>2. QED
        BY <2>1, <3>1 DEF Create, Overlap, TypeOK
    <2>2. ASSUME NEW w \in Workers, NEW s \in Students, Overlap(w),
                 \/ Update(w, s)
                 \/ CreateAndSave(w, s)
                 \/ Destroy(w, s)
          PROVE  TypeOK'
      <3>1. req' \in [Workers -> Request]
        BY <2>2, AuthorizeType DEF Update, CreateAndSave, Destroy, Checked
      <3>2. UNCHANGED <<internships, tab, late>>
        BY <2>2 DEF Update, CreateAndSave, Destroy, Authorize
      <3>3. QED
        BY <2>2, <3>1, <3>2 DEF Overlap, TypeOK
    <2>3. ASSUME NEW w \in Workers, NEW s \in Students, SaveAddress(w, s),
                 Overlap(w)
          PROVE  TypeOK'
      <3>1. tab[s] \in Internships
        BY <2>3 DEF SaveAddress, TypeOK
      <3>2. CASE Finish(w, "not_found")
        <4>1. req' \in [Workers -> Request]
          BY <3>2, FinishType DEF Answer
        <4>2. QED
          BY <2>3, <4>1 DEF SaveAddress, Overlap, TypeOK
      <3>3. CASE /\ Owns(s, tab[s])
                 /\ \E form \in AddressForms :
                       Load(w, "save_address", s, tab[s], form)
        <4>1. req' \in [Workers -> Request]
          BY <3>1, <3>3, LoadType DEF Owns, Task, Checked
        <4>2. QED
          BY <2>3, <4>1 DEF SaveAddress, Overlap, TypeOK
      <3>4. QED
        BY <2>3, <3>2, <3>3 DEF SaveAddress
    <2>4. ASSUME NEW w \in Workers, NEW i \in Internships, OfficerUpdate(w, i),
                 Overlap(w)
          PROVE  TypeOK'
      <3>1. CASE Finish(w, "not_found")
        <4>1. req' \in [Workers -> Request]
          BY <3>1, FinishType DEF Answer
        <4>2. QED
          BY <2>4, <4>1 DEF OfficerUpdate, Overlap, TypeOK
      <3>2. CASE /\ Exists(i)
                 /\ \E form \in OfficerForms :
                       Load(w, "officer_update", None, i, form)
        <4>1. req' \in [Workers -> Request]
          BY <3>2, LoadType DEF Task, Checked
        <4>2. QED
          BY <2>4, <4>1 DEF OfficerUpdate, Overlap, TypeOK
      <3>3. QED
        BY <2>4, <3>1, <3>2 DEF OfficerUpdate
    <2>5. ASSUME NEW w \in Workers, NEW i \in Internships,
                 OfficerDestroy(w, i), Overlap(w)
          PROVE  TypeOK'
      BY <2>5 DEF OfficerDestroy, Overlap, TypeOK
    <2>6. ASSUME NEW w \in Workers, Save(w), Overlap(w)
          PROVE  TypeOK'
      <3> DEFINE r == req[w]
                 i == r.internship
      <3>1. r \in Request /\ r.pc = "save"
        BY <2>6 DEF Save, TypeOK
      <3>2. /\ i \in Internships
            /\ r.loaded \in Row
            /\ r.form \in StudentForms \cup OfficerForms \cup AddressForms
        BY <3>1, RequestFields
      <3>3. req' \in [Workers -> Request]
        BY <2>6, FinishType DEF Save, Answer
      <3>4. internships' \in [Internships -> Row \cup {NotYet, Gone}]
        <4>1. CASE UNCHANGED internships
          BY <4>1 DEF TypeOK
        <4>2. CASE /\ Exists(i)
                   /\ internships' = [internships EXCEPT ![i] =
                                         Written(@, r.loaded, r.form)]
          <5>1. internships[i] \in Row
            BY <3>2, <4>2 DEF Exists, TypeOK
          <5>2. Written(internships[i], r.loaded, r.form) \in Row
            BY <3>2, <5>1, WrittenRow
          <5>3. QED
            BY <3>2, <4>2, <5>2 DEF TypeOK
        <4>3. QED
          BY <2>6, <4>1, <4>2 DEF Save
      <3>5. late' \in [Internships -> Nat]
        BY <2>6, <3>2 DEF Save, TypeOK
      <3>6. QED
        BY <2>6, <3>3, <3>4, <3>5 DEF Save, Overlap, TypeOK
    <2>7. ASSUME NEW w \in Workers, Delete(w), Overlap(w)
          PROVE  TypeOK'
      <3>1. req' \in [Workers -> Request]
        BY <2>7, FinishType DEF Delete, Answer
      <3>2. QED
        BY <2>7, <3>1 DEF Delete, Overlap, TypeOK
    <2>8. ASSUME NEW w \in Workers, Crash(w), Overlap(w)
          PROVE  TypeOK'
      <3>1. req' \in [Workers -> Request]
        BY <2>8, FinishType DEF Crash, Answer
      <3>2. QED
        BY <2>8, <3>1 DEF Crash, Overlap, TypeOK
    <2>9. ASSUME NEW s \in Students, NEW i \in Internships,
                 ShowChecklist(s, i), UNCHANGED overlapped
          PROVE  TypeOK'
      BY <2>9 DEF ShowChecklist, TypeOK
    <2>10. CASE UNCHANGED vars
      BY <2>10 DEF vars, TypeOK
    <2>11. QED
      BY <2>1, <2>2, <2>3, <2>4, <2>5, <2>6, <2>7, <2>8, <2>9, <2>10
         DEF Next, Serve
  <1>3. QED
    BY <1>1, <1>2, PTL DEF Spec

-----------------------------------------------------------------------------
(* Edits after the closing *)

(* Threads can be counted. *)
LEMMA Countable ==
  ASSUME NEW i
  PROVE  /\ IsFiniteSet(InFlight(i))
         /\ Cardinality(InFlight(i)) \in Nat
         /\ Cardinality(Workers) \in Nat \ {0}
  <1>1. InFlight(i) \subseteq Workers
    BY DEF InFlight
  <1>2. QED
    BY <1>1, FS_Subset, FS_CardinalityType, FS_EmptySet, WorkersAssumption

(* What LateEditsBounded says about one internship *)
LateBound(i) ==
  Closed(i) =>
    late[i] + Cardinality(InFlight(i)) <= Cardinality(Workers) - 1

(* The bound of an internship that stays as it was, and is not being       *)
(* edited by more threads than before, is kept.                            *)
LEMMA QuietKeepsBound ==
  ASSUME TypeOK, NEW i \in Internships, LateBound(i),
         Closed(i)' => Closed(i) /\ InFlight(i)' \subseteq InFlight(i),
         late'[i] = late[i]
  PROVE  LateBound(i)'
  <1> SUFFICES ASSUME Closed(i)'
               PROVE  late'[i] + Cardinality(InFlight(i)')
                        <= Cardinality(Workers) - 1
    BY DEF LateBound
  <1>1. /\ Cardinality(InFlight(i)') <= Cardinality(InFlight(i))
        /\ Cardinality(InFlight(i)') \in Nat
    BY Countable, FS_Subset, FS_CardinalityType
  <1>2. late[i] + Cardinality(InFlight(i)) <= Cardinality(Workers) - 1
    BY DEF LateBound
  <1>3. late[i] \in Nat
    BY DEF TypeOK
  <1>4. QED
    BY <1>1, <1>2, <1>3, Countable

(* A thread that finishes is in flight no longer. *)
LEMMA FinishLands ==
  ASSUME TypeOK, NEW w \in Workers, NEW a, Finish(w, a),
         NEW i \in Internships
  PROVE  InFlight(i)' = InFlight(i) \ {w}
  <1>1. req'[w].internship = None /\ \A v \in Workers \ {w} : req'[v] = req[v]
    BY DEF Finish, Answered, TypeOK
  <1>2. QED
    BY <1>1, NoneAssumption DEF InFlight

(***************************************************************************)
(* A save that meets an open internship leaves at most the other threads   *)
(* in flight; one that meets a closed one spends its own place.            *)
(***************************************************************************)
LEMMA SaveKeepsBound ==
  ASSUME TypeOK, NEW w \in Workers, Save(w), NEW i \in Internships,
         LateBound(i)
  PROVE  LateBound(i)'
  <1> DEFINE r == req[w]
  <1>1. /\ r \in Request
        /\ r.pc = "save"
        /\ r.internship \in Internships
    BY RequestFields DEF Save, TypeOK
  <1>2. InFlight(i)' = InFlight(i) \ {w}
    BY FinishLands DEF Save
  <1>3. CASE i # r.internship \/ ~Exists(i)
    <2>1. internships'[i] = internships[i] /\ late'[i] = late[i]
      BY <1>1, <1>3 DEF Save, TypeOK
    <2>2. Closed(i)' => Closed(i)
      BY <2>1 DEF Closed, Exists
    <2>3. QED
      BY <1>2, <2>1, <2>2, QuietKeepsBound
  <1>4. CASE i = r.internship /\ Exists(i)
    <2>1. late'[i] = CASE ~Closed(i) -> 0
                       [] Closed(i) /\ r.task \in Checked -> late[i] + 1
                       [] OTHER -> late[i]
      BY <1>1, <1>4 DEF Save, TypeOK
    <2>2. late[i] \in Nat
      BY DEF TypeOK
    <2>3. /\ Cardinality(InFlight(i)') <= Cardinality(InFlight(i))
          /\ Cardinality(InFlight(i)') \in Nat
      BY <1>2, Countable, FS_Subset, FS_CardinalityType
    <2>4. CASE ~Closed(i)
      <3>1. late'[i] = 0
        BY <2>1, <2>4
      <3>2. InFlight(i)' \subseteq Workers \ {w}
        BY <1>2 DEF InFlight
      <3>3. /\ IsFiniteSet(Workers \ {w})
            /\ Cardinality(Workers \ {w}) = Cardinality(Workers) - 1
        BY FS_RemoveElement, WorkersAssumption
      <3>4. Cardinality(InFlight(i)') <= Cardinality(Workers \ {w})
        BY <3>2, <3>3, FS_Subset
      <3>5. QED
        BY <3>1, <3>3, <3>4, <2>3, Countable DEF LateBound
    <2>5. CASE Closed(i) /\ r.task \in Checked
      <3>1. late'[i] = late[i] + 1
        BY <2>1, <2>5
      <3>2. w \in InFlight(i)
        BY <1>4, <2>5 DEF InFlight
      <3>3. Cardinality(InFlight(i)') = Cardinality(InFlight(i)) - 1
        <4>1. IsFiniteSet(InFlight(i))
          BY Countable
        <4>2. Cardinality(InFlight(i) \ {w}) = Cardinality(InFlight(i)) - 1
          BY <3>2, <4>1, FS_RemoveElement
        <4>3. QED
          BY <1>2, <4>2
      <3>4. late[i] + Cardinality(InFlight(i)) <= Cardinality(Workers) - 1
        BY <2>5 DEF LateBound
      <3>5. QED
        BY <2>2, <2>3, <3>1, <3>3, <3>4, Countable DEF LateBound
    <2>6. CASE Closed(i) /\ r.task \notin Checked
      <3>1. late'[i] = late[i]
        BY <2>1, <2>6
      <3>2. late[i] + Cardinality(InFlight(i)) <= Cardinality(Workers) - 1
        BY <2>6 DEF LateBound
      <3>3. QED
        BY <2>2, <2>3, <3>1, <3>2, Countable DEF LateBound
    <2>7. QED
      BY <2>4, <2>5, <2>6
  <1>5. QED
    BY <1>3, <1>4

(* A request that begins adds itself only to an open internship's. *)
LEMMA LoadKeepsBound ==
  ASSUME TypeOK, NEW w \in Workers, req[w].pc = "answered",
         NEW task, NEW s, NEW j, NEW form, Load(w, task, s, j, form),
         task \in Checked => CanEdit(s, j),
         UNCHANGED <<internships, late>>, NEW i \in Internships, LateBound(i)
  PROVE  LateBound(i)'
  <1>1. Closed(i)' => Closed(i)
    BY DEF Closed, Exists
  <1>2. ASSUME Closed(i)
        PROVE  InFlight(i)' \subseteq InFlight(i)
    <2>1. /\ req'[w].task = task
          /\ req'[w].internship = j
          /\ \A v \in Workers \ {w} : req'[v] = req[v]
      BY DEF Load, TypeOK
    <2>2. CASE task \in Checked
      <3>1. j # i
        BY <1>2, <2>2 DEF CanEdit
      <3>2. QED
        BY <2>1, <3>1 DEF InFlight
    <2>3. CASE task \notin Checked
      BY <2>1, <2>3 DEF InFlight
    <2>4. QED
      BY <2>2, <2>3
  <1>3. QED
    BY <1>1, <1>2, QuietKeepsBound

LEMMA LateInductive == TypeOK /\ LateEditsBounded /\ [Next]_vars => LateEditsBounded'
  <1> SUFFICES ASSUME TypeOK, LateEditsBounded, [Next]_vars,
                      NEW i \in Internships
               PROVE  LateBound(i)'
    BY DEF LateEditsBounded, LateBound
  <1>1. LateBound(i)
    BY DEF LateEditsBounded, LateBound
  <1>2. ASSUME UNCHANGED <<req, late>>, Closed(i)' => Closed(i)
        PROVE  LateBound(i)'
    <2>1. InFlight(i)' = InFlight(i)
      BY <1>2 DEF InFlight
    <2>2. QED
      BY <1>1, <1>2, <2>1, QuietKeepsBound
  <1>3. ASSUME NEW w \in Workers, NEW a, Finish(w, a), late' = late,
               Closed(i)' => Closed(i)
        PROVE  LateBound(i)'
    <2>1. InFlight(i)' = InFlight(i) \ {w}
      BY <1>3, FinishLands
    <2>2. QED
      BY <1>1, <1>3, <2>1, QuietKeepsBound
  <1>4. ASSUME NEW w \in Workers, NEW s \in Students, NEW j \in Internships,
               NEW form \in StudentForms, Create(w, s, j, form)
        PROVE  LateBound(i)'
    <2>1. CASE i = j
      <3>1. /\ internships'[i]["approved"] = FALSE
            /\ internships'[i]["registration_state"] = None
        BY <1>4, <2>1, ColumnsAssumption DEF Create, TypeOK, Columns, StateColumns
      <3>2. ~Closed(i)'
        BY <3>1 DEF Closed
      <3>3. QED
        BY <1>2, <1>4, <3>2 DEF Create
    <2>2. CASE i # j
      <3>1. internships'[i] = internships[i]
        BY <1>4, <2>2 DEF Create, TypeOK
      <3>2. Closed(i)' => Closed(i)
        BY <3>1 DEF Closed, Exists
      <3>3. QED
        BY <1>2, <1>4, <3>2 DEF Create
    <2>3. QED
      BY <2>1, <2>2
  <1>5. ASSUME NEW w \in Workers, NEW s \in Students,
               \/ Update(w, s)
               \/ CreateAndSave(w, s)
               \/ Destroy(w, s)
        PROVE  LateBound(i)'
    <2>0. PICK task \in Checked : \E form : Authorize(w, task, s, form)
      BY <1>5 DEF Update, CreateAndSave, Destroy, Checked
    <2>1. PICK form : Authorize(w, task, s, form)
      BY <2>0
    <2>2. CASE \E a : Finish(w, a)
      BY <1>3, <2>1, <2>2 DEF Authorize, Closed, Exists
    <2>3. CASE CanEdit(s, tab[s]) /\ Load(w, task, s, tab[s], form)
      BY <1>1, <2>1, <2>3, LoadKeepsBound DEF Authorize
    <2>4. QED
      BY <2>1, <2>2, <2>3 DEF Authorize
  <1>6. ASSUME NEW w \in Workers, NEW s \in Students, SaveAddress(w, s)
        PROVE  LateBound(i)'
    <2>1. CASE \E a : Finish(w, a)
      BY <1>3, <1>6, <2>1 DEF SaveAddress, Closed, Exists
    <2>2. CASE \E form : Load(w, "save_address", s, tab[s], form)
      <3>1. "save_address" \notin Checked
        BY DEF Checked
      <3>2. QED
        BY <1>1, <1>6, <2>2, <3>1, LoadKeepsBound DEF SaveAddress
    <2>3. QED
      BY <1>6, <2>1, <2>2 DEF SaveAddress
  <1>7. ASSUME NEW w \in Workers, NEW j \in Internships, OfficerUpdate(w, j)
        PROVE  LateBound(i)'
    <2>1. CASE \E a : Finish(w, a)
      BY <1>3, <1>7, <2>1 DEF OfficerUpdate, Closed, Exists
    <2>2. CASE \E form : Load(w, "officer_update", None, j, form)
      <3>1. "officer_update" \notin Checked
        BY DEF Checked
      <3>2. QED
        BY <1>1, <1>7, <2>2, <3>1, LoadKeepsBound DEF OfficerUpdate
    <2>3. QED
      BY <1>7, <2>1, <2>2 DEF OfficerUpdate
  <1>8. ASSUME NEW j \in Internships,
               internships' = [internships EXCEPT ![j] = Gone]
        PROVE  Closed(i)' => Closed(i)
    <2>1. CASE i = j
      BY <1>8, <2>1 DEF Closed, Exists, TypeOK
    <2>2. CASE i # j
      BY <1>8, <2>2 DEF Closed, Exists, TypeOK
    <2>3. QED
      BY <2>1, <2>2
  <1>9. ASSUME NEW w \in Workers, NEW j \in Internships, OfficerDestroy(w, j)
        PROVE  LateBound(i)'
    BY <1>2, <1>8, <1>9 DEF OfficerDestroy
  <1>10. ASSUME NEW w \in Workers, Delete(w)
         PROVE  LateBound(i)'
    <2>1. req[w].internship \in Internships
      BY <1>10, RequestFields DEF Delete, TypeOK
    <2>2. QED
      BY <1>3, <1>8, <1>10, <2>1 DEF Delete
  <1>11. ASSUME NEW w \in Workers, Crash(w)
         PROVE  LateBound(i)'
    BY <1>3, <1>11 DEF Crash, Closed, Exists
  <1>12. ASSUME UNCHANGED <<internships, req, late>>
         PROVE  LateBound(i)'
    BY <1>2, <1>12 DEF Closed, Exists
  <1>13. QED
    BY <1>1, <1>4, <1>5, <1>6, <1>7, <1>9, <1>10, <1>11, <1>12, SaveKeepsBound
       DEF Next, Serve, ShowChecklist, vars

(***************************************************************************)
(* Closing an internship lets through at most the edits that the other     *)
(* threads had already checked, each of them once.                         *)
(***************************************************************************)
THEOREM LateEdits == Spec => []LateEditsBounded
  <1>1. Init => LateEditsBounded
    BY DEF Init, LateEditsBounded, Closed, Exists
  <1>2. QED
    BY <1>1, LateInductive, TypeCorrect, PTL DEF Spec

-----------------------------------------------------------------------------
(* One request at a time *)
(***************************************************************************)
(* As long as no two requests have overlapped, one thread at most is at    *)
(* work, the row it has loaded is the row in the table, and what it has    *)
(* checked still holds.                                                    *)
(***************************************************************************)
Solo ==
  ~overlapped =>
    /\ \A v, w \in Workers :
          req[v].pc # "answered" /\ req[w].pc # "answered" => v = w
    /\ \A v \in Workers :
          req[v].pc # "answered" =>
            /\ internships[req[v].internship] = req[v].loaded
            /\ req[v].task \in Checked
                 => CanEdit(req[v].student, req[v].internship)

(* A step that overlaps with no request finds the other threads idle. *)
LEMMA OneThreadSteps ==
  ASSUME TypeOK, NEW w \in Workers, Overlap(w), ~overlapped',
         \A v \in Workers \ {w} : req'[v] = req[v],
         req'[w].pc # "answered" =>
            /\ internships'[req'[w].internship] = req'[w].loaded
            /\ req'[w].task \in Checked
                 => CanEdit(req[w].student, req[w].internship)'
  PROVE  Solo'
  <1>1. \A v \in Workers : v # w => req'[v].pc = "answered"
    BY DEF Overlap
  <1>2. QED
    BY <1>1 DEF Solo

LEMMA FinishSolo ==
  ASSUME TypeOK, NEW w \in Workers, Overlap(w), ~overlapped', NEW a,
         Finish(w, a)
  PROVE  Solo'
  <1>1. req'[w].pc = "answered" /\ \A v \in Workers \ {w} : req'[v] = req[v]
    BY DEF Finish, Answered, TypeOK
  <1>2. QED
    BY <1>1, OneThreadSteps

LEMMA IdleSolo ==
  ASSUME TypeOK, NEW w \in Workers, Overlap(w), ~overlapped', req' = req,
         req[w].pc = "answered"
  PROVE  Solo'
  BY OneThreadSteps

LEMMA LoadSolo ==
  ASSUME TypeOK, NEW w \in Workers, Overlap(w), ~overlapped',
         NEW task, NEW s, NEW i, NEW form, Load(w, task, s, i, form),
         UNCHANGED internships, task \in Checked => CanEdit(s, i)
  PROVE  Solo'
  <1>1. /\ req'[w].task = task
        /\ req'[w].student = s
        /\ req'[w].internship = i
        /\ req'[w].loaded = internships[i]
        /\ \A v \in Workers \ {w} : req'[v] = req[v]
    BY DEF Load, TypeOK
  <1>2. task \in Checked => CanEdit(req[w].student, req[w].internship)'
    BY <1>1 DEF CanEdit, Owns, Closed, Exists
  <1>3. QED
    BY <1>1, <1>2, OneThreadSteps

LEMMA SoloIsInductive == TypeOK /\ Solo /\ [Next]_vars => Solo'
  <1> SUFFICES ASSUME TypeOK, Solo, [Next]_vars, ~overlapped' PROVE Solo'
    BY DEF Solo
  <1>1. ASSUME NEW w \in Workers, Serve(w), Overlap(w)
        PROVE  Solo'
    <2>1. CASE \E a : Finish(w, a)
      BY <1>1, <2>1, FinishSolo
    <2>2. CASE req' = req /\ req[w].pc = "answered"
      BY <1>1, <2>2, IdleSolo
    <2>3. CASE \E task, s, i, form : /\ Load(w, task, s, i, form)
                                     /\ UNCHANGED internships
                                     /\ task \in Checked => CanEdit(s, i)
      BY <1>1, <2>3, LoadSolo
    <2>4. ASSUME NEW s \in Students,
                 Update(w, s) \/ CreateAndSave(w, s) \/ Destroy(w, s)
          PROVE  Solo'
      <3>0. PICK task \in Checked : \E form : Authorize(w, task, s, form)
        BY <2>4 DEF Update, CreateAndSave, Destroy, Checked
      <3>1. PICK form : Authorize(w, task, s, form)
        BY <3>0
      <3>2. QED
        BY <2>1, <2>3, <3>1 DEF Authorize
    <2>5. ASSUME NEW s \in Students, SaveAddress(w, s)
          PROVE  Solo'
      <3>1. "save_address" \notin Checked
        BY DEF Checked
      <3>2. QED
        BY <2>1, <2>3, <2>5, <3>1 DEF SaveAddress
    <2>6. ASSUME NEW i \in Internships, OfficerUpdate(w, i)
          PROVE  Solo'
      <3>1. "officer_update" \notin Checked
        BY DEF Checked
      <3>2. QED
        BY <2>1, <2>3, <2>6, <3>1 DEF OfficerUpdate
    <2>7. CASE Save(w) \/ Delete(w) \/ Crash(w)
      BY <2>1, <2>7 DEF Save, Delete, Crash
    <2>8. ASSUME NEW s \in Students, NEW i \in Internships,
                 NEW form \in StudentForms, Create(w, s, i, form)
          PROVE  Solo'
      BY <2>2, <2>8 DEF Create
    <2>9. ASSUME NEW i \in Internships, OfficerDestroy(w, i)
          PROVE  Solo'
      BY <2>2, <2>9 DEF OfficerDestroy
    <2>10. QED
      BY <1>1, <2>4, <2>5, <2>6, <2>7, <2>8, <2>9 DEF Serve
  <1>2. ASSUME UNCHANGED <<internships, req, overlapped>>
        PROVE  Solo'
    BY <1>2 DEF Solo, CanEdit, Owns, Closed, Exists
  <1>3. QED
    BY <1>1, <1>2 DEF Next, ShowChecklist, vars

LEMMA SoloHolds == Spec => []Solo
  <1>1. Init => Solo
    BY DEF Init, Answered, Solo
  <1>2. QED
    BY <1>1, SoloIsInductive, TypeCorrect, PTL DEF Spec

(* A step after which no two requests have overlapped finds the row that   *)
(* the saving or destroying thread has loaded.                             *)
LEMMA SaveFindsLoaded ==
  ASSUME TypeOK, Solo, [Next]_vars, ~overlapped', NEW w \in Workers,
         Save(w) \/ Delete(w)
  PROVE  /\ req[w] \in Request
         /\ req[w].internship \in Internships
         /\ internships[req[w].internship] = req[w].loaded
         /\ req[w].loaded \in Row
         /\ req[w].task \in Checked
              => CanEdit(req[w].student, req[w].internship)
  <1>1. ~overlapped
    BY DEF Next, Overlap, vars
  <1>2. req[w] \in Request /\ req[w].pc # "answered"
    BY DEF Save, Delete, TypeOK
  <1>3. QED
    BY <1>1, <1>2, RequestFields DEF Solo

(***************************************************************************)
(* One request after the other, a student edits or destroys only an open   *)
(* internship of the student's own.                                        *)
(***************************************************************************)
THEOREM OwnOpenEdits == Spec => EditsOnlyOwnOpen
  <1>1. TypeOK /\ Solo /\ [Next]_vars =>
          [\A w \in Workers :
             LET i == req[w].internship
             IN  (/\ Save(w) \/ Delete(w)
                  /\ ~overlapped'
                  /\ req[w].task \in {"update", "destroy"}
                  /\ internships'[i] # internships[i])
                 => Owns(req[w].student, i) /\ ~Closed(i)]_vars
    BY SaveFindsLoaded DEF Checked, CanEdit
  <1>2. QED
    BY <1>1, TypeCorrect, SoloHolds, PTL DEF Spec, EditsOnlyOwnOpen

(***************************************************************************)
(* One request after the other, a save stores every field of its form,     *)
(* although only the columns that differ from the loaded row are written.  *)
(***************************************************************************)
THEOREM SavesAreWhole == Spec => SuccessMeansSaved
  <1>1. TypeOK /\ Solo /\ [Next]_vars =>
          [\A w \in Workers :
             LET i == req[w].internship
             IN  (Save(w) /\ ~overlapped')
                 => /\ internships'[i] \notin {NotYet, Gone}
                    /\ \A c \in DOMAIN req[w].form :
                          internships'[i][c] = req[w].form[c]]_vars
    <2> SUFFICES ASSUME TypeOK, Solo, [Next]_vars, NEW w \in Workers,
                        Save(w), ~overlapped'
                 PROVE  LET i == req[w].internship
                        IN  /\ internships'[i] \notin {NotYet, Gone}
                            /\ \A c \in DOMAIN req[w].form :
                                  internships'[i][c] = req[w].form[c]
      OBVIOUS
    <2> DEFINE r == req[w]
               i == r.internship
    <2>1. /\ r \in Request
          /\ r.pc = "save"
          /\ i \in Internships
          /\ internships[i] = r.loaded
          /\ r.loaded \in Row
      BY SaveFindsLoaded DEF Save
    <2>2. r.form \in StudentForms \cup OfficerForms \cup AddressForms
      BY <2>1, RequestFields
    <2>3. Exists(i)
      BY <2>1, NoneAssumption DEF Exists
    <2>4. internships'[i] = Written(r.loaded, r.loaded, r.form)
      BY <2>1, <2>3 DEF Save, TypeOK
    <2>5. Written(r.loaded, r.loaded, r.form) \in Row
      BY <2>1, <2>2, WrittenRow
    <2>6. internships'[i] \notin {NotYet, Gone}
      BY <2>4, <2>5, NoneAssumption
    <2>7. ASSUME NEW c \in DOMAIN r.form
          PROVE  internships'[i][c] = r.form[c]
      <3>1. c \in Columns
        BY <2>2, FormFits
      <3>2. QED
        BY <2>4, <3>1 DEF Written
    <2>8. QED
      BY <2>6, <2>7
  <1>2. QED
    BY <1>1, TypeCorrect, SoloHolds, PTL DEF Spec, SuccessMeansSaved

=============================================================================
