------------------------- MODULE InternshipApproval -------------------------
(***************************************************************************)
(* The life of an internship between the student who writes it and the     *)
(* internship officer who approves it:                                     *)
(* app/controllers/internships_controller.rb, the requests of              *)
(* company_addresses_controller.rb that give it an address, the            *)
(* officer's form in app/admin/internships, and the rule of                *)
(* app/models/abilities/user.rb that closes it to the student.             *)
(*                                                                         *)
(* A request loads the row, checks the student's ability on what it loaded *)
(* and saves later; there is neither a transaction around the two nor a    *)
(* lock_version.  ActiveRecord writes the columns in which the form        *)
(* differs from what was LOADED, and only those, so a save can meet a row  *)
(* that another request has changed or destroyed.  Both forms post all     *)
(* their fields, whether the user has touched them or not.                 *)
(*                                                                         *)
(* The columns of the work description are abstract: FormColumns are the   *)
(* fields of the student's form, OfficerColumns those of them that the     *)
(* officer's form has as well.                                             *)
(***************************************************************************)
EXTENDS Naturals, FiniteSets

CONSTANTS
    Students,
    Internships,            \* primary keys
    Addresses,              \* company addresses
    RegistrationStates,
    FormColumns,            \* work description as in _form_internship
    OfficerColumns,         \* the part of it on the officer's form
    Texts,                  \* what can be in these columns
    Workers,                \* the threads that serve requests
    NotYet, Gone,           \* an internship before and after its life
    None                    \* nil

StateColumns == {"student", "address", "approved", "registration_state"}

Columns == FormColumns \cup StateColumns

ASSUME ColumnsAssumption ==
    /\ OfficerColumns \subseteq FormColumns
    /\ FormColumns \cap StateColumns = {}
ASSUME WorkersAssumption == IsFiniteSet(Workers) /\ Workers # {}

(* What a column can hold *)
Values(c) ==
    CASE c = "student" -> Students
      [] c = "address" -> Addresses \cup {None}
      [] c = "approved" -> BOOLEAN
      [] c = "registration_state" -> RegistrationStates \cup {None}
      [] OTHER -> Texts

AllValues == UNION {Values(c) : c \in Columns}

Row == {r \in [Columns -> AllValues] : \A c \in Columns : r[c] \in Values(c)}

ASSUME NoneAssumption ==
    /\ NotYet \notin Row
    /\ Gone \notin Row
    /\ NotYet # Gone
    /\ None \notin Students \cup Internships \cup Row

StudentForms == [FormColumns -> Texts]

AddressForms == [{"address"} -> Addresses]

OfficerForms ==
    {[c \in OfficerColumns \cup StateColumns |->
        IF c \in OfficerColumns THEN text[c] ELSE state[c]] :
            text \in [OfficerColumns -> Texts],
            state \in [student : Values("student"),
                       address : Values("address"),
                       approved : Values("approved"),
                       registration_state : Values("registration_state")]}

VARIABLES
    internships,    \* internships[i]: row i of the table, or NotYet, or Gone
    tab,            \* tab[s]: the internship whose pages s has in the browser
    req,            \* req[w]: the request thread w serves, or served last
    late,           \* history: late[i] counts saves for a student, allowed
                    \* by a check, that came after i had been closed
    overlapped      \* history: a thread took a step during another's request

vars == <<internships, tab, req, late, overlapped>>

Checked == {"update", "create_and_save", "destroy"}

Task == Checked \cup {"save_address", "officer_update"}

Answer == {None, "saved", "destroyed", "denied", "not_found"}

Request ==
    [pc : {"save"}, task : Task \ {"destroy"}, student : Students \cup {None},
     internship : Internships, loaded : Row,
     form : StudentForms \cup OfficerForms \cup AddressForms, answer : {None}]
    \cup
    [pc : {"destroy"}, task : {"destroy"}, student : Students,
     internship : Internships, loaded : Row, form : {None}, answer : {None}]
    \cup
    [pc : {"answered"}, task : {None}, student : {None}, internship : {None},
     loaded : {None}, form : {None}, answer : Answer]

-----------------------------------------------------------------------------
(* Abilities *)

Exists(i) == internships[i] \notin {NotYet, Gone}

(* approved, or with a registration state: no longer the student's to edit *)
Closed(i) ==
    /\ Exists(i)
    /\ \/ internships[i]["approved"]
       \/ internships[i]["registration_state"] # None

Owns(s, i) == Exists(i) /\ internships[i]["student"] = s

(* Mutant: the student's own internship is editable for ever. *)
CanEditOwn(s, i) == Owns(s, i)

(* Mutant: the registration state is forgotten. *)
CanEditUnapproved(s, i) == Owns(s, i) /\ ~internships[i]["approved"]

(* can %i[edit update destroy], Internship *)
CanEdit(s, i) == Owns(s, i) /\ ~Closed(i)

-----------------------------------------------------------------------------
(* Requests *)

Answered(a) ==
    [pc |-> "answered", task |-> None, student |-> None, internship |-> None,
     loaded |-> None, form |-> None, answer |-> a]

Init ==
    /\ internships = [i \in Internships |-> NotYet]
    /\ tab = [s \in Students |-> None]
    /\ req = [w \in Workers |-> Answered(None)]
    /\ late = [i \in Internships |-> 0]
    /\ overlapped = FALSE

Finish(w, a) == req' = [req EXCEPT ![w] = Answered(a)]

(* The row is loaded and the request goes on to save the form. *)
Load(w, task, s, i, form) ==
    req' = [req EXCEPT ![w] =
              [pc |-> IF task = "destroy" THEN "destroy" ELSE "save",
               task |-> task, student |-> s, internship |-> i,
               loaded |-> internships[i], form |-> form, answer |-> None]]

(***************************************************************************)
(* internships#create: an internship of the student's course, open and     *)
(* without an address.                                                     *)
(***************************************************************************)
Create(w, s, i, form) ==
    /\ req[w].pc = "answered"
    /\ internships[i] = NotYet
    /\ internships' = [internships EXCEPT ![i] =
          [c \in Columns |->
             CASE c \in FormColumns -> form[c]
               [] c = "student" -> s
               [] c = "approved" -> FALSE
               [] OTHER -> None]]
    /\ UNCHANGED <<tab, req, late>>

(***************************************************************************)
(* complete_internships#show offers the pages that edit, place and destroy *)
(* an internship while the student can edit it.  They stay in the browser. *)
(***************************************************************************)
ShowChecklist(s, i) ==
    /\ CanEdit(s, i)
    /\ tab' = [tab EXCEPT ![s] = i]
    /\ UNCHANGED <<internships, req, late>>

(***************************************************************************)
(* internships#update, internships#destroy and, in find_for,               *)
(* company_addresses#create_and_save check the ability on the loaded row.  *)
(***************************************************************************)
Authorize(w, task, s, form) ==
    LET i == tab[s]
    IN  /\ req[w].pc = "answered"
        /\ i # None
        /\ \/ ~Exists(i) /\ Finish(w, "not_found")
           \/ Exists(i) /\ ~CanEdit(s, i) /\ Finish(w, "denied")
           \/ CanEdit(s, i) /\ Load(w, task, s, i, form)
        /\ UNCHANGED <<internships, tab, late>>

Update(w, s) == \E form \in StudentForms : Authorize(w, "update", s, form)

CreateAndSave(w, s) ==
    \E form \in AddressForms : Authorize(w, "create_and_save", s, form)

Destroy(w, s) == Authorize(w, "destroy", s, None)

(***************************************************************************)
(* company_addresses#save_address takes an address from the list; it finds *)
(* the internship among the student's own and checks nothing else.         *)
(***************************************************************************)
SaveAddress(w, s) ==
    LET i == tab[s]
    IN  /\ req[w].pc = "answered"
        /\ i # None
        /\ \/ ~Owns(s, i) /\ Finish(w, "not_found")
           \/ /\ Owns(s, i)
              /\ \E form \in AddressForms : Load(w, "save_address", s, i, form)
        /\ UNCHANGED <<internships, tab, late>>

(* The officer's form may be old, and the officer may change any of it. *)
OfficerUpdate(w, i) ==
    /\ req[w].pc = "answered"
    /\ internships[i] # NotYet
    /\ \/ ~Exists(i) /\ Finish(w, "not_found")
       \/ /\ Exists(i)
          /\ \E form \in OfficerForms : Load(w, "officer_update", None, i, form)
    /\ UNCHANGED <<internships, tab, late>>

(* Mutant: a column is written only if it was empty. *)
WrittenOnce(row, loaded, form) ==
    [c \in Columns |->
        IF c \in DOMAIN form /\ loaded[c] = None THEN form[c] ELSE row[c]]

(* Only columns in which the form differs from the loaded row are written. *)
Written(row, loaded, form) ==
    [c \in Columns |->
        IF c \in DOMAIN form /\ form[c] # loaded[c] THEN form[c] ELSE row[c]]

(***************************************************************************)
(* The UPDATE at the end of a request.  A row that is gone by now makes it *)
(* an UPDATE of no rows, which save reports as a success.                  *)
(***************************************************************************)
Save(w) ==
    LET r == req[w]
        i == r.internship
    IN  /\ r.pc = "save"
        /\ \/ /\ Exists(i)
              /\ internships' = [internships EXCEPT ![i] =
                                    Written(@, r.loaded, r.form)]
              /\ late' = [late EXCEPT ![i] =
                             CASE ~Closed(i) -> 0
                               [] Closed(i) /\ r.task \in Checked -> @ + 1
                               [] OTHER -> @]
           \/ /\ ~Exists(i)
              /\ UNCHANGED <<internships, late>>
        /\ Finish(w, "saved")
        /\ UNCHANGED tab

(* The DELETE at the end of internships#destroy *)
Delete(w) ==
    /\ req[w].pc = "destroy"
    /\ internships' = [internships EXCEPT ![req[w].internship] = Gone]
    /\ Finish(w, "destroyed")
    /\ UNCHANGED <<tab, late>>

(* The officer destroys an internship, in whatever state it is. *)
OfficerDestroy(w, i) ==
    /\ req[w].pc = "answered"
    /\ Exists(i)
    /\ internships' = [internships EXCEPT ![i] = Gone]
    /\ UNCHANGED <<tab, req, late>>

(* A thread is killed between the check and the save. *)
Crash(w) ==
    /\ req[w].pc # "answered"
    /\ Finish(w, None)
    /\ UNCHANGED <<internships, tab, late>>

Serve(w) ==
    \/ \E s \in Students :
        \/ \E i \in Internships, form \in StudentForms : Create(w, s, i, form)
        \/ Update(w, s)
        \/ CreateAndSave(w, s)
        \/ SaveAddress(w, s)
        \/ Destroy(w, s)
    \/ \E i \in Internships : OfficerUpdate(w, i) \/ OfficerDestroy(w, i)
    \/ Save(w)
    \/ Delete(w)
    \/ Crash(w)

Overlap(w) ==
    overlapped' = \/ overlapped
                  \/ \E v \in Workers \ {w} : req[v].pc # "answered"

Next ==
    \/ \E w \in Workers : Serve(w) /\ Overlap(w)
    \/ /\ \E s \in Students, i \in Internships : ShowChecklist(s, i)
       /\ UNCHANGED overlapped

Spec == Init /\ [][Next]_vars

-----------------------------------------------------------------------------
(* Properties *)

(* Requests that passed the check on i and have not saved yet *)
InFlight(i) ==
    {w \in Workers : req[w].task \in Checked /\ req[w].internship = i}

(* The table, the browser tabs and every request record have their types. *)
TypeOK ==
    /\ internships \in [Internships -> Row \cup {NotYet, Gone}]
    /\ tab \in [Students -> Internships \cup {None}]
    /\ req \in [Workers -> Request]
    /\ late \in [Internships -> Nat]
    /\ overlapped \in BOOLEAN

(***************************************************************************)
(* Closing an internship stops the student's edits: what can still come    *)
(* through are the requests other threads had already checked when the     *)
(* officer's save closed it, and each of them once.                        *)
(***************************************************************************)
LateEditsBounded ==
    \A i \in Internships :
        Closed(i) => late[i] + Cardinality(InFlight(i))
                        <= Cardinality(Workers) - 1

(***************************************************************************)
(* A student changes the work description of an internship, or destroys    *)
(* it, only while it is the student's own and open: as long as no two      *)
(* requests have overlapped.                                               *)
(***************************************************************************)
EditsOnlyOwnOpen ==
    [][\A w \in Workers :
        LET i == req[w].internship
        IN  (/\ Save(w) \/ Delete(w)
             /\ ~overlapped'
             /\ req[w].task \in {"update", "destroy"}
             /\ internships'[i] # internships[i])
            => Owns(req[w].student, i) /\ ~Closed(i)]_vars

(* A student changes the address of an internship only while it is open. *)
AddressOnlyWhileOpen ==
    [][\A w \in Workers :
        LET i == req[w].internship
        IN  (/\ Save(w)
             /\ req[w].student # None
             /\ Closed(i))
            => internships'[i]["address"] = internships[i]["address"]]_vars

(***************************************************************************)
(* A save that reports success has stored the whole form: what the officer *)
(* approves is what the officer's form showed, and what the student is     *)
(* told has been updated is there, whatever the age of the forms: as long  *)
(* as no two requests have overlapped.                                     *)
(***************************************************************************)
SuccessMeansSaved ==
    [][\A w \in Workers :
        LET i == req[w].internship
        IN  (Save(w) /\ ~overlapped')
            => /\ internships'[i] \notin {NotYet, Gone}
               /\ \A c \in DOMAIN req[w].form :
                     internships'[i][c] = req[w].form[c]]_vars

=============================================================================
