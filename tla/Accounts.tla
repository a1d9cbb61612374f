------------------------------ MODULE Accounts ------------------------------
(***************************************************************************)
(* Logging in: what User.find_or_create and Student.find_or_create_for     *)
(* (app/models/user.rb, app/models/student.rb) do to the tables users and  *)
(* students once config/initializers/ldap_authenticatable.rb has got a yes *)
(* from the LDAP server, while administrators destroy users and students   *)
(* and assign students to users.                                           *)
(*                                                                         *)
(* Every statement is a step of its own: first logins can overlap, and a   *)
(* thread can be killed between any two.  The only unique index is the one *)
(* on users.email.                                                         *)
(*                                                                         *)
(* An account is an email address; the enrolment number in a student's     *)
(* address identifies it.  Users type it as it is or with capital letters: *)
(* devise writes it in small letters whenever it saves a user, but         *)
(* find_or_create and the pattern of student addresses take it as typed.   *)
(* Passwords are left out, but for whether devise's limits accept them.    *)
(***************************************************************************)
EXTENDS Naturals, FiniteSets

CONSTANTS
    Accounts,           \* email addresses
    StudentAccounts,    \* those with an enrolment number in them
    UserIds,            \* primary keys; bound the number of rows in TLC
    StudentIds,
    Workers,            \* the threads that serve requests
    None                \* nil

ASSUME AccountsAssumption == StudentAccounts \subseteq Accounts
ASSUME IdsAssumption == UserIds \cup StudentIds \subseteq Nat
ASSUME WorkersAssumption == IsFiniteSet(Workers) /\ Workers # {}

(* What a login that has ended tells the user *)
Reply == {"success", "error"}

ASSUME NoneAssumption ==
    /\ None \notin UserIds \cup StudentIds \cup Accounts
    /\ None \notin Reply

VARIABLES
    users,          \* the rows of the table users
    students,       \* the rows of the table students
    req,            \* req[w]: the login thread w serves, or served last
    entered,        \* history: ids of students whose enrolment number an
                    \* officer has entered or changed
    overlapped      \* history: a thread took a step during another's request

vars == <<users, students, req, entered, overlapped>>

UserRow == [id : UserIds, email : Accounts, student : StudentIds \cup {None}]

StudentRow ==
    [id : StudentIds, enrolment_number : StudentAccounts \cup {None}]

Form == [email : Accounts, capitals : BOOLEAN, password_ok : BOOLEAN]

PC == {"answered", "find_user", "validate_user", "insert_user",
       "find_student", "create_student", "save_user"}

Answer == Reply \cup {None}

(* user and student are the records in memory; an unsaved user has no id. *)
LoginRecord == [pc : PC, form : Form \cup {None}, user : UserIds \cup {None},
                user_student : StudentIds \cup {None},
                student : StudentIds \cup {None}, answer : Answer]

(* A login under way has no answer, and one that gets as far as the table of *)
(* students is a student's.                                                  *)
Login ==
    {r \in LoginRecord :
        /\ r.pc # "answered" => r.form \in Form /\ r.answer = None
        /\ r.pc \in {"find_student", "create_student", "save_user"}
             => r.form.email \in StudentAccounts}

NoLogin == [pc |-> "answered", form |-> None, user |-> None,
            user_student |-> None, student |-> None, answer |-> None]

-----------------------------------------------------------------------------

Ids(rows) == {r.id : r \in rows}

UsersOf(e) == {u \in users : u.email = e}

StudentsOf(e) == {s \in students : s.enrolment_number = e}

(* Primary keys are never reused while somebody may remember them. *)
FreshUserIds ==
    UserIds \ (Ids(users) \cup {req[w].user : w \in Workers})

FreshStudentIds ==
    StudentIds \ (Ids(students) \cup {req[w].student : w \in Workers}
                                \cup {req[w].user_student : w \in Workers}
                                \cup {u.student : u \in users})

(* STUDENT_MAIL_REGEX, on the address as typed *)
student_email(form) == form.email \in StudentAccounts /\ ~form.capitals

Least(S) == CHOOSE i \in S : \A j \in S : i <= j

Init ==
    /\ users = {}
    /\ students = {}
    /\ req = [w \in Workers |-> NoLogin]
    /\ entered = {}
    /\ overlapped = FALSE

(* The session remembers the id of the user, and the thread nothing. *)
Finish(w, a, id) ==
    req' = [req EXCEPT ![w] = [NoLogin EXCEPT !.answer = a, !.user = id]]

Fail(w) == Finish(w, "error", None)

(* The end of find_or_create: students still need their Student. *)
UserDone(w, id, student) ==
    IF student_email(req[w].form)
      THEN req' = [req EXCEPT ![w].user = id, ![w].user_student = student,
                              ![w].pc = "find_student"]
      ELSE Finish(w, "success", id)

(* authenticate!: the LDAP server has accepted email and password. *)
LogIn(w, form) ==
    /\ req[w].pc = "answered"
    /\ req' = [req EXCEPT ![w] =
                  [NoLogin EXCEPT !.pc = "find_user", !.form = form]]
    /\ UNCHANGED <<users, students, entered>>

(* User.where(email: email).first; all addresses in the table are small. *)
FindUser(w) ==
    LET found == {u \in UsersOf(req[w].form.email) : ~req[w].form.capitals}
    IN  /\ req[w].pc = "find_user"
        /\ \/ \E u \in found : UserDone(w, u.id, u.student)
           \/ /\ found = {}
              /\ req' = [req EXCEPT ![w].pc = "validate_user"]
        /\ UNCHANGED <<users, students, entered>>

(***************************************************************************)
(* User.create validates first: the password must suit devise and the      *)
(* address must not be taken.  If one fails the user is returned unsaved.  *)
(***************************************************************************)
ValidateUser(w) ==
    LET valid == req[w].form.password_ok /\ UsersOf(req[w].form.email) = {}
    IN  /\ req[w].pc = "validate_user"
        /\ \/ valid /\ req' = [req EXCEPT ![w].pc = "insert_user"]
           \/ ~valid /\ UserDone(w, None, None)
        /\ UNCHANGED <<users, students, entered>>

(* Mutant: no unique index on users.email. *)
InsertUserUnchecked(w) ==
    /\ req[w].pc = "insert_user"
    /\ FreshUserIds # {}
    /\ users' = users \cup {[id |-> Least(FreshUserIds),
                              email |-> req[w].form.email, student |-> None]}
    /\ UserDone(w, Least(FreshUserIds), None)
    /\ UNCHANGED <<students, entered>>

(* The INSERT of User.create; the unique index can refuse it. *)
InsertUser(w) ==
    LET e == req[w].form.email
    IN  /\ req[w].pc = "insert_user"
        /\ \/ /\ UsersOf(e) = {}
              /\ FreshUserIds # {}
              /\ users' = users \cup {[id |-> Least(FreshUserIds), email |-> e,
                                       student |-> None]}
              /\ UserDone(w, Least(FreshUserIds), None)
           \/ /\ UsersOf(e) # {}
              /\ Fail(w)
              /\ UNCHANGED users
        /\ UNCHANGED <<students, entered>>

(* Mutant: user.student_id for user.student. *)
FindStudentTrusting(w) ==
    LET found == StudentsOf(req[w].form.email)
    IN  /\ req[w].pc = "find_student"
        /\ \/ req[w].user_student # None /\ Finish(w, "success", req[w].user)
           \/ /\ req[w].user_student = None
              /\ \E s \in found : req' = [req EXCEPT ![w].pc = "save_user",
                                                     ![w].student = s.id]
           \/ /\ req[w].user_student = None
              /\ found = {}
              /\ req' = [req EXCEPT ![w].pc = "create_student"]
        /\ UNCHANGED <<users, students, entered>>

(* Mutant: the enrolment number is looked for whatever the user has. *)
FindStudentAlways(w) ==
    LET found == StudentsOf(req[w].form.email)
    IN  /\ req[w].pc = "find_student"
        /\ \/ \E s \in found : req' = [req EXCEPT ![w].pc = "save_user",
                                                  ![w].student = s.id]
           \/ /\ found = {}
              /\ req' = [req EXCEPT ![w].pc = "create_student"]
        /\ UNCHANGED <<users, students, entered>>

(* Mutant: create for first_or_create. *)
FindStudentNever(w) ==
    /\ req[w].pc = "find_student"
    /\ \/ req[w].user_student \in Ids(students)
           /\ Finish(w, "success", req[w].user)
       \/ req[w].user_student \notin Ids(students)
           /\ req' = [req EXCEPT ![w].pc = "create_student"]
    /\ UNCHANGED <<users, students, entered>>

(***************************************************************************)
(* find_or_create_for: the user's student if there is one, or the first    *)
(* with the enrolment number.                                              *)
(***************************************************************************)
FindStudent(w) ==
    LET known == req[w].user_student \in Ids(students)
        found == StudentsOf(req[w].form.email)
    IN  /\ req[w].pc = "find_student"
        /\ \/ known /\ Finish(w, "success", req[w].user)
           \/ /\ ~known
              /\ \E s \in found : req' = [req EXCEPT ![w].pc = "save_user",
                                                     ![w].student = s.id]
           \/ /\ ~known
              /\ found = {}
              /\ req' = [req EXCEPT ![w].pc = "create_student"]
        /\ UNCHANGED <<users, students, entered>>

(* The second half of first_or_create *)
CreateStudent(w) ==
    /\ req[w].pc = "create_student"
    /\ FreshStudentIds # {}
    /\ students' = students \cup {[id |-> Least(FreshStudentIds),
                                   enrolment_number |-> req[w].form.email]}
    /\ req' = [req EXCEPT ![w].pc = "save_user",
                          ![w].student = Least(FreshStudentIds)]
    /\ UNCHANGED <<users, entered>>

(***************************************************************************)
(* user.save!: the UPDATE of a user that has been destroyed changes no row *)
(* and reports success; an unsaved user is validated and inserted; a       *)
(* password that does not suit devise is still in memory and fails it.     *)
(***************************************************************************)
SaveUser(w) ==
    LET r == req[w]
        mine == {u \in users : u.id = r.user}
        e == r.form.email
    IN  /\ r.pc = "save_user"
        /\ \/ /\ r.user # None /\ r.form.password_ok
              /\ users' = (users \ mine)
                    \cup {[u EXCEPT !.student = r.student] : u \in mine}
              /\ Finish(w, "success", req[w].user)
           \/ /\ r.user = None /\ r.form.password_ok /\ UsersOf(e) = {}
              /\ FreshUserIds # {}
              /\ users' = users \cup {[id |-> Least(FreshUserIds), email |-> e,
                                       student |-> r.student]}
              /\ Finish(w, "success", Least(FreshUserIds))
           \/ /\ \/ ~r.form.password_ok
                 \/ r.user = None /\ UsersOf(e) # {}
              /\ Fail(w)
              /\ UNCHANGED users
        /\ UNCHANGED <<students, entered>>

(***************************************************************************)
(* ActiveAdmin: officers create and destroy users, choose the student of a *)
(* user, and create, renumber and destroy students.  Only the address of a *)
(* user is checked for uniqueness, and destroying a student leaves         *)
(* users.student_id alone.                                                 *)
(***************************************************************************)
AdminCreateUser(w, e, s) ==
    /\ req[w].pc = "answered"
    /\ UsersOf(e) = {}
    /\ FreshUserIds # {}
    /\ users' = users \cup {[id |-> Least(FreshUserIds), email |-> e, student |-> s]}
    /\ UNCHANGED <<students, req, entered>>

AdminAssign(w, u, s) ==
    /\ req[w].pc = "answered"
    /\ users' = (users \ {u}) \cup {[u EXCEPT !.student = s]}
    /\ UNCHANGED <<students, req, entered>>

AdminDestroyUser(w, u) ==
    /\ req[w].pc = "answered"
    /\ users' = users \ {u}
    /\ UNCHANGED <<students, req, entered>>

AdminCreateStudent(w, e) ==
    /\ req[w].pc = "answered"
    /\ FreshStudentIds # {}
    /\ students' = students \cup {[id |-> Least(FreshStudentIds), enrolment_number |-> e]}
    /\ entered' = entered \cup {Least(FreshStudentIds)}
    /\ UNCHANGED <<users, req>>

AdminRenumber(w, s, e) ==
    /\ req[w].pc = "answered"
    /\ students' = (students \ {s}) \cup {[s EXCEPT !.enrolment_number = e]}
    /\ entered' = entered \cup {s.id}
    /\ UNCHANGED <<users, req>>

AdminDestroyStudent(w, s) ==
    /\ req[w].pc = "answered"
    /\ students' = students \ {s}
    /\ entered' = entered \ {s.id}
    /\ UNCHANGED <<users, req>>

(* A thread is killed between two statements. *)
Crash(w) ==
    /\ req[w].pc # "answered"
    /\ req' = [req EXCEPT ![w] = NoLogin]
    /\ UNCHANGED <<users, students, entered>>

Serve(w) ==
    \/ FindUser(w)
    \/ ValidateUser(w)
    \/ InsertUser(w)
    \/ FindStudent(w)
    \/ CreateStudent(w)
    \/ SaveUser(w)

Admin(w) ==
    \/ \E e \in Accounts, s \in Ids(students) \cup {None} : AdminCreateUser(w, e, s)
    \/ \E u \in users, s \in Ids(students) \cup {None} : AdminAssign(w, u, s)
    \/ \E u \in users : AdminDestroyUser(w, u)
    \/ \E e \in StudentAccounts \cup {None} : AdminCreateStudent(w, e)
    \/ \E s \in students, e \in StudentAccounts \cup {None} : AdminRenumber(w, s, e)
    \/ \E s \in students : AdminDestroyStudent(w, s)

Overlap(w) ==
    overlapped' = \/ overlapped
                  \/ \E v \in Workers \ {w} : req[v].pc # "answered"

Next ==
    \E w \in Workers :
        /\ \/ \E form \in Form : LogIn(w, form)
           \/ Serve(w)
           \/ Admin(w)
           \/ Crash(w)
        /\ Overlap(w)

Spec == Init /\ [][Next]_vars

-----------------------------------------------------------------------------
(* Properties *)

Creating(e) ==
    {w \in Workers : req[w].pc = "create_student" /\ req[w].form.email = e}

(* The tables and the logins have their types; every account has one user. *)
TypeOK ==
    /\ users \subseteq UserRow
    /\ students \subseteq StudentRow
    /\ req \in [Workers -> Login]
    /\ entered \subseteq StudentIds
    /\ overlapped \in BOOLEAN

(* No two users share an address: first logins that overlap find no user,  *)
(* and the unique index refuses one of them.                               *)
OneUserPerAddress == \A u, v \in users : u.email = v.email => u = v

(***************************************************************************)
(* However many first logins of a student overlap, crash and are repeated, *)
(* they create one user, and never more students of one enrolment number   *)
(* than there are threads; those with numbers entered by officers are not  *)
(* counted.                                                                *)
(***************************************************************************)
DuplicateStudentBound ==
    /\ OneUserPerAddress
    /\ \A e \in StudentAccounts :
           Cardinality({s \in StudentsOf(e) : s.id \notin entered})
               + Cardinality(Creating(e)) <= Cardinality(Workers)

(* User id is that of account e and has its student, if e is a student's. *)
Associated(e, id) ==
    \E u \in users :
        /\ u.id = id
        /\ u.email = e
        /\ e \in StudentAccounts => u.student \in Ids(students)

(***************************************************************************)
(* A login that succeeds signs in the user of the account, and if the      *)
(* account is a student's that user has a student in the table: whatever   *)
(* killed logins and administrators have left behind, for an address       *)
(* typed in small letters, as long as no two requests have overlapped.     *)
(***************************************************************************)
SuccessMeansAssociated ==
    [][\A w \in Workers, e \in Accounts :
        (/\ Serve(w)
         /\ req[w].form.email = e
         /\ req[w].form.password_ok
         /\ ~req[w].form.capitals
         /\ req'[w].answer = "success"
         /\ ~overlapped')
            => Associated(e, req[w].user)']_vars

(***************************************************************************)
(* A login never takes away a student that a user has: as long as no two   *)
(* requests have overlapped.                                               *)
(***************************************************************************)
StudentIsKept ==
    [][\A w \in Workers :
        (Serve(w) /\ ~overlapped') =>
            \A u \in users :
                u.student \in Ids(students) => u \in users']_vars

(* A login that succeeds signs a user in, however the address was typed. *)
SuccessSignsIn ==
    [][\A w \in Workers :
        (/\ Serve(w)
         /\ req'[w].answer = "success"
         /\ req[w].form.password_ok
         /\ ~overlapped')
            => req'[w].user \in Ids(users')]_vars

=============================================================================
