--------------------------- MODULE AccountsProofs ---------------------------
(***************************************************************************)
(* For any accounts and any number of threads: the types, one user to an   *)
(* address, how many students first logins that overlap can create, and,   *)
(* for requests that do not overlap, that a login that succeeds leaves the *)
(* user with a student and that none takes a user's student away.          *)
(***************************************************************************)
EXTENDS Accounts, FiniteSetTheorems, WellFoundedInduction, TLAPS

-----------------------------------------------------------------------------
(* Primary keys *)

(* A set of natural numbers that is not empty has a least one. *)
LEMMA LeastIn ==
  ASSUME NEW S \in SUBSET Nat, S # {}
  PROVE  Least(S) \in S
  <1>1. IsWellFoundedOn(OpToRel(<, Nat), Nat)
    BY NatLessThanWellFounded
  <1>2. PICK x \in S : \A y \in S : ~(<<y, x>> \in OpToRel(<, Nat))
    BY <1>1, WFMin
  <1>3. ASSUME NEW y \in S
        PROVE  x <= y
    <2>1. x \in Nat /\ y \in Nat
      OBVIOUS
    <2>2. ~(y < x)
      BY <1>2, <2>1 DEF OpToRel
    <2>3. QED
      BY <2>1, <2>2
  <1>4. QED
    BY <1>3 DEF Least

(* A new user's key is nobody's, and no thread remembers it. *)
LEMMA FreshUser ==
  ASSUME FreshUserIds # {}
  PROVE  /\ Least(FreshUserIds) \in UserIds
         /\ \A u \in users : u.id # Least(FreshUserIds)
         /\ \A w \in Workers : req[w].user # Least(FreshUserIds)
  <1>1. FreshUserIds \in SUBSET Nat
    BY IdsAssumption DEF FreshUserIds
  <1>2. Least(FreshUserIds) \in FreshUserIds
    BY <1>1, LeastIn
  <1>3. QED
    BY <1>2 DEF FreshUserIds, Ids

(* A new student's key is no student's, and neither a user nor a thread    *)
(* points to it.                                                           *)
LEMMA FreshStudent ==
  ASSUME FreshStudentIds # {}
  PROVE  /\ Least(FreshStudentIds) \in StudentIds
         /\ \A s \in students : s.id # Least(FreshStudentIds)
         /\ \A w \in Workers : /\ req[w].student # Least(FreshStudentIds)
                               /\ req[w].user_student # Least(FreshStudentIds)
         /\ \A u \in users : u.student # Least(FreshStudentIds)
  <1>1. FreshStudentIds \in SUBSET Nat
    BY IdsAssumption DEF FreshStudentIds
  <1>2. Least(FreshStudentIds) \in FreshStudentIds
    BY <1>1, LeastIn
  <1>3. QED
    BY <1>2 DEF FreshStudentIds, Ids

-----------------------------------------------------------------------------
(* The tables *)

(* Users and students have their types, primary keys are unique, and so    *)
(* are the addresses of users.                                             *)
Tables ==
  /\ users \subseteq UserRow
  /\ students \subseteq StudentRow
  /\ IsFiniteSet(students)
  /\ entered \subseteq StudentIds
  /\ \A u, v \in users : u.id = v.id => u = v
  /\ \A s, t \in students : s.id = t.id => s = t
  /\ OneUserPerAddress

(* What a step may do to the users: one may be added whose address nobody  *)
(* has, some of them given a student, some removed.                        *)
UsersStep ==
  \/ UNCHANGED users
  \/ \E e \in Accounts, s \in StudentIds \cup {None} :
        /\ UsersOf(e) = {}
        /\ FreshUserIds # {}
        /\ users' = users \cup {[id |-> Least(FreshUserIds), email |-> e,
                                 student |-> s]}
  \/ \E M \in SUBSET users, s \in StudentIds \cup {None} :
        users' = (users \ M) \cup {[u EXCEPT !.student = s] : u \in M}
  \/ users' \subseteq users

(* And to the students: one may be added with a new key, entered or        *)
(* created by a thread; one renumbered; one removed.                       *)
StudentsStep ==
  \/ UNCHANGED <<students, entered>>
  \/ \E w \in Workers : CreateStudent(w)
  \/ \E w \in Workers, e \in StudentAccounts \cup {None} :
        AdminCreateStudent(w, e)
  \/ \E w \in Workers, s \in students, e \in StudentAccounts \cup {None} :
        AdminRenumber(w, s, e)
  \/ \E w \in Workers, s \in students : AdminDestroyStudent(w, s)

(* Whatever happens to the users, they stay as the table wants them. *)
LEMMA UsersStay ==
  ASSUME Tables, UsersStep
  PROVE  /\ users' \subseteq UserRow
         /\ \A u, v \in users' : u.id = v.id => u = v
         /\ \A u, v \in users' : u.email = v.email => u = v
  <1>1. /\ users \subseteq UserRow
        /\ \A u, v \in users : u.id = v.id => u = v
        /\ \A u, v \in users : u.email = v.email => u = v
    BY DEF Tables, OneUserPerAddress
  <1>2. CASE users' \subseteq users
    BY <1>1, <1>2
  <1>3. ASSUME NEW e \in Accounts, NEW s \in StudentIds \cup {None},
               UsersOf(e) = {}, FreshUserIds # {},
               users' = users \cup {[id |-> Least(FreshUserIds), email |-> e,
                                     student |-> s]}
        PROVE  /\ users' \subseteq UserRow
               /\ \A u, v \in users' : u.id = v.id => u = v
               /\ \A u, v \in users' : u.email = v.email => u = v
    <2> DEFINE n == [id |-> Least(FreshUserIds), email |-> e, student |-> s]
    <2>1. n \in UserRow /\ n.id = Least(FreshUserIds) /\ n.email = e
      BY <1>3, FreshUser DEF UserRow
    <2>2. \A u \in users : u.id # n.id /\ u.email # n.email
      BY <1>3, <2>1, FreshUser DEF UsersOf
    <2>3. users' = users \cup {n}
      BY <1>3
    <2> HIDE DEF n
    <2>4. QED
      BY <1>1, <2>1, <2>2, <2>3
  <1>4. ASSUME NEW M \in SUBSET users, NEW s \in StudentIds \cup {None},
               users' = (users \ M) \cup {[u EXCEPT !.student = s] : u \in M}
        PROVE  /\ users' \subseteq UserRow
               /\ \A u, v \in users' : u.id = v.id => u = v
               /\ \A u, v \in users' : u.email = v.email => u = v
    <2>1. ASSUME NEW u \in users
          PROVE  LET n == [u EXCEPT !.student = s]
                 IN  n \in UserRow /\ n.id = u.id /\ n.email = u.email
      BY <1>1, <2>1 DEF UserRow
    <2>2. ASSUME NEW u \in users'
          PROVE  \E o \in users :
                    /\ o.id = u.id
                    /\ o.email = u.email
                    /\ u = IF o \in M THEN [o EXCEPT !.student = s] ELSE o
      BY <1>4, <2>1, <2>2
    <2>3. QED
      BY <1>1, <2>1, <2>2
  <1>5. QED
    BY <1>1, <1>2, <1>3, <1>4 DEF UsersStep

(* So do the students. *)
LEMMA StudentsStay ==
  ASSUME Tables, StudentsStep, req \in [Workers -> Login]
  PROVE  /\ students' \subseteq StudentRow
         /\ IsFiniteSet(students')
         /\ entered' \subseteq StudentIds
         /\ \A s, t \in students' : s.id = t.id => s = t
  <1>1. /\ students \subseteq StudentRow
        /\ IsFiniteSet(students)
        /\ entered \subseteq StudentIds
        /\ \A s, t \in students : s.id = t.id => s = t
    BY DEF Tables
  <1>2. ASSUME NEW e \in StudentAccounts \cup {None}, FreshStudentIds # {},
               students' = students
                 \cup {[id |-> Least(FreshStudentIds), enrolment_number |-> e]}
        PROVE  /\ students' \subseteq StudentRow
               /\ IsFiniteSet(students')
               /\ \A s, t \in students' : s.id = t.id => s = t
    <2> DEFINE n == [id |-> Least(FreshStudentIds), enrolment_number |-> e]
    <2>1. n \in StudentRow /\ n.id = Least(FreshStudentIds)
      BY <1>2, FreshStudent DEF StudentRow
    <2>2. \A s \in students : s.id # n.id
      BY <1>2, <2>1, FreshStudent
    <2>3. students' = students \cup {n}
      BY <1>2
    <2> HIDE DEF n
    <2>4. IsFiniteSet(students')
      BY <1>1, <2>3, FS_AddElement
    <2>5. QED
      BY <1>1, <2>1, <2>2, <2>3, <2>4
  <1>3. ASSUME NEW w \in Workers, CreateStudent(w)
        PROVE  /\ req[w].form.email \in StudentAccounts \cup {None}
               /\ FreshStudentIds # {}
               /\ students' = students
                    \cup {[id |-> Least(FreshStudentIds),
                           enrolment_number |-> req[w].form.email]}
               /\ entered' = entered
    BY <1>3 DEF CreateStudent, Login
  <1>4. ASSUME NEW w \in Workers, NEW e \in StudentAccounts \cup {None},
               AdminCreateStudent(w, e)
        PROVE  entered' \subseteq StudentIds
    BY <1>1, <1>4, FreshStudent DEF AdminCreateStudent
  <1>5. ASSUME NEW w \in Workers, NEW s \in students,
               NEW e \in StudentAccounts \cup {None}, AdminRenumber(w, s, e)
        PROVE  /\ students' \subseteq StudentRow
               /\ IsFiniteSet(students')
               /\ entered' \subseteq StudentIds
               /\ \A t, o \in students' : t.id = o.id => t = o
    <2> DEFINE n == [s EXCEPT !.enrolment_number = e]
    <2>1. n \in StudentRow /\ n.id = s.id /\ s.id \in StudentIds
      BY <1>1 DEF StudentRow
    <2>2. students' = (students \ {s}) \cup {n} /\ entered' = entered \cup {s.id}
      BY <1>5 DEF AdminRenumber
    <2> HIDE DEF n
    <2>3. IsFiniteSet(students \ {s})
      BY <1>1, FS_RemoveElement
    <2>4. IsFiniteSet(students')
      BY <2>2, <2>3, FS_AddElement
    <2>5. QED
      BY <1>1, <2>1, <2>2, <2>4
  <1>6. ASSUME NEW w \in Workers, NEW s \in students, AdminDestroyStudent(w, s)
        PROVE  /\ students' \subseteq StudentRow
               /\ IsFiniteSet(students')
               /\ entered' \subseteq StudentIds
               /\ \A t, o \in students' : t.id = o.id => t = o
    <2>1. students' = students \ {s} /\ entered' = entered \ {s.id}
      BY <1>6 DEF AdminDestroyStudent
    <2>2. IsFiniteSet(students')
      BY <1>1, <2>1, FS_RemoveElement
    <2>3. QED
      BY <1>1, <2>1, <2>2
  <1>7. ASSUME NEW w \in Workers, NEW e \in StudentAccounts \cup {None},
               AdminCreateStudent(w, e)
        PROVE  /\ FreshStudentIds # {}
               /\ students' = students
                    \cup {[id |-> Least(FreshStudentIds), enrolment_number |-> e]}
    BY <1>7 DEF AdminCreateStudent
  <1>8. QED
    <2>1. CASE UNCHANGED <<students, entered>>
      BY <1>1, <2>1
    <2>2. CASE \E w \in Workers : CreateStudent(w)
      BY <1>1, <1>2, <1>3, <2>2
    <2>3. CASE \E w \in Workers, e \in StudentAccounts \cup {None} :
                  AdminCreateStudent(w, e)
      BY <1>2, <1>4, <1>7, <2>3
    <2>4. QED
      BY <1>5, <1>6, <2>1, <2>2, <2>3 DEF StudentsStep

-----------------------------------------------------------------------------
(* Types *)

(* A thread without a request, before its first and after the last. *)
LEMMA IdleType ==
  ASSUME NEW a \in Answer, NEW id \in UserIds \cup {None}
  PROVE  /\ NoLogin \in Login
         /\ [NoLogin EXCEPT !.answer = a, !.user = id] \in Login
  BY DEF NoLogin, Login, LoginRecord, PC, Answer, Reply

(* What the request of a thread at work holds *)
LEMMA AtWork ==
  ASSUME NEW w \in Workers, req \in [Workers -> Login], req[w].pc # "answered"
  PROVE  /\ req[w] \in LoginRecord
         /\ req[w].form \in Form
         /\ req[w].answer = None
         /\ req[w].form.email \in Accounts
         /\ req[w].form.password_ok \in BOOLEAN
         /\ req[w].form.capitals \in BOOLEAN
         /\ req[w].pc \in {"find_student", "create_student", "save_user"}
              => req[w].form.email \in StudentAccounts
         /\ req[w].user \in UserIds \cup {None}
         /\ req[w].user_student \in StudentIds \cup {None}
         /\ req[w].student \in StudentIds \cup {None}
  <1>1. req[w] \in Login
    OBVIOUS
  <1>2. req[w] \in LoginRecord /\ req[w].form \in Form
    BY <1>1 DEF Login
  <1>3. QED
    BY <1>1, <1>2 DEF Login, LoginRecord, Form

(* How a request goes on from one statement to the next keeps its type. *)
LEMMA OnwardType ==
  ASSUME NEW w \in Workers, req \in [Workers -> Login], req[w].pc # "answered",
         NEW p \in PC, NEW s \in StudentIds \cup {None},
         p \in {"find_student", "create_student", "save_user"}
           => req[w].form.email \in StudentAccounts
  PROVE  /\ [req EXCEPT ![w].pc = p] \in [Workers -> Login]
         /\ [req EXCEPT ![w].pc = p, ![w].student = s] \in [Workers -> Login]
  <1>1. /\ [req[w] EXCEPT !.pc = p] \in LoginRecord
        /\ [req[w] EXCEPT !.pc = p, !.student = s] \in LoginRecord
        /\ [req[w] EXCEPT !.pc = p].pc = p
        /\ [req[w] EXCEPT !.pc = p].form = req[w].form
        /\ [req[w] EXCEPT !.pc = p].answer = req[w].answer
        /\ [req[w] EXCEPT !.pc = p, !.student = s].answer = req[w].answer
        /\ [req[w] EXCEPT !.pc = p, !.student = s].pc = p
        /\ [req[w] EXCEPT !.pc = p, !.student = s].form = req[w].form
    BY AtWork DEF LoginRecord
  <1>2. /\ [req[w] EXCEPT !.pc = p] \in Login
        /\ [req[w] EXCEPT !.pc = p, !.student = s] \in Login
    BY <1>1, AtWork DEF Login
  <1>3. QED
    BY <1>2

(* So does the end of a login. *)
LEMMA FinishType ==
  ASSUME NEW w \in Workers, req \in [Workers -> Login],
         NEW a \in Answer, NEW id \in UserIds \cup {None}, Finish(w, a, id)
  PROVE  req' \in [Workers -> Login]
  BY IdleType DEF Finish

(* So does the end of find_or_create. *)
LEMMA UserDoneType ==
  ASSUME NEW w \in Workers, req \in [Workers -> Login], req[w].pc # "answered",
         NEW id \in UserIds \cup {None}, NEW s \in StudentIds \cup {None},
         UserDone(w, id, s)
  PROVE  req' \in [Workers -> Login]
  <1>1. CASE student_email(req[w].form)
    <2> DEFINE n == [req[w] EXCEPT !.user = id, !.user_student = s,
                                   !.pc = "find_student"]
    <2>1. n \in LoginRecord /\ n.form = req[w].form /\ n.answer = req[w].answer
      BY AtWork DEF LoginRecord, PC
    <2>2. n.form.email \in StudentAccounts
      BY <1>1, <2>1 DEF student_email
    <2>3. n \in Login
      BY <2>1, <2>2, AtWork DEF Login
    <2>4. req' = [req EXCEPT ![w] = n]
      BY <1>1 DEF UserDone
    <2> HIDE DEF n
    <2>5. QED
      BY <2>3, <2>4
  <1>2. CASE ~student_email(req[w].form)
    BY <1>2, FinishType DEF UserDone, Answer, Reply
  <1>3. QED
    BY <1>1, <1>2

(* Every step of a login keeps the type of the requests, and does to the   *)
(* tables what a step may do.                                              *)
LEMMA ServeSteps ==
  ASSUME NEW w \in Workers, Tables, req \in [Workers -> Login], Serve(w)
  PROVE  /\ req' \in [Workers -> Login]
         /\ UsersStep
         /\ StudentsStep
  <1>0. users \subseteq UserRow /\ students \subseteq StudentRow
    BY DEF Tables
  <1>1. CASE FindUser(w)
    <2>1. req[w].pc = "find_user" /\ UNCHANGED <<users, students, entered>>
      BY <1>1 DEF FindUser
    <2>2. ASSUME NEW u \in users, UserDone(w, u.id, u.student)
          PROVE  req' \in [Workers -> Login]
      BY <1>0, <2>1, <2>2, UserDoneType DEF UserRow
    <2>3. ASSUME req' = [req EXCEPT ![w].pc = "validate_user"]
          PROVE  req' \in [Workers -> Login]
      BY <2>1, <2>3, OnwardType DEF PC
    <2>4. req' \in [Workers -> Login]
      BY <1>1, <2>2, <2>3 DEF FindUser, UsersOf
    <2>5. QED
      BY <2>1, <2>4 DEF UsersStep, StudentsStep
  <1>2. CASE ValidateUser(w)
    <2>1. req[w].pc = "validate_user" /\ UNCHANGED <<users, students, entered>>
      BY <1>2 DEF ValidateUser
    <2>2. ASSUME req' = [req EXCEPT ![w].pc = "insert_user"]
          PROVE  req' \in [Workers -> Login]
      BY <2>1, <2>2, OnwardType DEF PC
    <2>3. ASSUME UserDone(w, None, None)
          PROVE  req' \in [Workers -> Login]
      BY <2>1, <2>3, UserDoneType
    <2>4. QED
      BY <1>2, <2>1, <2>2, <2>3 DEF ValidateUser, UsersStep, StudentsStep
  <1>3. CASE InsertUser(w)
    <2>1. req[w].pc = "insert_user" /\ UNCHANGED <<students, entered>>
      BY <1>3 DEF InsertUser
    <2>2. CASE /\ UsersOf(req[w].form.email) = {}
               /\ FreshUserIds # {}
               /\ users' = users \cup {[id |-> Least(FreshUserIds),
                                        email |-> req[w].form.email,
                                        student |-> None]}
               /\ UserDone(w, Least(FreshUserIds), None)
      <3>1. req' \in [Workers -> Login]
        BY <2>1, <2>2, FreshUser, UserDoneType
      <3>2. UsersStep
        BY <2>1, <2>2, AtWork DEF UsersStep
      <3>3. QED
        BY <2>1, <3>1, <3>2 DEF StudentsStep
    <2>3. CASE Fail(w) /\ UNCHANGED users
      BY <2>1, <2>3, FinishType DEF Fail, Answer, Reply, UsersStep, StudentsStep
    <2>4. QED
      BY <1>3, <2>2, <2>3 DEF InsertUser
  <1>4. CASE FindStudent(w)
    <2>1. req[w].pc = "find_student" /\ UNCHANGED <<users, students, entered>>
      BY <1>4 DEF FindStudent
    <2>2. ASSUME Finish(w, "success", req[w].user)
          PROVE  req' \in [Workers -> Login]
      BY <2>1, <2>2, AtWork, FinishType DEF Answer, Reply
    <2>3. ASSUME NEW s \in students,
                 req' = [req EXCEPT ![w].pc = "save_user", ![w].student = s.id]
          PROVE  req' \in [Workers -> Login]
      BY <1>0, <2>1, <2>3, AtWork, OnwardType DEF PC, StudentRow
    <2>4. ASSUME req' = [req EXCEPT ![w].pc = "create_student"]
          PROVE  req' \in [Workers -> Login]
      BY <2>1, <2>4, AtWork, OnwardType DEF PC
    <2>5. req' \in [Workers -> Login]
      BY <1>4, <2>2, <2>3, <2>4 DEF FindStudent, StudentsOf
    <2>6. QED
      BY <2>1, <2>5 DEF UsersStep, StudentsStep
  <1>5. CASE CreateStudent(w)
    <2>1. /\ req[w].pc = "create_student" /\ UNCHANGED users
          /\ FreshStudentIds # {}
          /\ req' = [req EXCEPT ![w].pc = "save_user",
                                ![w].student = Least(FreshStudentIds)]
      BY <1>5 DEF CreateStudent
    <2>2. req' \in [Workers -> Login]
      BY <2>1, AtWork, FreshStudent, OnwardType DEF PC
    <2>3. QED
      BY <1>5, <2>1, <2>2 DEF UsersStep, StudentsStep
  <1>6. CASE SaveUser(w)
    <2> DEFINE r == req[w]
               mine == {u \in users : u.id = r.user}
    <2>1. r.pc = "save_user" /\ UNCHANGED <<students, entered>>
      BY <1>6 DEF SaveUser
    <2>2. /\ r.form.email \in Accounts
          /\ r.student \in StudentIds \cup {None}
          /\ r.user \in UserIds \cup {None}
      BY <2>1, AtWork
    <2>3. CASE /\ users' = (users \ mine)
                     \cup {[u EXCEPT !.student = r.student] : u \in mine}
               /\ Finish(w, "success", r.user)
      <3>1. req' \in [Workers -> Login]
        BY <2>2, <2>3, FinishType DEF Answer, Reply
      <3>2. mine \in SUBSET users
        OBVIOUS
      <3> HIDE DEF mine
      <3>3. UsersStep
        BY <2>2, <2>3, <3>2 DEF UsersStep
      <3>4. QED
        BY <2>1, <3>1, <3>3 DEF StudentsStep
    <2>4. CASE /\ UsersOf(r.form.email) = {}
               /\ FreshUserIds # {}
               /\ users' = users \cup {[id |-> Least(FreshUserIds),
                                        email |-> r.form.email,
                                        student |-> r.student]}
               /\ Finish(w, "success", Least(FreshUserIds))
      <3>1. req' \in [Workers -> Login]
        BY <2>4, FinishType, FreshUser DEF Answer, Reply
      <3>2. UsersStep
        BY <2>2, <2>4 DEF UsersStep
      <3>3. QED
        BY <2>1, <3>1, <3>2 DEF StudentsStep
    <2>5. CASE Fail(w) /\ UNCHANGED users
      BY <2>1, <2>5, FinishType DEF Fail, Answer, Reply, UsersStep, StudentsStep
    <2>6. QED
      BY <1>6, <2>3, <2>4, <2>5 DEF SaveUser
  <1>7. QED
    BY <1>1, <1>2, <1>3, <1>4, <1>5, <1>6 DEF Serve

(* An officer leaves the requests alone. *)
LEMMA AdminSteps ==
  ASSUME NEW w \in Workers, Tables, Admin(w)
  PROVE  /\ UNCHANGED req
         /\ UsersStep
         /\ StudentsStep
  <1>0. /\ users \subseteq UserRow /\ students \subseteq StudentRow
        /\ Ids(students) \subseteq StudentIds
    BY DEF Tables, StudentRow, Ids
  <1>1. ASSUME NEW e \in Accounts, NEW s \in Ids(students) \cup {None},
               AdminCreateUser(w, e, s)
        PROVE  UNCHANGED req /\ UsersStep /\ StudentsStep
    BY <1>0, <1>1 DEF AdminCreateUser, UsersStep, StudentsStep
  <1>2. ASSUME NEW u \in users, NEW s \in Ids(students) \cup {None},
               AdminAssign(w, u, s)
        PROVE  UNCHANGED req /\ UsersStep /\ StudentsStep
    <2>1. {[v EXCEPT !.student = s] : v \in {u}} = {[u EXCEPT !.student = s]}
      OBVIOUS
    <2>2. {u} \in SUBSET users /\ s \in StudentIds \cup {None}
      BY <1>0
    <2>3. users' = (users \ {u}) \cup {[v EXCEPT !.student = s] : v \in {u}}
      BY <1>2, <2>1 DEF AdminAssign
    <2>4. UsersStep
      BY <2>2, <2>3 DEF UsersStep
    <2>5. QED
      BY <1>2, <2>4 DEF AdminAssign, StudentsStep
  <1>3. ASSUME NEW u \in users, AdminDestroyUser(w, u)
        PROVE  UNCHANGED req /\ UsersStep /\ StudentsStep
    BY <1>3 DEF AdminDestroyUser, UsersStep, StudentsStep
  <1>4. ASSUME NEW e \in StudentAccounts \cup {None}, AdminCreateStudent(w, e)
        PROVE  UNCHANGED req /\ UsersStep /\ StudentsStep
    <2>1. UNCHANGED req /\ UsersStep
      BY <1>4 DEF AdminCreateStudent, UsersStep
    <2>2. QED
      BY <1>4, <2>1 DEF StudentsStep
  <1>5. ASSUME NEW s \in students, NEW e \in StudentAccounts \cup {None},
               AdminRenumber(w, s, e)
        PROVE  UNCHANGED req /\ UsersStep /\ StudentsStep
    <2>1. UNCHANGED req /\ UsersStep
      BY <1>5 DEF AdminRenumber, UsersStep
    <2>2. QED
      BY <1>5, <2>1 DEF StudentsStep
  <1>6. ASSUME NEW s \in students, AdminDestroyStudent(w, s)
        PROVE  UNCHANGED req /\ UsersStep /\ StudentsStep
    <2>1. UNCHANGED req /\ UsersStep
      BY <1>6 DEF AdminDestroyStudent, UsersStep
    <2>2. QED
      BY <1>6, <2>1 DEF StudentsStep
  <1>7. QED
    BY <1>1, <1>2, <1>3, <1>4, <1>5, <1>6 DEF Admin

(* The types and the tables, as an inductive invariant *)
Kept ==
  /\ Tables
  /\ req \in [Workers -> Login]
  /\ overlapped \in BOOLEAN

(* No step breaks it. *)
LEMMA KeptIsInductive == Kept /\ [Next]_vars => Kept'
  <1> SUFFICES ASSUME Kept, [Next]_vars PROVE Kept'
    OBVIOUS
  <1>0. Tables /\ req \in [Workers -> Login] /\ overlapped \in BOOLEAN
    BY DEF Kept
  <1>1. ASSUME UsersStep, StudentsStep
        PROVE  Tables'
    BY <1>0, <1>1, UsersStay, StudentsStay DEF Tables, OneUserPerAddress
  <1>2. CASE UNCHANGED vars
    <2>1. UsersStep /\ StudentsStep
      BY <1>2 DEF vars, UsersStep, StudentsStep
    <2>2. QED
      BY <1>0, <1>1, <1>2, <2>1 DEF Kept, vars
  <1>3. ASSUME NEW w \in Workers, Overlap(w),
               \/ \E form \in Form : LogIn(w, form)
               \/ Serve(w)
               \/ Admin(w)
               \/ Crash(w)
        PROVE  Kept'
    <2>0. overlapped' \in BOOLEAN
      BY <1>3 DEF Overlap
    <2>1. ASSUME NEW form \in Form, LogIn(w, form)
          PROVE  Kept'
      <3>1. [NoLogin EXCEPT !.pc = "find_user", !.form = form] \in Login
        BY DEF NoLogin, Login, LoginRecord, PC, Answer, Reply
      <3>2. req' \in [Workers -> Login]
        BY <1>0, <2>1, <3>1 DEF LogIn
      <3>3. UsersStep /\ StudentsStep
        BY <2>1 DEF LogIn, UsersStep, StudentsStep
      <3>4. QED
        BY <1>1, <2>0, <3>2, <3>3 DEF Kept
    <2>2. CASE Serve(w)
      BY <1>0, <1>1, <2>0, <2>2, ServeSteps DEF Kept
    <2>3. CASE Admin(w)
      BY <1>0, <1>1, <2>0, <2>3, AdminSteps DEF Kept
    <2>4. CASE Crash(w)
      <3>1. req' \in [Workers -> Login]
        BY <1>0, <2>4, IdleType DEF Crash, Answer, Reply
      <3>2. UsersStep /\ StudentsStep
        BY <2>4 DEF Crash, UsersStep, StudentsStep
      <3>3. QED
        BY <1>1, <2>0, <3>1, <3>2 DEF Kept
    <2>5. QED
      BY <1>3, <2>1, <2>2, <2>3, <2>4
  <1>4. QED
    BY <1>2, <1>3 DEF Next

(* It always holds. *)
LEMMA KeptHolds == Spec => []Kept
  <1>1. Init => Kept
    <2> SUFFICES ASSUME Init PROVE Kept
      OBVIOUS
    <2>1. req \in [Workers -> Login]
      BY IdleType DEF Init, Answer, Reply
    <2>2. Tables
      BY FS_EmptySet DEF Init, Tables, OneUserPerAddress
    <2>3. QED
      BY <2>1, <2>2 DEF Init, Kept
  <1>2. QED
    BY <1>1, KeptIsInductive, PTL DEF Spec

(***************************************************************************)
(* The tables users and students and the logins under way have their       *)
(* types; in particular only the login of a student reaches the table of   *)
(* students.                                                               *)
(***************************************************************************)
THEOREM TypeCorrect == Spec => []TypeOK
  <1>1. Kept => TypeOK
    BY DEF Kept, Tables, TypeOK
  <1>2. QED
    BY <1>1, KeptHolds, PTL

(***************************************************************************)
(* Two users never have the same address: however first logins overlap,    *)
(* and whatever officers do, the unique index on users.email refuses the   *)
(* second.                                                                 *)
(***************************************************************************)
THEOREM AddressesAreUnique == Spec => []OneUserPerAddress
  <1>1. Kept => OneUserPerAddress
    BY DEF Kept, Tables
  <1>2. QED
    BY <1>1, KeptHolds, PTL

-----------------------------------------------------------------------------
(* How many students a first login can create *)

Copies(e) == {s \in StudentsOf(e) : s.id \notin entered}

(* One account's part of DuplicateStudentBound *)
Bounded(e) ==
  Cardinality(Copies(e)) + Cardinality(Creating(e)) <= Cardinality(Workers)

(* There are finitely many students and threads. *)
LEMMA Countable ==
  ASSUME Kept, NEW e
  PROVE  /\ IsFiniteSet(Copies(e)) /\ Cardinality(Copies(e)) \in Nat
         /\ IsFiniteSet(Creating(e)) /\ Cardinality(Creating(e)) \in Nat
         /\ Cardinality(Creating(e)) <= Cardinality(Workers)
         /\ Cardinality(Workers) \in Nat
  <1>1. IsFiniteSet(students) /\ Copies(e) \in SUBSET students
    BY DEF Kept, Tables, Copies, StudentsOf
  <1>2. Creating(e) \in SUBSET Workers
    BY DEF Creating
  <1>3. IsFiniteSet(Copies(e)) /\ IsFiniteSet(Creating(e))
    BY <1>1, <1>2, WorkersAssumption, FS_Subset
  <1>4. Cardinality(Creating(e)) <= Cardinality(Workers)
    BY <1>2, WorkersAssumption, FS_Subset
  <1>5. QED
    BY <1>3, <1>4, WorkersAssumption, FS_CardinalityType

(* No further copy and no further thread about to create one *)
LEMMA FewerKeep ==
  ASSUME NEW e, Kept, Kept', Bounded(e),
         Copies(e)' \subseteq Copies(e), Creating(e)' \subseteq Creating(e)
  PROVE  Bounded(e)'
  <1>1. /\ IsFiniteSet(Copies(e)) /\ Cardinality(Copies(e)) \in Nat
        /\ IsFiniteSet(Creating(e)) /\ Cardinality(Creating(e)) \in Nat
        /\ Cardinality(Workers) \in Nat
    BY Countable
  <1>2. /\ Cardinality(Copies(e)') <= Cardinality(Copies(e))
        /\ Cardinality(Creating(e)') <= Cardinality(Creating(e))
        /\ IsFiniteSet(Copies(e)') /\ IsFiniteSet(Creating(e)')
    BY <1>1, FS_Subset
  <1>3. Cardinality(Copies(e)') \in Nat /\ Cardinality(Creating(e)') \in Nat
    BY <1>2, FS_CardinalityType
  <1>4. Cardinality(Copies(e)') + Cardinality(Creating(e)')
          <= Cardinality(Workers)
    BY <1>1, <1>2, <1>3 DEF Bounded
  <1>5. QED
    BY <1>4 DEF Bounded

(* A thread decides to create a student where there is none: then there    *)
(* are only the threads that have decided the same.                        *)
LEMMA DecidingKeeps ==
  ASSUME NEW e, Kept, Kept', Copies(e)' = {}
  PROVE  Bounded(e)'
  <1>1. /\ Cardinality(Creating(e)') \in Nat
        /\ Cardinality(Creating(e)') <= Cardinality(Workers)
        /\ Cardinality(Workers) \in Nat
    <2>1. Creating(e)' \in SUBSET Workers
      BY DEF Creating
    <2>2. QED
      BY <2>1, WorkersAssumption, FS_Subset, FS_CardinalityType
  <1>2. Cardinality(Copies(e)') = 0
    BY FS_EmptySet
  <1>3. Cardinality(Copies(e)') + Cardinality(Creating(e)')
          <= Cardinality(Workers)
    BY <1>1, <1>2
  <1>4. QED
    BY <1>3 DEF Bounded

(* A thread turns its decision into a student. *)
LEMMA CreatingKeeps ==
  ASSUME NEW e, NEW w, NEW n, Kept, Kept', Bounded(e),
         w \in Creating(e),
         Copies(e)' \subseteq Copies(e) \cup {n},
         Creating(e)' \subseteq Creating(e) \ {w}
  PROVE  Bounded(e)'
  <1>1. /\ IsFiniteSet(Copies(e)) /\ Cardinality(Copies(e)) \in Nat
        /\ IsFiniteSet(Creating(e)) /\ Cardinality(Creating(e)) \in Nat
        /\ Cardinality(Workers) \in Nat
    BY Countable
  <1>2. /\ IsFiniteSet(Copies(e) \cup {n})
        /\ Cardinality(Copies(e) \cup {n}) <= Cardinality(Copies(e)) + 1
        /\ Cardinality(Copies(e) \cup {n}) \in Nat
    BY <1>1, FS_AddElement, FS_CardinalityType
  <1>3. /\ IsFiniteSet(Creating(e) \ {w})
        /\ Cardinality(Creating(e) \ {w}) = Cardinality(Creating(e)) - 1
        /\ Cardinality(Creating(e) \ {w}) \in Nat
    BY <1>1, FS_RemoveElement, FS_CardinalityType
  <1>4. /\ Cardinality(Copies(e)') <= Cardinality(Copies(e) \cup {n})
        /\ IsFiniteSet(Copies(e)')
    BY <1>2, FS_Subset
  <1>5. /\ Cardinality(Creating(e)') <= Cardinality(Creating(e) \ {w})
        /\ IsFiniteSet(Creating(e)')
    BY <1>3, FS_Subset
  <1>6. Cardinality(Copies(e)') \in Nat /\ Cardinality(Creating(e)') \in Nat
    BY <1>4, <1>5, FS_CardinalityType
  <1>7. Cardinality(Copies(e)') + Cardinality(Creating(e)')
          <= Cardinality(Workers)
    BY <1>1, <1>2, <1>3, <1>4, <1>5, <1>6 DEF Bounded
  <1>8. QED
    BY <1>7 DEF Bounded

(* A thread that ends its request, or does not turn to creating a student, *)
(* leaves at most as many threads creating as there were.                  *)
LEMMA CreatingShrinks ==
  ASSUME NEW e, NEW w \in Workers, req \in [Workers -> Login],
         NEW r, req' = [req EXCEPT ![w] = r], r.pc # "create_student"
  PROVE  Creating(e)' \subseteq Creating(e) \ {w}
  BY DEF Creating

(* So does one that ends its request ... *)
LEMMA FinishShrinks ==
  ASSUME NEW e, NEW w \in Workers, req \in [Workers -> Login],
         NEW a, NEW id, Finish(w, a, id)
  PROVE  Creating(e)' \subseteq Creating(e)
  <1> DEFINE r == [NoLogin EXCEPT !.answer = a, !.user = id]
  <1>1. req' = [req EXCEPT ![w] = r]
    BY DEF Finish
  <1>2. r.pc = "answered"
    BY DEF NoLogin
  <1> HIDE DEF r
  <1>3. QED
    BY <1>1, <1>2, CreatingShrinks

(* ... and one at the end of find_or_create. *)
LEMMA UserDoneShrinks ==
  ASSUME NEW e, NEW w \in Workers, req \in [Workers -> Login],
         NEW id, NEW s, UserDone(w, id, s)
  PROVE  Creating(e)' \subseteq Creating(e)
  <1>1. CASE req' = [req EXCEPT ![w].user = id, ![w].user_student = s,
                                ![w].pc = "find_student"]
    <2> DEFINE r == [req[w] EXCEPT !.user = id, !.user_student = s,
                                   !.pc = "find_student"]
    <2>1. req' = [req EXCEPT ![w] = r]
      BY <1>1
    <2>2. r.pc = "find_student"
      BY DEF Login, LoginRecord
    <2> HIDE DEF r
    <2>3. QED
      BY <2>1, <2>2, CreatingShrinks
  <1>2. CASE Finish(w, "success", id)
    BY <1>2, FinishShrinks
  <1>3. QED
    BY <1>1, <1>2 DEF UserDone

(* What each step of a login does to the copies of an account's student *)
LEMMA ServeBounded ==
  ASSUME NEW w \in Workers, NEW e, Kept, Kept', Bounded(e), Serve(w)
  PROVE  Bounded(e)'
  <1>0. req \in [Workers -> Login] /\ req[w] \in LoginRecord
    BY DEF Kept, Login
  <1>1. ASSUME UNCHANGED <<students, entered>>
        PROVE  Copies(e)' = Copies(e)
    BY <1>1 DEF Copies, StudentsOf
  <1>2. ASSUME NEW a, NEW id, Finish(w, a, id)
        PROVE  Creating(e)' \subseteq Creating(e)
    BY <1>0, <1>2, FinishShrinks
  <1>3. ASSUME NEW p, req' = [req EXCEPT ![w].pc = p], p # "create_student"
        PROVE  Creating(e)' \subseteq Creating(e)
    <2>1. [req[w] EXCEPT !.pc = p].pc = p
      BY <1>0 DEF LoginRecord
    <2>2. QED
      BY <1>0, <1>3, <2>1, CreatingShrinks
  <1>4. ASSUME NEW s, req' = [req EXCEPT ![w].pc = "save_user", ![w].student = s]
        PROVE  Creating(e)' \subseteq Creating(e) \ {w}
    <2>1. [req[w] EXCEPT !.pc = "save_user", !.student = s].pc = "save_user"
      BY <1>0 DEF LoginRecord
    <2>2. req' = [req EXCEPT ![w] = [req[w] EXCEPT !.pc = "save_user",
                                                   !.student = s]]
      BY <1>4
    <2>3. QED
      BY <1>0, <2>1, <2>2, CreatingShrinks
  <1>5. CASE FindUser(w)
    BY <1>0, <1>1, <1>3, <1>5, UserDoneShrinks, FewerKeep DEF FindUser
  <1>6. CASE ValidateUser(w)
    BY <1>0, <1>1, <1>3, <1>6, UserDoneShrinks, FewerKeep DEF ValidateUser
  <1>7. CASE InsertUser(w)
    BY <1>0, <1>1, <1>2, <1>7, UserDoneShrinks, FewerKeep DEF InsertUser, Fail
  <1>8. CASE SaveUser(w)
    <2>1. Creating(e)' \subseteq Creating(e)
      BY <1>2, <1>8 DEF SaveUser, Fail
    <2>2. UNCHANGED <<students, entered>>
      BY <1>8 DEF SaveUser
    <2>3. QED
      BY <1>1, <2>1, <2>2, FewerKeep
  <1>9. CASE FindStudent(w)
    <2>0. UNCHANGED <<students, entered>>
      BY <1>9 DEF FindStudent
    <2>1. CASE Finish(w, "success", req[w].user)
      BY <1>1, <1>2, <2>0, <2>1, FewerKeep
    <2>2. ASSUME NEW s \in students,
                 req' = [req EXCEPT ![w].pc = "save_user", ![w].student = s.id]
          PROVE  Bounded(e)'
      BY <1>1, <1>4, <2>0, <2>2, FewerKeep
    <2>3. ASSUME StudentsOf(req[w].form.email) = {},
                 req' = [req EXCEPT ![w].pc = "create_student"]
          PROVE  Bounded(e)'
      <3>1. CASE e = req[w].form.email
        <4>1. Copies(e)' = {}
          BY <1>1, <2>0, <2>3, <3>1 DEF Copies
        <4>2. QED
          BY <4>1, DecidingKeeps
      <3>2. CASE e # req[w].form.email
        <4>1. [req[w] EXCEPT !.pc = "create_student"].form = req[w].form
          BY <1>0 DEF LoginRecord
        <4>2. req' = [req EXCEPT ![w] = [req[w] EXCEPT !.pc = "create_student"]]
          BY <2>3
        <4>3. \A v \in Workers : req'[v].form = req[v].form
                                  /\ (v # w => req'[v] = req[v])
          BY <1>0, <4>1, <4>2
        <4>4. Creating(e)' \subseteq Creating(e)
          BY <3>2, <4>3 DEF Creating
        <4>5. QED
          BY <1>1, <2>0, <4>4, FewerKeep
      <3>3. QED
        BY <3>1, <3>2
    <2>4. QED
      BY <1>9, <2>1, <2>2, <2>3 DEF FindStudent, StudentsOf
  <1>10. CASE CreateStudent(w)
    <2> DEFINE i == Least(FreshStudentIds)
               n == [id |-> i, enrolment_number |-> req[w].form.email]
    <2>1. /\ req[w].pc = "create_student"
          /\ students' = students \cup {n}
          /\ req' = [req EXCEPT ![w].pc = "save_user", ![w].student = i]
          /\ entered' = entered
      BY <1>10 DEF CreateStudent
    <2>2. n.enrolment_number = req[w].form.email
      OBVIOUS
    <2> HIDE DEF n, i
    <2>3. Creating(e)' \subseteq Creating(e) \ {w}
      BY <1>4, <2>1
    <2>4. CASE e = req[w].form.email
      <3>1. w \in Creating(e)
        BY <2>1, <2>4 DEF Creating
      <3>2. Copies(e)' \subseteq Copies(e) \cup {n}
        BY <2>1 DEF Copies, StudentsOf
      <3>3. QED
        BY <2>3, <3>1, <3>2, CreatingKeeps
    <2>5. CASE e # req[w].form.email
      <3>1. Copies(e)' \subseteq Copies(e)
        BY <2>1, <2>2, <2>5 DEF Copies, StudentsOf
      <3>2. QED
        BY <2>3, <3>1, FewerKeep
    <2>6. QED
      BY <2>4, <2>5
  <1>11. QED
    BY <1>5, <1>6, <1>7, <1>8, <1>9, <1>10 DEF Serve

(* What officers enter, renumber and destroy is not a copy a login made,   *)
(* and what they enter again under a number is not counted.                *)
LEMMA AdminBounded ==
  ASSUME NEW w \in Workers, NEW e, Kept, Kept', Bounded(e), Admin(w)
  PROVE  Bounded(e)'
  <1>0. /\ UNCHANGED req
        /\ \A s, t \in students : s.id = t.id => s = t
        /\ students \subseteq StudentRow
    BY AdminSteps DEF Kept, Tables
  <1>1. Creating(e)' = Creating(e)
    BY <1>0 DEF Creating
  <1>2. ASSUME UNCHANGED <<students, entered>>
        PROVE  Copies(e)' \subseteq Copies(e)
    BY <1>2 DEF Copies, StudentsOf
  <1>3. ASSUME NEW d \in StudentAccounts \cup {None}, AdminCreateStudent(w, d)
        PROVE  Copies(e)' \subseteq Copies(e)
    <2> DEFINE i == Least(FreshStudentIds)
               n == [id |-> i, enrolment_number |-> d]
    <2>1. students' = students \cup {n} /\ entered' = entered \cup {i}
      BY <1>3 DEF AdminCreateStudent
    <2>2. n.id = i
      OBVIOUS
    <2> HIDE DEF n, i
    <2>3. QED
      BY <2>1, <2>2 DEF Copies, StudentsOf
  <1>4. ASSUME NEW s \in students, NEW d \in StudentAccounts \cup {None},
               AdminRenumber(w, s, d)
        PROVE  Copies(e)' \subseteq Copies(e)
    <2> DEFINE n == [s EXCEPT !.enrolment_number = d]
    <2>1. /\ students' = (students \ {s}) \cup {n}
          /\ entered' = entered \cup {s.id}
      BY <1>4 DEF AdminRenumber
    <2>2. n.id = s.id
      BY <1>0 DEF StudentRow
    <2> HIDE DEF n
    <2>3. QED
      BY <2>1, <2>2 DEF Copies, StudentsOf
  <1>5. ASSUME NEW s \in students, AdminDestroyStudent(w, s)
        PROVE  Copies(e)' \subseteq Copies(e)
    <2>1. students' = students \ {s} /\ entered' = entered \ {s.id}
      BY <1>5 DEF AdminDestroyStudent
    <2>2. QED
      BY <1>0, <2>1 DEF Copies, StudentsOf
  <1>6. Copies(e)' \subseteq Copies(e)
    <2>1. CASE UNCHANGED <<students, entered>>
      BY <1>2, <2>1
    <2>2. CASE \E d \in StudentAccounts \cup {None} : AdminCreateStudent(w, d)
      BY <1>3, <2>2
    <2>3. CASE \E s \in students, d \in StudentAccounts \cup {None} :
                  AdminRenumber(w, s, d)
      BY <1>4, <2>3
    <2>4. CASE \E s \in students : AdminDestroyStudent(w, s)
      BY <1>5, <2>4
    <2>5. QED
      BY <2>1, <2>2, <2>3, <2>4
        DEF Admin, AdminCreateUser, AdminAssign, AdminDestroyUser
  <1>7. QED
    BY <1>1, <1>6, FewerKeep

(* No step breaks the bound, whoever takes it. *)
LEMMA BoundIsInductive ==
  ASSUME NEW e, Kept, Kept', Bounded(e), [Next]_vars
  PROVE  Bounded(e)'
  <1>0. req \in [Workers -> Login]
    BY DEF Kept
  <1>1. CASE UNCHANGED vars
    <2>1. Copies(e)' = Copies(e) /\ Creating(e)' = Creating(e)
      BY <1>1 DEF vars, Copies, StudentsOf, Creating
    <2>2. QED
      BY <2>1, FewerKeep
  <1>2. ASSUME NEW w \in Workers, NEW form \in Form, LogIn(w, form)
        PROVE  Bounded(e)'
    <2> DEFINE n == [NoLogin EXCEPT !.pc = "find_user", !.form = form]
    <2>1. req' = [req EXCEPT ![w] = n] /\ UNCHANGED <<students, entered>>
      BY <1>2 DEF LogIn
    <2>2. n.pc = "find_user"
      BY DEF NoLogin
    <2> HIDE DEF n
    <2>3. Creating(e)' \subseteq Creating(e) \ {w}
      BY <1>0, <2>1, <2>2, CreatingShrinks
    <2>4. Copies(e)' = Copies(e)
      BY <2>1 DEF Copies, StudentsOf
    <2>5. QED
      BY <2>3, <2>4, FewerKeep
  <1>3. ASSUME NEW w \in Workers, Crash(w)
        PROVE  Bounded(e)'
    <2>1. req' = [req EXCEPT ![w] = NoLogin] /\ UNCHANGED <<students, entered>>
      BY <1>3 DEF Crash
    <2>2. Creating(e)' \subseteq Creating(e)
      <3>1. NoLogin.pc = "answered"
        BY DEF NoLogin
      <3>2. QED
        BY <1>0, <2>1, <3>1, CreatingShrinks
    <2>3. Copies(e)' = Copies(e)
      BY <2>1 DEF Copies, StudentsOf
    <2>4. QED
      BY <2>2, <2>3, FewerKeep
  <1>4. QED
    BY <1>1, <1>2, <1>3, ServeBounded, AdminBounded DEF Next

(* The bound as an invariant *)
LEMMA BoundHolds == Spec => [](\A e \in StudentAccounts : Bounded(e))
  <1> DEFINE All == \A e \in StudentAccounts : Bounded(e)
  <1>1. Init => All
    <2> SUFFICES ASSUME Init, NEW e \in StudentAccounts PROVE Bounded(e)
      OBVIOUS
    <2>1. Copies(e) = {} /\ Creating(e) = {}
      BY DEF Init, NoLogin, Copies, StudentsOf, Creating
    <2>2. Cardinality(Workers) \in Nat
      BY WorkersAssumption, FS_CardinalityType
    <2>3. QED
      BY <2>1, <2>2, FS_EmptySet DEF Bounded
  <1>2. Kept /\ Kept' /\ All /\ [Next]_vars => All'
    BY BoundIsInductive
  <1> HIDE DEF All
  <1>3. Spec => []All
    BY <1>1, <1>2, KeptHolds, PTL DEF Spec
  <1>4. QED
    BY <1>3 DEF All

(***************************************************************************)
(* However many first logins of a student overlap, are killed and are      *)
(* repeated, between what officers do to the tables, they never leave more *)
(* students of one enrolment number than there are threads, and never two  *)
(* users of one address.                                                   *)
(***************************************************************************)
THEOREM DuplicateStudents == Spec => []DuplicateStudentBound
  <1>1. Kept /\ (\A e \in StudentAccounts : Bounded(e)) => DuplicateStudentBound
    BY DEF Kept, Tables, Bounded, Copies, DuplicateStudentBound
  <1>2. QED
    BY <1>1, KeptHolds, BoundHolds, PTL

-----------------------------------------------------------------------------
(* Logins that nothing overlaps *)

(***************************************************************************)
(* What such a login has found is in the tables.  The user it is about to  *)
(* give a student has none; and if the address was typed in small letters  *)
(* and the password suits, that user is in the table, or about to be       *)
(* inserted where there is none.                                           *)
(***************************************************************************)
OnItsWay(v) ==
  LET r == req[v]
  IN  /\ r.pc = "find_student" =>
           \A u \in users : u.id = r.user => u.student = r.user_student
      /\ r.pc \in {"create_student", "save_user"} =>
           \A u \in users : u.id = r.user => u.student \notin Ids(students)
      /\ r.pc = "save_user" => r.student \in Ids(students)
      /\ r.pc # "answered" /\ r.form.password_ok /\ ~r.form.capitals =>
           /\ r.pc \in {"validate_user", "insert_user"}
                => UsersOf(r.form.email) = {}
           /\ r.pc \in {"find_student", "create_student", "save_user"}
                => \E u \in UsersOf(r.form.email) : u.id = r.user

(* As long as no two requests have overlapped, at most one thread is at    *)
(* work, and it is on its way.                                             *)
Solo ==
  ~overlapped =>
    /\ \A v, w \in Workers :
          req[v].pc # "answered" /\ req[w].pc # "answered" => v = w
    /\ \A v \in Workers : OnItsWay(v)

(* A thread without a request is on no way. *)
LEMMA IdleOnItsWay ==
  ASSUME NEW v, req[v].pc = "answered"
  PROVE  OnItsWay(v)
  BY DEF OnItsWay

(* The rows of users have ids and students. *)
LEMMA Rows ==
  ASSUME Kept, NEW u \in users
  PROVE  /\ u.id \in UserIds /\ u.id # None
         /\ u.email \in Accounts
         /\ \A v \in users : u.id = v.id => u = v
  <1>1. users \subseteq UserRow /\ \A v \in users : u.id = v.id => u = v
    BY DEF Kept, Tables
  <1>2. QED
    BY <1>1, NoneAssumption DEF UserRow

(* The request after the end of find_or_create *)
LEMMA AfterUserDone ==
  ASSUME NEW w \in Workers, Kept, req[w].pc # "answered",
         NEW id, NEW s, UserDone(w, id, s)
  PROVE  /\ student_email(req[w].form) =>
              /\ req'[w].pc = "find_student"
              /\ req'[w].form = req[w].form
              /\ req'[w].user = id
              /\ req'[w].user_student = s
              /\ req'[w].answer = None
         /\ ~student_email(req[w].form) =>
              /\ req'[w].pc = "answered"
              /\ req'[w].user = id
  <1>0. req \in [Workers -> Login]
    BY DEF Kept
  <1>1. CASE student_email(req[w].form)
    <2> DEFINE r == [req[w] EXCEPT !.user = id, !.user_student = s,
                                   !.pc = "find_student"]
    <2>1. /\ r.pc = "find_student"
          /\ r.form = req[w].form
          /\ r.user = id
          /\ r.user_student = s
          /\ r.answer = req[w].answer
      BY <1>0, AtWork DEF LoginRecord
    <2>2. req' = [req EXCEPT ![w] = r]
      BY <1>1 DEF UserDone
    <2> HIDE DEF r
    <2>3. req'[w] = r
      BY <1>0, <2>2
    <2>4. QED
      BY <1>0, <1>1, <2>1, <2>3, AtWork
  <1>2. CASE ~student_email(req[w].form)
    <2>1. Finish(w, "success", id)
      BY <1>2 DEF UserDone
    <2> DEFINE r == [NoLogin EXCEPT !.answer = "success", !.user = id]
    <2>2. r.pc = "answered" /\ r.user = id
      BY DEF NoLogin
    <2>3. req' = [req EXCEPT ![w] = r]
      BY <2>1 DEF Finish
    <2> HIDE DEF r
    <2>4. QED
      BY <1>0, <1>2, <2>2, <2>3
  <1>3. QED
    BY <1>1, <1>2

(* The request after the end of a login *)
LEMMA AfterFinish ==
  ASSUME NEW w \in Workers, Kept, NEW a, NEW id, Finish(w, a, id)
  PROVE  req'[w].pc = "answered" /\ req'[w].user = id /\ req'[w].answer = a
  <1> DEFINE r == [NoLogin EXCEPT !.answer = a, !.user = id]
  <1>1. r.pc = "answered" /\ r.user = id /\ r.answer = a
    BY DEF NoLogin
  <1>2. req' = [req EXCEPT ![w] = r] /\ req \in [Workers -> Login]
    BY DEF Finish, Kept
  <1> HIDE DEF r
  <1>3. QED
    BY <1>1, <1>2

(* The request after a statement that only moves it on, *)
LEMMA AfterOnward ==
  ASSUME NEW w \in Workers, Kept, req[w].pc # "answered", NEW p,
         req' = [req EXCEPT ![w].pc = p]
  PROVE  /\ req'[w].pc = p
         /\ req'[w].form = req[w].form
         /\ req'[w].user = req[w].user
         /\ req'[w].answer = None
  <1>1. req \in [Workers -> Login]
    BY DEF Kept
  <1>2. req[w] \in LoginRecord /\ req[w].answer = None
    BY <1>1, AtWork
  <1> DEFINE r == [req[w] EXCEPT !.pc = p]
  <1>3. r.pc = p /\ r.form = req[w].form /\ r.user = req[w].user
          /\ r.answer = None
    BY <1>2 DEF LoginRecord
  <1>4. req'[w] = r
    BY <1>1
  <1> HIDE DEF r
  <1>5. QED
    BY <1>3, <1>4

(* and after one that remembers a student, too *)
LEMMA AfterStudent ==
  ASSUME NEW w \in Workers, Kept, req[w].pc # "answered", NEW s,
         req' = [req EXCEPT ![w].pc = "save_user", ![w].student = s]
  PROVE  /\ req'[w].pc = "save_user"
         /\ req'[w].form = req[w].form
         /\ req'[w].user = req[w].user
         /\ req'[w].student = s
         /\ req'[w].answer = None
  <1>1. req \in [Workers -> Login]
    BY DEF Kept
  <1>2. req[w] \in LoginRecord /\ req[w].answer = None
    BY <1>1, AtWork
  <1> DEFINE r == [req[w] EXCEPT !.pc = "save_user", !.student = s]
  <1>3. r.pc = "save_user" /\ r.form = req[w].form /\ r.user = req[w].user
          /\ r.student = s /\ r.answer = None
    BY <1>2 DEF LoginRecord
  <1>4. req'[w] = r
    BY <1>1
  <1> HIDE DEF r
  <1>5. QED
    BY <1>3, <1>4

(* The clauses of OnItsWay, by where the request is *)
LEMMA Way ==
  ASSUME NEW w \in Workers, OnItsWay(w)
  PROVE  /\ req[w].pc = "find_student" =>
              \A u \in users : u.id = req[w].user =>
                                  u.student = req[w].user_student
         /\ req[w].pc \in {"create_student", "save_user"} =>
              \A u \in users : u.id = req[w].user =>
                                  u.student \notin Ids(students)
         /\ req[w].pc = "save_user" => req[w].student \in Ids(students)
         /\ req[w].form.password_ok /\ ~req[w].form.capitals =>
              /\ req[w].pc \in {"validate_user", "insert_user"}
                   => UsersOf(req[w].form.email) = {}
              /\ req[w].pc \in {"find_student", "create_student", "save_user"}
                   => \E u \in UsersOf(req[w].form.email) : u.id = req[w].user
  BY DEF OnItsWay

(***************************************************************************)
(* What a step of a login does, when nothing overlaps it: it stays on its  *)
(* way; if it ends with success, its account is associated; and no user    *)
(* loses a student.                                                        *)
(***************************************************************************)
Done(w) ==
  (req'[w].answer = "success" /\ req[w].form.password_ok /\ ~req[w].form.capitals)
    => \E u \in users' :
          /\ u.id = req'[w].user
          /\ u.email = req[w].form.email
          /\ req[w].form.email \in StudentAccounts
               => u.student \in Ids(students)'

Spared == \A u \in users : u.student \in Ids(students) => u \in users'

(* FindUser: the user found, or none *)
LEMMA FindUserWay ==
  ASSUME NEW w \in Workers, Kept, OnItsWay(w), FindUser(w)
  PROVE  OnItsWay(w)' /\ Done(w) /\ Spared
  <1> DEFINE e == req[w].form.email
  <1>0. /\ req[w].pc = "find_user"
        /\ UNCHANGED <<users, students, entered>>
        /\ Spared
    BY DEF FindUser, Spared
  <1>1. ASSUME NEW u \in users, u.email = e, UserDone(w, u.id, u.student)
        PROVE  OnItsWay(w)' /\ Done(w)
    <2>1. CASE student_email(req[w].form)
      <3>1. /\ req'[w].pc = "find_student"
            /\ req'[w].form = req[w].form
            /\ req'[w].user = u.id
            /\ req'[w].user_student = u.student
            /\ req'[w].answer = None
        BY <1>0, <1>1, <2>1, AfterUserDone
      <3>2. OnItsWay(w)'
        BY <1>0, <1>1, <3>1, Rows DEF OnItsWay, UsersOf
      <3>3. QED
        BY <3>1, <3>2, NoneAssumption DEF Done, Reply
    <2>2. CASE ~student_email(req[w].form)
      <3>1. req'[w].pc = "answered" /\ req'[w].user = u.id
        BY <1>0, <1>1, <2>2, AfterUserDone
      <3>2. QED
        BY <1>0, <1>1, <2>2, <3>1, IdleOnItsWay DEF Done, student_email, OnItsWay
    <2>3. QED
      BY <2>1, <2>2
  <1>2. ASSUME {u \in UsersOf(e) : ~req[w].form.capitals} = {},
               req' = [req EXCEPT ![w].pc = "validate_user"]
        PROVE  OnItsWay(w)' /\ Done(w)
    <2>1. /\ req'[w].pc = "validate_user"
          /\ req'[w].form = req[w].form
          /\ req'[w].answer = None
      BY <1>0, <1>2, AfterOnward
    <2>2. ~req[w].form.capitals => UsersOf(e) = {}
      BY <1>2
    <2>4. OnItsWay(w)'
      BY <1>0, <2>1, <2>2 DEF OnItsWay, UsersOf
    <2>5. QED
      BY <2>1, <2>4, NoneAssumption DEF Done, Reply
  <1>3. QED
    BY <1>0, <1>1, <1>2 DEF FindUser, UsersOf

(* ValidateUser: a valid user has an address nobody has. *)
LEMMA ValidateUserWay ==
  ASSUME NEW w \in Workers, Kept, OnItsWay(w), ValidateUser(w)
  PROVE  OnItsWay(w)' /\ Done(w) /\ Spared
  <1> DEFINE e == req[w].form.email
  <1>0. /\ req[w].pc = "validate_user"
        /\ UNCHANGED <<users, students, entered>>
        /\ Spared
    BY DEF ValidateUser, Spared
  <1>1. CASE req' = [req EXCEPT ![w].pc = "insert_user"]
    <2>1. /\ req'[w].pc = "insert_user"
          /\ req'[w].form = req[w].form
          /\ req'[w].answer = None
      BY <1>0, <1>1, AfterOnward
    <2>2. OnItsWay(w)'
      BY <1>0, <2>1 DEF OnItsWay, UsersOf
    <2>3. QED
      BY <1>0, <2>1, <2>2, NoneAssumption DEF Done, Reply
  <1>2. CASE /\ ~(req[w].form.password_ok /\ UsersOf(e) = {})
             /\ UserDone(w, None, None)
    <2>0. ~(req[w].form.password_ok /\ ~req[w].form.capitals)
      BY <1>0, <1>2, Way
    <2>1. CASE student_email(req[w].form)
      <3>1. /\ req'[w].pc = "find_student"
            /\ req'[w].form = req[w].form
            /\ req'[w].user = None
        BY <1>0, <1>2, <2>1, AfterUserDone
      <3>2. OnItsWay(w)'
        BY <1>0, <2>0, <3>1, Rows DEF OnItsWay
      <3>3. QED
        BY <1>0, <2>0, <3>2 DEF Done
    <2>2. CASE ~student_email(req[w].form)
      <3>1. req'[w].pc = "answered"
        BY <1>0, <1>2, <2>2, AfterUserDone
      <3>2. QED
        BY <1>0, <2>0, <3>1 DEF Done, OnItsWay
    <2>3. QED
      BY <2>1, <2>2
  <1>3. QED
    BY <1>1, <1>2 DEF ValidateUser

(* InsertUser: the new user has the address and no student. *)
LEMMA InsertUserWay ==
  ASSUME NEW w \in Workers, Kept, Kept', OnItsWay(w), InsertUser(w)
  PROVE  OnItsWay(w)' /\ Done(w) /\ Spared
  <1> DEFINE e == req[w].form.email
             i == Least(FreshUserIds)
             n == [id |-> i, email |-> e, student |-> None]
  <1>0. req[w].pc = "insert_user" /\ UNCHANGED <<students, entered>>
    BY DEF InsertUser
  <1>1. CASE /\ users' = users \cup {n}
             /\ FreshUserIds # {}
             /\ UserDone(w, i, None)
    <2>1. /\ n \in users' /\ n.id = i /\ n.email = e /\ n.student = None
          /\ Spared
      BY <1>1 DEF Spared
    <2>2. \A u \in users : u.id # i
      BY <1>1, FreshUser
    <2> HIDE DEF n, i
    <2>3. CASE student_email(req[w].form)
      <3>1. /\ req'[w].pc = "find_student"
            /\ req'[w].form = req[w].form
            /\ req'[w].user = i
            /\ req'[w].user_student = None
            /\ req'[w].answer = None
        BY <1>0, <1>1, <2>3, AfterUserDone
      <3>2. \A u \in users' : u.id = i => u.student = None
        BY <1>1, <2>1, <2>2
      <3>3. OnItsWay(w)'
        BY <2>1, <3>1, <3>2 DEF OnItsWay, UsersOf
      <3>4. QED
        BY <2>1, <3>1, <3>3, NoneAssumption DEF Done, Reply
    <2>4. CASE ~student_email(req[w].form)
      <3>1. req'[w].pc = "answered" /\ req'[w].user = i
        BY <1>0, <1>1, <2>4, AfterUserDone
      <3>2. QED
        BY <2>1, <2>4, <3>1 DEF Done, student_email, OnItsWay
    <2>5. QED
      BY <2>3, <2>4
  <1>2. CASE Fail(w) /\ UNCHANGED users
    <2>1. req'[w].pc = "answered" /\ req'[w].answer = "error"
      BY <1>2, AfterFinish DEF Fail
    <2>2. QED
      BY <1>2, <2>1 DEF Done, OnItsWay, Spared
  <1>3. QED
    BY <1>1, <1>2 DEF InsertUser

(* FindStudent: the user's student is in the table, or the user has none. *)
LEMMA FindStudentWay ==
  ASSUME NEW w \in Workers, Kept, OnItsWay(w), FindStudent(w)
  PROVE  OnItsWay(w)' /\ Done(w) /\ Spared
  <1> DEFINE e == req[w].form.email
             known == req[w].user_student \in Ids(students)
  <1>0. /\ req[w].pc = "find_student"
        /\ UNCHANGED <<users, students, entered>>
        /\ Spared
        /\ Ids(students)' = Ids(students)
        /\ \A f : UsersOf(f)' = UsersOf(f)
    BY DEF FindStudent, Spared, Ids, UsersOf
  <1>1. /\ \A u \in users : u.id = req[w].user =>
                               u.student = req[w].user_student
        /\ req[w].form.password_ok /\ ~req[w].form.capitals =>
              \E u \in UsersOf(e) : u.id = req[w].user
    BY <1>0, Way
  <1>2. CASE known /\ Finish(w, "success", req[w].user)
    <2>1. req'[w].pc = "answered" /\ req'[w].user = req[w].user
      BY <1>2, AfterFinish
    <2>2. Done(w)
      BY <1>0, <1>1, <1>2, <2>1 DEF Done, UsersOf
    <2>3. QED
      BY <1>0, <2>1, <2>2 DEF OnItsWay
  <1>3. ASSUME NEW s \in students, ~known,
               req' = [req EXCEPT ![w].pc = "save_user", ![w].student = s.id]
        PROVE  OnItsWay(w)' /\ Done(w)
    <2>1. /\ req'[w].pc = "save_user"
          /\ req'[w].form = req[w].form
          /\ req'[w].user = req[w].user
          /\ req'[w].student = s.id
          /\ req'[w].answer = None
      BY <1>0, <1>3, AfterStudent
    <2>2. s.id \in Ids(students)
      BY DEF Ids
    <2>3. OnItsWay(w)'
      BY <1>0, <1>1, <1>3, <2>1, <2>2 DEF OnItsWay, UsersOf
    <2>4. QED
      BY <2>1, <2>3, NoneAssumption DEF Done, Reply
  <1>4. CASE ~known /\ req' = [req EXCEPT ![w].pc = "create_student"]
    <2>1. /\ req'[w].pc = "create_student"
          /\ req'[w].form = req[w].form
          /\ req'[w].user = req[w].user
          /\ req'[w].answer = None
      BY <1>0, <1>4, AfterOnward
    <2>2. OnItsWay(w)'
      BY <1>0, <1>1, <1>4, <2>1 DEF OnItsWay, UsersOf
    <2>3. QED
      BY <1>0, <2>1, <2>2, NoneAssumption DEF Done, Reply
  <1>5. QED
    BY <1>0, <1>2, <1>3, <1>4 DEF FindStudent, StudentsOf

(* CreateStudent: no user has the new student yet. *)
LEMMA CreateStudentWay ==
  ASSUME NEW w \in Workers, Kept, OnItsWay(w), CreateStudent(w)
  PROVE  OnItsWay(w)' /\ Done(w) /\ Spared
  <1> DEFINE e == req[w].form.email
             i == Least(FreshStudentIds)
             n == [id |-> i, enrolment_number |-> e]
  <1>0. /\ req[w].pc = "create_student"
        /\ UNCHANGED users
        /\ FreshStudentIds # {}
        /\ students' = students \cup {n}
        /\ req' = [req EXCEPT ![w].pc = "save_user", ![w].student = i]
        /\ n.id = i
    BY DEF CreateStudent
  <1>1. \A u \in users : u.student # i
    BY <1>0, FreshStudent
  <1> HIDE DEF n, i
  <1>2. Ids(students)' = Ids(students) \cup {i}
    BY <1>0 DEF Ids
  <1>3. /\ req'[w].pc = "save_user"
        /\ req'[w].form = req[w].form
        /\ req'[w].user = req[w].user
        /\ req'[w].student = i
        /\ req'[w].answer = None
    BY <1>0, AfterStudent
  <1>4. /\ \A u \in users : u.id = req[w].user =>
                               u.student \notin Ids(students)
        /\ req[w].form.password_ok /\ ~req[w].form.capitals =>
              \E u \in UsersOf(e) : u.id = req[w].user
    BY <1>0, Way
  <1>5. OnItsWay(w)'
    BY <1>0, <1>1, <1>2, <1>3, <1>4 DEF OnItsWay, UsersOf
  <1>6. QED
    BY <1>0, <1>3, <1>5, NoneAssumption DEF Done, Reply, Spared

(* SaveUser: the user, who had no student, has the one found or created. *)
LEMMA SaveUserWay ==
  ASSUME NEW w \in Workers, Kept, OnItsWay(w), SaveUser(w)
  PROVE  OnItsWay(w)' /\ Done(w) /\ Spared
  <1> DEFINE r == req[w]
             e == r.form.email
             mine == {u \in users : u.id = r.user}
             i == Least(FreshUserIds)
  <1>0. /\ r.pc = "save_user" /\ UNCHANGED <<students, entered>>
        /\ Ids(students)' = Ids(students)
    BY DEF SaveUser, Ids
  <1>1. /\ \A u \in users : u.id = r.user => u.student \notin Ids(students)
        /\ r.student \in Ids(students)
        /\ r.form.password_ok /\ ~r.form.capitals =>
              \E u \in UsersOf(e) : u.id = r.user
    BY <1>0, Way
  <1>2. CASE /\ users' = (users \ mine)
                   \cup {[u EXCEPT !.student = r.student] : u \in mine}
             /\ Finish(w, "success", r.user)
    <2>1. req'[w].pc = "answered" /\ req'[w].user = r.user
      BY <1>2, AfterFinish
    <2>2. Spared
      BY <1>1, <1>2 DEF Spared
    <2>3. ASSUME NEW u \in mine, u.email = e
          PROVE  \E v \in users' :
                    v.id = r.user /\ v.email = e /\ v.student = r.student
      <3> DEFINE n == [u EXCEPT !.student = r.student]
      <3>1. n \in users'
        BY <1>2
      <3>2. u \in UserRow
        BY DEF Kept, Tables
      <3>3. n.id = r.user /\ n.email = e /\ n.student = r.student
        BY <2>3, <3>2 DEF UserRow
      <3> HIDE DEF n
      <3>4. QED
        BY <3>1, <3>3
    <2>4. Done(w)
      BY <1>0, <1>1, <2>1, <2>3 DEF Done, UsersOf
    <2>5. QED
      BY <2>1, <2>2, <2>4 DEF OnItsWay
  <1>3. CASE /\ users' = users \cup {[id |-> i, email |-> e,
                                      student |-> r.student]}
             /\ Finish(w, "success", i)
    <2> DEFINE n == [id |-> i, email |-> e, student |-> r.student]
    <2>1. n \in users' /\ n.id = i /\ n.email = e /\ n.student = r.student
      BY <1>3
    <2>2. req'[w].pc = "answered" /\ req'[w].user = i
      BY <1>3, AfterFinish
    <2>3. Spared
      BY <1>3 DEF Spared
    <2> HIDE DEF n, i
    <2>4. Done(w)
      BY <1>0, <1>1, <2>1, <2>2 DEF Done
    <2>5. QED
      BY <2>2, <2>3, <2>4 DEF OnItsWay
  <1>4. CASE Fail(w) /\ UNCHANGED users
    <2>1. req'[w].pc = "answered" /\ req'[w].answer = "error"
      BY <1>4, AfterFinish DEF Fail
    <2>2. QED
      BY <1>4, <2>1 DEF Done, OnItsWay, Spared
  <1>5. QED
    BY <1>2, <1>3, <1>4 DEF SaveUser

(* The steps of a login together *)
LEMMA ServeWay ==
  ASSUME NEW w \in Workers, Kept, Kept', OnItsWay(w), Serve(w)
  PROVE  OnItsWay(w)' /\ Done(w) /\ Spared
  BY FindUserWay, ValidateUserWay, InsertUserWay, FindStudentWay,
     CreateStudentWay, SaveUserWay DEF Serve

(* As long as nothing overlaps, the thread that steps was alone, and on    *)
(* its way.                                                                *)
LEMMA Alone ==
  ASSUME Solo, NEW w \in Workers, Overlap(w), ~overlapped'
  PROVE  /\ ~overlapped
         /\ \A v \in Workers \ {w} : req[v].pc = "answered"
         /\ OnItsWay(w)
  BY DEF Solo, Overlap

(* Every request works for itself. *)
LEMMA OthersStay ==
  ASSUME NEW w \in Workers, req \in [Workers -> Login], NEW v \in Workers \ {w},
         \/ \E form \in Form : LogIn(w, form)
         \/ Serve(w)
         \/ Admin(w)
         \/ Crash(w)
  PROVE  req'[v] = req[v]
  <1>1. ASSUME NEW a, NEW id, Finish(w, a, id)
        PROVE  req'[v] = req[v]
    BY <1>1 DEF Finish
  <1>2. ASSUME NEW id, NEW s, UserDone(w, id, s)
        PROVE  req'[v] = req[v]
    BY <1>1, <1>2 DEF UserDone
  <1>3. ASSUME NEW form \in Form, LogIn(w, form)
        PROVE  req'[v] = req[v]
    BY <1>3 DEF LogIn
  <1>4. CASE Serve(w)
    <2>1. CASE FindUser(w)
      BY <1>2, <2>1 DEF FindUser
    <2>2. CASE ValidateUser(w)
      BY <1>2, <2>2 DEF ValidateUser
    <2>3. CASE InsertUser(w)
      BY <1>1, <1>2, <2>3 DEF InsertUser, Fail
    <2>4. CASE FindStudent(w)
      BY <1>1, <2>4 DEF FindStudent
    <2>5. CASE CreateStudent(w)
      BY <2>5 DEF CreateStudent
    <2>6. CASE SaveUser(w)
      BY <1>1, <2>6 DEF SaveUser, Fail
    <2>7. QED
      BY <1>4, <2>1, <2>2, <2>3, <2>4, <2>5, <2>6 DEF Serve
  <1>5. CASE Admin(w)
    BY <1>5 DEF Admin, AdminCreateUser, AdminAssign, AdminDestroyUser,
                AdminCreateStudent, AdminRenumber, AdminDestroyStudent
  <1>6. CASE Crash(w)
    BY <1>6 DEF Crash
  <1>7. QED
    BY <1>3, <1>4, <1>5, <1>6

(* Solo stays whatever happens. *)
LEMMA SoloIsInductive == Kept /\ Kept' /\ Solo /\ [Next]_vars => Solo'
  <1> SUFFICES ASSUME Kept, Kept', Solo, [Next]_vars PROVE Solo'
    OBVIOUS
  <1>0. req \in [Workers -> Login]
    BY DEF Kept
  <1>1. CASE UNCHANGED vars
    BY <1>1 DEF vars, Solo, OnItsWay, UsersOf, Ids
  <1>2. ASSUME NEW w \in Workers, Overlap(w), ~overlapped',
               \/ \E form \in Form : LogIn(w, form)
               \/ Serve(w)
               \/ Admin(w)
               \/ Crash(w)
        PROVE  Solo'
    <2>1. /\ \A v \in Workers \ {w} : req[v].pc = "answered"
          /\ OnItsWay(w)
      BY <1>2, Alone
    <2>2. \A v \in Workers \ {w} : req'[v] = req[v]
      BY <1>0, <1>2, OthersStay
    <2>3. \A v \in Workers \ {w} : req'[v].pc = "answered"
      BY <2>1, <2>2
    <2>4. \A v \in Workers \ {w} : OnItsWay(v)'
      BY <2>3 DEF OnItsWay
    <2>5. OnItsWay(w)'
      <3>1. ASSUME NEW form \in Form, LogIn(w, form)
            PROVE  OnItsWay(w)'
        <4> DEFINE n == [NoLogin EXCEPT !.pc = "find_user", !.form = form]
        <4>1. n.pc = "find_user"
          BY DEF NoLogin
        <4>2. req' = [req EXCEPT ![w] = n]
          BY <3>1 DEF LogIn
        <4> HIDE DEF n
        <4>3. req'[w].pc = "find_user"
          BY <1>0, <4>1, <4>2
        <4>4. QED
          BY <4>3 DEF OnItsWay
      <3>2. CASE Serve(w)
        BY <2>1, <3>2, ServeWay
      <3>3. CASE Admin(w)
        <4>1. req[w].pc = "answered"
          BY <3>3 DEF Admin, AdminCreateUser, AdminAssign, AdminDestroyUser,
                      AdminCreateStudent, AdminRenumber, AdminDestroyStudent
        <4>2. req'[w].pc = "answered"
          BY <3>3, <4>1, AdminSteps DEF Kept
        <4>3. QED
          BY <4>2 DEF OnItsWay
      <3>4. CASE Crash(w)
        <4>1. req'[w].pc = "answered"
          BY <1>0, <3>4 DEF Crash, NoLogin
        <4>2. QED
          BY <4>1 DEF OnItsWay
      <3>5. QED
        BY <1>2, <3>1, <3>2, <3>3, <3>4
    <2>6. QED
      BY <2>3, <2>4, <2>5 DEF Solo
  <1>3. CASE overlapped'
    BY <1>3 DEF Solo
  <1>4. QED
    BY <1>1, <1>2, <1>3 DEF Next

(* And so it always holds. *)
LEMMA SoloHolds == Spec => []Solo
  <1>1. Init => Solo
    BY DEF Init, NoLogin, Solo, OnItsWay
  <1>2. QED
    BY <1>1, SoloIsInductive, KeptHolds, PTL DEF Spec

(* A step of a login with nothing overlapping it *)
LEMMA LoginStep ==
  ASSUME Kept, Kept', Solo, [Next]_vars, NEW w \in Workers, Serve(w), ~overlapped'
  PROVE  Done(w) /\ Spared
  <1>1. req \in [Workers -> Login] /\ req[w].pc # "answered"
    BY DEF Kept, Serve, FindUser, ValidateUser, InsertUser, FindStudent,
           CreateStudent, SaveUser
  <1>2. OnItsWay(w)
    <2>1. CASE UNCHANGED vars
      BY <2>1 DEF vars, Solo
    <2>2. ASSUME NEW v \in Workers, Overlap(v)
          PROVE  OnItsWay(w)
      BY <2>2 DEF Overlap, Solo
    <2>3. QED
      BY <2>1, <2>2 DEF Next
  <1>3. QED
    BY <1>2, ServeWay

(***************************************************************************)
(* A login that succeeds signs in the user of the account, and a student's *)
(* user then has a student in the table, whatever earlier logins that were *)
(* killed and officers have left behind; for an address typed in small     *)
(* letters, as long as no two requests have overlapped.                    *)
(***************************************************************************)
THEOREM SuccessAssociates == Spec => SuccessMeansAssociated
  <1> DEFINE Step ==
        \A w \in Workers, e \in Accounts :
          (/\ Serve(w)
           /\ req[w].form.email = e
           /\ req[w].form.password_ok
           /\ ~req[w].form.capitals
           /\ req'[w].answer = "success"
           /\ ~overlapped')
              => Associated(e, req[w].user)'
  <1>1. Kept /\ Kept' /\ Solo /\ [Next]_vars => Step
    <2> SUFFICES ASSUME Kept, Kept', Solo, [Next]_vars,
                        NEW w \in Workers, NEW e \in Accounts, Serve(w),
                        req[w].form.email = e, req[w].form.password_ok,
                        ~req[w].form.capitals, req'[w].answer = "success",
                        ~overlapped'
                 PROVE  Associated(e, req[w].user)'
      OBVIOUS
    <2>1. Done(w)
      BY LoginStep
    <2>2. QED
      BY <2>1 DEF Done, Associated
  <1>2. Step => [Step]_vars
    OBVIOUS
  <1> HIDE DEF Step
  <1>3. Spec => [][Step]_vars
    BY <1>1, KeptHolds, SoloHolds, PTL DEF Spec
  <1>4. QED
    BY <1>3 DEF Step, SuccessMeansAssociated

(***************************************************************************)
(* A login never takes away a student that a user has, as long as no two   *)
(* requests have overlapped.                                               *)
(***************************************************************************)
THEOREM StudentsAreKept == Spec => StudentIsKept
  <1> DEFINE Step ==
        \A w \in Workers :
          (Serve(w) /\ ~overlapped') =>
              \A u \in users : u.student \in Ids(students) => u \in users'
  <1>1. Kept /\ Kept' /\ Solo /\ [Next]_vars => Step
    BY LoginStep DEF Spared
  <1> HIDE DEF Step
  <1>2. Spec => [][Step]_vars
    BY <1>1, KeptHolds, SoloHolds, PTL DEF Spec
  <1>3. QED
    BY <1>2 DEF Step, StudentIsKept

=============================================================================
