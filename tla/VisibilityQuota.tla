-------------------------- MODULE VisibilityQuota --------------------------
(***************************************************************************)
(* What a visibility limit promises, without threads, rows or SQL: for     *)
(* every user and every kind of visibility there is a set of objects the   *)
(* user can see; an object is added only while fewer than Allowance[kind]  *)
(* are in the set, and leaves the set only when an administrator resets    *)
(* the limit.  UserCanSeeCompany and UserCanSeeInternship both promise     *)
(* this; CompanyVisibility and InternshipSearch are shown to keep it.      *)
(***************************************************************************)
EXTENDS Naturals, FiniteSets

CONSTANTS
    Users,      \* the accounts that look things up
    Kinds,      \* the separately limited kinds of visibility
    Objects,    \* what becomes visible: companies or internships
    Allowance   \* Allowance[k]: how many objects of kind k a user may see

VARIABLE
    visible     \* visible[u][k]: the objects of kind k that user u can see

Init == visible = [u \in Users |-> [k \in Kinds |-> {}]]

(***************************************************************************)
(* User u spends one unit of the allowance of kind k on object o.          *)
(***************************************************************************)
Grant(u, k, o) ==
    /\ o \notin visible[u][k]
    /\ Cardinality(visible[u][k]) < Allowance[k]
    /\ visible' = [visible EXCEPT ![u][k] = @ \cup {o}]

(***************************************************************************)
(* A reset takes object o away again.                                      *)
(***************************************************************************)
Forget(u, k, o) ==
    /\ o \in visible[u][k]
    /\ visible' = [visible EXCEPT ![u][k] = @ \ {o}]

(***************************************************************************)
(* Object o ceases to exist and is visible to nobody.                      *)
(***************************************************************************)
Withdraw(o) ==
    visible' = [u \in Users |-> [k \in Kinds |-> visible[u][k] \ {o}]]

Next ==
    \/ \E o \in Objects : Withdraw(o)
    \/ \E u \in Users, k \in Kinds, o \in Objects :
           Grant(u, k, o) \/ Forget(u, k, o)

Spec == Init /\ [][Next]_visible

=============================================================================
