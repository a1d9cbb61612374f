------------------------------ MODULE DrawList ------------------------------
(***************************************************************************)
(* The draw list of L.Canvas in app/assets/javascripts/leaflet.js: every   *)
(* path has an order object with a next and a prev pointer. It implements  *)
(* DrawOrder.                                                              *)
(***************************************************************************)
EXTENDS Integers, Sequences, SequencesExt, FiniteSets

CONSTANTS DrawPaths, NoPath

ASSUME DrawPathsAssumption ==
    NoPath \notin DrawPaths /\ IsFiniteSet(DrawPaths)

VARIABLE list     \* _layers, _drawFirst, _drawLast and the pointers

ListInit ==
    list = [paths |-> {}, first |-> NoPath, last |-> NoPath,
            next |-> [p \in DrawPaths |-> NoPath],
            prev |-> [p \in DrawPaths |-> NoPath]]

(* for (order = _drawFirst; order; order = order.next); the n-th step is    *)
(* the last one if there is no next path.                                  *)
Follow(r, before, n) ==
    LET p == IF before = <<>> THEN r.first ELSE r.next[Last(before)] IN
    IF Len(before) < n - 1 \/ p = NoPath THEN before ELSE Append(before, p)

Steps(r) ==
    LET steps[n \in 0..Cardinality(DrawPaths)] ==
            IF n = 0 THEN <<>> ELSE Follow(r, steps[n - 1], n) IN
    steps

Walk(r) == Steps(r)[Cardinality(DrawPaths)]

SetNext(r, p, q) ==
    IF p = NoPath THEN [r EXCEPT !.first = q] ELSE [r EXCEPT !.next[p] = q]

SetPrev(r, p, q) ==
    IF p = NoPath THEN [r EXCEPT !.last = q] ELSE [r EXCEPT !.prev[p] = q]

InitPath(p) ==
    /\ p \notin list.paths
    /\ list' = [SetNext(list, list.last, p) EXCEPT
                  !.paths = @ \cup {p}, !.last = p,
                  !.next[p] = NoPath, !.prev[p] = list.last]

(* Mutant: the path before still points at the path that is taken out. *)
Unlink_OneWay(r, p) == SetPrev(r, r.next[p], r.prev[p])

Unlink(r, p) == SetNext(SetPrev(r, r.next[p], r.prev[p]), r.prev[p], r.next[p])

(* The order object of a removed path is deleted.                          *)
RemovePath(p) ==
    /\ p \in list.paths
    /\ list' = [Unlink(list, p) EXCEPT !.paths = @ \ {p},
                  !.next[p] = NoPath, !.prev[p] = NoPath]

BringToFront(p) ==
    /\ p \in list.paths
    /\ list.next[p] # NoPath
    /\ LET n == Unlink(list, p) IN
       list' = [SetNext(n, n.last, p) EXCEPT
                  !.prev[p] = n.last, !.next[p] = NoPath, !.last = p]

(* Mutant: the path that was first does not point back. *)
BringToBack_NoPrev(p) ==
    /\ p \in list.paths
    /\ list.prev[p] # NoPath
    /\ LET n == Unlink(list, p) IN
       list' = [n EXCEPT !.next[p] = n.first, !.prev[p] = NoPath, !.first = p]

BringToBack(p) ==
    /\ p \in list.paths
    /\ list.prev[p] # NoPath
    /\ LET n == Unlink(list, p) IN
       list' = [SetPrev(n, n.first, p) EXCEPT
                  !.next[p] = n.first, !.prev[p] = NoPath, !.first = p]

ListNext == \E p \in DrawPaths :
    InitPath(p) \/ RemovePath(p) \/ BringToFront(p) \/ BringToBack(p)

ListSpec == ListInit /\ [][ListNext]_list

-----------------------------------------------------------------------------
(* The list of next pointers holds exactly the paths of the renderer, the  *)
(* prev pointers lead the same way back, whatever was added, removed and   *)
(* brought to the front or the back.                                       *)
ListIsWhole ==
    LET w == Walk(list) IN
    /\ ToSet(w) = list.paths /\ Len(w) = Cardinality(list.paths)
    /\ list.last = IF w = <<>> THEN NoPath ELSE Last(w)
    /\ \A i \in DOMAIN w :
          list.prev[w[i]] = IF i = 1 THEN NoPath ELSE w[i - 1]

(* Followed from its first path to its last, the list is a sequence with   *)
(* the operations of DrawOrder.                                            *)
Order == INSTANCE DrawOrder WITH Paths <- DrawPaths, order <- Walk(list)

ImplementsOrder == Order!OrderSpec

=============================================================================
