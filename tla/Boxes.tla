------------------------------- MODULE Boxes -------------------------------
(***************************************************************************)
(* Two bounds that are extended in any order by points and by each other,  *)
(* as L.LatLngBounds.extend of app/assets/javascripts/leaflet.js allows.   *)
(***************************************************************************)
EXTENDS Bounds, FiniteSets

CONSTANTS
    Coords,     \* coordinates of the points
    MaxGiven    \* bound: points that bounds are around

Points == Coords \X Coords

Box == [min : Points, max : Points]

ASSUME BoxesAssumption ==
    Coords \subseteq Int /\ NoBox \notin Box /\ MaxGiven \in Nat

VARIABLES
    bounds,   \* two bounds, a and b
    given     \* history: the points that each of them has to be around

boundsVars == <<bounds, given>>

-----------------------------------------------------------------------------
BoundsInit ==
    /\ bounds = [n \in {"a", "b"} |-> NoBox]
    /\ given = [n \in {"a", "b"} |-> {}]

ExtendPoint(n, p) ==
    /\ Cardinality(given[n] \cup {p}) <= MaxGiven
    /\ bounds' = [bounds EXCEPT ![n] = ExtendBox(@, p)]
    /\ given' = [given EXCEPT ![n] = @ \cup {p}]

ExtendBounds(n, m) ==
    /\ Cardinality(given[n] \cup given[m]) <= MaxGiven
    /\ bounds' = [bounds EXCEPT ![n] = ExtendByBox(@, bounds[m])]
    /\ given' = [given EXCEPT ![n] = @ \cup given[m]]

(* setLatLngs and its like begin with new bounds.                          *)
NewBounds(n) ==
    /\ bounds' = [bounds EXCEPT ![n] = NoBox]
    /\ given' = [given EXCEPT ![n] = {}]

BoundsNext ==
    \E n \in {"a", "b"} :
        \/ \E p \in Points : ExtendPoint(n, p)
        \/ \E m \in {"a", "b"} : ExtendBounds(n, m)
        \/ NewBounds(n)

BoundsSpec == BoundsInit /\ [][BoundsNext]_boundsVars

-----------------------------------------------------------------------------
BoxTypeOK ==
    /\ bounds \in [{"a", "b"} -> Box \cup {NoBox}]
    /\ given \in [{"a", "b"} -> SUBSET Points]

(* Bounds hold every point they were given, directly or with other bounds, *)
(* and each of their sides has one of them.                                *)
BoundsAreTight ==
    \A n \in {"a", "b"} :
        /\ IsValid(bounds[n]) <=> given[n] # {}
        /\ \A p \in given[n] : HasPoint(bounds[n], p)
        /\ IsValid(bounds[n]) =>
               /\ \E p \in given[n] : p[1] = bounds[n].min[1]
               /\ \E p \in given[n] : p[2] = bounds[n].min[2]
               /\ \E p \in given[n] : p[1] = bounds[n].max[1]
               /\ \E p \in given[n] : p[2] = bounds[n].max[2]

Within(b) == {p \in Points : HasPoint(b, p)}

HasArea(b) == b.min[1] < b.max[1] /\ b.min[2] < b.max[2]

(* The relations of two bounds, told from their corners, are those of the  *)
(* points inside: they intersect when they share a point, and, when both   *)
(* have an area, overlap when they share one; one contains the other when  *)
(* it has all of its points.                                               *)
RelationsAreOfPoints ==
    IsValid(bounds["a"]) /\ IsValid(bounds["b"]) =>
        LET both == Within(bounds["a"]) \cap Within(bounds["b"])
        IN  /\ Intersects(bounds["a"], bounds["b"]) <=> both # {}
            /\ HasBox(bounds["a"], bounds["b"]) <=>
                   Within(bounds["b"]) \subseteq Within(bounds["a"])
            /\ HasArea(bounds["a"]) /\ HasArea(bounds["b"]) =>
                   (Overlaps(bounds["a"], bounds["b"]) <=>
                        \E p, q \in both : p[1] # q[1] /\ p[2] # q[2])

(* Bounds are of the points they were given, and tell of all others.       *)
BoundsAreRight == BoxTypeOK /\ BoundsAreTight /\ RelationsAreOfPoints

=============================================================================
