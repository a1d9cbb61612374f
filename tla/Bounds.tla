------------------------------- MODULE Bounds -------------------------------
(***************************************************************************)
(* L.Bounds and L.LatLngBounds of app/assets/javascripts/leaflet.js: the   *)
(* smallest upright rectangle around the points it was given. Both classes *)
(* compute with their corners alone; a bounds that was given nothing has   *)
(* none. A point is a pair of coordinates, of pixels or of degrees.        *)
(***************************************************************************)
EXTENDS Integers

CONSTANT NoBox      \* the bounds that no point was given to

Least(a, b) == IF a <= b THEN a ELSE b

Greatest(a, b) == IF a >= b THEN a ELSE b

IsValid(b) == b # NoBox

(* Mutant: the corner of one of the axes is not moved. *)
ExtendBox_OneAxis(b, p) ==
    IF b = NoBox THEN [min |-> p, max |-> p]
    ELSE [min |-> <<Least(p[1], b.min[1]), Least(p[2], b.min[2])>>,
          max |-> <<Greatest(p[1], b.max[1]), b.max[2]>>]

(* Bounds.extend                                                           *)
ExtendBox(b, p) ==
    IF b = NoBox THEN [min |-> p, max |-> p]
    ELSE [min |-> <<Least(p[1], b.min[1]), Least(p[2], b.min[2])>>,
          max |-> <<Greatest(p[1], b.max[1]), Greatest(p[2], b.max[2])>>]

(* LatLngBounds.extend with bounds: those without corners are passed over. *)
ExtendByBox(b, other) ==
    IF other = NoBox THEN b
    ELSE ExtendBox(ExtendBox(b, other.min), other.max)

(* Bounds.contains of a point                                              *)
HasPoint(b, p) ==
    /\ p[1] >= b.min[1] /\ p[1] <= b.max[1]
    /\ p[2] >= b.min[2] /\ p[2] <= b.max[2]

(* LatLngBounds.contains of bounds                                         *)
HasBox(b, other) ==
    /\ other.min[1] >= b.min[1] /\ other.max[1] <= b.max[1]
    /\ other.min[2] >= b.min[2] /\ other.max[2] <= b.max[2]

(* Mutant: bounds that only touch are told to be apart. *)
Intersects_Inside(b, other) ==
    /\ other.max[1] > b.min[1] /\ other.min[1] < b.max[1]
    /\ other.max[2] > b.min[2] /\ other.min[2] < b.max[2]

(* Bounds.intersects                                                       *)
Intersects(b, other) ==
    /\ other.max[1] >= b.min[1] /\ other.min[1] <= b.max[1]
    /\ other.max[2] >= b.min[2] /\ other.min[2] <= b.max[2]

(* LatLngBounds.overlaps                                                   *)
Overlaps(b, other) ==
    /\ other.max[1] > b.min[1] /\ other.min[1] < b.max[1]
    /\ other.max[2] > b.min[2] /\ other.min[2] < b.max[2]

=============================================================================
