------------------------------ MODULE Clipping ------------------------------
(***************************************************************************)
(* LineUtil and PolyUtil of app/assets/javascripts/leaflet.js: lines and   *)
(* rings of pixels, made simpler and cut to a window. Points are pairs of  *)
(* integers, the window is a bounds, a square of a distance is a fraction  *)
(* <<n, d>>; the program computes fractions with floating point.           *)
(***************************************************************************)
EXTENDS Bounds, SequencesExt, FiniteSets

(* Mutant: the first point stays at the end as well. *)
OpenRing_Closed(r) == r

(* Polygon._convertLatLngs: a last point that equals the first is dropped. *)
OpenRing(r) == IF Len(r) >= 2 /\ r[1] = r[Len(r)] THEN Front(r) ELSE r

SqDist(p, q) == (q[1] - p[1]) * (q[1] - p[1]) + (q[2] - p[2]) * (q[2] - p[2])

Exceeds(r, s) == r[1] * s[2] > s[1] * r[2]

(* _sqClosestPointOnSegment: the square of the distance from p to ab       *)
SqToSegment(p, a, b) ==
    LET dx == b[1] - a[1]
        dy == b[2] - a[2]
        along == (p[1] - a[1]) * dx + (p[2] - a[2]) * dy
        across == (p[1] - a[1]) * dy - (p[2] - a[2]) * dx
        dot == dx * dx + dy * dy
    IN  IF along > dot THEN <<SqDist(p, b), 1>>
        ELSE IF along > 0 THEN <<across * across, dot>>
        ELSE <<SqDist(p, a), 1>>

-----------------------------------------------------------------------------
(* simplify, to a tolerance                                                *)

(* The places of the points that are not too close to the last one kept;   *)
(* the last point always stays.                                            *)
ReducePoints(s, sqTolerance) ==
    LET Keep(kept, i) ==
            IF SqDist(s[i], s[Last(kept)]) > sqTolerance THEN Append(kept, i) ELSE kept
        kept == FoldLeft(Keep, <<1>>, [i \in 1..(Len(s) - 1) |-> i + 1])
        places == IF Last(kept) < Len(s) THEN Append(kept, Len(s)) ELSE kept
    IN  [i \in DOMAIN places |-> s[places[i]]]

(* The first of the points between two that is furthest from their segment *)
Furthest(s, first, last) ==
    LET To(i) == SqToSegment(s[i], s[first], s[last])
        between == (first + 1)..(last - 1)
    IN  CHOOSE i \in between :
            /\ \A j \in between : ~Exceeds(To(j), To(i))
            /\ \A j \in between : j < i => Exceeds(To(i), To(j))

(* Douglas and Peucker: a furthest point that is too far off is kept, and  *)
(* so are those of the two parts it makes.                                 *)
SimplifyDP(s, sqTolerance) ==
    LET marked[span \in (1..Len(s)) \X (1..Len(s))] ==
            LET i == Furthest(s, span[1], span[2]) IN
            IF /\ span[1] + 1 < span[2]
               /\ Exceeds(SqToSegment(s[i], s[span[1]], s[span[2]]), <<sqTolerance, 1>>)
            THEN {i} \cup marked[<<span[1], i>>] \cup marked[<<i, span[2]>>]
            ELSE {}
        places == SetToSortSeq({1, Len(s)} \cup marked[<<1, Len(s)>>], <)
    IN  [i \in DOMAIN places |-> s[places[i]]]

Simplify(s, tolerance) ==
    IF tolerance = 0 \/ s = <<>> THEN s
    ELSE SimplifyDP(ReducePoints(s, tolerance * tolerance), tolerance * tolerance)

-----------------------------------------------------------------------------
(* Sides of the window that a point is beyond.                             *)
BitCode(p, b) ==
    {side \in {"left", "right", "bottom", "top"} :
        CASE side = "left" -> p[1] < b.min[1]
          [] side = "right" -> p[1] > b.max[1]
          [] side = "bottom" -> p[2] < b.min[2]
          [] side = "top" -> p[2] > b.max[2]}

(* Mutant: the fraction is cut off. *)
Round_Floor(n, d) == IF d > 0 THEN n \div d ELSE (-n) \div (-d)

(* A fraction, rounded as Math.round does: halves go up.                   *)
Round(n, d) ==
    IF d > 0 THEN (2 * n + d) \div (2 * d) ELSE (-2 * n - d) \div (-2 * d)

(* Where the line from a to b meets the first of the sides.                *)
EdgeIntersection(p, q, code, b) ==
    LET AtY(y) == <<p[1] + Round((q[1] - p[1]) * (y - p[2]), q[2] - p[2]), y>>
        AtX(x) == <<x, p[2] + Round((q[2] - p[2]) * (x - p[1]), q[1] - p[1])>>
    IN  CASE "top" \in code -> AtY(b.max[2])
          [] "bottom" \in code /\ "top" \notin code -> AtY(b.min[2])
          [] "right" \in code /\ code \cap {"top", "bottom"} = {} -> AtX(b.max[1])
          [] code = {"left"} -> AtX(b.min[1])

(* One round of the loop of clipSegment; it ends when both codes are empty *)
(* or they share a side.                                                   *)
ClipStep(s, b) ==
    IF s.codeA \cup s.codeB = {} \/ s.codeA \cap s.codeB # {} THEN s
    ELSE LET out == IF s.codeA # {} THEN s.codeA ELSE s.codeB
             p == EdgeIntersection(s.a, s.b, out, b)
         IN  IF s.codeA # {} THEN [s EXCEPT !.a = p, !.codeA = BitCode(p, b)]
             ELSE [s EXCEPT !.b = p, !.codeB = BitCode(p, b)]

(* clipSegment, from the code of its beginning. Each end is moved twice at *)
(* most, once to a horizontal and once to a vertical side.                 *)
ClipSegment(a, z, codeA, b) ==
    FoldLeft(LAMBDA s, i : ClipStep(s, b),
             [a |-> a, b |-> z, codeA |-> codeA, codeB |-> BitCode(z, b)],
             <<1, 2, 3, 4>>)

(* clipPolygon: the ring is cut at one side after the other. Its points    *)
(* are taken with the one before, the first with the last.                 *)
ClipSide(points, side, b) ==
    LET Beyond(p) == side \in BitCode(p, b)
        Piece(i) ==
            LET p == points[i]
                before == points[IF i = 1 THEN Len(points) ELSE i - 1]
                edge == EdgeIntersection(before, p, {side}, b)
            IN  IF ~Beyond(p) THEN IF Beyond(before) THEN <<edge, p>> ELSE <<p>>
                ELSE IF ~Beyond(before) THEN <<edge>> ELSE <<>>
    IN  FlattenSeq([i \in DOMAIN points |-> Piece(i)])

ClipPolygon(points, b) ==
    FoldLeft(LAMBDA s, side : ClipSide(s, side, b), points,
             <<"left", "bottom", "right", "top">>)

=============================================================================
