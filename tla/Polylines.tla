----------------------------- MODULE Polylines -----------------------------
(***************************************************************************)
(* L.Polyline and L.Polygon of app/assets/javascripts/leaflet.js: points   *)
(* on the earth that are projected for the zoom of the map, cut to the     *)
(* window of the renderer and simplified, and found again under the mouse. *)
(* The projection multiplies by the scale of the zoom; noClip is off and   *)
(* the tolerance of the renderer is 0.                                     *)
(***************************************************************************)
EXTENDS Clipping

CONSTANTS
    Lines,        \* what setLatLngs is called with: sequences of rings
    Spots,        \* what addLatLng is called with
    MapViews,     \* records of a scale and the window of the renderer
    Weights,      \* even numbers
    MaxRing       \* bound: points that addLatLng makes of a ring

ASSUME LinesAssumption ==
    /\ \A v \in MapViews : v.scale \in Nat \ {0} /\ IsValid(v.window)
    /\ \A w \in Weights : w \in Nat /\ w % 2 = 0
    /\ Lines \subseteq Seq(Seq(Int \X Int)) /\ Spots \subseteq Int \X Int
    /\ MaxRing \in Nat

VARIABLES
    line,     \* the fields of the path
    view      \* scale and window of the map, once a renderer is there

lineVars == <<line, view>>

Smoothness == 1     \* smoothFactor

LineInit ==
    /\ view \in MapViews
    /\ \E closed \in BOOLEAN, weight \in Weights :
       line = [onMap |-> FALSE,
            closed |-> closed,         \* a Polygon
            weight |-> weight,
            latlngs |-> <<>>,
            rings |-> <<>>,
            raw |-> NoBox,             \* _rawPxBounds
            px |-> NoBox,              \* _pxBounds
            cut |-> weight,            \* history: weight when it was clipped
            parts |-> <<>>,
            rendered |-> FALSE,        \* it has had a renderer
            failed |-> FALSE]          \* the last call raised an error

-----------------------------------------------------------------------------
ConvertLatLngs(l, rings) ==
    [i \in DOMAIN rings |-> IF l.closed THEN OpenRing(rings[i]) ELSE rings[i]]

Project(l, scale) ==
    LET filled == SelectSeq(l.latlngs, LAMBDA r : r # <<>>) IN
    [i \in DOMAIN filled |->
        [j \in DOMAIN filled[i] |-> <<scale * filled[i][j][1], scale * filled[i][j][2]>>]]

Padded(b, w) ==
    [min |-> <<b.min[1] - w, b.min[2] - w>>, max |-> <<b.max[1] + w, b.max[2] + w>>]

Around(rings) == FoldLeft(ExtendBox, NoBox, FlattenSeq(rings))

UpdateBounds(l) ==
    IF l.raw = NoBox THEN [l EXCEPT !.failed = TRUE]
    ELSE [l EXCEPT !.px = Padded(l.raw, l.weight \div 2)]

(* _project: without points the bounds stay as they were.                  *)
ProjectLine(l, v) ==
    LET n == [l EXCEPT !.rings = Project(l, v.scale)] IN
    IF IsValid(Around(n.rings)) THEN UpdateBounds([n EXCEPT !.raw = Around(n.rings)])
    ELSE n

(* Mutant: the code kept from the last segment is taken for the first of a *)
(* ring as well.                                                           *)
FirstCode_Kept(s, a, j, b) == s.code

(* The code of where a segment begins is that of where the last one ended, *)
(* before that one was clipped, but for the first of a ring.               *)
FirstCode(s, a, j, b) == IF j = 1 THEN BitCode(a, b) ELSE s.code

(* One segment of Polyline._clipPoints: it goes on with the part that is   *)
(* open, and ends it when it leaves the window or is the last one.         *)
AddSegment(s, ring, j, b) ==
    LET c == ClipSegment(ring[j], ring[j + 1], FirstCode(s, ring[j], j, b), b)
        leaves == BitCode(ring[j + 1], b) # {}
        n == [s EXCEPT !.code = BitCode(ring[j + 1], b)]
    IN  IF c.codeA # {} THEN n
        ELSE IF leaves \/ j = Len(ring) - 1
             THEN [n EXCEPT !.parts = Append(@, s.open \o <<c.a, c.b>>), !.open = <<>>]
             ELSE [n EXCEPT !.open = Append(@, c.a)]

(* `code` is _lastCode, which all lines of the page share.                 *)
ClipRing(s, ring, b) ==
    FoldLeft(LAMBDA t, j : AddSegment(t, ring, j, b), s,
             [j \in 1..(Len(ring) - 1) |-> j])

(* What is left of the rings within b.                                     *)
CutTo(l, b) ==
    IF l.px = NoBox \/ ~Intersects(l.px, b) THEN <<>>
    ELSE IF l.closed
         THEN SelectSeq([i \in DOMAIN l.rings |-> ClipPolygon(l.rings[i], b)],
                        LAMBDA r : r # <<>>)
         ELSE FoldLeft(LAMBDA s, r : ClipRing(s, r, b),
                       [parts |-> <<>>, open |-> <<>>, code |-> {}], l.rings).parts

(* _clipPoints of both classes                                             *)
ClipPoints(l, window) ==
    CutTo(l, IF l.closed THEN Padded(window, l.weight) ELSE window)

(* _update                                                                 *)
UpdateLine(l, v) ==
    LET clipped == ClipPoints(l, v.window) IN
    [l EXCEPT !.parts = [i \in DOMAIN clipped |-> Simplify(clipped[i], Smoothness)],
              !.cut = l.weight]

-----------------------------------------------------------------------------
(* Calls                                                                   *)

(* Off the map only the points change.                                     *)
RedrawLine(l) ==
    line' = IF l.onMap THEN UpdateLine(ProjectLine(l, view), view) ELSE l

Calm(l) == [l EXCEPT !.failed = FALSE]

SetLine(rings) ==
    /\ RedrawLine([Calm(line) EXCEPT !.latlngs = ConvertLatLngs(line, rings)])
    /\ UNCHANGED view

(* The point goes to the first ring, a polygon's too; an empty line begins *)
(* one.                                                                    *)
AddLatLng(p) ==
    /\ line.latlngs # <<>> => Len(line.latlngs[1]) < MaxRing
    /\ RedrawLine([Calm(line) EXCEPT
            !.latlngs = IF @ = <<>> THEN <<<<p>>>> ELSE [@ EXCEPT ![1] = Append(@, p)]])
    /\ UNCHANGED view

AddLine ==
    /\ ~line.onMap
    /\ RedrawLine([Calm(line) EXCEPT !.onMap = TRUE, !.rendered = TRUE])
    /\ UNCHANGED view

(* What was drawn is not looked at any more.                               *)
RemoveLine ==
    /\ line.onMap
    /\ line' = [Calm(line) EXCEPT !.onMap = FALSE, !.rings = <<>>, !.parts = <<>>]
    /\ UNCHANGED view

(* Mutant: at the end of a zoom the lines are only clipped. *)
RendererMoves_NoProject(l, v) == UpdateLine(l, v)

(* zoomend projects, moveend clips.                                        *)
RendererMoves(l, v) ==
    UpdateLine(IF v.scale # view.scale THEN ProjectLine(l, v) ELSE l, v)

MoveView(v) ==
    /\ v # view
    /\ view' = v
    /\ line' = IF line.onMap THEN RendererMoves(Calm(line), v) ELSE line

(* setStyle moves the bounds in which the mouse is noticed, which a line   *)
(* that never had points does not have; nothing is clipped anew.           *)
SetWeight(w) ==
    /\ w # line.weight
    /\ LET n == [Calm(line) EXCEPT !.weight = w] IN
       line' = IF line.rendered THEN UpdateBounds(n) ELSE [n EXCEPT !.cut = w]
    /\ UNCHANGED view

LineNext ==
    \/ \E rings \in Lines : SetLine(rings)
    \/ \E p \in Spots : AddLatLng(p)
    \/ AddLine \/ RemoveLine
    \/ \E v \in MapViews : MoveView(v)
    \/ \E w \in Weights : SetWeight(w)

LineSpec == LineInit /\ [][LineNext]_lineVars

-----------------------------------------------------------------------------
(* Hit detection                                                           *)

(* The segments of a part; that of a closed one from its end to its begin. *)
Segments(part, closed) ==
    {<<part[i], part[i + 1]>> : i \in 1..(Len(part) - 1)}
        \cup (IF closed /\ part # <<>> THEN {<<Last(part), part[1]>>} ELSE {})

AllSegments(parts, closed) == UNION {Segments(parts[i], closed) : i \in DOMAIN parts}

(* Whether the distance of p to a segment is at most half of d.            *)
NearHalf(p, s, d) == ~Exceeds(SqToSegment(p, s[1], s[2]), <<d * d, 4>>)

(* A ray from p to the right meets the segment.                            *)
Crosses(p, s) ==
    /\ (s[1][2] > p[2]) # (s[2][2] > p[2])
    /\ LET dx == s[2][1] - s[1][1]
           dy == s[2][2] - s[1][2]
       IN  IF dy > 0 THEN (p[1] - s[1][1]) * dy < dx * (p[2] - s[1][2])
           ELSE (p[1] - s[1][1]) * dy > dx * (p[2] - s[1][2])

(* _containsPoint of both classes                                          *)
ContainsPoint(l, p) ==
    /\ l.px # NoBox /\ HasPoint(l.px, p)
    /\ LET crossed(i) == {j \in DOMAIN l.parts[i] :
               Crosses(p, <<l.parts[i][j],
                            l.parts[i][IF j = 1 THEN Len(l.parts[i]) ELSE j - 1]>>)}
           count == FoldFunction(+, 0, [i \in DOMAIN l.parts |-> Cardinality(crossed(i))])
       IN  \/ l.closed /\ count % 2 = 1
           \/ \E s \in AllSegments(l.parts, l.closed) : NearHalf(p, s, l.weight)

-----------------------------------------------------------------------------
Pixels(b) == (b.min[1]..b.max[1]) \X (b.min[2]..b.max[2])

(* What there is to be seen: all segments of the line at the scale of the  *)
(* view.                                                                   *)
Truth == AllSegments(Project(line, view.scale), line.closed)

(* Pixels that the window surrounds.                                       *)
Surrounded(p) == HasPoint(Padded(view.window, -1), p)

Near(p, segments, d) == \E s \in segments : NearHalf(p, s, d)

Corners(b) == {b.min[1], b.max[1]} \X {b.min[2], b.max[2]}

(* Whether a ray from p upwards meets the sides an odd number of times.    *)
Inside(p) ==
    LET Turn(q) == <<q[2], q[1]>>
        sides == UNION {{<<i, s>> : s \in Segments(Project(line, view.scale)[i], TRUE)} :
                           i \in DOMAIN Project(line, view.scale)}
    IN  Cardinality({s \in sides : Crosses(Turn(p), <<Turn(s[2][1]), Turn(s[2][2])>>)}) % 2 = 1

LineTypeOK ==
    /\ view \in MapViews /\ line.weight \in Weights
    /\ {line.onMap, line.closed, line.failed, line.rendered} \subseteq BOOLEAN

(* In the window the line is drawn where it is: every pixel that it passes *)
(* is within two and a half pixels of a part that is drawn, for rounding   *)
(* and simplifying, and the stroke covers none that is further than that   *)
(* from the stroke of the line. The edges along which polygons were cut    *)
(* are out of sight, unless their weight grew since.                       *)
DrawnWhereItIs ==
    line.onMap =>
        LET drawn == AllSegments(line.parts, line.closed) IN
        \A p \in Pixels(view.window) :
            /\ Surrounded(p) /\ Near(p, Truth, 1) => Near(p, drawn, 5)
            /\ line.cut >= line.weight /\ Near(p, drawn, line.weight) =>
                   Near(p, Truth, line.weight + 5)

(* The ends of a line that is cut are on it: where the line leaves the     *)
(* window, the point drawn is the nearest one that pixels allow.           *)
CutWhereItLeaves ==
    line.onMap =>
        \A i \in DOMAIN line.parts : \A j \in DOMAIN line.parts[i] :
            LET p == line.parts[i][j] IN
            \/ line.closed /\ \E corner \in Corners(Padded(view.window, line.cut)) : p = corner
            \/ Near(p, Truth, 1)

(* The mouse meets what is there: away from the stroke, the inside of a    *)
(* polygon and nothing else; on a stroke that is wide enough, the path.    *)
HitWhereItIs ==
    line.onMap =>
        \A p \in Pixels(view.window) :
            /\ ~Near(p, Truth, line.weight + 5) =>
                   (ContainsPoint(line, p) <=> line.closed /\ Inside(p))
            /\ line.weight >= 6 /\ Surrounded(p) /\ Near(p, Truth, 1) =>
                   ContainsPoint(line, p)

(* A line is drawn and met by the mouse where it is.                       *)
LineIsWhereItIs == LineTypeOK /\ DrawnWhereItIs /\ CutWhereItLeaves /\ HitWhereItIs

=============================================================================
