--------------------------- MODULE CanvasRenderer ---------------------------
(***************************************************************************)
(* L.Canvas of app/assets/javascripts/leaflet.js: paths that are drawn in  *)
(* an order (DrawOrder, which DrawList implements) on a canvas of which    *)
(* only the part that changed is drawn again, in the next animation frame. *)
(* Paths are lines and rings; they are projected for the origin of the     *)
(* map's pixels, and cut to the area of the renderer, when the events of   *)
(* the map tell it that the view is another one. Nobody tells a renderer   *)
(* that is off the map. Pixels are a row of cells; a cell holds what was   *)
(* painted on it, from the bottom to the top.                              *)
(***************************************************************************)
EXTENDS DrawOrder, Integers, FiniteSetsExt

CONSTANTS
    Width,        \* cells
    Origins,      \* of the pixels: zooms and places of the map
    Windows,      \* sets of cells that the renderer can have to cover
    Shapes,       \* the cells a path covers, by origin; {} for no points
    Styles,
    MaxOrphans,   \* bound: frames on their way that nobody can cancel
    Nil

Cells == 1..Width

ASSUME CanvasAssumption ==
    /\ Width \in Nat /\ Windows \subseteq SUBSET Cells
    /\ Shapes \subseteq [Origins -> SUBSET Cells]
    /\ MaxOrphans \in Nat /\ Nil \notin Paths
    /\ \A S \in SUBSET Cells : Nil # S

VARIABLE canvas   \* the fields of the renderer and its paths

canvasVars == <<order, canvas>>

(* px is _pxBounds: the bounds of the shape when it last had points; Nil   *)
(* until then. request is _redrawRequest; `dead` is a frame that was       *)
(* cancelled.                                                              *)
CanvasInit ==
    /\ OrderInit
    /\ \E shape \in [Paths -> Shapes], style \in [Paths -> Styles],
          origin \in Origins, window \in Windows :
       canvas = [onMap |-> TRUE,
              origin |-> origin, window |-> window,    \* where the map is
              animating |-> FALSE,                     \* _animatingZoom
              area |-> window,                         \* _bounds
              shape |-> shape,
              rings |-> [p \in Paths |-> {}],
              px |-> [p \in Paths |-> Nil],
              parts |-> [p \in Paths |-> {}],
              style |-> style,
              bounds |-> Nil,     \* _redrawBounds
              request |-> "none",
              orphans |-> 0,      \* frames that `request` no longer names
              hovered |-> Nil,
              painted |-> [c \in Cells |-> <<>>],
              cut |-> FALSE,         \* history: brought back with a redraw to come
              skipped |-> FALSE,     \* history: an animation kept it from updating
              unclipped |-> FALSE,   \* history: brought back to another area
              turned |-> FALSE]      \* history: another origin, and no zoomend yet

-----------------------------------------------------------------------------
(* Drawing                                                                 *)

Hull(S) == IF S = {} THEN {} ELSE Min(S)..Max(S)

ExtendRedrawBounds(r, p) ==
    IF r.px[p] = Nil THEN r
    ELSE [r EXCEPT !.bounds = Hull(r.px[p] \cup (IF @ = Nil THEN {} ELSE @))]

RequestRedraw(r, p) ==
    IF ~r.onMap THEN r
    ELSE [ExtendRedrawBounds(r, p) EXCEPT
            !.request = IF @ = "none" THEN "frame" ELSE @]

Covering(r, c) == {p \in ToSet(order) : c \in r.parts[p]}

(* What the paths of S paint on a cell, in the order of the list s.        *)
Coats(s, S, style) ==
    FoldLeft(LAMBDA a, p : IF p \in S THEN Append(a, <<p, style[p]>>) ELSE a, <<>>, s)

Layered(r, c) == Coats(order, Covering(r, c), r.style)

(* Paths whose bounds miss those of the redraw are left out.               *)
Missed(r, p) == r.bounds # Nil /\ (r.px[p] = Nil \/ r.px[p] \cap r.bounds = {})

DrawShapes(r) ==
    [r EXCEPT !.painted = [c \in Cells |->
        IF c \notin r.area \/ (r.bounds # Nil /\ c \notin r.bounds) THEN @[c]
        ELSE @[c] \o Coats(order, {p \in Covering(r, c) : ~Missed(r, p)}, r.style)]]

(* Without bounds the program clears from pixel 0, not from the corner of  *)
(* the area: paths that are not opaque can be painted twice at its edge.   *)
ClearShapes(r) ==
    [r EXCEPT !.painted = [c \in Cells |->
        IF r.bounds = Nil \/ c \in r.bounds THEN <<>> ELSE @[c]]]

RedrawCanvas(r) ==
    [DrawShapes(ClearShapes(r)) EXCEPT !.request = "none", !.bounds = Nil,
                           !.cut = @ /\ r.bounds # Nil]

(* A shape without points leaves the bounds as they were.                  *)
ProjectPaths(r, S) ==
    [r EXCEPT !.rings = [p \in Paths |-> IF p \in S THEN r.shape[p][r.origin] ELSE @[p]],
              !.px = [p \in Paths |->
                  IF p \in S /\ r.shape[p][r.origin] # {}
                    THEN Hull(r.shape[p][r.origin]) ELSE @[p]]]

ClipPaths(r, S) ==
    [r EXCEPT !.parts = [p \in Paths |->
        IF p \in S THEN r.rings[p] \cap r.area ELSE @[p]]]

(* _reset of a path                                                        *)
ProjectPath(r, p) == ClipPaths(ProjectPaths(r, {p}), {p})

(* _updatePaths, after its canvas was cleared; a frame that was requested  *)
(* is not cancelled.                                                       *)
UpdatePaths(r) ==
    LET n == RedrawCanvas([ClipPaths(r, ToSet(order)) EXCEPT
                              !.bounds = Nil, !.unclipped = FALSE,
                              !.painted = [c \in Cells |-> <<>>]]) IN
    IF r.request = "frame" THEN [n EXCEPT !.orphans = @ + 1] ELSE n

(* Mutant: the paths are not told. *)
UpdateCanvas_Alone(r) ==
    IF r.animating THEN [r EXCEPT !.skipped = TRUE]
    ELSE [r EXCEPT !.area = r.window, !.skipped = FALSE, !.unclipped = FALSE,
              !.painted = [c \in Cells |-> <<>>]]

(* _update of a renderer on the map: nothing while a zoom is animated.     *)
UpdateCanvas(r) ==
    IF r.animating THEN [r EXCEPT !.skipped = TRUE]
    ELSE UpdatePaths([r EXCEPT !.area = r.window, !.skipped = FALSE])

(* onAdd of the renderer takes its new area before it listens to itself,   *)
(* so that the paths stay as they were cut, and draws what is within the   *)
(* bounds left from before.                                                *)
AddRenderer(r) ==
    IF r.onMap THEN r
    ELSE DrawShapes([r EXCEPT !.onMap = TRUE, !.painted = [c \in Cells |-> <<>>],
                        !.area = IF r.animating THEN @ ELSE r.window,
                        !.skipped = @ \/ r.animating,
                        !.unclipped = @ \/ (~r.animating /\ r.window # r.area),
                        !.cut = @ \/ r.request # "none" \/ r.bounds # Nil])

-----------------------------------------------------------------------------
(* Calls                                                                   *)

SetCanvas(r) == canvas' = r

(* A path brings its renderer to the map.                                  *)
AddPath(p) ==
    /\ AddAtEnd(p)
    /\ SetCanvas(RequestRedraw(ProjectPath(AddRenderer(canvas), p), p))

(* Any other change of the order.                                          *)
Reorder(p) ==
    /\ TakeOut(p) \/ ToEnd(p) \/ ToStart(p)
    /\ order' # order
    /\ SetCanvas(RequestRedraw(canvas, p))

(* Mutant: only the new place of the path is drawn again. *)
UpdatePath_NewOnly(r, p) == RequestRedraw(ProjectPath(r, p), p)

(* _updatePath: the old place and the new one.                             *)
UpdatePath(r, p) == RequestRedraw(ProjectPath(ExtendRedrawBounds(r, p), p), p)

(* A path that is not on the map remembers its points.                     *)
SetLatLngs(p, shape) ==
    /\ shape # canvas.shape[p]
    /\ LET n == [canvas EXCEPT !.shape[p] = shape] IN
       SetCanvas(IF Contains(order, p) THEN UpdatePath(n, p) ELSE n)
    /\ UNCHANGED order

SetStyle(p, style) ==
    /\ style # canvas.style[p]
    /\ SetCanvas(RequestRedraw([canvas EXCEPT !.style[p] = style], p))
    /\ UNCHANGED order

ReturnRenderer ==
    /\ ~canvas.onMap
    /\ SetCanvas(AddRenderer(canvas))
    /\ UNCHANGED order

(* The last frame requested is cancelled, but not forgotten.               *)
RemoveRenderer ==
    /\ canvas.onMap
    /\ SetCanvas([canvas EXCEPT !.onMap = FALSE,
                          !.request = IF @ = "frame" THEN "dead" ELSE @,
                          !.painted = [c \in Cells |-> <<>>]])
    /\ UNCHANGED order

(* Without its context a redraw fails, after it has forgotten the request. *)
FrameRedraws(r) == IF r.onMap THEN RedrawCanvas(r) ELSE [r EXCEPT !.request = "none"]

CanvasFrame ==
    /\ canvas.request = "frame"
    /\ SetCanvas(FrameRedraws(canvas))
    /\ UNCHANGED order

(* The frame that `request` names goes on being on its way.                *)
OrphanFrame ==
    /\ canvas.orphans > 0
    /\ canvas.request = "frame" => canvas.orphans <= MaxOrphans
    /\ LET n == FrameRedraws([canvas EXCEPT !.orphans = @ - 1]) IN
       SetCanvas(IF canvas.request = "frame" THEN [n EXCEPT !.orphans = @ + 1] ELSE n)
    /\ UNCHANGED order

(* Of the paths of S the last one in the list s.                           *)
LastPath(s, S) == FoldLeft(LAMBDA a, p : IF p \in S THEN p ELSE a, Nil, s)

(* What a path takes for itself: a point of its parts within its bounds.   *)
Containing(r, c) == {p \in Covering(r, c) : r.px[p] # Nil /\ c \in r.px[p]}

(* Mutant: the first path that is met. *)
TopmostAt_First(r, c) == LastPath(Reverse(order), Containing(r, c))

(* The topmost path at a cell.                                             *)
TopmostAt(r, c) == LastPath(order, Containing(r, c))

(* _handleMouseHover; the same path is found for a click.                  *)
MouseMove(c) ==
    /\ canvas.onMap /\ ~canvas.animating /\ c \in canvas.area
    /\ SetCanvas([canvas EXCEPT !.hovered = TopmostAt(canvas, c)])
    /\ UNCHANGED order

MouseOut ==
    /\ canvas.onMap
    /\ SetCanvas([canvas EXCEPT !.hovered = Nil])
    /\ UNCHANGED order

-----------------------------------------------------------------------------
(* The map moves                                                           *)

(* A drag or an animated pan moves the window over the pixels.             *)
PanMap(window) ==
    /\ window # canvas.window
    /\ SetCanvas([canvas EXCEPT !.window = window])
    /\ UNCHANGED order

(* A frame of a flight or a pinch                                          *)
TurnMap(origin) ==
    /\ origin # canvas.origin
    /\ SetCanvas([canvas EXCEPT !.origin = origin, !.turned = TRUE])
    /\ UNCHANGED order

StartZoom ==
    /\ ~canvas.animating
    /\ SetCanvas([canvas EXCEPT !.animating = TRUE])
    /\ UNCHANGED order

EndZoom(origin) ==
    /\ canvas.animating
    /\ SetCanvas([canvas EXCEPT !.animating = FALSE, !.origin = origin, !.turned = TRUE])
    /\ UNCHANGED order

(* Bound of the frames that the map's events leave without a name.         *)
FewOrphans == canvas.request = "frame" => canvas.orphans < MaxOrphans

(* moveend, after zoomend or without it, as when a flight was cut          *)
CanvasMoveEnd(zoomed) ==
    /\ canvas.onMap /\ FewOrphans
    /\ SetCanvas(UpdateCanvas(
           IF zoomed THEN [ProjectPaths(canvas, ToSet(order)) EXCEPT !.turned = FALSE]
           ELSE canvas))
    /\ UNCHANGED order

(* _resetView: its moveend only updates the renderer, viewreset the paths  *)
(* as well, even in an animation.                                          *)
ResetMap(origin, window) ==
    /\ canvas.onMap => FewOrphans
    /\ LET r == [canvas EXCEPT !.origin = origin, !.window = window] IN
       SetCanvas(
           IF ~r.onMap THEN [r EXCEPT !.turned = TRUE]
           ELSE UpdatePaths([ProjectPaths(r, ToSet(order)) EXCEPT
                    !.area = IF r.animating THEN @ ELSE window,
                    !.skipped = r.animating, !.turned = FALSE]))
    /\ UNCHANGED order

CanvasNext ==
    \/ \E p \in Paths :
          \/ AddPath(p) \/ Reorder(p)
          \/ \E shape \in Shapes : SetLatLngs(p, shape)
          \/ \E style \in Styles : SetStyle(p, style)
    \/ RemoveRenderer \/ ReturnRenderer \/ CanvasFrame \/ OrphanFrame
    \/ \E c \in Cells : MouseMove(c)
    \/ MouseOut
    \/ \E window \in Windows : PanMap(window)
    \/ \E origin \in Origins : TurnMap(origin) \/ EndZoom(origin)
    \/ \E origin \in Origins, window \in Windows : ResetMap(origin, window)
    \/ \E zoomed \in BOOLEAN : CanvasMoveEnd(zoomed)
    \/ StartZoom

CanvasSpec == CanvasInit /\ [][CanvasNext]_canvasVars

-----------------------------------------------------------------------------
CanvasTypeOK ==
    /\ {canvas.onMap, canvas.animating, canvas.cut, canvas.skipped,
        canvas.unclipped, canvas.turned} \subseteq BOOLEAN
    /\ order \in Seq(Paths)
    /\ canvas.origin \in Origins /\ canvas.window \in Windows
    /\ canvas.area \in SUBSET Cells
    /\ canvas.hovered \in Paths \cup {Nil}
    /\ canvas.shape \in [Paths -> Shapes]
    /\ canvas.style \in [Paths -> Styles]
    /\ canvas.bounds \in (SUBSET Cells) \cup {Nil}
    /\ canvas.rings \in [Paths -> SUBSET Cells]
    /\ canvas.px \in [Paths -> (SUBSET Cells) \cup {Nil}]
    /\ canvas.parts \in [Paths -> SUBSET Cells]
    /\ canvas.request \in {"none", "frame", "dead"}
    /\ canvas.orphans \in 0..MaxOrphans
    /\ canvas.painted \in [Cells -> Seq(Paths \X Styles)]

(* What was cut of the paths is what there is of them in the area, where   *)
(* the map is. Not so                                                      *)
(*  - when an animation kept the renderer from an update, or it came back  *)
(*    to another area than it had, until the next moveend or viewreset;    *)
(*  - when the map went to another origin, until a zoomend or a viewreset: *)
(*    none of them comes when a flight is cut, or while the renderer is off*)
(*    the map.                                                             *)
CutsPaths ==
    canvas.onMap /\ ~canvas.skipped /\ ~canvas.unclipped /\ ~canvas.turned =>
        \A p \in ToSet(order) :
            canvas.parts[p] = canvas.shape[p][canvas.origin] \cap canvas.area

(* A cell outside of what waits to be drawn again shows what was cut of the*)
(* paths, in their order and with their style; when no redraw waits, every *)
(* cell does. So it is in any view, and after the renderer came back to    *)
(* the map, but not when it came back with a redraw left over, or when an  *)
(* animation kept it from an update, until the map has moved.              *)
ShowsPaths ==
    canvas.onMap /\ ~canvas.cut /\ ~canvas.skipped =>
        \A c \in canvas.area :
            \/ canvas.request = "frame"
               /\ (canvas.bounds = Nil \/ c \in canvas.bounds)
            \/ canvas.painted[c] = Layered(canvas, c)

(* What the mouse meets is what is to be seen under it.                    *)
MeetsWhatIsSeen ==
    \A c \in Cells :
        MouseMove(c) /\ canvas.request = "none" /\ ~canvas.cut /\ ~canvas.skipped =>
            canvas'.hovered = IF canvas.painted[c] = <<>> THEN Nil
                              ELSE Last(canvas.painted[c])[1]

(* After every step the canvas shows the paths, cut for the view, and the  *)
(* mouse meets them.                                                       *)
CanvasIsTrue ==
    [][canvasVars' # canvasVars =>
           CanvasTypeOK' /\ CutsPaths' /\ ShowsPaths' /\ MeetsWhatIsSeen]_canvasVars

=============================================================================
