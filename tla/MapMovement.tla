----------------------------- MODULE MapMovement -----------------------------
(***************************************************************************)
(* How L.Map of app/assets/javascripts/leaflet.js moves: setView and the   *)
(* animations of zooming, panning and flying that it starts, and dragging  *)
(* and pinching, as frames, timers and events of the browser carry them    *)
(* out, each at a moment of its own. `fired` is what the map tells its     *)
(* layers in the last step.                                                *)
(*                                                                         *)
(* The world has one dimension. A position is a pixel of the closest zoom. *)
(***************************************************************************)
EXTENDS Integers, Sequences, SequencesExt, FiniteSetsExt

CONSTANTS
    Views,        \* the positions and zooms that callers ask for
    MaxZoom,      \* zoom levels are 0..MaxZoom
    Sizes,        \* widths the container can have
    Gestures,     \* a subset of {"drag", "pinch"}
    MaxCalls,     \* bound: calls once the map has a view
    Nowhere

ASSUME ViewsAssumption == Views \subseteq Nat \X (0..MaxZoom) /\ Views # {}
ASSUME ZoomAssumption == MaxZoom \in Nat /\ MaxCalls \in Nat
ASSUME SizesAssumption == Sizes \subseteq Nat \ {0} /\ Nowhere \notin Nat

VARIABLES
    map,          \* the fields of the map
    width,        \* of the container, which the map reads when it must
    calls         \* calls made and gestures since the map has a view

mapVars == <<map, width, calls>>

Zooms == 0..MaxZoom

View == [center : Nat, zoom : Zooms]

ASSUME NowhereAssumption == Nowhere \notin View

EventTypes == {"viewprereset", "viewreset", "zoomstart", "zoom", "zoomend",
               "movestart", "move", "moveend", "zoomanim", "resize", "load"}

Init0 == [loaded |-> FALSE, center |-> 0, zoom |-> 0,
          anim |-> Nowhere,      \* the view that a zoom animation leads to
          pan |-> Nowhere,       \* the position that _panAnim leads to
          fly |-> Nowhere,       \* the view that flyTo() leads to
          drag |-> "no",      \* the button is "down", the map "moving"
          pinch |-> "no",     \* two fingers are "down", the map "moving"
          frames |-> <<>>,    \* callbacks of requestAnimFrame, not cancelled
          timers |-> 0,       \* timeouts that end the zoom animation
          sizeTimer |-> FALSE, resizeRequest |-> FALSE,
          size |-> 0,         \* _size, as last read
          proxy |-> Nowhere,     \* the transform of the animation proxy
          moveOpen |-> FALSE, zoomOpen |-> FALSE,   \* begun, not yet ended
          flightCut |-> FALSE, hushed |-> FALSE,    \* why an end is missing
          fired |-> <<>>]

MapInit ==
    /\ width \in Sizes
    /\ map = [Init0 EXCEPT !.size = width]
    /\ calls = 0

-----------------------------------------------------------------------------
(* Events; each carries what a listener can read from the map meanwhile.   *)

FireData(m, type, center, zoom, flight) ==
    [m EXCEPT
        !.fired = Append(@, [type |-> type, center |-> center, zoom |-> zoom,
                             mapZoom |-> m.zoom, mapCenter |-> m.center,
                             anim |-> m.anim, size |-> m.size,
                             flyTo |-> flight]),
        !.moveOpen = (@ \/ type = "movestart") /\ type # "moveend",
        !.zoomOpen = (@ \/ type = "zoomstart") /\ type # "zoomend",
        !.hushed = @ /\ type # "moveend",
        !.proxy = IF type \in {"load", "moveend"}
                    THEN [center |-> m.center, zoom |-> m.zoom] ELSE @]

Emit(m, type) == FireData(m, type, m.center, m.zoom, FALSE)

Quiet(m) == [m EXCEPT !.fired = <<>>]

MoveStart(m, zoomChanged, noMoveStart) ==
    LET n == IF zoomChanged THEN Emit(m, "zoomstart") ELSE m IN
    IF noMoveStart THEN n ELSE Emit(n, "movestart")

Move(m, center, zoom, flight) ==
    LET n == [m EXCEPT !.zoom = zoom, !.center = center]
        k == IF zoom # m.zoom THEN FireData(n, "zoom", center, zoom, flight)
                              ELSE n IN
    FireData(k, "move", center, zoom, flight)

MoveEnd(m, zoomChanged) ==
    Emit(IF zoomChanged THEN Emit(m, "zoomend") ELSE m, "moveend")

ResetView(m, center, zoom) ==
    LET prereset == Emit([m EXCEPT !.loaded = TRUE], "viewprereset")
        changed == m.zoom # zoom
        moved == MoveEnd(Move(MoveStart(prereset, changed, FALSE),
                              center, zoom, FALSE), changed)
        reset == Emit(moved, "viewreset") IN
    IF m.loaded THEN reset ELSE Emit(reset, "load")

-----------------------------------------------------------------------------
(* Panning: L.PosAnimation moves the map pane step by step.                *)

Between(a, b) == Min({a, b})..Max({a, b})

RunFrame(m, center) == Emit([m EXCEPT !.center = center], "move")

Complete(m) == Emit([m EXCEPT !.pan = Nowhere], "moveend")

(* Stopped on its way, or, if its time is over, at its end, which it then  *)
(* announces twice.                                                        *)
StopPan(m) ==
    IF m.pan = Nowhere
      THEN {m}
      ELSE {Complete(RunFrame(m, c)) : c \in {m.center, m.pan}}
           \cup {Complete(Complete(RunFrame(m, m.pan)))}

(* _stop(); a flight that is cancelled says nothing.                       *)
Stop(m) ==
    StopPan([m EXCEPT !.fly = Nowhere,
                      !.flightCut = @ \/ m.fly # Nowhere])

(* The size of the container contains an offset of d pixels, zoomed.       *)
SizeContains(m, d) == d * 2^m.zoom <= m.size * 2^MaxZoom

(* Mutant: the offset is taken for the position to go to. *)
PanBy_Offset(m, center) ==
    {[n EXCEPT !.pan = center - m.center] : n \in StopPan(Emit(m, "movestart"))}

(* run() stops the animation before; noMove is the step of length zero.    *)
PanBy(m, center) ==
    CASE center = m.center -> {Emit(m, "moveend")}
      [] center # m.center /\ ~SizeContains(m, Max({center, m.center})
                                           - Min({center, m.center})) ->
           {ResetView(m, center, m.zoom)}
      [] OTHER -> {[n EXCEPT !.pan = center] : n \in StopPan(Emit(m, "movestart"))}

-----------------------------------------------------------------------------
(* Zooming                                                                 *)

Distance(a, b) == Max({a, b}) - Min({a, b})

(* The offset that _tryAnimatedZoom compares with the size: the distance   *)
(* divided by 1 - 1/scale.                                                 *)
AnimatesTo(m, center, zoom) ==
    LET d == Distance(m.center, center) * 2^m.zoom  s == m.size * 2^MaxZoom IN
    IF zoom > m.zoom
      THEN d * 2^(zoom - m.zoom) <= s * (2^(zoom - m.zoom) - 1)
      ELSE d <= s * (2^(m.zoom - zoom) - 1)

RequestFrame(m, f) == [m EXCEPT !.frames = Append(@, f)]

(* A second animation is refused only while one runs: not yet while its    *)
(* frame is awaited.                                                       *)
TryAnimatedZoom(m, center, zoom) ==
    IF m.anim # Nowhere THEN m
      ELSE RequestFrame(m, [kind |-> "animate", center |-> center, zoom |-> zoom])

SetView(m, center, zoom, reset) ==
    UNION {
        LET clear == [n EXCEPT !.sizeTimer = FALSE] IN
        CASE reset \/ ~n.loaded -> {ResetView(n, center, zoom)}
          [] ~reset /\ n.loaded /\ zoom = n.zoom ->
               IF SizeContains(n, Distance(n.center, center))
                 THEN {[p EXCEPT !.sizeTimer = FALSE] : p \in PanBy(n, center)}
                 ELSE {ResetView(n, center, zoom)}
          [] OTHER ->
               IF n.anim # Nowhere \/ AnimatesTo(n, center, zoom)
                 THEN {TryAnimatedZoom(clear, center, zoom)}
                 ELSE {ResetView(n, center, zoom)}
        : n \in Stop(m)}

(* Mutant: the map does not say that the movement is over. *)
OnZoomTransitionEnd_NoEnd(m) ==
    IF m.anim = Nowhere THEN m
      ELSE Move([m EXCEPT !.anim = Nowhere], m.anim.center, m.anim.zoom, FALSE)

OnZoomTransitionEnd(m) ==
    IF m.anim = Nowhere THEN m
      ELSE RequestFrame(Move([m EXCEPT !.anim = Nowhere],
                             m.anim.center, m.anim.zoom, FALSE),
                        [kind |-> "moveEnd", center |-> 0, zoom |-> 0])

(* Mutant: the end of the transition is trusted to be told. *)
AnimateZoom_NoTimer(m, center, zoom, noUpdate) ==
    LET to == [center |-> center, zoom |-> zoom]
        n == [m EXCEPT !.anim = to, !.proxy = to]
        k == IF m.proxy = to THEN OnZoomTransitionEnd(n) ELSE n IN
    FireData(k, "zoomanim", center, zoom, noUpdate)

(* The proxy listens first; if its transform is there already no           *)
(* transition will come and the animation ends at once.                    *)
AnimateZoom(m, center, zoom, noUpdate) ==   \* noUpdate after a pinch
    LET to == [center |-> center, zoom |-> zoom]
        n == [m EXCEPT !.anim = to, !.proxy = to, !.timers = @ + 1]
        k == IF m.proxy = to THEN OnZoomTransitionEnd(n) ELSE n IN
    FireData(k, "zoomanim", center, zoom, noUpdate)

-----------------------------------------------------------------------------
(* Calls of the map's methods                                              *)

Call ==
    /\ map.loaded => calls < MaxCalls
    /\ calls' = IF map.loaded THEN calls + 1 ELSE calls

CallSetView(center, zoom, reset) ==
    /\ Call
    /\ map' \in SetView(Quiet(map), center, zoom, reset)
    /\ UNCHANGED width

(* Before setView there is no view: the zoom is only noted.                *)
SetZoom(zoom) ==
    /\ Call
    /\ IF map.loaded
         THEN map' \in SetView(Quiet(map), map.center, zoom, FALSE)
         ELSE map' = [Quiet(map) EXCEPT !.zoom = zoom]
    /\ UNCHANGED width

CallPanBy(center) ==
    /\ Call
    /\ map.loaded
    /\ map' \in PanBy(Quiet(map), center)
    /\ UNCHANGED width

CallStop ==
    /\ Call
    /\ map.loaded
    /\ map' \in UNION {Stop(n) : n \in SetView(Quiet(map), map.center, map.zoom, FALSE)}
    /\ UNCHANGED width

(* flyTo() moves the map for the first time before it returns.             *)
FlyTo(center, zoom) ==
    /\ Call
    /\ map.loaded
    /\ \E n \in Stop(Quiet(map)) :
          map' = [Move(MoveStart(n, TRUE, FALSE), n.center, n.zoom, TRUE)
                    EXCEPT !.fly = [center |-> center, zoom |-> zoom]]
    /\ UNCHANGED width

(* The window is resized: the map is told in the next frame.               *)
Resize ==
    /\ Call
    /\ width' \in Sizes \ {width}
    /\ map' = [Quiet(map) EXCEPT !.resizeRequest = TRUE]

-----------------------------------------------------------------------------
(* Dragging and pinching                                                   *)

(* Not while a zoom animation runs; it may begin before the first move.    *)
DragDown ==
    /\ Call
    /\ "drag" \in Gestures /\ map.loaded
    /\ map.drag = "no" /\ map.anim = Nowhere
    /\ map' = [Quiet(map) EXCEPT !.drag = "down"]
    /\ UNCHANGED width

DragStart ==
    /\ map.drag = "down"
    /\ \E n \in Stop(Quiet(map)) :
          map' = [Emit(n, "movestart") EXCEPT !.drag = "moving"]
    /\ UNCHANGED <<width, calls>>

DragStep(center) ==
    /\ map.drag = "moving"
    /\ map' = RunFrame(Quiet(map), center)
    /\ UNCHANGED <<width, calls>>

(* Another press while the map is dragged: what was moved is forgotten, so *)
(* that a release now ends nothing and a move begins once more.            *)
SecondPress ==
    /\ map.drag = "moving"
    /\ map' = [Quiet(map) EXCEPT !.drag = "down", !.hushed = TRUE]
    /\ UNCHANGED <<width, calls>>

(* Mutant: a drag with inertia is taken for a drag that has ended. *)
OnDragEnd_Forget(m) == {Emit(m, "moveend"), m}

(* With inertia the map goes on moving in the next frame.                  *)
OnDragEnd(m) ==
    {Emit(m, "moveend"), RequestFrame(m, [kind |-> "inertia", center |-> 0, zoom |-> 0])}

DragUp ==
    /\ map.drag # "no"
    /\ LET n == [Quiet(map) EXCEPT !.drag = "no"] IN
       map' \in IF map.drag = "moving" THEN OnDragEnd(n) ELSE {n}
    /\ UNCHANGED <<width, calls>>

(* Fingers that never move leave the flight they stopped without an end.   *)
OnTouchStart ==
    /\ Call
    /\ "pinch" \in Gestures /\ map.loaded
    /\ map.anim = Nowhere /\ map.pinch = "no"
    /\ \E n \in Stop(Quiet(map)) :
          map' = [n EXCEPT !.pinch = "down", !.hushed = @ \/ map.fly # Nowhere]
    /\ UNCHANGED width

(* The first move of the fingers; the map follows in a frame.              *)
OnTouchMove ==
    /\ map.pinch = "down"
    /\ map' = [MoveStart(Quiet(map), TRUE, FALSE) EXCEPT !.pinch = "moving"]
    /\ UNCHANGED <<width, calls>>

PinchFrame(center, zoom) ==
    /\ map.pinch = "moving"
    /\ map' = Move(Quiet(map), center, zoom, TRUE)
    /\ UNCHANGED <<width, calls>>

(* A frame that is still to come is cancelled.                             *)
OnTouchEnd(center, zoom) ==
    /\ map.pinch # "no"
    /\ LET n == [Quiet(map) EXCEPT !.pinch = "no"] IN
       map' = IF map.pinch = "moving" THEN AnimateZoom(n, center, zoom, TRUE) ELSE n
    /\ UNCHANGED <<width, calls>>

-----------------------------------------------------------------------------
(* Callbacks of the browser                                                *)

FlyStep ==
    /\ map.fly # Nowhere
    /\ \E zoom \in Between(map.zoom, map.fly.zoom) :
          map' = Move(Quiet(map), map.center, zoom, TRUE)
    /\ UNCHANGED <<width, calls>>

FlyEnd ==
    /\ map.fly # Nowhere
    /\ map' = MoveEnd(Move([Quiet(map) EXCEPT !.fly = Nowhere],
                           map.fly.center, map.fly.zoom, FALSE), TRUE)
    /\ UNCHANGED <<width, calls>>

PanStep ==
    /\ map.pan # Nowhere
    /\ map' = RunFrame(Quiet(map), (map.center + map.pan) \div 2)
    /\ UNCHANGED <<width, calls>>

PanEnd ==
    /\ map.pan # Nowhere
    /\ map' = Complete(RunFrame(Quiet(map), map.pan))
    /\ UNCHANGED <<width, calls>>

AnimationFrame ==
    /\ map.frames # <<>>
    /\ Head(map.frames).kind # "inertia"
    /\ LET f == Head(map.frames)
           m == [Quiet(map) EXCEPT !.frames = Tail(@)] IN
       map' = CASE f.kind = "animate" ->
                     AnimateZoom(MoveStart(m, TRUE, FALSE), f.center, f.zoom, FALSE)
                [] f.kind = "moveEnd" -> MoveEnd(m, TRUE)
    /\ UNCHANGED <<width, calls>>

(* What dragging leaves the map to do: panBy() without another movestart.  *)
InertiaFrame(center) ==
    /\ map.frames # <<>>
    /\ Head(map.frames).kind = "inertia"
    /\ center # map.center
    /\ \E n \in StopPan([Quiet(map) EXCEPT !.frames = Tail(@)]) :
          map' = [n EXCEPT !.pan = center]
    /\ UNCHANGED <<width, calls>>

(* The CSS transition has ended.                                           *)
CatchTransitionEnd ==
    /\ map.anim # Nowhere
    /\ map' = OnZoomTransitionEnd(Quiet(map))
    /\ UNCHANGED <<width, calls>>

(* The timeout that stands in for a transition that did not end.           *)
ZoomTimeout ==
    /\ map.timers > 0
    /\ map' = OnZoomTransitionEnd([Quiet(map) EXCEPT !.timers = @ - 1])
    /\ UNCHANGED <<width, calls>>

(* invalidateSize({debounceMoveend: true}): the centre stays.              *)
ResizeFrame ==
    /\ map.resizeRequest
    /\ LET m == [Quiet(map) EXCEPT !.resizeRequest = FALSE] IN
       map' = IF ~map.loaded \/ map.size = width
                THEN IF map.loaded THEN m ELSE [m EXCEPT !.size = width]
                ELSE [Emit(Emit([m EXCEPT !.size = width], "move"), "resize")
                        EXCEPT !.sizeTimer = TRUE]
    /\ UNCHANGED <<width, calls>>

SizeTimeout ==
    /\ map.sizeTimer
    /\ map' = Emit([Quiet(map) EXCEPT !.sizeTimer = FALSE], "moveend")
    /\ UNCHANGED <<width, calls>>

Callback ==
    \/ FlyStep \/ FlyEnd \/ PanStep \/ PanEnd \/ AnimationFrame
    \/ \E v \in Views : InertiaFrame(v[1])
    \/ CatchTransitionEnd \/ ZoomTimeout \/ ResizeFrame \/ SizeTimeout

MapNext ==
    \/ \E v \in Views :
          \/ \E reset \in BOOLEAN : CallSetView(v[1], v[2], reset)
          \/ FlyTo(v[1], v[2])
          \/ CallPanBy(v[1])
          \/ SetZoom(v[2])
    \/ CallStop \/ Resize
    \/ DragDown \/ DragStart \/ SecondPress \/ DragUp
    \/ OnTouchStart \/ OnTouchMove
    \/ \E v \in Views : DragStep(v[1]) \/ PinchFrame(v[1], v[2])
                        \/ OnTouchEnd(v[1], v[2])
    \/ Callback

MapSpec == MapInit /\ [][MapNext]_mapVars

(* What comes for certain: frames and timeouts, and the last frame of a    *)
(* flight and of a pan. That a transition ends is not relied on: browsers  *)
(* may not tell.                                                           *)
Due ==
    \/ SizeTimeout \/ ResizeFrame \/ (\E v \in Views : InertiaFrame(v[1]))
    \/ ZoomTimeout \/ AnimationFrame \/ PanEnd \/ FlyEnd

MapFairness == WF_mapVars(Due)

-----------------------------------------------------------------------------
Frame == [kind : {"animate", "moveEnd", "inertia"}, center : Nat, zoom : Zooms]

(* What a listener is told. *)
Event == [type : EventTypes, center : Nat, zoom : Zooms, mapZoom : Zooms,
          mapCenter : Nat, anim : View \cup {Nowhere}, size : Sizes,
          flyTo : BOOLEAN]

MapState ==
    [loaded : BOOLEAN, center : Nat, zoom : Zooms,
     anim : View \cup {Nowhere}, pan : Nat \cup {Nowhere},
     fly : View \cup {Nowhere},
     drag : {"no", "down", "moving"}, pinch : {"no", "down", "moving"},
     frames : Seq(Frame), timers : Nat,
     sizeTimer : BOOLEAN, resizeRequest : BOOLEAN,
     size : Sizes, proxy : View \cup {Nowhere},
     moveOpen : BOOLEAN, zoomOpen : BOOLEAN,
     flightCut : BOOLEAN, hushed : BOOLEAN,
     fired : Seq(Event)]

MapTypeOK ==
    /\ map \in MapState
    /\ width \in Sizes
    /\ calls \in 0..MaxCalls

(* Nothing moves and no callback is awaited that would move the map.       *)
AtRest ==
    /\ map.anim = Nowhere /\ map.pan = Nowhere /\ map.fly = Nowhere
    /\ map.frames = <<>> /\ map.drag # "moving" /\ map.pinch # "moving"

(* Whatever calls interrupt each other, once the map is at rest every      *)
(* movestart has been followed by a moveend, on which layers rely to load  *)
(* what is visible, unless two fingers stopped a flight and did not move   *)
(* or another press broke a drag off; and every zoomstart by a zoomend,    *)
(* unless a flight was cancelled, which leaves its zoomstart without one.  *)
EndsWhatItStarts ==
    AtRest => /\ ~map.moveOpen \/ map.hushed
              /\ ~map.zoomOpen \/ map.flightCut

(* A map that has begun to move, and is not held by a button or by         *)
(* fingers, ends the movement, though no browser has to tell that a        *)
(* transition is over and calls may interrupt each other.                  *)
MovementEnds ==
    map.moveOpen ~> \/ ~map.moveOpen
                    \/ map.hushed \/ map.drag = "moving" \/ map.pinch = "moving"

=============================================================================
