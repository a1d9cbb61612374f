------------------------------ MODULE ZoomLimits ------------------------------
(***************************************************************************)
(* Between which zoom levels a map of app/assets/javascripts/leaflet.js    *)
(* can be: its own options, the options of the tile layers on it, the zoom *)
(* it is at, the animations, flights and pinches that lead it to another   *)
(* one, and the buttons of L.Control.Zoom, which show whether it can go on.*)
(* Zooms are whole numbers; zoomSnap is 1.                                 *)
(***************************************************************************)
EXTENDS Integers, Sequences, FiniteSetsExt

CONSTANTS
    TileLayers,   \* the options of tile layers: [min, max], or Unset
    Highest,      \* zooms are asked for from 0..Highest
    Endless,      \* stands for Infinity
    Unset,
    MaxUnderway   \* bound: frames, animations, flights and pinches at once

ASSUME ZoomLimitsAssumption ==
    /\ Highest \in Nat /\ Endless \in Nat /\ Endless > Highest
    /\ MaxUnderway \in Nat
    /\ Unset \notin Int
    /\ \A l \in TileLayers : /\ l.min \in (0..Highest) \cup {Unset}
                             /\ l.max \in (0..Highest) \cup {Unset}

VARIABLE limits

ZoomInit ==
    \E animates \in BOOLEAN :
    limits = [loaded |-> FALSE, zoom |-> Unset,
              minZoom |-> Unset, maxZoom |-> Unset,    \* options of the map
              bound |-> {},           \* _zoomBoundLayers
              layers |-> {},
              animates |-> animates,  \* zoomAnimation, and a browser that can
              anim |-> Unset,         \* _animateToZoom, while _animatingZoom
              frames |-> <<>>,        \* zooms to animate to; Unset ends a movement
              fly |-> Unset,          \* where the flight leads
              pinch |-> "no",
              control |-> FALSE, disabled |-> FALSE,
              inOff |-> FALSE, outOff |-> FALSE,       \* the buttons
              silent |-> FALSE]       \* history: zoom or limits changed unannounced

-----------------------------------------------------------------------------
(* Limits                                                                  *)

LayersMin(m) ==
    LET mins == {l.min : l \in m.bound} \ {Unset} IN
    IF mins = {} THEN Unset ELSE Min(mins)

LayersMax(m) ==
    LET maxs == {l.max : l \in m.bound} \ {Unset} IN
    IF maxs = {} THEN Unset ELSE Max(maxs)

GetMinZoom(m) ==
    CASE m.minZoom # Unset -> m.minZoom
      [] m.minZoom = Unset /\ LayersMin(m) # Unset -> LayersMin(m)
      [] OTHER -> 0

GetMaxZoom(m) ==
    CASE m.maxZoom # Unset -> m.maxZoom
      [] m.maxZoom = Unset /\ LayersMax(m) # Unset -> LayersMax(m)
      [] OTHER -> Endless

LimitZoom(m, zoom) ==
    Max({GetMinZoom(m), Min({GetMaxZoom(m), zoom})})

(* Infinity less a number is Infinity.                                     *)
ZoomSpan(m) ==
    IF GetMaxZoom(m) = Endless THEN Endless ELSE GetMaxZoom(m) - GetMinZoom(m)

UpdateDisabled(m) ==
    IF ~m.control THEN m
    ELSE [m EXCEPT !.outOff = m.disabled \/ m.zoom = GetMinZoom(m),
                   !.inOff = m.disabled \/ m.zoom = GetMaxZoom(m)]

(* zoomlevelschange                                                        *)
LevelsChange(m) == [UpdateDisabled(m) EXCEPT !.silent = FALSE]

-----------------------------------------------------------------------------
(* Moving                                                                  *)

(* _resetView; zoomend only if the zoom is another one.                    *)
LimitedView(m, zoom) ==
    LET n == [m EXCEPT !.zoom = LimitZoom(m, zoom)] IN
    IF n.zoom # m.zoom THEN LevelsChange(n) ELSE n

(* _stop: a flight ends where it is, and no zoomend follows.               *)
CutFlight(m) == [m EXCEPT !.fly = Unset, !.silent = @ \/ m.fly # Unset]

(* What setZoom can leave the map as. Without a view the zoom is noted, as *)
(* it is given. While an animation runs nothing happens; if none does, it  *)
(* depends on options and distances whether one is to begin.               *)
ChangeZoom(m, zoom) ==
    LET to == LimitZoom(m, zoom) IN
    CASE ~m.loaded -> {[m EXCEPT !.zoom = zoom, !.silent = TRUE]}
      [] m.loaded /\ (to = m.zoom \/ m.anim # Unset) -> {CutFlight(m)}
      [] OTHER ->
            {LimitedView(CutFlight(m), to)}
               \cup IF m.animates THEN {[CutFlight(m) EXCEPT !.frames = Append(@, to)]} ELSE {}

(* Mutant: the map stays where it is. *)
UpdateZoomLevels_Stay(m, old) ==
    {IF ZoomSpan(m) # ZoomSpan(old) THEN LevelsChange(m)
     ELSE [m EXCEPT !.silent = TRUE]}

(* A layer's limit of zero counts as none when the zoom is checked, and a  *)
(* zoom that an animation leads to is not checked.                         *)
UpdateZoomLevels(m, old) ==
    LET n == IF ZoomSpan(m) # ZoomSpan(old) THEN LevelsChange(m)
             ELSE [m EXCEPT !.silent = TRUE]
        lowered == IF /\ n.maxZoom = Unset /\ LayersMax(n) \notin {Unset, 0}
                      /\ n.zoom # Unset /\ n.zoom > LayersMax(n)
                     THEN ChangeZoom(n, LayersMax(n)) ELSE {n}
        Raised(k) == IF /\ k.minZoom = Unset /\ LayersMin(k) \notin {Unset, 0}
                        /\ k.zoom # Unset /\ k.zoom < LayersMin(k)
                       THEN ChangeZoom(k, LayersMin(k)) ELSE {k}
    IN  UNION {Raised(k) : k \in lowered}

(* Only layers that have a lower limit, or no upper one, count.            *)
AddZoomLimit(m, l) ==
    IF l.max = Unset \/ l.min # Unset
      THEN UpdateZoomLevels([m EXCEPT !.bound = @ \cup {l}], m) ELSE {m}

RemoveZoomLimit(m, l) ==
    IF l \in m.bound THEN UpdateZoomLevels([m EXCEPT !.bound = @ \ {l}], m) ELSE {m}

-----------------------------------------------------------------------------
(* Calls                                                                   *)

AddTileLayer(l) ==
    /\ l \notin limits.layers
    /\ limits' \in AddZoomLimit([limits EXCEPT !.layers = @ \cup {l}], l)

(* A map without a view does not tell the layer, whose limit stays.        *)
RemoveTileLayer(l) ==
    /\ l \in limits.layers
    /\ LET m == [limits EXCEPT !.layers = @ \ {l}] IN
       limits' \in IF limits.loaded THEN RemoveZoomLimit(m, l) ELSE {m}

FirstView(zoom) ==
    /\ ~limits.loaded
    /\ limits' = LimitedView([limits EXCEPT !.loaded = TRUE], zoom)

AskZoom(zoom) == limits' \in ChangeZoom(limits, zoom)

(* setView with the option reset goes there during an animation too.       *)
ResetZoom(zoom) ==
    /\ limits.loaded
    /\ limits' = LimitedView(CutFlight(limits), zoom)

(* panBy further than a screen resets the view as well.                    *)
PanFar ==
    /\ limits.loaded
    /\ limits' = LimitedView(limits, limits.zoom)

(* flyTo does not limit the zoom.                                          *)
FlyToZoom(zoom) ==
    /\ limits.loaded
    /\ limits' = [CutFlight(limits) EXCEPT !.fly = zoom]

SetMinZoom(zoom) ==
    /\ zoom # limits.minZoom
    /\ LET m == [limits EXCEPT !.minZoom = zoom] IN
       limits' \in CASE ~m.loaded -> {[m EXCEPT !.silent = TRUE]}
                     [] m.loaded /\ m.zoom < zoom -> ChangeZoom(LevelsChange(m), zoom)
                     [] OTHER -> {LevelsChange(m)}

SetMaxZoom(zoom) ==
    /\ zoom # limits.maxZoom
    /\ LET m == [limits EXCEPT !.maxZoom = zoom] IN
       limits' \in CASE ~m.loaded -> {[m EXCEPT !.silent = TRUE]}
                     [] m.loaded /\ m.zoom > zoom -> ChangeZoom(LevelsChange(m), zoom)
                     [] OTHER -> {LevelsChange(m)}

AddZoomControl ==
    /\ ~limits.control
    /\ limits' = LevelsChange([limits EXCEPT !.control = TRUE])

RemoveZoomControl ==
    /\ limits.control
    /\ limits' = [limits EXCEPT !.control = FALSE]

EnableZoomControl(on) ==
    /\ limits.control /\ limits.disabled = on
    /\ limits' = LevelsChange([limits EXCEPT !.disabled = ~on])

(* Shift makes three levels of one.                                        *)
ClickZoomIn(levels) ==
    /\ limits.control /\ limits.zoom # Unset
    /\ ~limits.disabled /\ limits.zoom < Min({GetMaxZoom(limits), Highest})
    /\ limits' \in ChangeZoom(limits, Min({limits.zoom + levels, Highest}))

(* Bound: no zoom below zero is noted.                                     *)
ClickZoomOut(levels) ==
    /\ limits.control /\ limits.zoom # Unset
    /\ ~limits.disabled /\ limits.zoom > GetMinZoom(limits)
    /\ limits.loaded \/ levels <= limits.zoom
    /\ limits' \in ChangeZoom(limits, limits.zoom - levels)

-----------------------------------------------------------------------------
(* Frames, timers and touches                                              *)

(* The first frame that was requested: an animation starts, or zoomend.    *)
ZoomFrame ==
    /\ limits.frames # <<>>
    /\ LET m == [limits EXCEPT !.frames = Tail(@)] IN
       limits' = IF Head(limits.frames) = Unset THEN LevelsChange(m)
                 ELSE [m EXCEPT !.anim = Head(limits.frames)]

(* Mutant: no frame is requested that ends the movement. *)
ZoomTransitionEnd_Untold ==
    /\ limits.anim # Unset
    /\ limits' = [limits EXCEPT !.zoom = limits.anim, !.anim = Unset]

(* transitionend, or the timer that stands in for it                       *)
ZoomTransitionEnd ==
    /\ limits.anim # Unset
    /\ limits' = [limits EXCEPT !.zoom = limits.anim, !.anim = Unset,
                                !.frames = Append(@, Unset)]

(* On its way a flight passes other zooms than the two between it goes.    *)
FlightFrame(zoom) ==
    /\ limits.fly # Unset
    /\ limits' = [limits EXCEPT !.zoom = zoom]

FlightEnds ==
    /\ limits.fly # Unset
    /\ limits' = LevelsChange([limits EXCEPT !.zoom = limits.fly, !.fly = Unset])

PinchStart ==
    /\ limits.loaded /\ limits.pinch = "no" /\ limits.anim = Unset
    /\ limits' = [CutFlight(limits) EXCEPT !.pinch = "down"]

(* bounceAtZoomLimits lets a pinch go beyond the limits.                   *)
PinchMove(zoom) ==
    /\ limits.pinch # "no"
    /\ limits' = [limits EXCEPT !.pinch = "moving", !.zoom = zoom]

(* It ends at the zoom of the last touch, which the map may not be at.     *)
PinchEnd(zoom) ==
    /\ limits.pinch # "no"
    /\ LET m == [limits EXCEPT !.pinch = "no"] IN
       limits' = CASE limits.pinch = "down" -> m
                   [] limits.pinch = "moving" /\ m.animates ->
                         [m EXCEPT !.anim = LimitZoom(m, zoom)]
                   [] OTHER -> LimitedView([m EXCEPT !.silent = TRUE], zoom)

-----------------------------------------------------------------------------

Underway(m) ==
    Len(m.frames) + Cardinality({x \in {"anim", "fly"} : m[x] # Unset})
        + (IF m.pinch = "no" THEN 0 ELSE 1)

ZoomNext ==
    /\ \/ \E l \in TileLayers : AddTileLayer(l) \/ RemoveTileLayer(l)
       \/ \E zoom \in 0..Highest : \/ FirstView(zoom) \/ AskZoom(zoom)
                                   \/ ResetZoom(zoom) \/ FlyToZoom(zoom)
                                   \/ SetMinZoom(zoom) \/ SetMaxZoom(zoom)
                                   \/ FlightFrame(zoom)
                                   \/ PinchMove(zoom) \/ PinchEnd(zoom)
       \/ AddZoomControl \/ RemoveZoomControl
       \/ \E on \in BOOLEAN : EnableZoomControl(on)
       \/ \E levels \in {1, 3} : ClickZoomIn(levels) \/ ClickZoomOut(levels)
       \/ PanFar \/ ZoomFrame \/ ZoomTransitionEnd \/ FlightEnds \/ PinchStart
    /\ Underway(limits') <= MaxUnderway

ZoomSpec == ZoomInit /\ [][ZoomNext]_limits

-----------------------------------------------------------------------------
ZoomTypeOK ==
    LET level == (0..Highest) \cup {Unset} IN
    limits \in [loaded : BOOLEAN, zoom : level, minZoom : level, maxZoom : level,
                bound : SUBSET TileLayers, layers : SUBSET TileLayers,
                animates : BOOLEAN, anim : level, frames : Seq(level), fly : level,
                pinch : {"no", "down", "moving"},
                control : BOOLEAN, disabled : BOOLEAN, inOff : BOOLEAN,
                outOff : BOOLEAN, silent : BOOLEAN]

Allowed(m) == GetMinZoom(m)..GetMaxZoom(m)

(* Zooms that animations lead to, those that are still to start as well    *)
Goals(m) == ({m.anim} \cup {m.frames[i] : i \in DOMAIN m.frames}) \ {Unset}

(* A map in view is at a zoom that its limits allow, or on its way to one. *)
OnCourse(m) ==
    m.loaded => /\ Goals(m) \subseteq Allowed(m)
                /\ m.zoom \in Allowed(m) \/ Goals(m) # {} \/ m.pinch = "moving"

(* Whichever layers come and go, limits are set and zooms are asked for or *)
(* come to their end: a map that is on course stays so, if the limits leave*)
(* any zoom and no layer's upper limit is zero. It goes astray only by a   *)
(* flight, which goes anywhere, and by limits that exclude the zoom of an  *)
(* animation under way, which goes on.                                     *)
ZoomStaysAllowed ==
    /\ OnCourse(limits)
    /\ GetMinZoom(limits') <= GetMaxZoom(limits') /\ LayersMax(limits') # 0
    /\ Goals(limits) \subseteq Allowed(limits')
    /\ limits.fly = Unset \/ limits'.zoom = limits.zoom
    => OnCourse(limits')

(* The map rests, or what goes on has changed no zoom yet.                 *)
Settled(m) ==
    /\ m.anim = Unset /\ m.fly = Unset /\ m.pinch # "moving"
    /\ \A i \in DOMAIN m.frames : m.frames[i] # Unset

(* The buttons show where a map that is settled can go, unless its zoom or *)
(* limits changed without an event: before the first view, when the span   *)
(* between them stayed the same, as it does when there is no upper limit,  *)
(* when a flight was cut, or when a pinch without animation ended where it *)
(* was.                                                                    *)
ButtonsTellLimits ==
    limits.loaded /\ limits.control /\ ~limits.silent /\ Settled(limits) =>
        /\ limits.outOff = (limits.disabled \/ limits.zoom = GetMinZoom(limits))
        /\ limits.inOff = (limits.disabled \/ limits.zoom = GetMaxZoom(limits))

(* Limits are kept by every step and told by the buttons after it.         *)
LimitsAreKept ==
    [][limits' # limits =>
           ZoomTypeOK' /\ ButtonsTellLimits' /\ ZoomStaysAllowed]_limits

=============================================================================
