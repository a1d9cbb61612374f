--------------------------- MODULE MCBrowserParts ---------------------------
(***************************************************************************)
(* Instances of the parts of the browser code for TLC.  They share no      *)
(* variables here, so in a behaviour one of them moves and the others      *)
(* rest: what is moving is chosen at the start.                            *)
(***************************************************************************)
EXTENDS Evented, MapMovement, MapLayers, DrawList, CanvasRenderer, Draggables,
        MapHandlers, Tooltips, ZoomLimits, LayersControl, DomEvents, Boxes,
        Polylines, GeoJson, Confetti

MCEventParents == [o \in Objects |-> IF o = "layer" THEN {"map"} ELSE {}]

(* Two places, from far away and close. *)
MCViews == {<<2, 0>>, <<5, 1>>}

(* Paths of one cell or of the other, which zooms put at the other place;  *)
(* the area is both cells or the second.                                   *)
MCShapes == {[o \in Origins |-> {o}], [o \in Origins |-> {3 - o}]}

MCWindows == {{1, 2}, {2}}

(* Tile layers with a limit below that excludes zooms, and one above. *)
MCTileLayers == {[min |-> 0, max |-> 1], [min |-> 1, max |-> Unset]}

(* Lines that cross the window, a ring around it, two rings. *)
MCLines ==
    {<<>>,
     <<<<<<-5, 4>>, <<4, 3>>, <<13, 10>>>>>>,
     <<<<<<-9, -9>>, <<20, -7>>, <<17, 22>>, <<-8, 17>>, <<-9, -9>>>>>>,
     <<<<<<-5, 4>>, <<3, 3>>>>, <<<<7, 2>>, <<1, 12>>, <<-4, 7>>>>>>}

MCSpots == {<<-5, 4>>, <<12, 10>>}

MCMapViews ==
    {[scale |-> 1, window |-> [min |-> <<0, 0>>, max |-> <<9, 8>>]],
     [scale |-> 2, window |-> [min |-> <<5, 3>>, max |-> <<14, 11>>]]}

(* Every type of geometry, closed and open rings, nothing where something  *)
(* is expected, and data that is no feature.                               *)
Ring == <<<<1, 2>>, <<3, 4>>, <<5, 1>>>>

ClosedRing == Append(Ring, <<1, 2>>)

Geometry(type, coordinates) == [type |-> type, coordinates |-> coordinates]

Collection(geometries) ==
    [type |-> "GeometryCollection", geometries |-> geometries]

Feature(geometry) ==
    [type |-> "Feature", properties |-> "p", geometry |-> geometry]

NoGeometry == [type |-> "Feature", properties |-> "p"]

MCGeoData ==
    {Feature(Geometry("Point", <<1, 2>>)),
     Geometry("MultiPoint", <<<<1, 2>>, <<3, 4>>>>),
     Feature(Geometry("LineString", Ring)),
     Geometry("MultiLineString", <<Ring>>),
     Geometry("MultiLineString", <<Ring, ClosedRing>>),
     Geometry("Polygon", <<Ring, ClosedRing>>),
     Geometry("Polygon", <<>>),
     Feature(Geometry("MultiPolygon", <<<<ClosedRing>>, <<Ring, ClosedRing>>>>)),
     Geometry("MultiPolygon", <<<<>>, <<Ring>>>>),
     Collection(<<Geometry("Polygon", <<ClosedRing>>), Geometry("Point", <<3, 4>>)>>),
     Feature(Collection(<<Geometry("MultiPoint", <<<<1, 2>>>>)>>)),
     NoGeometry,
     [type |-> "FeatureCollection",
      features |-> <<Feature(Geometry("Point", <<3, 4>>)), NoGeometry,
                     Feature(Geometry("LineString", ClosedRing))>>],
     [type |-> "array", features |-> <<Geometry("Point", <<1, 2>>)>>]}

MCWhereabouts == {<<1, 2>>, <<3, 4>>}

-----------------------------------------------------------------------------

VARIABLE moving         \* the part that moves

partsVars ==
    <<moving, eventedVars, mapVars, reg, list, canvasVars, dragVars, box, tap,
      wheel, keys, tipVars, limits, listing, clicks, pointers, taps, android,
      dom, boundsVars, lineVars, geo, disc, party>>

(* Parts that begin in several ways do so when they move. *)
Rests(part) == moving # part

(* The canvas moves in two ways: on a map at rest, and in other views.     *)
Canvases == {"canvas", "view"}

(* Bounds of the canvas: of the paths one is special.                      *)
Styled == CHOOSE p \in Paths : TRUE

Init ==
    /\ moving \in {"events", "map", "layers", "list", "canvas", "view", "drags", "box",
                   "tap", "wheel", "keys", "tips", "limits", "control",
                   "clicks", "pointers", "taps", "android", "dom", "bounds",
                   "line", "geo", "disc", "party"}
    /\ MapInit /\ (Rests("map") => width = 2)
    /\ LayersInit /\ ~reg.control
    /\ CanvasInit /\ canvas.origin = 1 /\ canvas.window = Cells
    /\ canvas.style = [p \in Paths |-> 0]
    /\ \A p \in Paths : canvas.shape[p][1] = {1}
    /\ DragInit /\ (Rests("drags") => hand.device = "mouse")
    /\ TipInit /\ (Rests("tips") => owner.touch)
    /\ ListControlInit /\ listing.collapsed = listing.reacts
    /\ (Rests("control") => listing.reacts)
    /\ ClicksInit
    /\ (Rests("clicks") => clicks.draggable /\ clicks.bubbles /\ clicks.stops)
    /\ LineInit
    /\ (Rests("line") => line.closed /\ line.weight = 2 /\ view.scale = 1)
    /\ EventedInit /\ ListInit /\ BoxInit /\ TapInit /\ WheelInit /\ KeysInit
    /\ ZoomInit /\ PointersInit /\ TapsInit /\ AndroidInit /\ DomInit
    /\ (Rests("limits") => limits.animates)
    /\ BoundsInit /\ GeoInit /\ DiscInit /\ PartyInit

(* The part moves, and no other. *)
Only(part) ==
    /\ moving = part
    /\ UNCHANGED moving
    /\ (part # "events" => UNCHANGED eventedVars)
    /\ (part # "map" => UNCHANGED mapVars)
    /\ (part # "layers" => UNCHANGED reg)
    /\ (part # "list" => UNCHANGED list)
    /\ (part \notin Canvases => UNCHANGED canvasVars)
    /\ (part # "drags" => UNCHANGED dragVars)
    /\ (part # "box" => UNCHANGED box)
    /\ (part # "tap" => UNCHANGED tap)
    /\ (part # "wheel" => UNCHANGED wheel)
    /\ (part # "keys" => UNCHANGED keys)
    /\ (part # "tips" => UNCHANGED tipVars)
    /\ (part # "limits" => UNCHANGED limits)
    /\ (part # "control" => UNCHANGED listing)
    /\ (part # "clicks" => UNCHANGED clicks)
    /\ (part # "pointers" => UNCHANGED pointers)
    /\ (part # "taps" => UNCHANGED taps)
    /\ (part # "android" => UNCHANGED android)
    /\ (part # "dom" => UNCHANGED dom)
    /\ (part # "bounds" => UNCHANGED boundsVars)
    /\ (part # "line" => UNCHANGED lineVars)
    /\ (part # "geo" => UNCHANGED geo)
    /\ (part # "disc" => UNCHANGED disc)
    /\ (part # "party" => UNCHANGED party)

(* Bounds of the layers: one at a time waits for the first view, and of     *)
(* the popups groups have one only.                                         *)
FewWait == Len(reg'.waiting) <= 1

FirstPopup == CHOOSE p \in Popups : TRUE

GroupsBindFirst == \A g \in Groups : reg'.popupOf[g] \in {NoPopup, FirstPopup}

(* On a map at rest one path changes its style ...                         *)
OneIsStyled == \A p \in Paths \ {Styled} : canvas'.style[p] = 0

MapRests ==
    canvas'.origin = 1 /\ canvas'.window = Cells /\ ~canvas'.animating

(* ... and in other views one is on the map, and no style changes.         *)
OneIsThere ==
    /\ ToSet(order') \subseteq {Styled}
    /\ canvas'.style = canvas.style
    /\ \A p \in Paths \ {Styled} : canvas'.shape[p] = canvas.shape[p]

(* The mouse looks when no redraw waits, and leaves before anything else   *)
(* happens: nothing but the mouse reads what is under it.                  *)
LooksAndLeaves ==
    IF canvas.hovered = Nil
      THEN canvas'.hovered # Nil => canvas.request = "none"
      ELSE [canvas EXCEPT !.hovered = Nil] = [canvas' EXCEPT !.hovered = Nil]

(* Bounds of the zoom limits: one option is set at a time, three of layers,*)
(* options and what is under way meet, and while the control is disabled   *)
(* nothing is under way.                                                   *)
OneOption == limits'.minZoom = Unset \/ limits'.maxZoom = Unset

ThreeMeet ==
    LET options == IF {limits'.minZoom, limits'.maxZoom} = {Unset} THEN 0 ELSE 1 IN
    Cardinality(limits'.bound) + options + Underway(limits') <= 3

RestsDisabled == limits'.disabled => Underway(limits') = 0

Next ==
    \/ Only("events") /\ EventedNext
    \/ Only("map") /\ MapNext
    \/ Only("layers") /\ LayersNext /\ FewWait /\ GroupsBindFirst
    \/ Only("list") /\ ListNext
    \/ Only("canvas") /\ CanvasNext /\ LooksAndLeaves /\ MapRests /\ OneIsStyled
    \/ Only("view") /\ CanvasNext /\ LooksAndLeaves /\ OneIsThere
    \/ Only("drags") /\ DragNext
    \/ Only("box") /\ BoxNext
    \/ Only("tap") /\ TapNext
    \/ Only("wheel") /\ WheelNext
    \/ Only("keys") /\ KeysNext
    \/ Only("tips") /\ TipNext
    \/ Only("limits") /\ ZoomNext /\ OneOption /\ ThreeMeet /\ RestsDisabled
    \/ Only("control") /\ ListControlNext
    \/ Only("clicks") /\ ClicksNext
    \/ Only("pointers") /\ PointersNext
    \/ Only("taps") /\ TapsNext
    \/ Only("android") /\ AndroidNext
    \/ Only("dom") /\ DomNext
    \/ Only("bounds") /\ BoundsNext
    \/ Only("line") /\ LineNext
    \/ Only("geo") /\ GeoNext
    \/ Only("disc") /\ DiscNext
    \/ Only("party") /\ PartyNext

(* Timers and frames of the map come; of the other parts nothing must. *)
Fairness == WF_mapVars(Due /\ Only("map"))

Spec == Init /\ [][Next]_partsVars /\ Fairness

=============================================================================
