------------------------------ MODULE Draggables ------------------------------
(***************************************************************************)
(* Dragging: L.Draggable of app/assets/javascripts/leaflet.js, one for the *)
(* map and one for a marker that lies on it, the static field that lets    *)
(* only one of them move, and L.Handler.MarkerDrag, which pans the map     *)
(* while a marker is held near its edge.                                   *)
(*                                                                         *)
(* The hand is a mouse or a finger: `pressed` counts buttons or fingers.   *)
(***************************************************************************)
EXTENDS Naturals, FiniteSets

CONSTANTS
    Devices,      \* a subset of {"mouse", "touch"}
    Nobody

ASSUME DragsAssumption ==
    /\ Devices \subseteq {"mouse", "touch"}
    /\ Nobody \notin {"map", "marker"}

VARIABLES
    hand,         \* what the user does
    dragging,     \* Draggable._dragging
    drags,        \* the two draggables
    marker        \* the marker and its MarkerDrag

dragVars == <<hand, dragging, drags, marker>>

Kinds == {"map", "marker"}

Fresh(on) == [enabled |-> on, listening |-> FALSE, moved |-> FALSE,
              moving |-> FALSE, frame |-> FALSE,
              open |-> FALSE,       \* its user was told dragstart, not dragend
              spoilt |-> FALSE]     \* disturbed by another press or removed

DragInit ==
    /\ hand \in [device : Devices, pressed : {0}]
    /\ dragging = Nobody
    /\ drags = [d \in Kinds |-> Fresh(TRUE)]
    /\ marker = [shown |-> TRUE,
                 panFrame |-> FALSE,   \* _panRequest
                 stray |-> FALSE]      \* one of a MarkerDrag no longer there

-----------------------------------------------------------------------------
(* L.Draggable. A state of all the fields is passed on as s.               *)

Now == [drags |-> drags, dragging |-> dragging, panFrame |-> marker.panFrame]

Become(s) ==
    /\ drags' = s.drags
    /\ dragging' = s.dragging
    /\ marker' = [marker EXCEPT !.panFrame = s.panFrame]

(* first: the first button, without shift. _moved is forgotten even if     *)
(* this press begins nothing.                                              *)
OnDown(s, d, first) ==
    IF ~s.drags[d].enabled THEN s
    ELSE LET n == [s EXCEPT !.drags[d].moved = FALSE,
                            !.drags[d].spoilt = @ \/ s.drags[d].moving] IN
         IF s.dragging # Nobody \/ ~first THEN n
         ELSE [n EXCEPT !.dragging = d,
                        !.drags[d].listening = ~s.drags[d].moving]

OnMoved(s, d) ==
    IF ~s.drags[d].listening \/ ~s.drags[d].enabled THEN s
    ELSE IF hand.device = "touch" /\ hand.pressed > 1
      THEN [s EXCEPT !.drags[d].moved = TRUE,
                     !.drags[d].spoilt = @ \/ ~s.drags[d].open]
      ELSE [s EXCEPT !.drags[d].open = @ \/ ~s.drags[d].moved,
                     !.drags[d].moved = TRUE, !.drags[d].moving = TRUE,
                     !.drags[d].frame = TRUE]

(* MarkerDrag._onDragEnd                                                   *)
DragEnded(s, d, heard) ==
    IF ~heard THEN [s EXCEPT !.drags[d].spoilt = TRUE]
    ELSE [s EXCEPT !.drags[d].open = FALSE, !.drags[d].spoilt = FALSE,
                   !.panFrame = @ /\ d # "marker"]

(* Mutant: the frame is not cancelled. *)
FinishDrag_KeepFrame(s, d, heard) ==
    LET n == [s EXCEPT !.drags[d].listening = FALSE, !.drags[d].moving = FALSE,
                       !.dragging = Nobody] IN
    IF s.drags[d].moved /\ s.drags[d].moving THEN DragEnded(n, d, heard) ELSE n

(* heard: somebody still listens to this draggable.                        *)
FinishDrag(s, d, heard) ==
    LET n == [s EXCEPT !.drags[d].listening = FALSE, !.drags[d].moving = FALSE,
                       !.dragging = Nobody] IN
    IF s.drags[d].moved /\ s.drags[d].moving
      THEN DragEnded([n EXCEPT !.drags[d].frame = FALSE], d, heard)
      ELSE n

OnUp(s, d) ==
    IF s.drags[d].listening /\ s.drags[d].enabled THEN FinishDrag(s, d, TRUE) ELSE s

(* Mutant: a drag that goes on is not finished. *)
Disable_Only(s, d, heard) ==
    IF ~s.drags[d].enabled THEN s
    ELSE [s EXCEPT !.drags[d].enabled = FALSE, !.drags[d].moved = FALSE,
                   !.drags[d].listening = FALSE]

Disable(s, d, heard) ==
    IF ~s.drags[d].enabled THEN s
    ELSE LET n == IF s.dragging = d THEN FinishDrag(s, d, heard) ELSE s IN
         [n EXCEPT !.drags[d].enabled = FALSE, !.drags[d].moved = FALSE]

Enable(s, d) == [s EXCEPT !.drags[d].enabled = TRUE]

-----------------------------------------------------------------------------
(* The user. A press on the marker goes on to the map.                     *)

Press(on, first) ==
    /\ hand.pressed < 2
    /\ on = "marker" => marker.shown
    /\ hand.device = "touch" => first
    /\ hand' = [hand EXCEPT !.pressed = @ + 1]
    /\ Become(IF on = "map" THEN OnDown(Now, "map", first)
                            ELSE OnDown(OnDown(Now, "marker", first), "map", first))

MoveHand ==
    /\ hand.device = "touch" => hand.pressed > 0
    /\ Become(OnMoved(OnMoved(Now, "marker"), "map"))
    /\ UNCHANGED hand

Release ==
    /\ hand.pressed > 0
    /\ hand' = [hand EXCEPT !.pressed = @ - 1]
    /\ Become(OnUp(OnUp(Now, "marker"), "map"))

(* Released outside the window, or cancelled by the system.                *)
ReleaseUnseen ==
    /\ hand.pressed > 0
    /\ hand' = [hand EXCEPT !.pressed = @ - 1]
    /\ UNCHANGED <<dragging, drags, marker>>

-----------------------------------------------------------------------------
(* Frames                                                                  *)

(* predrag makes MarkerDrag ask for a frame of its own.                    *)
UpdatePosition(d) ==
    /\ drags[d].frame
    /\ drags' = [drags EXCEPT ![d].frame = FALSE]
    /\ marker' = [marker EXCEPT
                    !.panFrame = @ \/ (d = "marker" /\ drags[d].enabled)]
    /\ UNCHANGED <<hand, dragging>>

(* While the icon is near the edge the map is panned again and again; of a *)
(* marker that is not on the map the frame fails.                          *)
AdjustPan(again) ==
    /\ marker.panFrame
    /\ marker' = [marker EXCEPT !.panFrame = again /\ marker.shown]
    /\ UNCHANGED <<hand, dragging, drags>>

AdjustPanOfRemoved(again) ==
    /\ marker.stray
    /\ marker' = [marker EXCEPT !.stray = again /\ marker.shown]
    /\ UNCHANGED <<hand, dragging, drags>>

-----------------------------------------------------------------------------
(* Calls                                                                   *)

DisableMapDrag ==
    /\ drags["map"].enabled
    /\ Become(Disable(Now, "map", TRUE))
    /\ UNCHANGED hand

EnableMapDrag ==
    /\ ~drags["map"].enabled
    /\ Become(Enable(Now, "map"))
    /\ UNCHANGED hand

(* The new handler knows nothing of the frame the old one asked for.       *)
LeaveMarker(s) == marker.stray \/ s.panFrame

(* MarkerDrag stops to listen before the draggable is disabled. The next   *)
(* handler is a new one.                                                   *)
RemoveMarker ==
    /\ marker.shown
    /\ LET s == Disable(Now, "marker", FALSE) IN
       /\ drags' = [s.drags EXCEPT !["marker"] =
                      [Fresh(FALSE) EXCEPT !.frame = s.drags["marker"].frame,
                                           !.open = s.drags["marker"].open,
                                           !.spoilt = s.drags["marker"].spoilt]]
       /\ dragging' = s.dragging
       /\ marker' = [shown |-> FALSE, panFrame |-> FALSE, stray |-> LeaveMarker(s)]
    /\ UNCHANGED hand

AddMarker ==
    /\ ~marker.shown
    /\ drags' = [drags EXCEPT !["marker"].enabled = TRUE]
    /\ marker' = [marker EXCEPT !.shown = TRUE]
    /\ UNCHANGED <<hand, dragging>>

DragNext ==
    \/ \E on \in Kinds, first \in BOOLEAN : Press(on, first)
    \/ MoveHand \/ Release \/ ReleaseUnseen
    \/ \E d \in Kinds : UpdatePosition(d)
    \/ \E again \in BOOLEAN : AdjustPan(again) \/ AdjustPanOfRemoved(again)
    \/ DisableMapDrag \/ EnableMapDrag \/ RemoveMarker \/ AddMarker

DragSpec == DragInit /\ [][DragNext]_dragVars

-----------------------------------------------------------------------------
DragTypeOK ==
    /\ hand \in [device : Devices, pressed : 0..2]
    /\ dragging \in Kinds \cup {Nobody}
    /\ drags \in [Kinds -> [enabled : BOOLEAN, listening : BOOLEAN,
                            moved : BOOLEAN, moving : BOOLEAN, frame : BOOLEAN,
                            open : BOOLEAN, spoilt : BOOLEAN]]
    /\ marker \in [shown : BOOLEAN, panFrame : BOOLEAN, stray : BOOLEAN]

(* Whatever is pressed, released unseen, removed or disabled meanwhile,    *)
(* the one that listens to the hand is the one that holds the static       *)
(* field: two things are never dragged at once, and the field never stays  *)
(* taken by something that no longer listens, which would stop all others. *)
OneDragAtATime == \A d \in Kinds : drags[d].listening <=> dragging = d

(* A drag that was announced is going on, and frames that move something   *)
(* come only during such a drag, unless another button or finger was       *)
(* pressed meanwhile or the marker was removed.                            *)
DragsEnd ==
    \A d \in Kinds : ~drags[d].spoilt =>
        /\ drags[d].open => drags[d].listening /\ drags[d].moving
        /\ drags[d].frame => drags[d].open
        /\ d = "marker" /\ marker.panFrame => drags[d].open

(* Of the map and a marker at most one is dragged at any time, and its     *)
(* drag ends with the hand.                                                *)
DragsAreOrderly == DragTypeOK /\ OneDragAtATime /\ DragsEnd

=============================================================================
