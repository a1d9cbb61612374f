------------------------------- MODULE Tooltips -------------------------------
(***************************************************************************)
(* Tooltips bound to a layer of a map (L.Tooltip, and L.DivOverlay, which  *)
(* popups share, of app/assets/javascripts/leaflet.js): they follow the    *)
(* mouse, fade out with a timeout, and come and go with their layer. The   *)
(* map has a view; where a tooltip is placed is left out.                  *)
(***************************************************************************)
EXTENDS FiniteSets

CONSTANTS
    HoverTips, StickyTips, PermanentTips,   \* tooltips, by their options
    NoTip

Tips == HoverTips \cup StickyTips \cup PermanentTips

ASSUME TipsAssumption ==
    /\ NoTip \notin Tips
    /\ PermanentTips \cap (HoverTips \cup StickyTips) = {}

VARIABLES
    owner,        \* the layer
    tips          \* the tooltips

tipVars == <<owner, tips>>

TipInit ==
    /\ \E touch \in BOOLEAN :
          owner = [onMap |-> FALSE, tip |-> NoTip, touch |-> touch,
                   handlersAdded |-> FALSE,    \* _tooltipHandlersAdded
                   listens |-> {},             \* types of events
                   mixed |-> FALSE,    \* history: listens for another's sake
                   closed |-> FALSE]   \* history: closed by a call
    /\ tips = [t \in Tips |->
                 [onMap |-> FALSE, inPane |-> FALSE, fading |-> FALSE,
                  left |-> FALSE]]     \* history: replaced while open

-----------------------------------------------------------------------------
(* On the map. A state of both variables is passed on as s.                *)

All == [owner |-> owner, tips |-> tips]

Turn(s) == owner' = s.owner /\ tips' = s.tips

(* Mutant: the timeout of the last fading goes on. *)
OverlayOnAdd_KeepTimer(s, t) ==
    [s EXCEPT !.tips[t].onMap = TRUE, !.tips[t].inPane = TRUE]

OverlayOnAdd(s, t) ==
    [s EXCEPT !.tips[t].onMap = TRUE, !.tips[t].inPane = TRUE,
              !.tips[t].fading = FALSE]

(* The element goes 200 ms later.                                          *)
OverlayOnRemove(s, t) ==
    [s EXCEPT !.tips[t].onMap = FALSE, !.tips[t].fading = TRUE,
              !.tips[t].left = FALSE]

MapOpenTooltip(s, t) == IF s.tips[t].onMap THEN s ELSE OverlayOnAdd(s, t)

MapCloseTooltip(s, t) == IF s.tips[t].onMap THEN OverlayOnRemove(s, t) ELSE s

-----------------------------------------------------------------------------
(* Of the layer                                                            *)

LayerOpenTip(s) ==
    IF s.owner.tip = NoTip \/ ~s.owner.onMap THEN s
    ELSE [MapOpenTooltip(s, s.owner.tip) EXCEPT !.owner.closed = FALSE]

LayerCloseTip(s) ==
    IF s.owner.tip = NoTip THEN s ELSE MapCloseTooltip(s, s.owner.tip)

(* Mutant: nobody waits for the layer to be added. *)
TipEvents_NoAdd(t) ==
    {"remove", "move"}
      \cup (IF t \in PermanentTips THEN {} ELSE {"mouseover", "mouseout"})
      \cup (IF t \in StickyTips THEN {"mousemove"} ELSE {})
      \cup (IF t \notin PermanentTips /\ owner.touch THEN {"click"} ELSE {})

TipEvents(t) ==
    {"remove", "move"}
      \cup (IF t \in PermanentTips THEN {"add"} ELSE {"mouseover", "mouseout"})
      \cup (IF t \in StickyTips THEN {"mousemove"} ELSE {})
      \cup (IF t \notin PermanentTips /\ owner.touch THEN {"click"} ELSE {})

(* A layer that listens already goes on as it did for another tooltip.     *)
AddTipInteractions(s) ==
    IF s.owner.handlersAdded THEN s
    ELSE [s EXCEPT !.owner.listens = @ \cup TipEvents(s.owner.tip),
                   !.owner.handlersAdded = TRUE]

RemoveTipInteractions(s) ==
    [s EXCEPT !.owner.listens = @ \ TipEvents(s.owner.tip),
              !.owner.handlersAdded = FALSE]

BindTooltip(t) ==
    /\ owner.tip # t
    /\ LET old == owner.tip
           n == AddTipInteractions([All EXCEPT !.owner.tip = t, !.owner.closed = FALSE])
           m == [n EXCEPT
                   !.owner.mixed = @ \/ n.owner.listens # TipEvents(t),
                   !.tips = [u \in Tips |->
                       [tips[u] EXCEPT !.left = @ \/ (u = old /\ tips[u].onMap)]]]
       IN Turn(IF t \in PermanentTips THEN LayerOpenTip(m) ELSE m)

(* Mutant: an unbound tooltip stays open. *)
UnbindTooltip_Open ==
    /\ owner.tip # NoTip
    /\ Turn([RemoveTipInteractions(All) EXCEPT !.owner.tip = NoTip])

UnbindTooltip ==
    /\ owner.tip # NoTip
    /\ Turn([LayerCloseTip(RemoveTipInteractions(All)) EXCEPT !.owner.tip = NoTip])

AddOwner ==
    /\ ~owner.onMap
    /\ LET s == [All EXCEPT !.owner.onMap = TRUE] IN
       Turn(IF "add" \in owner.listens THEN LayerOpenTip(s) ELSE s)

RemoveOwner ==
    /\ owner.onMap
    /\ LET s == IF "remove" \in owner.listens THEN LayerCloseTip(All) ELSE All IN
       Turn([s EXCEPT !.owner.onMap = FALSE, !.owner.closed = FALSE])

(* mouseover, mouseout and click reach layers on the map only.             *)
TipMouse(type) ==
    /\ owner.onMap /\ type \in owner.listens
    /\ Turn(IF type = "mouseout" THEN LayerCloseTip(All) ELSE LayerOpenTip(All))

(* The map hears a click first, and closes what is open; only on a screen  *)
(* that can be touched.                                                    *)
TipPreclick ==
    /\ owner.touch
    /\ owner' = owner
    /\ tips' = [t \in Tips |->
                  IF t \in PermanentTips \/ ~tips[t].onMap THEN tips[t]
                  ELSE OverlayOnRemove(All, t).tips[t]]

CallOpenTooltip == Turn(LayerOpenTip(All))

CallCloseTooltip == Turn(LayerCloseTip([All EXCEPT !.owner.closed = TRUE]))

ToggleTooltip ==
    /\ owner.tip # NoTip
    /\ IF tips[owner.tip].onMap THEN CallCloseTooltip ELSE CallOpenTooltip

CallMapCloseTooltip(t) == Turn(MapCloseTooltip([All EXCEPT !.owner.closed = TRUE], t))

FadeTimeout(t) ==
    /\ tips[t].fading
    /\ tips' = [tips EXCEPT ![t].fading = FALSE, ![t].inPane = FALSE]
    /\ UNCHANGED owner

TipNext ==
    \/ \E t \in Tips : BindTooltip(t) \/ CallMapCloseTooltip(t) \/ FadeTimeout(t)
    \/ UnbindTooltip \/ AddOwner \/ RemoveOwner
    \/ \E type \in {"mouseover", "mouseout", "click"} : TipMouse(type)
    \/ TipPreclick
    \/ CallOpenTooltip \/ CallCloseTooltip \/ ToggleTooltip

TipSpec == TipInit /\ [][TipNext]_tipVars

-----------------------------------------------------------------------------
TipTypeOK ==
    /\ owner \in [onMap : BOOLEAN, tip : Tips \cup {NoTip}, touch : BOOLEAN,
                  handlersAdded : BOOLEAN,
                  listens : SUBSET {"remove", "move", "mouseover", "mouseout",
                                    "mousemove", "click", "add"},
                  mixed : BOOLEAN, closed : BOOLEAN]
    /\ tips \in [Tips -> [onMap : BOOLEAN, inPane : BOOLEAN, fading : BOOLEAN,
                          left : BOOLEAN]]

(* A tooltip on the map has its element in the page, however quickly it    *)
(* was closed and opened again while it faded out.                         *)
OpenTipIsThere == \A t \in Tips : tips[t].onMap => tips[t].inPane

(* A tooltip is on the map only while its layer is and as long as it is    *)
(* bound, unless another was bound in its place while it was open.         *)
TipsGoWithOwner ==
    \A t \in Tips : tips[t].onMap /\ ~tips[t].left => owner.onMap /\ owner.tip = t

(* A permanent tooltip is shown as long as its layer is on the map, if     *)
(* nobody closed it and no tooltip of another kind was bound before it.    *)
PermanentTipStays ==
    /\ owner.onMap /\ owner.tip \in PermanentTips
    /\ ~owner.mixed /\ ~owner.closed
    => tips[owner.tip].onMap

(* A tooltip comes, stays and goes with its layer.                         *)
TipsFollowLayer ==
    TipTypeOK /\ OpenTipIsThere /\ TipsGoWithOwner /\ PermanentTipStays

=============================================================================
