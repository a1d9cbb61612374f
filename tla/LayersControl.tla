----------------------------- MODULE LayersControl -----------------------------
(***************************************************************************)
(* The list of layers in a corner of the map, L.Control.Layers of          *)
(* app/assets/javascripts/leaflet.js: radio buttons for base layers, of    *)
(* which one is shown, and check boxes for overlays. It follows the map,   *)
(* which follows a click into the list.                                    *)
(***************************************************************************)
EXTENDS Integers, Sequences, SequencesExt, FiniteSetsExt

CONSTANTS
    Bases, Overlays,
    Deep,          \* layers with minZoom 1; the map is at zoom 0 or 1
    MaxEntries     \* bound: entries of the list

ASSUME ListAssumption ==
    /\ IsFiniteSet(Bases \cup Overlays) /\ Bases \cap Overlays = {}
    /\ Deep \subseteq Bases \cup Overlays
    /\ MaxEntries \in Nat

VARIABLE listing      \* the fields of the control, and of the map it reads

Listable == Bases \cup Overlays

Input == [layer : Listable, checked : BOOLEAN, disabled : BOOLEAN]

ListControlInit ==
    \E collapsed, reacts \in BOOLEAN :
    listing = [onMap |-> FALSE, collapsed |-> collapsed,
            broken |-> FALSE,     \* addTo() failed half way
            entries |-> <<>>,     \* _layers
            inputs |-> <<>>,      \* _layerControlInputs
            heard |-> {},         \* layers whose `add` and `remove` it hears
            shown |-> {},         \* layers on the map
            zoom |-> 0,
            reacts |-> reacts,    \* the page hides overlays on baselayerchange
            stale |-> FALSE]      \* history: the page did so during a click

-----------------------------------------------------------------------------
(* The list                                                                *)

Listed(c) == ToSet(c.entries)

ListedBases == Bases \cap Listed(listing)

DisabledAt(l, zoom) == l \in Deep /\ zoom < 1

(* Radio buttons of one name: only the last that is checked stays so.      *)
CheckedAt(c, i) ==
    /\ c.entries[i] \in c.shown
    /\ c.entries[i] \in Bases =>
         \A j \in (i + 1)..Len(c.entries) :
            ~(c.entries[j] \in Bases /\ c.entries[j] \in c.shown)

(* _update, with _addItem and _checkDisabledLayers                         *)
UpdateList(c) ==
    [c EXCEPT
       !.inputs = [i \in 1..Len(c.entries) |->
                     [layer |-> c.entries[i], checked |-> CheckedAt(c, i),
                      disabled |-> DisabledAt(c.entries[i], c.zoom)]],
       !.stale = FALSE]

CheckDisabled(c) ==
    [c EXCEPT !.inputs = [i \in DOMAIN @ |->
        [@[i] EXCEPT !.disabled = DisabledAt(c.inputs[i].layer, c.zoom)]]]

(* expand() looks up every input's layer in the list; during onAdd the     *)
(* inputs are still those of the time before.                              *)
ExpandFails(c) == \E i \in DOMAIN c.inputs : c.inputs[i].layer \notin Listed(c)

(* Mutant: a layer that comes later is not heard. *)
AddEntry_Unheard(c, l) == [c EXCEPT !.entries = Append(@, l)]

AddEntry(c, l) ==
    [c EXCEPT !.entries = Append(@, l),
              !.heard = IF c.onMap THEN @ \cup {l} ELSE @]

(* The first entry of the layer, whose events are no longer heard.         *)
DropEntry(c, l) ==
    [c EXCEPT !.heard = @ \ {l},
              !.entries = IF l \in ToSet(@) THEN RemoveFirst(@, l) ELSE @]

-----------------------------------------------------------------------------
(* The map, and what the control makes of its events                       *)

HideLayer(c, l, handlingClick) ==
    LET n == [c EXCEPT !.shown = @ \ {l}] IN
    CASE l \notin c.shown -> c
      [] l \in c.shown /\ l \in c.heard /\ ~handlingClick -> UpdateList(n)
      [] OTHER -> n

(* baselayerchange, and a page that answers by hiding the overlays.        *)
BaseChanged(c, handlingClick) ==
    IF ~c.reacts THEN c
    ELSE [FoldSet(LAMBDA l, a : HideLayer(a, l, handlingClick), c, Overlays)
            EXCEPT !.stale = @ \/ (handlingClick /\ c.shown \cap Overlays # {})]

ShowLayer(c, l, handlingClick) ==
    LET n == [c EXCEPT !.shown = @ \cup {l}] IN
    CASE l \in c.shown -> c
      [] l \notin c.shown /\ l \in c.heard ->
           LET k == IF handlingClick THEN n ELSE UpdateList(n) IN
           IF l \in Bases THEN BaseChanged(k, handlingClick) ELSE k
      [] OTHER -> n

ShowOnMap(l) == l \notin listing.shown /\ listing' = ShowLayer(listing, l, FALSE)

HideFromMap(l) == l \in listing.shown /\ listing' = HideLayer(listing, l, FALSE)

ListZoomEnd(zoom) ==
    /\ zoom # listing.zoom
    /\ LET c == [listing EXCEPT !.zoom = zoom] IN
       listing' = IF c.onMap /\ ~c.broken THEN CheckDisabled(c) ELSE c

-----------------------------------------------------------------------------
(* Calls, and clicks                                                       *)

(* A control that is not collapsed expands in the middle of onAdd.         *)
AddListControl ==
    /\ ~listing.onMap
    /\ LET c == [listing EXCEPT !.onMap = TRUE] IN
       listing' = IF ~c.collapsed /\ ExpandFails(c)
                 THEN [c EXCEPT !.broken = TRUE]
                 ELSE UpdateList([c EXCEPT !.heard = @ \cup Listed(c)])

RemoveListControl ==
    /\ listing.onMap
    /\ listing' = [listing EXCEPT !.onMap = FALSE, !.broken = FALSE,
                            !.heard = @ \ Listed(listing)]

(* A layer is listed once. The control expands before its list is updated. *)
AddToList(l) ==
    /\ Len(listing.entries) < MaxEntries
    /\ l \notin Listed(listing)
    /\ LET c == AddEntry(listing, l)
           expanded == c.onMap /\ (c.collapsed \/ ~ExpandFails(c))
       IN  listing' = IF expanded THEN UpdateList(c) ELSE c

RemoveFromList(l) ==
    /\ l \in Listed(listing)
    /\ LET c == DropEntry(listing, l) IN
       listing' = IF c.onMap THEN UpdateList(c) ELSE c

(* What the browser does to the inputs.                                    *)
ToggleInput(c, i) ==
    IF c.inputs[i].layer \in Overlays
      THEN [c EXCEPT !.inputs[i].checked = ~@]
      ELSE [c EXCEPT !.inputs = [j \in DOMAIN @ |->
              IF @[j].layer \in Bases THEN [@[j] EXCEPT !.checked = (j = i)]
                                      ELSE @[j]]]

(* From the last input to the first: what is chosen is added to the map.   *)
AddChosen(boxes, c) ==
    FoldRight(LAMBDA box, a : IF box.checked THEN ShowLayer(a, box.layer, TRUE) ELSE a,
              boxes, c)

(* Mutant: what is no longer chosen stays. *)
OnInputClick_Add(c) == AddChosen(c.inputs, c)

(* Everything that is not chosen is removed before.                        *)
OnInputClick(c) ==
    AddChosen(c.inputs,
        FoldRight(LAMBDA box, a : IF box.checked THEN a ELSE HideLayer(a, box.layer, TRUE),
                  c.inputs, c))

ClickInput(i) ==
    /\ listing.onMap /\ ~listing.broken
    /\ i \in DOMAIN listing.inputs /\ ~listing.inputs[i].disabled
    /\ listing' = OnInputClick(ToggleInput(listing, i))

ListControlNext ==
    \/ \E l \in Listable : \/ ShowOnMap(l) \/ HideFromMap(l)
                           \/ AddToList(l) \/ RemoveFromList(l)
    \/ \E zoom \in 0..1 : ListZoomEnd(zoom)
    \/ AddListControl \/ RemoveListControl
    \/ \E i \in 1..MaxEntries : ClickInput(i)

ListControlSpec == ListControlInit /\ [][ListControlNext]_listing

-----------------------------------------------------------------------------
ListTypeOK ==
    listing \in [onMap : BOOLEAN, collapsed : BOOLEAN, broken : BOOLEAN,
                 entries : SeqOf(Listable, MaxEntries), inputs : Seq(Input),
                 heard : SUBSET Listable, shown : SUBSET Listable, zoom : 0..1,
                 reacts : BOOLEAN, stale : BOOLEAN]

(* The list shows what is on the map and what the zoom allows, whoever     *)
(* added or removed layers and wherever they were added to the list; only  *)
(* a page that changes layers while a click is handled makes it stale, and *)
(* one radio button cannot show two base layers. A control that failed to  *)
(* expand when it came to the map, because its old inputs showed a layer   *)
(* that was dropped since, stays broken until it is removed.               *)
ListShowsMap ==
    listing.onMap /\ ~listing.broken /\ ~listing.stale =>
        /\ [i \in DOMAIN listing.inputs |-> listing.inputs[i].layer] = listing.entries
        /\ \A i \in DOMAIN listing.inputs :
              LET l == listing.inputs[i].layer IN
              /\ listing.inputs[i].disabled = DisabledAt(l, listing.zoom)
              /\ l \in Overlays \/ Cardinality(listing.shown \cap ListedBases) <= 1
                 => listing.inputs[i].checked = (l \in listing.shown)

(* After a click exactly one base layer of the list is on the map, however *)
(* many were there, if it was a click on one or one was chosen before.     *)
ClickLeavesOneBase ==
    \A i \in 1..MaxEntries : ClickInput(i) =>
        Cardinality(listing'.shown \cap ListedBases) =
            (IF \E j \in DOMAIN listing'.inputs :
                   listing'.inputs[j].layer \in Bases /\ listing'.inputs[j].checked
               THEN 1 ELSE 0)

(* The list tells what the map shows, and clicks on it do what they say,   *)
(* unless it is stale or broken, as said above.                            *)
ListAndMapAgree ==
    [][listing' # listing =>
           ListTypeOK' /\ ListShowsMap' /\ ClickLeavesOneBase]_listing

=============================================================================
