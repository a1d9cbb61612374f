------------------------------ MODULE MapLayers ------------------------------
(***************************************************************************)
(* What stands on a map of app/assets/javascripts/leaflet.js: the registry *)
(* of layers, which are added before or after the map has its first view,  *)
(* groups that add and remove their members, popups bound to layers, and   *)
(* the credits of the attribution control. Every call runs to its end with *)
(* the listeners that it triggers; an action is one call.                  *)
(*                                                                         *)
(* Leaves are markers and images, which can be clicked. Groups hold leaves,*)
(* not groups; all leaves that credit a source credit the same one.        *)
(***************************************************************************)
EXTENDS Integers, Sequences, SequencesExt, FiniteSetsExt

CONSTANTS
    Leaves, Groups, Popups,
    Credited,     \* leaves with an attribution
    MaxControls,  \* bound: how often the attribution control is added
    NoPopup, NoSource

Layers == Leaves \cup Groups \cup Popups

ASSUME LayersAssumption ==
    /\ IsFiniteSet(Layers) /\ Credited \subseteq Leaves
    /\ Leaves \cap Groups = {} /\ (Leaves \cup Groups) \cap Popups = {}
    /\ {NoPopup, NoSource} \cap Layers = {}
    /\ MaxControls \in Nat

VARIABLE reg      \* the fields of the map, its layers and its controls

LayersInit ==
    \E control \in BOOLEAN :
    reg = [loaded |-> FALSE,
           layers |-> {},         \* _layers of the map
           waiting |-> <<>>,      \* `load` listeners: _layerAdd of layers
           mapped |-> {},         \* layers whose _map is set
           shows |-> [l \in Layers |-> 0],  \* onAdd() less onRemove()
           members |-> [g \in Groups |-> {}],
           popupOf |-> [l \in Leaves \cup Groups |-> NoPopup],
           handlersAdded |-> {},  \* layers with _popupHandlersAdded
           listening |-> {},      \* layers with the listeners it stands for
           source |-> [p \in Popups |-> NoSource],
           current |-> NoPopup,   \* _popup of the map
           guards |-> {},         \* layers that keep preclick to themselves
           credits |-> 0,         \* _attributions[text]
           control |-> control,   \* attributionControl is set
           controls |-> 0,
           early |-> {},          \* history: removed before the first view
           strayed |-> FALSE]     \* history: an open popup changed its source

-----------------------------------------------------------------------------
(* Popups on the map                                                       *)

Credits(r, l) == IF l \in Credited /\ r.control THEN 1 ELSE 0

(* Mutant: _layerAdd does not ask whether the map still has the layer. *)
LayerAddLeaf_Unasked(r, l) ==
    [r EXCEPT !.mapped = @ \cup {l},
              !.shows[l] = @ + 1,
              !.credits = @ + Credits(r, l),
              !.guards = IF l \in Popups /\ r.source[l] # NoSource
                           THEN @ \cup {r.source[l]} ELSE @]

(* _layerAdd of anything but a group; a popup makes its source keep        *)
(* preclick to itself.                                                     *)
LayerAddLeaf(r, l) ==
    IF l \notin r.layers THEN r
    ELSE [r EXCEPT
            !.mapped = @ \cup {l},
            !.shows[l] = @ + 1,
            !.credits = @ + Credits(r, l),
            !.guards = IF l \in Popups /\ r.source[l] # NoSource
                         THEN @ \cup {r.source[l]} ELSE @]

Register(r, l) ==
    [r EXCEPT !.layers = @ \cup {l},
              !.waiting = IF r.loaded \/ Contains(@, l) THEN @ ELSE Append(@, l)]

AddLeaf(r, l) ==
    IF l \in r.layers THEN r
    ELSE LET n == Register(r, l) IN IF r.loaded THEN LayerAddLeaf(n, l) ELSE n

(* Mutant: removeAttribution() does not mind what was never added. *)
Unregister_BelowZero(r, l) ==
    [r EXCEPT
        !.layers = @ \ {l},
        !.shows[l] = IF r.loaded THEN 0 ELSE @,
        !.guards = IF r.loaded /\ l \in Popups THEN @ \ {r.source[l]} ELSE @,
        !.credits = @ - Credits(r, l),
        !.early = IF r.loaded THEN @ \ {l} ELSE @ \cup {l}]

(* Mutant: a popup that closes leaves its source as it is. *)
Unregister_KeepGuard(r, l) ==
    [r EXCEPT
        !.layers = @ \ {l},
        !.shows[l] = IF r.loaded THEN 0 ELSE @,
        !.credits = IF @ > 0 THEN @ - Credits(r, l) ELSE @,
        !.early = IF r.loaded THEN @ \ {l} ELSE @ \cup {l}]

(* What removeLayer() does before it tells the layer. *)
Unregister(r, l) ==
    [r EXCEPT
        !.layers = @ \ {l},
        !.shows[l] = IF r.loaded THEN 0 ELSE @,
        !.guards = IF r.loaded /\ l \in Popups THEN @ \ {r.source[l]} ELSE @,
        !.credits = IF @ > 0 THEN @ - Credits(r, l) ELSE @,
        !.early = IF r.loaded THEN @ \ {l} ELSE @ \cup {l}]

RemovePopup(r, p) ==
    IF p \notin r.layers THEN r
    ELSE [Unregister(r, p) EXCEPT !.mapped = @ \ {p}]

ClosePopup(r, p) ==
    RemovePopup(IF p = r.current THEN [r EXCEPT !.current = NoPopup] ELSE r, p)

(* Mutant: the popup that is open stays open. *)
OpenPopup_Another(r, p) ==
    IF p \in r.layers THEN r ELSE AddLeaf([r EXCEPT !.current = p], p)

(* Popups have autoClose, the default.                                     *)
OpenPopup(r, p) ==
    IF p \in r.layers THEN r
    ELSE LET n == IF r.current = NoPopup THEN r ELSE ClosePopup(r, r.current) IN
         AddLeaf([n EXCEPT !.current = p], p)

-----------------------------------------------------------------------------
(* Popups of layers                                                        *)

LayerClosePopup(r, l) ==
    IF r.popupOf[l] \in r.mapped THEN ClosePopup(r, r.popupOf[l]) ELSE r

SetSource(r, p, l) ==
    [r EXCEPT !.source[p] = l,
              !.strayed = @ \/ (p \in r.mapped /\ r.source[p] # l)]

(* The popup of a group opens at its first member if no layer is given;    *)
(* with no member there is no place for it and the call fails.             *)
Places(r, l, layer) ==
    IF layer \in Groups THEN r.members[l] ELSE {layer}

LayerOpenPopup(r, l, layer) ==
    IF r.popupOf[l] = NoPopup \/ l \notin r.mapped \/ Places(r, l, layer) = {}
      THEN {r}
      ELSE {OpenPopup(SetSource(r, r.popupOf[l], place), r.popupOf[l]) :
               place \in Places(r, l, layer)}

(* _openPopup: a click closes the popup that is open at the layer.         *)
OpenOnClick(r, l, layer) ==
    IF l \notin r.listening THEN {r}
    ELSE IF /\ r.popupOf[l] \in r.layers /\ l \in r.mapped
            /\ r.source[r.popupOf[l]] = layer
           THEN {LayerClosePopup(r, l)}
           ELSE LayerOpenPopup(r, l, layer)

BindPopup(l, p) ==
    /\ reg.popupOf[l] # p
    /\ reg' = LET n == SetSource(reg, p, l) IN
              [n EXCEPT !.popupOf[l] = p,
                        !.handlersAdded = @ \cup {l},
                        !.listening = IF l \in n.handlersAdded THEN @
                                        ELSE @ \cup {l}]

(* Mutant: the layer forgets that its listeners are gone. *)
UnbindPopup_KeepFlag(l) ==
    /\ reg.popupOf[l] # NoPopup
    /\ reg' = [reg EXCEPT !.popupOf[l] = NoPopup, !.listening = @ \ {l}]

UnbindPopup(l) ==
    /\ reg.popupOf[l] # NoPopup
    /\ reg' = [reg EXCEPT !.popupOf[l] = NoPopup, !.listening = @ \ {l},
                          !.handlersAdded = @ \ {l}]

-----------------------------------------------------------------------------
(* Layers of any kind                                                      *)

(* Once there is a view the layer hears `remove`, which closes its popup.  *)
RemoveLeaf(r, l) ==
    IF l \notin r.layers THEN r
    ELSE LET n == Unregister(r, l)
             k == IF r.loaded /\ l \in n.listening THEN LayerClosePopup(n, l) ELSE n IN
         [k EXCEPT !.mapped = @ \ {l}]

LayerAdd(r, l) ==
    LET n == LayerAddLeaf(r, l) IN
    IF l \in Groups /\ l \in r.layers
      THEN FoldSet(LAMBDA c, a : AddLeaf(a, c), n, r.members[l])
      ELSE n

AddLayer(r, l) ==
    IF l \in r.layers THEN r
    ELSE LET n == Register(r, l) IN IF r.loaded THEN LayerAdd(n, l) ELSE n

RemoveLayer(r, l) ==
    RemoveLeaf(IF l \in Groups /\ l \in r.layers /\ r.loaded
                 THEN FoldSet(LAMBDA c, a : RemoveLeaf(a, c), r, r.members[l])
                 ELSE r, l)

-----------------------------------------------------------------------------
(* Calls                                                                   *)

LayerAddTo(l) ==
    /\ l \notin reg.layers
    /\ reg' = AddLayer(reg, l)

LayerRemoveFrom(l) ==
    /\ l \in reg.layers
    /\ reg' = RemoveLayer(reg, l)

GroupAddLayer(g, l) ==
    /\ l \notin reg.members[g]
    /\ reg' = LET n == [reg EXCEPT !.members[g] = @ \cup {l}] IN
              IF g \in reg.mapped THEN AddLayer(n, l) ELSE n

GroupRemoveLayer(g, l) ==
    /\ l \in reg.members[g]
    /\ reg' = LET n == IF g \in reg.mapped THEN RemoveLayer(reg, l) ELSE reg IN
              [n EXCEPT !.members[g] = @ \ {l}]

ClearLayers(g) ==
    /\ reg.members[g] # {}
    /\ reg' = [FoldSet(LAMBDA c, a : IF g \in a.mapped THEN RemoveLeaf(a, c) ELSE a,
                       reg, reg.members[g])
                 EXCEPT !.members[g] = {}]

(* setView() for the first time: `load` reaches the layers that wait, in   *)
(* the order in which they came, and those that have gone since. The map   *)
(* never fires it again.                                                   *)
Load ==
    /\ ~reg.loaded
    /\ reg' = FoldLeft(LayerAdd, [reg EXCEPT !.loaded = TRUE, !.waiting = <<>>],
                       reg.waiting)

(* A page opens popups once its map has a view.                            *)
OpenOn(p) ==
    /\ reg.loaded
    /\ reg' = OpenPopup(reg, p)

CloseOn(p) ==
    /\ p \in reg.layers
    /\ reg' = ClosePopup(reg, p)

LayerOpen(l) == reg' \in LayerOpenPopup(reg, l, l)

LayerClose(l) == reg' = LayerClosePopup(reg, l)

(* The click goes to the leaf, then to the groups it is in.                *)
ClickLeaf(l) ==
    /\ l \in reg.mapped
    /\ \E n \in OpenOnClick(reg, l, l) :
          \E s \in SetToSeqs(Groups) :
             reg' \in FoldLeft(LAMBDA S, g : UNION {
                                  IF l \in r.members[g] THEN OpenOnClick(r, g, l)
                                                        ELSE {r} : r \in S},
                               {n}, s)

(* preclick on the map closes what is open.                                *)
ClickMap ==
    /\ reg.mapped \cap Popups # {}
    /\ reg' = FoldSet(LAMBDA p, a : IF p \in a.mapped THEN ClosePopup(a, p) ELSE a,
                      reg, Popups)

(* Mutant: the control starts from nothing. *)
AddCredits_FromNothing ==
    /\ reg.controls < MaxControls
    /\ reg' = [reg EXCEPT !.control = TRUE, !.controls = @ + 1]

(* The control counts all layers there are, those that wait included; it   *)
(* can be taken off and added again but stays the map's attributionControl.*)
AddCredits ==
    /\ reg.controls < MaxControls
    /\ reg' = [reg EXCEPT !.control = TRUE, !.controls = @ + 1,
                          !.credits = @ + Cardinality(Credited \cap reg.layers)]

LayersNext ==
    \/ \E l \in Layers \ Popups : LayerAddTo(l)
    \/ \E l \in Layers : LayerRemoveFrom(l)
    \/ \E g \in Groups, l \in Leaves :
          GroupAddLayer(g, l) \/ GroupRemoveLayer(g, l)
    \/ \E g \in Groups : ClearLayers(g)
    \/ Load
    \/ \E p \in Popups : OpenOn(p) \/ CloseOn(p)
    \/ \E l \in Leaves \cup Groups :
          \/ \E p \in Popups : BindPopup(l, p)
          \/ UnbindPopup(l) \/ LayerOpen(l) \/ LayerClose(l)
    \/ \E l \in Leaves : ClickLeaf(l)
    \/ ClickMap
    \/ AddCredits

LayersSpec == LayersInit /\ [][LayersNext]_reg

-----------------------------------------------------------------------------
LayersTypeOK ==
    /\ {reg.loaded, reg.control, reg.strayed} \subseteq BOOLEAN
    /\ reg.layers \subseteq Layers /\ reg.mapped \subseteq Layers
    /\ reg.waiting \in Seq(Layers)
    /\ reg.shows \in [Layers -> Nat]
    /\ reg.members \in [Groups -> SUBSET Leaves]
    /\ reg.popupOf \in [Leaves \cup Groups -> Popups \cup {NoPopup}]
    /\ reg.handlersAdded \subseteq Layers /\ reg.listening \subseteq Layers
    /\ reg.source \in [Popups -> Layers \cup {NoSource}]
    /\ reg.current \in Popups \cup {NoPopup}
    /\ reg.guards \subseteq Layers
    /\ reg.credits \in Nat /\ reg.controls \in 0..MaxControls
    /\ reg.early \subseteq Layers

(* Whatever the way it came and went, alone or with a group, before or     *)
(* after the first view, a layer is shown exactly when the map has it, and *)
(* shown once - unless it was removed before the first view: the listener  *)
(* left behind may then show it a second time when a group brings it back. *)
ShownOnce ==
    \A l \in Layers :
        /\ l \in reg.mapped <=> reg.loaded /\ l \in reg.layers
        /\ l \notin reg.mapped => reg.shows[l] = 0
        /\ l \in reg.mapped => reg.shows[l] >= 1
        /\ l \notin reg.early => reg.shows[l] <= 1

(* Popups are opened from clicks, from layers and on the map itself; at    *)
(* most one is open and the map knows which.                               *)
OnePopup == reg.layers \cap Popups \subseteq {reg.current}

(* A layer that leaves the map takes the popup along that is bound to it,  *)
(* however often popups were bound and unbound before.                     *)
RemovalClosesPopup ==
    \A l \in Leaves \cup Groups :
        /\ l \in reg.mapped /\ l \notin reg'.mapped
        /\ reg.popupOf[l] # NoPopup
        => reg.popupOf[l] \notin reg'.layers

(* A layer keeps preclick to itself while it is the source of the open     *)
(* popup and no longer, unless a popup changed its source while open.      *)
GuardsOpenSource ==
    ~reg.strayed =>
        reg.guards = {reg.source[p] : p \in reg.mapped \cap Popups} \ {NoSource}

(* As long as a layer is on the map its source is credited, whenever the   *)
(* control was added or added again.                                       *)
CreditsAreShown ==
    reg.control => reg.credits >= Cardinality(Credited \cap reg.mapped)

(* The registers of the map, its groups, its popups and the attribution    *)
(* agree after every step, and removal closes popups.                      *)
RegistersAgree ==
    [][reg' # reg =>
          /\ LayersTypeOK' /\ ShownOnce' /\ OnePopup'
          /\ GuardsOpenSource' /\ CreditsAreShown'
          /\ RemovalClosesPopup]_reg

=============================================================================
