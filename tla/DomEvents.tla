------------------------------ MODULE DomEvents ------------------------------
(***************************************************************************)
(* How events of the browser become events of the map and its layers in    *)
(* app/assets/javascripts/leaflet.js: the clicks that controls keep to     *)
(* themselves by a flag instead of stopping them, the pointers that stand  *)
(* for touches, double taps, the clicks that Android sends twice, and the  *)
(* listeners that L.DomEvent keeps of an element. Each is a variable of    *)
(* its own; they do not know each other.                                   *)
(***************************************************************************)
EXTENDS Integers, FiniteSets, Sequences, SequencesExt

CONSTANTS
    Fingers,
    TapDelay,     \* delay between the taps of a double tap, in ticks
    MaxTime,      \* bound: ticks of the clocks
    MaxTaps,      \* bound: touches of Android, and dblclicks of one tap
    Hearers,      \* how many listeners hear those clicks
    Fns,          \* functions that listen to an element
    MaxHandlers   \* bound: how often they are added

ASSUME DomAssumption ==
    {TapDelay, MaxTime, MaxTaps, Hearers, MaxHandlers} \subseteq Nat \ {0}

VARIABLES clicks, pointers, taps, android, dom

domVars == <<clicks, pointers, taps, android, dom>>

-----------------------------------------------------------------------------
(* Clicks: a marker, a path drawn on the canvas, a control, a button of a  *)
(* control, and the map under them.                                        *)

Elements == {"map", "marker", "path", "control", "button"}

ClicksInit ==
    \E draggable, bubbles, stops \in BOOLEAN :
    clicks = [loaded |-> FALSE,
              skip |-> FALSE,           \* skipEvents.click
              draggable |-> draggable,  \* the marker
              bubbles |-> bubbles,      \* bubblingMouseEvents of the marker
              stops |-> stops,          \* layers stop the clicks they hear
              markerMoved |-> FALSE, mapMoved |-> FALSE,
              pressed |-> "map", moved |-> FALSE,
              stopped |-> FALSE,        \* _stopped of the event
              told |-> <<>>,            \* of the last click: <<object, type>>
              early |-> FALSE]          \* history: a control was clicked before
                                        \* the first view, and no click since

LoadMap ==
    /\ ~clicks.loaded
    /\ clicks' = [clicks EXCEPT !.loaded = TRUE]

(* A press, and a movement before the release, if any. Controls keep the   *)
(* press to themselves.                                                    *)
PressOn(on, moves) ==
    /\ on \in {"marker", "path"} \/ moves => clicks.loaded
    /\ clicks' = LET c == [clicks EXCEPT !.pressed = on, !.moved = moves] IN
                 CASE on \in {"control", "button"} -> c
                   [] on = "marker" /\ c.draggable ->
                        [c EXCEPT !.markerMoved = moves, !.mapMoved = FALSE]
                   [] OTHER -> [c EXCEPT !.mapMoved = moves]

DraggableMoved(c, o) ==
    IF o = "marker" /\ c.draggable THEN c.markerMoved ELSE c.mapMoved

(* From the element up to the map, as far as nothing was dragged.          *)
FindEventTargets(c, elements, simulated) ==
    LET dragged(i) == ~simulated /\ DraggableMoved(c, elements[i])
        n == CHOOSE n \in 0..Len(elements) :
                /\ \A i \in 1..n : ~dragged(i)
                /\ n < Len(elements) => dragged(n + 1) IN
    SubSeq(elements, 1, n)

(* The first target that stops the click or does not let it bubble is the  *)
(* last to hear it. preclick is not among _mouseEvents.                    *)
Deliver(c, type, targets) ==
    LET last(o) == type = "click" /\ o # "map"
                   /\ (c.stops \/ (o = "marker" /\ ~c.bubbles))
        ends == {i \in DOMAIN targets : last(targets[i])}
        n == IF ends = {} THEN Len(targets)
             ELSE CHOOSE i \in ends : \A j \in ends : i <= j
        halted == ends # {} /\ c.stops IN
    [c EXCEPT !.told = @ \o [i \in 1..n |-> <<targets[i], type>>],
              !.stopped = @ \/ halted, !.skip = @ /\ ~halted]

(* Mutant: an event that was stopped is fired again. *)
FireDOMEvent_Stopped(c, targets) ==
    Deliver(Deliver(c, "preclick", targets), "click", targets)

(* preclick is a copy of the event; what was stopped before stays so.      *)
FireDOMEvent(c, targets) ==
    IF c.stopped THEN c
    ELSE Deliver(Deliver(c, "preclick", targets), "click", targets)

(* Mutant: the flag is left as it is. *)
HandleDOMEvent_KeepFlag(c, elements, simulated) ==
    IF ~c.loaded \/ c.skip THEN c
    ELSE FireDOMEvent(c, FindEventTargets(c, elements, simulated))

(* The map's own handler; without a view it does not even reset the flag.  *)
HandleDOMEvent(c, elements, simulated) ==
    CASE ~c.loaded -> c
      [] c.loaded /\ c.skip -> [c EXCEPT !.skip = FALSE]
      [] OTHER -> FireDOMEvent(c, FindEventTargets(c, elements, simulated))

(* Canvas._onClick comes before the map's handler.                         *)
CanvasClick(c, simulated) ==
    IF DraggableMoved(c, "path") THEN c
    ELSE FireDOMEvent([c EXCEPT !.skip = TRUE],
                      <<"path">> \o FindEventTargets(c, <<"map">>, simulated))

Handled(c, on, simulated) ==
    CASE on = "map" -> HandleDOMEvent(c, <<"map">>, simulated)
      [] on = "marker" -> HandleDOMEvent(c, <<"marker", "map">>, simulated)
      [] on = "path" -> HandleDOMEvent(CanvasClick(c, simulated), <<"map">>, simulated)
      [] on = "control" -> HandleDOMEvent([c EXCEPT !.skip = TRUE], <<"map">>, simulated)
      [] on = "button" -> [c EXCEPT !.skip = FALSE]   \* stopped after fakeStop

ClickElement(simulated) ==
    clicks' = [Handled([clicks EXCEPT !.told = <<>>, !.stopped = FALSE],
                       clicks.pressed, simulated)
                 EXCEPT !.early = \/ ~clicks.loaded /\ clicks.pressed = "control"
                                  \/ clicks.early /\ ~clicks.loaded
                                     /\ clicks.pressed # "button"]

ClicksNext ==
    \/ LoadMap
    \/ \E on \in Elements, moves \in BOOLEAN : PressOn(on, moves)
    \/ \E simulated \in BOOLEAN : ClickElement(simulated)

-----------------------------------------------------------------------------
(* Pointers                                                                *)

PointersInit ==
    pointers = [listening |-> FALSE,    \* _pointerDocListener
                known |-> {},           \* _pointers
                count |-> 0,            \* _pointersCount
                down |-> {},            \* the fingers that touch the screen
                touches |-> {},         \* e.touches of the last event
                early |-> FALSE]        \* a finger was down before

AddPointerStart ==
    /\ ~pointers.listening
    /\ pointers' = [pointers EXCEPT !.listening = TRUE,
                                    !.early = pointers.down # {}]

(* The document hears it first; then e.touches is made.                    *)
PointerDown(f) ==
    /\ f \notin pointers.down
    /\ LET p == [pointers EXCEPT !.down = @ \cup {f}] IN
       pointers' = IF ~p.listening THEN p
                   ELSE [p EXCEPT !.known = @ \cup {f}, !.count = @ + 1,
                                  !.touches = p.known \cup {f}]

(* Mutant: a finger that was cancelled goes on being known. *)
GlobalPointerUp_KeepCancelled(p, f, cancelled) ==
    IF cancelled THEN p ELSE [p EXCEPT !.known = @ \ {f}, !.count = @ - 1]

GlobalPointerUp(p, f, cancelled) ==
    [p EXCEPT !.known = @ \ {f}, !.count = @ - 1]

PointerUp(f, cancelled) ==
    /\ f \in pointers.down
    /\ LET p == [pointers EXCEPT !.down = @ \ {f}] IN
       pointers' = IF ~p.listening THEN p
                   ELSE LET n == GlobalPointerUp(p, f, cancelled) IN
                        [n EXCEPT !.touches = n.known]

PointersNext ==
    \/ AddPointerStart
    \/ \E f \in Fingers : \/ PointerDown(f)
                          \/ \E cancelled \in BOOLEAN : PointerUp(f, cancelled)

-----------------------------------------------------------------------------
(* Double taps                                                             *)

NoTap == 0      \* `last` before the first tap; the clock starts at one

TapsInit ==
    taps = [now |-> 1, fingers |-> 0, last |-> NoTap, doubleTap |-> FALSE,
            times |-> 0,         \* dblclicks since the last tap began
            apart |-> 0,         \* history: ticks between the last two taps
            before |-> FALSE,    \* history: the tap before the last was double
            second |-> FALSE]    \* history: another finger joined

(* Mutant: the time of the tap is forgotten only by the next. *)
TapEnds_KeepLast(t) == [t EXCEPT !.times = @ + 1]

TapEnds(t) == [t EXCEPT !.times = @ + 1, !.last = NoTap]

TapStarts ==
    /\ taps.fingers < 2
    /\ taps.fingers = 1 => taps.times < MaxTaps
    /\ LET delta == IF taps.last = NoTap THEN 0 ELSE taps.now - taps.last IN
       taps' = IF taps.fingers = 1
                 THEN [taps EXCEPT !.fingers = 2, !.second = TRUE]
                 ELSE [taps EXCEPT !.fingers = 1, !.second = FALSE,
                          !.doubleTap = delta \in 1..TapDelay,
                          !.last = taps.now, !.times = 0, !.apart = delta,
                          !.before = taps.times > 0]

TapFinishes ==
    /\ taps.fingers > 0
    /\ LET t == [taps EXCEPT !.fingers = @ - 1] IN
       taps' = IF t.doubleTap THEN TapEnds(t) ELSE t

(* Nobody hears of it.                                                     *)
TapCancelled ==
    /\ taps.fingers > 0
    /\ taps' = [taps EXCEPT !.fingers = 0]

TapTick ==
    /\ taps.now < MaxTime
    /\ taps' = [taps EXCEPT !.now = @ + 1]

TapsNext == TapStarts \/ TapFinishes \/ TapCancelled \/ TapTick

-----------------------------------------------------------------------------
(* Clicks on Android, in ticks of 100 ms. A touch is a click and, some     *)
(* 300 ms later, another; L.Map.Tap makes a simulated click of it too.     *)

AndroidInit ==
    android = [now |-> 1, lastClick |-> 0, simulated |-> FALSE,
               at |-> <<>>,          \* when each touch was
               ghosts |-> {},        \* touches whose second click is to come
               told |-> <<>>]        \* how many listeners each touch reached

(* Mutant: clicks close to each other are dropped, however close. *)
Filtered_Close(a, simulated) ==
    \/ a.lastClick # 0 /\ a.now - a.lastClick < 5
    \/ a.simulated /\ ~simulated

(* More than 100 and less than 500 ms after the last, or not simulated on  *)
(* an element on which clicks have been.                                   *)
Filtered(a, simulated) ==
    \/ a.lastClick # 0 /\ a.now - a.lastClick \in 2..4
    \/ a.simulated /\ ~simulated

FilterClick(a, touch, simulated) ==
    IF Filtered(a, simulated) THEN a
    ELSE [a EXCEPT !.lastClick = a.now, !.told[touch] = @ + 1]

(* Every listener filters for itself; they share lastClick.                *)
AndroidClick(a, touch, simulated) ==
    LET heard[n \in 0..Hearers] ==
            IF n = 0 THEN a ELSE FilterClick(heard[n - 1], touch, simulated) IN
    heard[Hearers]

(* A finger needs 200 ms to come back.                                     *)
AndroidTouch(simulated) ==
    /\ Len(android.at) < MaxTaps
    /\ \A touch \in DOMAIN android.at : android.now - android.at[touch] >= 2
    /\ LET a == [android EXCEPT !.at = Append(@, android.now),
                                !.told = Append(@, 0),
                                !.ghosts = @ \cup {Len(android.at) + 1},
                                !.simulated = @ \/ simulated] IN
       android' = AndroidClick(a, Len(a.at), simulated)

AndroidGhost(touch) ==
    /\ touch \in android.ghosts
    /\ android.now - android.at[touch] \in 2..4
    /\ android' = AndroidClick([android EXCEPT !.ghosts = @ \ {touch}], touch, FALSE)

(* No ghost stays away for longer.                                         *)
AndroidTick ==
    /\ android.now < MaxTime
    /\ \A touch \in android.ghosts : android.now - android.at[touch] < 4
    /\ android' = [android EXCEPT !.now = @ + 1]

AndroidNext ==
    \/ \E simulated \in BOOLEAN : AndroidTouch(simulated)
    \/ \E touch \in 1..MaxTaps : AndroidGhost(touch)
    \/ AndroidTick

-----------------------------------------------------------------------------
(* The listeners of an element                                             *)

DomInit ==
    dom = [handlers |-> [f \in Fns |-> 0],    \* obj[eventsKey], 0 for none
           attached |-> {},                   \* what the browser calls
           made |-> <<>>,                     \* the function of each handler
           emptied |-> FALSE]                 \* history: off() without types

(* Mutant: whether the listener is there is not asked. *)
AddOne_Unasked(f) ==
    /\ Len(dom.made) < MaxHandlers
    /\ LET n == Len(dom.made) + 1 IN
       dom' = [dom EXCEPT !.handlers[f] = n, !.attached = @ \cup {n},
                          !.made = Append(@, f)]

AddOne(f) ==
    /\ Len(dom.made) < MaxHandlers
    /\ dom.handlers[f] = 0
    /\ LET n == Len(dom.made) + 1 IN
       dom' = [dom EXCEPT !.handlers[f] = n, !.attached = @ \cup {n},
                          !.made = Append(@, f)]

RemoveOne(f) ==
    /\ dom.handlers[f] # 0
    /\ dom' = [dom EXCEPT !.attached = @ \ {dom.handlers[f]}, !.handlers[f] = 0]

(* off(obj) looks the listeners up under names that they do not have: none *)
(* is removed and all are forgotten.                                       *)
OffElement ==
    /\ dom.attached # {}
    /\ dom' = [dom EXCEPT !.handlers = [f \in Fns |-> 0], !.emptied = TRUE]

DomNext ==
    \/ \E f \in Fns : AddOne(f) \/ RemoveOne(f)
    \/ OffElement

-----------------------------------------------------------------------------
DomEventsInit ==
    ClicksInit /\ PointersInit /\ TapsInit /\ AndroidInit /\ DomInit

DomEventsNext ==
    \/ ClicksNext /\ UNCHANGED <<pointers, taps, android, dom>>
    \/ PointersNext /\ UNCHANGED <<clicks, taps, android, dom>>
    \/ TapsNext /\ UNCHANGED <<clicks, pointers, android, dom>>
    \/ AndroidNext /\ UNCHANGED <<clicks, pointers, taps, dom>>
    \/ DomNext /\ UNCHANGED <<clicks, pointers, taps, android>>

DomEventsSpec == DomEventsInit /\ [][DomEventsNext]_domVars

-----------------------------------------------------------------------------
DomTypeOK ==
    /\ clicks \in [loaded : BOOLEAN, skip : BOOLEAN, draggable : BOOLEAN,
                   bubbles : BOOLEAN, stops : BOOLEAN, markerMoved : BOOLEAN,
                   mapMoved : BOOLEAN, pressed : Elements, moved : BOOLEAN,
                   stopped : BOOLEAN, early : BOOLEAN,
                   told : Seq({"map", "marker", "path"} \X {"preclick", "click"})]
    /\ pointers \in [listening : BOOLEAN, known : SUBSET Fingers, count : Int,
                     down : SUBSET Fingers, touches : SUBSET Fingers,
                     early : BOOLEAN]
    /\ taps \in [now : 1..MaxTime, fingers : 0..2, last : 0..MaxTime,
                 doubleTap : BOOLEAN, times : Nat, apart : Nat,
                 before : BOOLEAN, second : BOOLEAN]
    /\ android \in [now : 1..MaxTime, lastClick : 0..MaxTime, simulated : BOOLEAN,
                    at : Seq(1..MaxTime), ghosts : SUBSET (1..MaxTaps),
                    told : Seq(Nat)]
    /\ dom \in [handlers : [Fns -> 0..MaxHandlers], made : Seq(Fns),
                attached : SUBSET (1..MaxHandlers), emptied : BOOLEAN]

(* A click reaches nobody twice, though it comes to the map from the       *)
(* canvas and once more from the browser; preclick comes before it; what   *)
(* happens on a control or ends a drag stays away from the map; what a     *)
(* layer stops is not told to the map; and any other click reaches the     *)
(* layer or the map - but for the first after a control was clicked while  *)
(* the map had no view.                                                    *)
ClicksReachOnce ==
    \A simulated \in BOOLEAN : ClickElement(simulated) =>
        LET on == clicks.pressed  told == clicks'.told
            hears(o, type) == Contains(told, <<o, type>>) IN
        /\ IsInjective(told)
        /\ hears("map", "click") => hears("map", "preclick")
        /\ on \in {"control", "button"} => told = <<>>
        /\ clicks.moved /\ ~simulated => told = <<>>
        /\ clicks.stops /\ hears(on, "click") /\ on # "map" => ~hears("map", "click")
        /\ clicks.loaded /\ ~clicks.moved /\ ~clicks.early
             /\ on \in {"map", "marker", "path"} => hears(on, "click")

(* The touches that handlers are shown are the fingers on the screen, and  *)
(* the count agrees, unless a finger was there before anybody listened.    *)
PointersAreFingers ==
    pointers.listening /\ ~pointers.early =>
        /\ pointers.known = pointers.down
        /\ pointers.touches \subseteq pointers.down
        /\ pointers.count = Cardinality(pointers.down)

(* A tap is told as double only after another shortly before that was not  *)
(* double itself, and once, unless another finger joined it.               *)
DoubleTapsAreTwo ==
    taps.times > 0 => /\ taps.apart \in 1..TapDelay /\ ~taps.before
                      /\ taps.times > 1 => taps.second

(* Of the clicks that a touch becomes all listeners hear the same, and one *)
(* if no other touch was less than a second away, or none on an element    *)
(* that has had simulated clicks; three quick touches are heard four times.*)
TouchIsOneClick ==
    \A t \in DOMAIN android.told :
        LET alone == \A u \in DOMAIN android.at \ {t} :
                        android.at[u] - android.at[t] \notin -8..8 IN
        /\ android.told[t] % Hearers = 0
        /\ alone => \/ android.told[t] = Hearers
                    \/ android.told[t] = 0 /\ android.simulated

(* The browser calls a function once per event if it was added and not     *)
(* removed, and not otherwise, unless off() was used without types.        *)
ListenersAreKnown ==
    ~dom.emptied =>
        /\ dom.attached = {dom.handlers[f] : f \in Fns} \ {0}
        /\ \A f \in Fns : Cardinality({n \in dom.attached : dom.made[n] = f}) <= 1

(* What the browser reports, mended for the browsers that report too much  *)
(* or too little, is told once to those who asked.                         *)
EventsAreToldOnce ==
    [][domVars' # domVars =>
          /\ DomTypeOK' /\ PointersAreFingers' /\ DoubleTapsAreTwo'
          /\ TouchIsOneClick' /\ ListenersAreKnown'
          /\ clicks' # clicks => ClicksReachOnce]_domVars

=============================================================================
