------------------------------- MODULE Evented -------------------------------
(***************************************************************************)
(* L.Evented of app/assets/javascripts/leaflet.js: the listeners that the  *)
(* objects of the map keep and the loop that calls them. A listener may    *)
(* itself attach and remove listeners, fire events or fail, so that the    *)
(* list which fire() walks through can change under its feet.              *)
(*                                                                         *)
(* Arrays and listeners are JavaScript objects with an identity: `arrays`  *)
(* and `cells` are the heap, `lists` holds references into it.             *)
(***************************************************************************)
EXTENDS Integers, FiniteSets, Sequences, SequencesExt

CONSTANTS
    Objects,      \* the Evented objects
    Types,        \* event types
    Listeners,    \* pairs of a function and its context
    EventParents, \* [Objects -> SUBSET Objects]: who may become whose parent
    MaxCells,     \* bound: the listener objects ever made
    MaxDepth,     \* bound: calls of fire() from within listeners
    MaxFails      \* bound: counts that failing listeners leave behind

ASSUME EventParentsAssumption == EventParents \in [Objects -> SUBSET Objects]
ASSUME EventedBounds == {MaxCells, MaxDepth, MaxFails} \subseteq Nat

VARIABLES
    lists,        \* _events: the array of each object and type, 0 for none
    arrays,       \* the arrays of listeners: sequences of cells
    cells,        \* the listener objects {fn, ctx}
    firing,       \* _firingCount
    parents,      \* _eventParents
    stack,        \* the calls of fire() that have not returned
    wiped         \* history: the listeners that off() without a type dropped

eventedVars == <<lists, arrays, cells, firing, parents, stack, wiped>>

(* once is set for the function that once() makes, bound to the listener   *)
(* that it removes; fn is set to falseFn in a cell that is not live.       *)
Cell == [listener : Listeners, once : BOOLEAN, live : BOOLEAN]

(* len is read before the loop starts; seen, a history, is the array then. *)
FireFrame == [obj : Objects, type : Types, propagate : BOOLEAN,
          mode : {"loop", "run", "handled", "up"},
          arr : Nat, i : Nat, len : Nat, level : Nat,
          seen : Seq(Nat), pending : SUBSET Objects]

Top == Last(stack)

(* Code of the page or a listener runs: the moment to use the API.         *)
MayCall == stack # <<>> => Top.mode = "run"

SetTop(frame) == stack' = [stack EXCEPT ![Len(stack)] = frame]

ListOf(o, t) == IF lists[o][t] = 0 THEN <<>> ELSE arrays[lists[o][t]]

EventedInit ==
    /\ lists = [o \in Objects |-> [t \in Types |-> 0]]
    /\ arrays = <<>>
    /\ cells = <<>>
    /\ firing = [o \in Objects |-> 0]
    /\ parents = [o \in Objects |-> {}]
    /\ stack = <<>>
    /\ wiped = {}

-----------------------------------------------------------------------------
(* Attaching *)

(* Mutant: a listener is added again although it is there. *)
FoundAt_Never(list, l) == {}

(* Where a listener is in a list; the function of once() is a new one      *)
(* every time and never found.                                             *)
FoundAt(list, l) ==
    {i \in 1..Len(list) : cells[list[i]].listener = l /\ ~cells[list[i]].once
                          /\ cells[list[i]].live}

(* _on pushes onto the very array that a running fire() walks through.     *)
Push(o, t, new) ==
    IF lists[o][t] = 0
      THEN /\ arrays' = Append(arrays, new)
           /\ lists' = [lists EXCEPT ![o][t] = Len(arrays) + 1]
      ELSE /\ arrays' = [arrays EXCEPT ![lists[o][t]] = @ \o new]
           /\ UNCHANGED lists

NewCell(l, once) == [listener |-> l, once |-> once, live |-> TRUE]

On(o, t, l) ==
    /\ MayCall
    /\ Len(cells) < MaxCells
    /\ FoundAt(ListOf(o, t), l) = {}
    /\ cells' = Append(cells, NewCell(l, FALSE))
    /\ Push(o, t, <<Len(cells) + 1>>)
    /\ UNCHANGED <<firing, parents, stack, wiped>>

(* once() attaches the listener, unless it is there, and the function that *)
(* will remove both.                                                       *)
Once(o, t, l) ==
    LET n == Len(cells) IN
    /\ MayCall
    /\ IF FoundAt(ListOf(o, t), l) = {}
         THEN /\ n + 1 < MaxCells
              /\ cells' = cells \o <<NewCell(l, FALSE), NewCell(l, TRUE)>>
              /\ Push(o, t, <<n + 1, n + 2>>)
         ELSE /\ n < MaxCells
              /\ cells' = Append(cells, NewCell(l, TRUE))
              /\ Push(o, t, <<n + 1>>)
    /\ UNCHANGED <<firing, parents, stack, wiped>>

-----------------------------------------------------------------------------
(* Removing *)

(* Mutant: the array is spliced in place although fire() walks through it. *)
Splice_InPlace(o, t, i) ==
    /\ arrays' = [arrays EXCEPT ![lists[o][t]] = RemoveAt(@, i)]
    /\ UNCHANGED lists

(* Only while an event of the object is being fired the array is copied.   *)
Splice(o, t, i) ==
    LET shorter == RemoveAt(ListOf(o, t), i) IN
    IF firing[o] > 0
      THEN /\ arrays' = Append(arrays, shorter)
           /\ lists' = [lists EXCEPT ![o][t] = Len(arrays) + 1]
      ELSE /\ arrays' = [arrays EXCEPT ![lists[o][t]] = shorter]
           /\ UNCHANGED lists

(* Mutant: the removed listener keeps its function. *)
Silence_Not(S) == cells' = cells

(* fn = falseFn, so that a running fire() does not call what was removed.  *)
Silence(S) ==
    cells' = [c \in 1..Len(cells) |->
                 IF c \in S THEN [cells[c] EXCEPT !.live = FALSE] ELSE cells[c]]

Off(o, t, l) ==
    /\ MayCall
    /\ \E i \in FoundAt(ListOf(o, t), l) :
          Silence({ListOf(o, t)[i]}) /\ Splice(o, t, i)
    /\ UNCHANGED <<firing, parents, stack, wiped>>

OffType(o, t) ==
    /\ MayCall
    /\ lists[o][t] # 0
    /\ Silence(ToSet(ListOf(o, t)))
    /\ lists' = [lists EXCEPT ![o][t] = 0]
    /\ UNCHANGED <<arrays, firing, parents, stack, wiped>>

(* off() drops _events but leaves every listener its function.             *)
OffAll(o) ==
    /\ MayCall
    /\ \E t \in Types : lists[o][t] # 0
    /\ wiped' = wiped \cup UNION {ToSet(ListOf(o, t)) : t \in Types}
    /\ lists' = [lists EXCEPT ![o] = [t \in Types |-> 0]]
    /\ UNCHANGED <<arrays, cells, firing, parents, stack>>

AddEventParent(o, p) ==
    /\ MayCall
    /\ p \in EventParents[o] \ parents[o]
    /\ parents' = [parents EXCEPT ![o] = @ \cup {p}]
    /\ UNCHANGED <<lists, arrays, cells, firing, stack, wiped>>

RemoveEventParent(o, p) ==
    /\ MayCall
    /\ p \in parents[o]
    /\ parents' = [parents EXCEPT ![o] = @ \ {p}]
    /\ UNCHANGED <<lists, arrays, cells, firing, stack, wiped>>

-----------------------------------------------------------------------------
(* Firing *)

(* The objects that an event of o can reach within n steps upwards.        *)
Reached[n \in Nat] ==
    [o \in Objects |->
        IF n = 0 THEN {o}
                 ELSE {o} \cup UNION {Reached[n - 1][p] : p \in parents[o]}]

Listens(o, t, propagate) ==
    \/ ListOf(o, t) # <<>>
    \/ propagate /\ \E p \in Reached[Cardinality(Objects)][o] : ListOf(p, t) # <<>>

EnterFire(o, t, propagate, below) ==
    LET a == lists[o][t]
        n == IF a = 0 THEN 0 ELSE Len(arrays[a]) IN
    /\ Listens(o, t, propagate)
    /\ firing' = IF a = 0 THEN firing ELSE [firing EXCEPT ![o] = @ + 1]
    /\ stack' = Append(below,
          [obj |-> o, type |-> t, propagate |-> propagate,
           mode |-> IF a = 0 THEN "up" ELSE "loop",
           arr |-> a, i |-> 1, len |-> n, level |-> firing[o] + 1,
           seen |-> ListOf(o, t),
           pending |-> IF a = 0 THEN parents[o] ELSE {}])

Fire(o, t, propagate) ==
    /\ MayCall
    /\ Len(stack) < MaxDepth
    /\ EnterFire(o, t, propagate, stack)
    /\ UNCHANGED <<lists, arrays, cells, parents, wiped>>

InLoop == stack # <<>> /\ Top.mode = "loop"

Current == arrays[Top.arr][Top.i]

(* A removed listener is falseFn, which does nothing.                      *)
CallListener ==
    /\ InLoop
    /\ Top.i <= Top.len
    /\ IF cells[Current].live
         THEN SetTop([Top EXCEPT !.mode = "run"])
         ELSE SetTop([Top EXCEPT !.i = @ + 1])
    /\ UNCHANGED <<lists, arrays, cells, firing, parents, wiped>>

Running == stack # <<>> /\ Top.mode = "run"

Return ==
    /\ Running
    /\ ~cells[Current].once
    /\ SetTop([Top EXCEPT !.mode = "loop", !.i = @ + 1])
    /\ UNCHANGED <<lists, arrays, cells, firing, parents, wiped>>

(* The function of once() first removes the listener ...                   *)
HandlerRemovesListener ==
    LET o == Top.obj  t == Top.type
        at == FoundAt(ListOf(o, t), cells[Current].listener) IN
    /\ Running
    /\ cells[Current].once
    /\ IF at = {}
         THEN UNCHANGED <<lists, arrays, cells>>
         ELSE \E i \in at : Silence({ListOf(o, t)[i]}) /\ Splice(o, t, i)
    /\ SetTop([Top EXCEPT !.mode = "handled"])
    /\ UNCHANGED <<firing, parents, wiped>>

(* ... and then itself.                                                    *)
HandlerRemovesItself ==
    LET o == Top.obj  t == Top.type
        at == {i \in 1..Len(ListOf(o, t)) : ListOf(o, t)[i] = Current} IN
    /\ stack # <<>> /\ Top.mode = "handled"
    /\ IF at = {}
         THEN UNCHANGED <<lists, arrays, cells>>
         ELSE \E i \in at : Silence({Current}) /\ Splice(o, t, i)
    /\ SetTop([Top EXCEPT !.mode = "loop", !.i = @ + 1])
    /\ UNCHANGED <<firing, parents, wiped>>

FireDone ==
    /\ InLoop
    /\ Top.i > Top.len
    /\ firing' = [firing EXCEPT ![Top.obj] = @ - 1]
    /\ IF Top.propagate
         THEN SetTop([Top EXCEPT !.mode = "up", !.pending = parents[Top.obj]])
         ELSE stack' = Front(stack)
    /\ UNCHANGED <<lists, arrays, cells, parents, wiped>>

(* The keys of _eventParents in turn, less those removed meanwhile.        *)
PropagateEvent ==
    /\ stack # <<>> /\ Top.mode = "up"
    /\ \E p \in Top.pending \cap parents[Top.obj] :
          LET rest == [stack EXCEPT ![Len(stack)].pending = @ \ {p}] IN
          IF Listens(p, Top.type, TRUE)
            THEN EnterFire(p, Top.type, TRUE, rest)
            ELSE stack' = rest /\ UNCHANGED firing
    /\ UNCHANGED <<lists, arrays, cells, parents, wiped>>

Propagated ==
    /\ stack # <<>> /\ Top.mode = "up"
    /\ Top.pending \cap parents[Top.obj] = {}
    /\ stack' = Front(stack)
    /\ UNCHANGED <<lists, arrays, cells, firing, parents, wiped>>

(* A listener fails: every fire() is left, _firingCount stays as it is.    *)
Throw ==
    /\ Running
    /\ \A o \in Objects : firing[o] <= MaxFails
    /\ stack' = <<>>
    /\ UNCHANGED <<lists, arrays, cells, firing, parents, wiped>>

EventedNext ==
    \/ \E o \in Objects, t \in Types :
          \/ \E l \in Listeners : On(o, t, l) \/ Once(o, t, l) \/ Off(o, t, l)
          \/ OffType(o, t)
          \/ \E propagate \in BOOLEAN : Fire(o, t, propagate)
    \/ \E o \in Objects : OffAll(o)
    \/ \E o, p \in Objects : AddEventParent(o, p) \/ RemoveEventParent(o, p)
    \/ CallListener \/ Return \/ Throw
    \/ HandlerRemovesListener \/ HandlerRemovesItself
    \/ FireDone \/ PropagateEvent \/ Propagated

EventedSpec == EventedInit /\ [][EventedNext]_eventedVars

-----------------------------------------------------------------------------
EventedTypeOK ==
    /\ lists \in [Objects -> [Types -> 0..Len(arrays)]]
    /\ arrays \in Seq(Seq(Nat))
    /\ \A a \in 1..Len(arrays) : ToSet(arrays[a]) \subseteq 1..Len(cells)
    /\ cells \in Seq(Cell)
    /\ firing \in [Objects -> Nat]
    /\ parents \in [Objects -> SUBSET Objects]
    /\ stack \in Seq(FireFrame)
    /\ wiped \subseteq 1..Len(cells)

(* However listeners attach, remove, fire and fail, the array that a       *)
(* fire() in its loop walks through still starts with the listeners that   *)
(* were there when the event was fired: none is skipped, none called twice *)
(* and the loop never runs past the end.                                   *)
FiresSnapshot ==
    \A k \in 1..Len(stack) :
        stack[k].mode # "up" => IsPrefix(stack[k].seen, arrays[stack[k].arr])

(* A listener that fire() calls is attached at that moment, unless off()   *)
(* without a type dropped it: removal by off(type) and off(type, fn) takes *)
(* effect at once, in every fire() on the stack.                           *)
CalledIsAttached ==
    stack # <<>> /\ Len(stack') = Len(stack)
    /\ Top.mode = "loop" /\ Last(stack').mode = "run"
      => Current \in ToSet(ListOf(Top.obj, Top.type)) \cup wiped

(* A function with its context is in a list at most once, so that it is    *)
(* called once per event however often on() was called for it.             *)
AttachedOnce ==
    \A o \in Objects, t \in Types :
        LET list == ListOf(o, t) IN
        \A i, j \in 1..Len(list) :
            /\ cells[list[i]].listener = cells[list[j]].listener
            /\ ~cells[list[i]].once /\ ~cells[list[j]].once
            => i = j

(* Listeners are called as they were attached: after every step the fires  *)
(* on the stack go on with their snapshots and no function is listed       *)
(* twice, and every step that calls one calls one that is attached.        *)
ListenersAreCalled ==
    [][eventedVars' # eventedVars =>
          /\ EventedTypeOK' /\ FiresSnapshot' /\ AttachedOnce'
          /\ CalledIsAttached]_eventedVars

=============================================================================
