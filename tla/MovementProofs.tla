--------------------------- MODULE MovementProofs ---------------------------
(***************************************************************************)
(* For any views, sizes and gestures: the map's state has its type, and a  *)
(* map at rest has ended the movements and the zooms that it has begun.    *)
(* The invariant names, for each of the two, what is still to end it.      *)
(*                                                                         *)
(* For any tile layers: a map within its limits, or on its way there, stays*)
(* so through animations, flights and pinches and the calls that come      *)
(* meanwhile, and the buttons tell the limits of a map that rests. That    *)
(* they were right before the first view, of the zoom that was noted, is   *)
(* what the invariant adds.                                                *)
(*                                                                         *)
(* For any size of the tiles: whatever callbacks cross each other, the     *)
(* tiles follow the map. What a layer does on all the events of a step is  *)
(* a fold over them, so the invariant relates map and layer after each of  *)
(* the events: `Grid(m)` is the layer that has heard what m has told.      *)
(*                                                                         *)
(* And pruning opens no hole in what is shown: the invariant adds that     *)
(* what has faded in has an image, which is why a parent or child that is  *)
(* active is retained and an image that is awaited may be dropped.         *)
(*                                                                         *)
(* For any darts and keys: confetti keep their order.                      *)
(*                                                                         *)
(* Handlers that go through a sequence are folds: see LayerProofs.         *)
(***************************************************************************)
EXTENDS GridLayer, ZoomLimits, Confetti, LayerProofs

-----------------------------------------------------------------------------
(* Movement *)

(* Something will still say "moveend".                                     *)
MoveGoesOn(m) ==
    m.moveOpen => \/ m.hushed
                  \/ m.anim # Nowhere \/ m.pan # Nowhere \/ m.fly # Nowhere
                  \/ m.frames # <<>> \/ m.drag = "moving" \/ m.pinch = "moving"

(* Something will still say "zoomend": a pan or a drag would not.          *)
ZoomGoesOn(m) ==
    m.zoomOpen => \/ m.flightCut
                  \/ m.anim # Nowhere \/ m.fly # Nowhere \/ m.pinch = "moving"
                  \/ \E i \in 1..Len(m.frames) : m.frames[i].kind = "moveEnd"

Orderly(m) == m \in MapState /\ MoveGoesOn(m) /\ ZoomGoesOn(m)

MapInv ==
    /\ Orderly(map)
    /\ width \in Sizes
    /\ calls \in 0..MaxCalls

(* What no event and no position changes.                                  *)
Same(m, n) ==
    /\ n.anim = m.anim /\ n.pan = m.pan /\ n.fly = m.fly
    /\ n.drag = m.drag /\ n.pinch = m.pinch /\ n.frames = m.frames
    /\ n.flightCut = m.flightCut /\ n.timers = m.timers /\ n.size = m.size

SameView(m, n) == n.loaded = m.loaded /\ n.zoom = m.zoom /\ n.center = m.center

(* What has begun and not ended.                                           *)
Opens(n, moveOpen, zoomOpen, hushed) ==
    /\ n.moveOpen <=> moveOpen
    /\ n.zoomOpen <=> zoomOpen
    /\ n.hushed <=> hushed

(* A pan changes no more than the pan and the position.                    *)
BarPan(m, n) ==
    /\ n.anim = m.anim /\ n.fly = m.fly
    /\ n.drag = m.drag /\ n.pinch = m.pinch /\ n.frames = m.frames
    /\ n.flightCut = m.flightCut /\ n.zoom = m.zoom /\ n.loaded = m.loaded

(* No more movement than that of a pan.                                    *)
EndsByItself(n) == n.moveOpen => n.pan # Nowhere

SameOpen(m, n) == Opens(n, m.moveOpen, m.zoomOpen, m.hushed)

Told(m, n, type) ==
    Opens(n, (m.moveOpen \/ type = "movestart") /\ type # "moveend",
             (m.zoomOpen \/ type = "zoomstart") /\ type # "zoomend",
             m.hushed /\ type # "moveend")

-----------------------------------------------------------------------------
(* The operators, one after the other *)

LEMMA Fires ==
  ASSUME NEW m \in MapState, NEW type \in EventTypes, NEW center \in Nat,
         NEW zoom \in Zooms, NEW flight \in BOOLEAN
  PROVE  LET n == FireData(m, type, center, zoom, flight) IN
         n \in MapState /\ Same(m, n) /\ SameView(m, n) /\ Told(m, n, type)
  <1> DEFINE n == FireData(m, type, center, zoom, flight)
             e == [type |-> type, center |-> center, zoom |-> zoom,
                   mapZoom |-> m.zoom, mapCenter |-> m.center,
                   anim |-> m.anim, size |-> m.size, flyTo |-> flight]
             here == [center |-> m.center, zoom |-> m.zoom]
  <1>1. e \in Event
    BY DEF MapState, Event
  <1>2. here \in View
    BY DEF MapState, View
  <1>3. Append(m.fired, e) \in Seq(Event)
    BY <1>1 DEF MapState
  <1> DEFINE f == Append(m.fired, e)
             p == IF type \in {"load", "moveend"} THEN here ELSE m.proxy
  <1>4. p \in View \cup {Nowhere}
    BY <1>2 DEF MapState
  <1> DEFINE moveOpen == (m.moveOpen \/ type = "movestart") /\ type # "moveend"
             zoomOpen == (m.zoomOpen \/ type = "zoomstart") /\ type # "zoomend"
             hushed == m.hushed /\ type # "moveend"
  <1>5. n = [m EXCEPT !.fired = f, !.moveOpen = moveOpen, !.zoomOpen = zoomOpen,
                      !.hushed = hushed, !.proxy = p]
    BY DEF FireData
  <1>6. moveOpen \in BOOLEAN /\ zoomOpen \in BOOLEAN /\ hushed \in BOOLEAN
    BY DEF MapState
  <1>7. f \in Seq(Event)
    BY <1>3
  <1> HIDE DEF f, p, n, moveOpen, zoomOpen, hushed
  <1>8. n \in MapState
    <2> DEFINE i == [m EXCEPT !.fired = f, !.moveOpen = moveOpen]
               j == [i EXCEPT !.zoomOpen = zoomOpen, !.hushed = hushed]
    <2>1. n = [j EXCEPT !.proxy = p]
      BY <1>5
    <2>2. i \in MapState
      BY <1>6, <1>7 DEF MapState
    <2> HIDE DEF i
    <2>3. j \in MapState
      BY <1>6, <2>2 DEF MapState
    <2> HIDE DEF j
    <2>4. QED
      BY <1>4, <2>1, <2>3 DEF MapState
  <1>9. Same(m, n) /\ SameView(m, n)
    BY <1>5 DEF MapState, Same, SameView
  <1>10. Told(m, n, type)
    <2>1. n.moveOpen = moveOpen /\ n.zoomOpen = zoomOpen /\ n.hushed = hushed
      BY <1>5 DEF MapState
    <2>2. QED
      BY <2>1 DEF Told, Opens, moveOpen, zoomOpen, hushed
  <1>11. QED
    BY <1>8, <1>9, <1>10 DEF n

LEMMA Emits ==
  ASSUME NEW m \in MapState, NEW type \in EventTypes
  PROVE  LET n == Emit(m, type) IN
         n \in MapState /\ Same(m, n) /\ SameView(m, n) /\ Told(m, n, type)
  <1>1. m.center \in Nat /\ m.zoom \in Zooms
    BY DEF MapState
  <1>2. QED
    BY <1>1, Fires DEF Emit

LEMMA Quiets ==
  ASSUME NEW m \in MapState
  PROVE  LET n == Quiet(m) IN
         n \in MapState /\ Same(m, n) /\ SameView(m, n) /\ SameOpen(m, n)
  <1>1. <<>> \in Seq(Event)
    OBVIOUS
  <1>2. Quiet(m) \in MapState
    BY <1>1 DEF Quiet, MapState
  <1>3. QED
    BY <1>2 DEF Quiet, MapState, Same, SameView, SameOpen, Opens

LEMMA ClearsTimer ==
  ASSUME NEW m \in MapState
  PROVE  LET n == [m EXCEPT !.sizeTimer = FALSE] IN
         n \in MapState /\ Same(m, n) /\ SameView(m, n) /\ SameOpen(m, n)
  <1>1. [m EXCEPT !.sizeTimer = FALSE] \in MapState
    BY DEF MapState
  <1>2. QED
    BY <1>1 DEF MapState, Same, SameView, SameOpen, Opens

LEMMA MoveStarts ==
  ASSUME NEW m \in MapState, NEW changed \in BOOLEAN, NEW silent \in BOOLEAN
  PROVE  LET n == MoveStart(m, changed, silent) IN
         /\ n \in MapState /\ Same(m, n) /\ SameView(m, n)
         /\ Opens(n, m.moveOpen \/ ~silent, m.zoomOpen \/ changed, m.hushed)
  <1> DEFINE k == IF changed THEN Emit(m, "zoomstart") ELSE m
             n == MoveStart(m, changed, silent)
  <1>1. /\ k \in MapState /\ Same(m, k) /\ SameView(m, k)
        /\ Opens(k, m.moveOpen, m.zoomOpen \/ changed, m.hushed)
    <2>1. CASE changed
      BY <2>1, Emits DEF EventTypes, Told, Opens
    <2>2. CASE ~changed
      BY <2>2 DEF Same, SameView, Opens
    <2>3. QED
      BY <2>1, <2>2
  <1>2. n = IF silent THEN k ELSE Emit(k, "movestart")
    BY DEF MoveStart
  <1> HIDE DEF k, n
  <1>3. CASE silent
    BY <1>1, <1>2, <1>3 DEF Opens, n
  <1>4. CASE ~silent
    <2>1. n \in MapState /\ Same(k, n) /\ SameView(k, n) /\ Told(k, n, "movestart")
      BY <1>1, <1>2, <1>4, Emits DEF EventTypes
    <2>2. QED
      BY <1>1, <1>4, <2>1 DEF Same, SameView, Told, Opens, n
  <1>5. QED
    BY <1>3, <1>4

LEMMA Moves ==
  ASSUME NEW m \in MapState, NEW center \in Nat, NEW zoom \in Zooms,
         NEW flight \in BOOLEAN
  PROVE  LET n == Move(m, center, zoom, flight) IN
         /\ n \in MapState /\ Same(m, n) /\ SameOpen(m, n)
         /\ n.loaded = m.loaded /\ n.zoom = zoom /\ n.center = center
  <1> DEFINE j == [m EXCEPT !.zoom = zoom, !.center = center]
             k == IF zoom # m.zoom THEN FireData(j, "zoom", center, zoom, flight)
                                   ELSE j
             n == Move(m, center, zoom, flight)
  <1>1. /\ j \in MapState /\ Same(m, j) /\ SameOpen(m, j)
        /\ j.loaded = m.loaded /\ j.zoom = zoom /\ j.center = center
    <2>1. j \in MapState
      BY DEF MapState
    <2>2. Same(m, j)
      BY DEF MapState, Same
    <2>3. SameOpen(m, j)
      BY DEF MapState, SameOpen, Opens
    <2>4. j.loaded = m.loaded /\ j.zoom = zoom /\ j.center = center
      BY DEF MapState
    <2>5. QED
      BY <2>1, <2>2, <2>3, <2>4
  <1>2. n = FireData(k, "move", center, zoom, flight)
    BY DEF Move
  <1> HIDE DEF j, n
  <1>3. k \in MapState /\ Same(j, k) /\ SameView(j, k) /\ SameOpen(j, k)
    <2>1. CASE zoom # m.zoom
      BY <1>1, <2>1, Fires DEF EventTypes, Told, SameOpen, Opens
    <2>2. CASE zoom = m.zoom
      BY <1>1, <2>2 DEF Same, SameView, SameOpen, Opens
    <2>3. QED
      BY <2>1, <2>2
  <1> HIDE DEF k
  <1>4. n \in MapState /\ Same(k, n) /\ SameView(k, n) /\ Told(k, n, "move")
    BY <1>2, <1>3, Fires DEF EventTypes
  <1>5. QED
    BY <1>1, <1>3, <1>4 DEF Same, SameView, SameOpen, Told, Opens, n

LEMMA MoveEnds ==
  ASSUME NEW m \in MapState, NEW changed \in BOOLEAN
  PROVE  LET n == MoveEnd(m, changed) IN
         /\ n \in MapState /\ Same(m, n) /\ SameView(m, n)
         /\ Opens(n, FALSE, m.zoomOpen /\ ~changed, FALSE)
  <1> DEFINE k == IF changed THEN Emit(m, "zoomend") ELSE m
             n == MoveEnd(m, changed)
  <1>1. /\ k \in MapState /\ Same(m, k) /\ SameView(m, k)
        /\ k.zoomOpen <=> m.zoomOpen /\ ~changed
    <2>1. CASE changed
      BY <2>1, Emits DEF EventTypes, Told, Opens
    <2>2. CASE ~changed
      BY <2>2 DEF Same, SameView
    <2>3. QED
      BY <2>1, <2>2
  <1>2. n = Emit(k, "moveend")
    BY DEF MoveEnd
  <1> HIDE DEF k, n
  <1>3. n \in MapState /\ Same(k, n) /\ SameView(k, n) /\ Told(k, n, "moveend")
    BY <1>1, <1>2, Emits DEF EventTypes
  <1>4. QED
    BY <1>1, <1>3 DEF Same, SameView, Told, Opens, n

LEMMA ResetsView ==
  ASSUME NEW m \in MapState, NEW center \in Nat, NEW zoom \in Zooms
  PROVE  LET n == ResetView(m, center, zoom) IN
         /\ n \in MapState /\ Same(m, n)
         /\ n.zoom = zoom /\ n.loaded
         /\ ~n.moveOpen /\ (n.zoomOpen => m.zoomOpen)
  <1> DEFINE changed == m.zoom # zoom
             l == [m EXCEPT !.loaded = TRUE]
             a == Emit(l, "viewprereset")
             b == MoveStart(a, changed, FALSE)
             c == Move(b, center, zoom, FALSE)
             d == MoveEnd(c, changed)
             e == Emit(d, "viewreset")
             f == Emit(e, "load")
             n == ResetView(m, center, zoom)
  <1>1. n = IF m.loaded THEN e ELSE f
    BY DEF ResetView
  <1>2. l \in MapState /\ Same(m, l) /\ SameOpen(m, l) /\ l.loaded
    <2>1. l \in MapState /\ l.loaded
      BY DEF MapState
    <2>2. Same(m, l)
      BY DEF MapState, Same
    <2>3. SameOpen(m, l)
      BY DEF MapState, SameOpen, Opens
    <2>4. QED
      BY <2>1, <2>2, <2>3
  <1> HIDE DEF l, changed, n
  <1>3. a \in MapState /\ Same(l, a) /\ SameView(l, a) /\ Told(l, a, "viewprereset")
    BY <1>2, Emits DEF EventTypes
  <1> HIDE DEF a
  <1>4. /\ b \in MapState /\ Same(a, b) /\ SameView(a, b)
        /\ Opens(b, TRUE, a.zoomOpen \/ changed, a.hushed)
    BY <1>3, MoveStarts DEF Opens, changed
  <1> HIDE DEF b
  <1>5. /\ c \in MapState /\ Same(b, c) /\ SameOpen(b, c)
        /\ c.loaded = b.loaded /\ c.zoom = zoom
    <2> DEFINE flight == FALSE
    <2>1. b \in MapState /\ c = Move(b, center, zoom, flight) /\ flight \in BOOLEAN
      BY <1>4
    <2> HIDE DEF c, flight
    <2>2. QED
      BY <2>1, Moves
  <1> HIDE DEF c
  <1>6. /\ d \in MapState /\ Same(c, d) /\ SameView(c, d)
        /\ Opens(d, FALSE, c.zoomOpen /\ ~changed, FALSE)
    BY <1>5, MoveEnds DEF changed
  <1> HIDE DEF d
  <1>7. e \in MapState /\ Same(d, e) /\ SameView(d, e) /\ Told(d, e, "viewreset")
    BY <1>6, Emits DEF EventTypes
  <1> HIDE DEF e
  <1>8. f \in MapState /\ Same(e, f) /\ SameView(e, f) /\ Told(e, f, "load")
    BY <1>7, Emits DEF EventTypes
  <1> HIDE DEF f
  <1>9. e.zoom = zoom /\ e.loaded /\ f.zoom = zoom /\ f.loaded
    BY <1>2, <1>3, <1>4, <1>5, <1>6, <1>7, <1>8 DEF SameView
  <1>10. Same(m, e) /\ Same(m, f)
    BY <1>2, <1>3, <1>4, <1>5, <1>6, <1>7, <1>8 DEF Same
  <1>11. ~e.moveOpen /\ ~f.moveOpen
    BY <1>6, <1>7, <1>8 DEF Told, Opens
  <1>12. (e.zoomOpen => m.zoomOpen) /\ (f.zoomOpen => m.zoomOpen)
    BY <1>2, <1>3, <1>4, <1>5, <1>6, <1>7, <1>8 DEF Told, Opens, SameOpen
  <1>13. QED
    BY <1>1, <1>7, <1>8, <1>9, <1>10, <1>11, <1>12 DEF n

(* A step of a pan, and its end.                                           *)
LEMMA RunsFrame ==
  ASSUME NEW m \in MapState, NEW center \in Nat
  PROVE  LET n == RunFrame(m, center) IN
         /\ n \in MapState /\ Same(m, n) /\ SameOpen(m, n)
         /\ n.loaded = m.loaded /\ n.zoom = m.zoom
  <1> DEFINE k == [m EXCEPT !.center = center]
             n == RunFrame(m, center)
  <1>1. /\ k \in MapState /\ Same(m, k) /\ SameOpen(m, k)
        /\ k.loaded = m.loaded /\ k.zoom = m.zoom
    <2>1. k \in MapState /\ k.loaded = m.loaded /\ k.zoom = m.zoom
      BY DEF MapState
    <2>2. Same(m, k)
      BY DEF MapState, Same
    <2>3. SameOpen(m, k)
      BY DEF MapState, SameOpen, Opens
    <2>4. QED
      BY <2>1, <2>2, <2>3
  <1>2. n = Emit(k, "move")
    BY DEF RunFrame
  <1> HIDE DEF k, n
  <1>3. n \in MapState /\ Same(k, n) /\ SameView(k, n) /\ Told(k, n, "move")
    BY <1>1, <1>2, Emits DEF EventTypes
  <1>4. QED
    BY <1>1, <1>3 DEF Same, SameView, SameOpen, Told, Opens, n

LEMMA Completes ==
  ASSUME NEW m \in MapState
  PROVE  LET n == Complete(m) IN
         /\ n \in MapState /\ BarPan(m, n) /\ n.pan = Nowhere
         /\ Opens(n, FALSE, m.zoomOpen, FALSE)
  <1> DEFINE k == [m EXCEPT !.pan = Nowhere]
             n == Complete(m)
  <1>1. /\ k \in MapState /\ BarPan(m, k) /\ SameOpen(m, k) /\ k.pan = Nowhere
    BY DEF MapState, BarPan, SameOpen, Opens
  <1>2. n = Emit(k, "moveend")
    BY DEF Complete
  <1> HIDE DEF k, n
  <1>3. n \in MapState /\ Same(k, n) /\ SameView(k, n) /\ Told(k, n, "moveend")
    BY <1>1, <1>2, Emits DEF EventTypes
  <1>4. QED
    BY <1>1, <1>3 DEF Same, SameView, SameOpen, Told, Opens, BarPan, n

LEMMA StopsPan ==
  ASSUME NEW m \in MapState, NEW n \in StopPan(m)
  PROVE  /\ n \in MapState /\ BarPan(m, n) /\ n.pan = Nowhere
         /\ n.zoomOpen <=> m.zoomOpen
         /\ m.pan = Nowhere => n = m
         /\ m.pan # Nowhere => ~n.moveOpen
  <1>1. CASE m.pan = Nowhere
    BY <1>1 DEF StopPan, BarPan
  <1>2. CASE m.pan # Nowhere
    <2>1. m.pan \in Nat /\ m.center \in Nat
      BY <1>2 DEF MapState
    <2>2. PICK c \in Nat : LET k == Complete(RunFrame(m, c)) IN
                           n = k \/ n = Complete(k)
      BY <1>2, <2>1 DEF StopPan
    <2> DEFINE j == RunFrame(m, c)
               k == Complete(j)
    <2>3. /\ j \in MapState /\ Same(m, j) /\ SameOpen(m, j)
          /\ j.loaded = m.loaded /\ j.zoom = m.zoom
      BY RunsFrame
    <2> HIDE DEF j
    <2>4. /\ k \in MapState /\ BarPan(j, k) /\ k.pan = Nowhere
          /\ Opens(k, FALSE, j.zoomOpen, FALSE)
      BY <2>3, Completes
    <2>5. n = k \/ n = Complete(k)
      BY <2>2 DEF j
    <2> HIDE DEF k
    <2>6. /\ n \in MapState /\ BarPan(k, n) /\ n.pan = Nowhere
          /\ Opens(n, FALSE, k.zoomOpen, FALSE)
      BY <2>4, <2>5, Completes DEF BarPan, Opens
    <2>7. QED
      BY <1>2, <2>3, <2>4, <2>6 DEF Same, SameOpen, BarPan, Opens
  <1>3. QED
    BY <1>1, <1>2

(* A stopped map neither pans nor flies; a flight that was cut is noted,   *)
(* and leaves its movement open.                                           *)
LEMMA Stops ==
  ASSUME NEW m \in MapState, NEW n \in Stop(m)
  PROVE  /\ n \in MapState /\ n.pan = Nowhere /\ n.fly = Nowhere
         /\ n.anim = m.anim /\ n.drag = m.drag /\ n.pinch = m.pinch
         /\ n.frames = m.frames /\ n.zoom = m.zoom /\ n.loaded = m.loaded
         /\ ZoomGoesOn(m) => ZoomGoesOn(n)
         /\ EndsByItself(m) => ~n.moveOpen
         /\ MoveGoesOn(m) /\ m.fly = Nowhere => MoveGoesOn(n)
  <1> DEFINE cut == m.flightCut \/ m.fly # Nowhere
             k == [m EXCEPT !.fly = Nowhere, !.flightCut = cut]
  <1>1. /\ k \in MapState /\ k.fly = Nowhere
        /\ k.flightCut <=> m.flightCut \/ m.fly # Nowhere
        /\ k.anim = m.anim /\ k.drag = m.drag /\ k.pinch = m.pinch
        /\ k.frames = m.frames /\ k.zoom = m.zoom /\ k.loaded = m.loaded
        /\ k.pan = m.pan /\ SameOpen(m, k)
    <2>1. cut \in BOOLEAN
      BY DEF MapState
    <2> HIDE DEF cut
    <2>2. k \in MapState /\ k.fly = Nowhere /\ k.flightCut = cut
      BY <2>1 DEF MapState
    <2>3. /\ k.anim = m.anim /\ k.drag = m.drag /\ k.pinch = m.pinch
          /\ k.frames = m.frames /\ k.zoom = m.zoom /\ k.loaded = m.loaded
          /\ k.pan = m.pan
      BY DEF MapState
    <2>4. SameOpen(m, k)
      BY DEF MapState, SameOpen, Opens
    <2>5. QED
      BY <2>2, <2>3, <2>4 DEF cut
  <1>2. n \in StopPan(k)
    BY DEF Stop
  <1> HIDE DEF k
  <1>3. /\ n \in MapState /\ BarPan(k, n) /\ n.pan = Nowhere
        /\ n.zoomOpen <=> k.zoomOpen
        /\ k.pan = Nowhere => n = k
        /\ k.pan # Nowhere => ~n.moveOpen
    BY <1>1, <1>2, StopsPan
  <1>4. ZoomGoesOn(m) => ZoomGoesOn(n)
    BY <1>1, <1>3 DEF ZoomGoesOn, BarPan, SameOpen, Opens
  <1>5. EndsByItself(m) => ~n.moveOpen
    BY <1>1, <1>3 DEF EndsByItself, SameOpen, Opens
  <1>6. MoveGoesOn(m) /\ m.fly = Nowhere => MoveGoesOn(n)
    BY <1>1, <1>3 DEF MoveGoesOn, SameOpen, Opens, BarPan
  <1>7. QED
    BY <1>1, <1>3, <1>4, <1>5, <1>6 DEF BarPan

LEMMA PansBy ==
  ASSUME NEW m \in MapState, NEW center \in Nat, NEW n \in PanBy(m, center)
  PROVE  /\ n \in MapState /\ EndsByItself(n)
         /\ n.anim = m.anim /\ n.fly = m.fly /\ n.pinch = m.pinch
         /\ n.frames = m.frames /\ n.flightCut = m.flightCut
         /\ n.zoomOpen => m.zoomOpen
  <1>1. CASE n = Emit(m, "moveend")
    <2>1. /\ n \in MapState /\ Same(m, n) /\ Told(m, n, "moveend")
      BY <1>1, Emits DEF EventTypes
    <2>2. QED
      BY <2>1 DEF Same, Told, Opens, EndsByItself
  <1>2. CASE n = ResetView(m, center, m.zoom)
    <2>1. m.zoom \in Zooms
      BY DEF MapState
    <2>2. /\ n \in MapState /\ Same(m, n)
          /\ ~n.moveOpen /\ (n.zoomOpen => m.zoomOpen)
      BY <1>2, <2>1, ResetsView
    <2>3. QED
      BY <2>2 DEF Same, EndsByItself
  <1>3. ASSUME NEW k \in StopPan(Emit(m, "movestart")),
               n = [k EXCEPT !.pan = center]
        PROVE  /\ n \in MapState /\ EndsByItself(n)
               /\ n.anim = m.anim /\ n.fly = m.fly /\ n.pinch = m.pinch
               /\ n.frames = m.frames /\ n.flightCut = m.flightCut
               /\ n.zoomOpen => m.zoomOpen
    <2> DEFINE j == Emit(m, "movestart")
    <2>1. j \in MapState /\ Same(m, j) /\ Told(m, j, "movestart")
      BY Emits DEF EventTypes
    <2>2. k \in StopPan(j)
      OBVIOUS
    <2> HIDE DEF j
    <2>3. k \in MapState /\ BarPan(j, k) /\ (k.zoomOpen <=> j.zoomOpen)
      BY <2>1, <2>2, StopsPan
    <2>4. /\ n \in MapState /\ n.pan = center /\ BarPan(k, n)
          /\ n.zoomOpen = k.zoomOpen
      BY <1>3, <2>3 DEF MapState, BarPan
    <2>5. center # Nowhere
      BY SizesAssumption
    <2>6. QED
      BY <2>1, <2>3, <2>4, <2>5 DEF Same, Told, Opens, BarPan, EndsByItself
  <1>4. \/ n = Emit(m, "moveend")
        \/ n = ResetView(m, center, m.zoom)
        \/ \E k \in StopPan(Emit(m, "movestart")) : n = [k EXCEPT !.pan = center]
    BY DEF PanBy
  <1>5. QED
    BY <1>1, <1>2, <1>3, <1>4

-----------------------------------------------------------------------------
(* Frames and zooming *)

LEMMA RequestsFrame ==
  ASSUME NEW m \in MapState, NEW f \in Frame
  PROVE  LET n == RequestFrame(m, f) IN
         /\ n \in MapState /\ n.frames = Append(m.frames, f) /\ n.frames # <<>>
         /\ n.anim = m.anim /\ n.pan = m.pan /\ n.fly = m.fly
         /\ n.drag = m.drag /\ n.pinch = m.pinch /\ n.flightCut = m.flightCut
         /\ SameOpen(m, n)
  <1>1. m.frames \in Seq(Frame)
    BY DEF MapState
  <1>2. Append(m.frames, f) \in Seq(Frame) /\ Append(m.frames, f) # <<>>
    BY <1>1
  <1>3. QED
    <2>1. RequestFrame(m, f) \in MapState
      BY <1>2 DEF RequestFrame, MapState
    <2>2. SameOpen(m, RequestFrame(m, f))
      BY DEF RequestFrame, MapState, SameOpen, Opens
    <2>3. QED
      BY <1>2, <2>1, <2>2 DEF RequestFrame, MapState

(* A frame more does not lose a "moveEnd" that is awaited.                 *)
LEMMA MoreFrames ==
  ASSUME NEW s \in Seq(Frame), NEW f \in Frame
  PROVE  /\ (\E i \in 1..Len(s) : s[i].kind = "moveEnd")
              => LET t == Append(s, f) IN \E i \in 1..Len(t) : t[i].kind = "moveEnd"
         /\ f.kind = "moveEnd"
              => LET t == Append(s, f) IN \E i \in 1..Len(t) : t[i].kind = "moveEnd"
  <1> DEFINE t == Append(s, f)
  <1>1. /\ Len(t) = Len(s) + 1 /\ Len(s) \in Nat /\ t[Len(s) + 1] = f
        /\ \A i \in 1..Len(s) : t[i] = s[i]
    OBVIOUS
  <1> HIDE DEF t
  <1>2. ASSUME NEW i \in 1..Len(s), s[i].kind = "moveEnd"
        PROVE  \E k \in 1..Len(t) : t[k].kind = "moveEnd"
    BY <1>1, <1>2
  <1>3. ASSUME f.kind = "moveEnd"
        PROVE  \E k \in 1..Len(t) : t[k].kind = "moveEnd"
    BY <1>1, <1>3
  <1>4. QED
    BY <1>2, <1>3 DEF t

LEMMA EndsTransition ==
  ASSUME NEW m \in MapState, m.anim # Nowhere
  PROVE  Orderly(OnZoomTransitionEnd(m))
  <1> DEFINE j == [m EXCEPT !.anim = Nowhere]
             k == Move(j, m.anim.center, m.anim.zoom, FALSE)
             f == [kind |-> "moveEnd", center |-> 0, zoom |-> 0]
             n == OnZoomTransitionEnd(m)
  <1>1. m.anim \in View
    BY DEF MapState
  <1>2. m.anim.center \in Nat /\ m.anim.zoom \in Zooms
    BY <1>1 DEF View
  <1>3. n = RequestFrame(k, f)
    BY DEF OnZoomTransitionEnd
  <1>4. j \in MapState
    BY DEF MapState
  <1> HIDE DEF j, n
  <1>5. k \in MapState
    BY <1>2, <1>4, Moves
  <1> HIDE DEF k
  <1>6. f \in Frame
    BY ZoomAssumption DEF Frame, Zooms
  <1>7. n \in MapState /\ n.frames = Append(k.frames, f) /\ n.frames # <<>>
    BY <1>3, <1>5, <1>6, RequestsFrame
  <1>8. \E i \in 1..Len(n.frames) : n.frames[i].kind = "moveEnd"
    <2>1. k.frames \in Seq(Frame)
      BY <1>5 DEF MapState
    <2>2. QED
      BY <1>6, <1>7, <2>1, MoreFrames
  <1>9. MoveGoesOn(n)
    BY <1>7 DEF MoveGoesOn
  <1>10. ZoomGoesOn(n)
    BY <1>8 DEF ZoomGoesOn
  <1>11. QED
    BY <1>7, <1>9, <1>10 DEF Orderly, n

(* A zoom animation, once begun, ends what was begun.                      *)
LEMMA Animates ==
  ASSUME NEW m \in MapState, NEW center \in Nat, NEW zoom \in Zooms,
         NEW noUpdate \in BOOLEAN
  PROVE  Orderly(AnimateZoom(m, center, zoom, noUpdate))
  <1> DEFINE to == [center |-> center, zoom |-> zoom]
             j == [m EXCEPT !.anim = to, !.proxy = to, !.timers = @ + 1]
             k == IF m.proxy = to THEN OnZoomTransitionEnd(j) ELSE j
             n == AnimateZoom(m, center, zoom, noUpdate)
  <1>1. to \in View /\ to # Nowhere
    BY NowhereAssumption DEF View
  <1>2. n = FireData(k, "zoomanim", center, zoom, noUpdate)
    BY DEF AnimateZoom
  <1> HIDE DEF to
  <1>3. j \in MapState /\ j.anim # Nowhere
    <2> DEFINE i == [m EXCEPT !.anim = to, !.proxy = to]
    <2>1. j = [i EXCEPT !.timers = i.timers + 1]
      BY DEF MapState
    <2>2. i \in MapState /\ i.anim = to
      BY <1>1 DEF MapState
    <2> HIDE DEF i, j
    <2>3. i.timers + 1 \in Nat
      BY <2>2 DEF MapState
    <2>4. QED
      BY <1>1, <2>1, <2>2, <2>3 DEF MapState
  <1> HIDE DEF j, n
  <1>4. Orderly(k) /\ k \in MapState
    <2>1. CASE m.proxy = to
      BY <1>3, <2>1, EndsTransition DEF Orderly
    <2>2. CASE m.proxy # to
      BY <1>3, <2>2 DEF Orderly, MoveGoesOn, ZoomGoesOn
    <2>3. QED
      BY <2>1, <2>2
  <1> HIDE DEF k
  <1>5. n \in MapState /\ Same(k, n) /\ Told(k, n, "zoomanim")
    BY <1>2, <1>4, Fires DEF EventTypes
  <1>6. MoveGoesOn(n)
    BY <1>4, <1>5 DEF Orderly, MoveGoesOn, Same, Told, Opens
  <1>7. ZoomGoesOn(n)
    BY <1>4, <1>5 DEF Orderly, ZoomGoesOn, Same, Told, Opens
  <1>8. QED
    BY <1>5, <1>6, <1>7 DEF Orderly, n

LEMMA TriesToAnimate ==
  ASSUME NEW m \in MapState, ZoomGoesOn(m), NEW center \in Nat, NEW zoom \in Zooms
  PROVE  Orderly(TryAnimatedZoom(m, center, zoom))
  <1> DEFINE f == [kind |-> "animate", center |-> center, zoom |-> zoom]
             n == TryAnimatedZoom(m, center, zoom)
  <1>1. CASE m.anim # Nowhere
    BY <1>1 DEF TryAnimatedZoom, Orderly, MoveGoesOn
  <1>2. CASE m.anim = Nowhere
    <2>1. f \in Frame /\ m.frames \in Seq(Frame)
      BY DEF Frame, MapState
    <2>2. n = RequestFrame(m, f)
      BY <1>2 DEF TryAnimatedZoom
    <2> HIDE DEF f, n
    <2>3. /\ n \in MapState /\ n.frames = Append(m.frames, f) /\ n.frames # <<>>
          /\ n.anim = m.anim /\ n.pan = m.pan /\ n.fly = m.fly
          /\ n.drag = m.drag /\ n.pinch = m.pinch /\ n.flightCut = m.flightCut
          /\ SameOpen(m, n)
      BY <2>1, <2>2, RequestsFrame
    <2>4. MoveGoesOn(n)
      BY <2>3 DEF MoveGoesOn
    <2>5. ZoomGoesOn(n)
      BY <2>1, <2>3, MoreFrames DEF ZoomGoesOn, SameOpen, Opens
    <2>6. QED
      BY <2>3, <2>4, <2>5 DEF Orderly, n
  <1>3. QED
    BY <1>1, <1>2

-----------------------------------------------------------------------------
(* setView() *)

(* What ends by itself is in order.                                        *)
LEMMA OrderlyByItself ==
  ASSUME NEW n \in MapState, EndsByItself(n), ZoomGoesOn(n)
  PROVE  Orderly(n)
  BY DEF Orderly, EndsByItself, MoveGoesOn

(* It says that the movement is over, or pans, or animates a zoom.         *)
LEMMA SetsView ==
  ASSUME NEW m, Orderly(m), NEW center \in Nat, NEW zoom \in Zooms,
         NEW reset \in BOOLEAN, NEW r \in SetView(m, center, zoom, reset)
  PROVE  /\ Orderly(r)
         /\ m.loaded /\ zoom = m.zoom => EndsByItself(r) /\ r.fly = Nowhere
  <1>1. m \in MapState /\ ZoomGoesOn(m)
    BY DEF Orderly
  <1>2. PICK n \in Stop(m) :
          LET clear == [n EXCEPT !.sizeTimer = FALSE] IN
          \/ r = ResetView(n, center, zoom)
          \/ \E p \in PanBy(n, center) : r = [p EXCEPT !.sizeTimer = FALSE]
          \/ /\ n.loaded /\ zoom # n.zoom
             /\ r = TryAnimatedZoom(clear, center, zoom)
    BY DEF SetView
  <1>3. /\ n \in MapState /\ n.fly = Nowhere /\ n.zoom = m.zoom
        /\ n.loaded = m.loaded /\ ZoomGoesOn(n)
    BY <1>1, Stops
  <1>4. CASE r = ResetView(n, center, zoom)
    <2>1. /\ r \in MapState /\ Same(n, r) /\ ~r.moveOpen
          /\ (r.zoomOpen => n.zoomOpen)
      BY <1>3, <1>4, ResetsView
    <2>2. EndsByItself(r) /\ r.fly = Nowhere
      BY <1>3, <2>1 DEF EndsByItself, Same
    <2>3. ZoomGoesOn(r)
      BY <1>3, <2>1 DEF ZoomGoesOn, Same
    <2>4. QED
      BY <2>1, <2>2, <2>3, OrderlyByItself
  <1>5. ASSUME NEW p \in PanBy(n, center), r = [p EXCEPT !.sizeTimer = FALSE]
        PROVE  Orderly(r) /\ EndsByItself(r) /\ r.fly = Nowhere
    <2>1. /\ p \in MapState /\ EndsByItself(p)
          /\ p.anim = n.anim /\ p.fly = n.fly /\ p.pinch = n.pinch
          /\ p.frames = n.frames /\ p.flightCut = n.flightCut
          /\ p.zoomOpen => n.zoomOpen
      BY <1>3, PansBy
    <2>2. r \in MapState /\ Same(p, r) /\ SameOpen(p, r)
      BY <1>5, <2>1, ClearsTimer
    <2>3. EndsByItself(r) /\ r.fly = Nowhere
      BY <1>3, <2>1, <2>2 DEF EndsByItself, Same, SameOpen, Opens
    <2>4. ZoomGoesOn(r)
      BY <1>3, <2>1, <2>2 DEF ZoomGoesOn, Same, SameOpen, Opens
    <2>5. QED
      BY <2>2, <2>3, <2>4, OrderlyByItself
  <1>6. ASSUME zoom # n.zoom,
               r = TryAnimatedZoom([n EXCEPT !.sizeTimer = FALSE], center, zoom)
        PROVE  Orderly(r)
    <2> DEFINE k == [n EXCEPT !.sizeTimer = FALSE]
    <2>1. k \in MapState /\ Same(n, k) /\ SameOpen(n, k)
      BY <1>3, ClearsTimer
    <2>2. r = TryAnimatedZoom(k, center, zoom)
      BY <1>6
    <2> HIDE DEF k
    <2>3. ZoomGoesOn(k)
      BY <1>3, <2>1 DEF ZoomGoesOn, Same, SameOpen, Opens
    <2>4. QED
      BY <2>1, <2>2, <2>3, TriesToAnimate
  <1>7. QED
    BY <1>2, <1>3, <1>4, <1>5, <1>6

-----------------------------------------------------------------------------
(* The steps *)

(* Nothing that an end depends on has changed.                             *)
LEMMA Keeps ==
  ASSUME NEW m, Orderly(m), NEW n \in MapState, Same(m, n), SameOpen(m, n)
  PROVE  Orderly(n)
  <1>1. MoveGoesOn(n)
    BY DEF Orderly, MoveGoesOn, Same, SameOpen, Opens
  <1>2. ZoomGoesOn(n)
    BY DEF Orderly, ZoomGoesOn, Same, SameOpen, Opens
  <1>3. QED
    BY <1>1, <1>2 DEF Orderly

LEMMA QuietInOrder ==
  ASSUME MapInv
  PROVE  /\ Orderly(Quiet(map)) /\ Quiet(map) \in MapState
         /\ Same(map, Quiet(map)) /\ SameView(map, Quiet(map))
         /\ SameOpen(map, Quiet(map))
         /\ MoveGoesOn(Quiet(map)) /\ ZoomGoesOn(Quiet(map))
  <1>1. Orderly(map) /\ map \in MapState
    BY DEF MapInv, Orderly
  <1>2. /\ Quiet(map) \in MapState /\ Same(map, Quiet(map))
        /\ SameView(map, Quiet(map)) /\ SameOpen(map, Quiet(map))
    BY <1>1, Quiets
  <1>3. Orderly(Quiet(map))
    BY <1>1, <1>2, Keeps
  <1>4. QED
    BY <1>2, <1>3 DEF Orderly

LEMMA Called ==
  ASSUME MapInv, Call, width' = width, Orderly(map')
  PROVE  MapInv'
  <1>1. calls' \in 0..MaxCalls
    BY ZoomAssumption DEF MapInv, Call
  <1>2. QED
    BY <1>1 DEF MapInv, Orderly, MoveGoesOn, ZoomGoesOn

LEMMA Awaited ==
  ASSUME MapInv, UNCHANGED <<width, calls>>, Orderly(map')
  PROVE  MapInv'
  BY DEF MapInv, Orderly, MoveGoesOn, ZoomGoesOn

LEMMA ViewParts ==
  ASSUME NEW v \in Views
  PROVE  v[1] \in Nat /\ v[2] \in Zooms
  BY ViewsAssumption DEF Zooms

LEMMA SetViewKeeps ==
  ASSUME MapInv, NEW v \in Views, NEW reset \in BOOLEAN,
         CallSetView(v[1], v[2], reset)
  PROVE  MapInv'
  <1>1. map' \in SetView(Quiet(map), v[1], v[2], reset)
    BY DEF CallSetView
  <1>2. Orderly(map')
    BY <1>1, QuietInOrder, ViewParts, SetsView
  <1>3. QED
    BY <1>2, Called DEF CallSetView

LEMMA SetZoomKeeps ==
  ASSUME MapInv, NEW v \in Views, SetZoom(v[2])
  PROVE  MapInv'
  <1> DEFINE q == Quiet(map)
  <1>1. Orderly(q) /\ q \in MapState /\ SameView(map, q)
    BY QuietInOrder
  <1>2. v[2] \in Zooms /\ map.center \in Nat
    BY ViewParts DEF MapInv, Orderly, MapState
  <1>3. CASE map.loaded
    <2>1. map' \in SetView(q, map.center, v[2], FALSE)
      BY <1>3 DEF SetZoom
    <2> HIDE DEF q
    <2>2. Orderly(map')
      BY <1>1, <1>2, <2>1, SetsView
    <2>3. QED
      BY <2>2, Called DEF SetZoom
  <1>4. CASE ~map.loaded
    <2>1. map' = [q EXCEPT !.zoom = v[2]]
      BY <1>4 DEF SetZoom
    <2> HIDE DEF q
    <2>2. map' \in MapState /\ Same(q, map') /\ SameOpen(q, map')
      BY <1>1, <1>2, <2>1 DEF MapState, Same, SameOpen, Opens
    <2>3. Orderly(map')
      BY <1>1, <2>2, Keeps
    <2>4. QED
      BY <2>3, Called DEF SetZoom
  <1>5. QED
    BY <1>3, <1>4

LEMMA PanByKeeps ==
  ASSUME MapInv, NEW v \in Views, CallPanBy(v[1])
  PROVE  MapInv'
  <1> DEFINE q == Quiet(map)
  <1>1. q \in MapState /\ ZoomGoesOn(q)
    BY QuietInOrder
  <1>2. map' \in PanBy(q, v[1])
    BY DEF CallPanBy
  <1> HIDE DEF q
  <1>3. /\ map' \in MapState /\ EndsByItself(map')
        /\ map'.anim = q.anim /\ map'.fly = q.fly /\ map'.pinch = q.pinch
        /\ map'.frames = q.frames /\ map'.flightCut = q.flightCut
        /\ map'.zoomOpen => q.zoomOpen
    BY <1>1, <1>2, ViewParts, PansBy
  <1>4. ZoomGoesOn(map')
    BY <1>1, <1>3 DEF ZoomGoesOn
  <1>5. Orderly(map')
    BY <1>3, <1>4, OrderlyByItself
  <1>6. QED
    BY <1>5, Called DEF CallPanBy

(* stop() moves the map to its nearest zoom first, which is its zoom.      *)
LEMMA StopKeeps ==
  ASSUME MapInv, CallStop
  PROVE  MapInv'
  <1> DEFINE q == Quiet(map)
  <1>1. Orderly(q) /\ SameView(map, q) /\ q \in MapState
    BY QuietInOrder
  <1>2. PICK n \in SetView(q, map.center, map.zoom, FALSE) : map' \in Stop(n)
    BY DEF CallStop
  <1>3. q.loaded /\ map.zoom = q.zoom /\ map.zoom \in Zooms /\ map.center \in Nat
    BY <1>1 DEF SameView, CallStop, MapInv, Orderly, MapState
  <1> HIDE DEF q
  <1>4. Orderly(n) /\ EndsByItself(n)
    BY <1>1, <1>2, <1>3, SetsView
  <1>5. map' \in MapState /\ ZoomGoesOn(map') /\ ~map'.moveOpen
    BY <1>2, <1>4, Stops DEF Orderly
  <1>6. Orderly(map')
    BY <1>5 DEF Orderly, MoveGoesOn
  <1>7. QED
    BY <1>6, Called DEF CallStop

LEMMA FlyToKeeps ==
  ASSUME MapInv, NEW v \in Views, FlyTo(v[1], v[2])
  PROVE  MapInv'
  <1> DEFINE to == [center |-> v[1], zoom |-> v[2]]
  <1>1. PICK n \in Stop(Quiet(map)) :
          map' = [Move(MoveStart(n, TRUE, FALSE), n.center, n.zoom, TRUE)
                    EXCEPT !.fly = to]
    BY DEF FlyTo
  <1>2. n \in MapState
    BY QuietInOrder, Stops
  <1>3. to \in View /\ to # Nowhere
    BY ViewParts, NowhereAssumption DEF View
  <1> HIDE DEF to
  <1> DEFINE a == MoveStart(n, TRUE, FALSE)
             b == Move(a, n.center, n.zoom, TRUE)
  <1>4. a \in MapState
    BY <1>2, MoveStarts
  <1> HIDE DEF a
  <1>5. n.center \in Nat /\ n.zoom \in Zooms
    BY <1>2 DEF MapState
  <1>6. b \in MapState
    BY <1>4, <1>5, Moves
  <1>7. map' = [b EXCEPT !.fly = to]
    BY <1>1 DEF a
  <1> HIDE DEF b
  <1>8. map' \in MapState /\ map'.fly # Nowhere
    BY <1>3, <1>6, <1>7 DEF MapState
  <1>9. Orderly(map')
    BY <1>8 DEF Orderly, MoveGoesOn, ZoomGoesOn
  <1>10. QED
    BY <1>9, Called DEF FlyTo

LEMMA ResizeKeeps ==
  ASSUME MapInv, Resize
  PROVE  MapInv'
  <1> DEFINE q == Quiet(map)
  <1>1. Orderly(q) /\ q \in MapState
    BY QuietInOrder
  <1>2. map' = [q EXCEPT !.resizeRequest = TRUE]
    BY DEF Resize
  <1> HIDE DEF q
  <1>3. map' \in MapState /\ Same(q, map') /\ SameOpen(q, map')
    BY <1>1, <1>2 DEF MapState, Same, SameOpen, Opens
  <1>4. Orderly(map')
    BY <1>1, <1>3, Keeps
  <1>5. calls' \in 0..MaxCalls /\ width' \in Sizes
    BY ZoomAssumption DEF MapInv, Resize, Call
  <1>6. QED
    BY <1>4, <1>5 DEF MapInv, Orderly, MoveGoesOn, ZoomGoesOn

LEMMA DragDownKeeps ==
  ASSUME MapInv, DragDown
  PROVE  MapInv'
  <1> DEFINE q == Quiet(map)
  <1>1. /\ q \in MapState /\ MoveGoesOn(q) /\ ZoomGoesOn(q)
        /\ q.drag = "no"
    BY QuietInOrder DEF Same, DragDown
  <1>2. map' = [q EXCEPT !.drag = "down"]
    BY DEF DragDown
  <1> HIDE DEF q
  <1>3. /\ map' \in MapState
        /\ map'.drag = "down" /\ map'.pan = q.pan /\ SameOpen(q, map')
    BY <1>1, <1>2 DEF MapState, SameOpen, Opens
  <1>4. /\ map'.anim = q.anim /\ map'.fly = q.fly /\ map'.pinch = q.pinch
        /\ map'.frames = q.frames /\ map'.flightCut = q.flightCut
    BY <1>1, <1>2 DEF MapState
  <1>5. MoveGoesOn(map') /\ ZoomGoesOn(map')
    BY <1>1, <1>3, <1>4 DEF MoveGoesOn, ZoomGoesOn, SameOpen, Opens
  <1>6. QED
    BY <1>3, <1>5, Called DEF DragDown, Orderly

LEMMA DragStartKeeps ==
  ASSUME MapInv, DragStart
  PROVE  MapInv'
  <1>1. PICK n \in Stop(Quiet(map)) :
          map' = [Emit(n, "movestart") EXCEPT !.drag = "moving"]
    BY DEF DragStart
  <1>2. n \in MapState /\ ZoomGoesOn(n)
    BY QuietInOrder, Stops
  <1> DEFINE k == Emit(n, "movestart")
  <1>3. k \in MapState /\ Same(n, k) /\ Told(n, k, "movestart")
    BY <1>2, Emits DEF EventTypes
  <1>4. map' = [k EXCEPT !.drag = "moving"]
    BY <1>1
  <1> HIDE DEF k
  <1>5. /\ map' \in MapState /\ map'.drag = "moving"
        /\ map'.anim = k.anim /\ map'.fly = k.fly /\ map'.pinch = k.pinch
        /\ map'.frames = k.frames /\ map'.flightCut = k.flightCut
        /\ SameOpen(k, map')
    BY <1>3, <1>4 DEF MapState, SameOpen, Opens
  <1>6. ZoomGoesOn(map')
    BY <1>2, <1>3, <1>5 DEF ZoomGoesOn, Same, Told, SameOpen, Opens
  <1>7. MoveGoesOn(map')
    BY <1>5 DEF MoveGoesOn
  <1>8. QED
    BY <1>5, <1>6, <1>7, Awaited DEF DragStart, Orderly

LEMMA DragStepKeeps ==
  ASSUME MapInv, NEW v \in Views, DragStep(v[1])
  PROVE  MapInv'
  <1> DEFINE q == Quiet(map)
             n == RunFrame(q, v[1])
  <1>1. Orderly(q) /\ q \in MapState
    BY QuietInOrder
  <1>2. n \in MapState /\ Same(q, n) /\ SameOpen(q, n)
    BY <1>1, ViewParts, RunsFrame
  <1>3. Orderly(n)
    BY <1>1, <1>2, Keeps
  <1>4. QED
    BY <1>3, Awaited DEF DragStep

LEMMA SecondPressKeeps ==
  ASSUME MapInv, SecondPress
  PROVE  MapInv'
  <1> DEFINE q == Quiet(map)
  <1>1. q \in MapState /\ ZoomGoesOn(q)
    BY QuietInOrder
  <1>2. map' = [q EXCEPT !.drag = "down", !.hushed = TRUE]
    BY DEF SecondPress
  <1> HIDE DEF q
  <1>3. /\ map' \in MapState /\ map'.hushed /\ map'.zoomOpen = q.zoomOpen
        /\ map'.anim = q.anim /\ map'.fly = q.fly /\ map'.pinch = q.pinch
        /\ map'.frames = q.frames /\ map'.flightCut = q.flightCut
    BY <1>1, <1>2 DEF MapState
  <1>4. MoveGoesOn(map') /\ ZoomGoesOn(map')
    BY <1>1, <1>3 DEF MoveGoesOn, ZoomGoesOn
  <1>5. QED
    BY <1>3, <1>4, Awaited DEF SecondPress, Orderly

(* Whatever held the map lets go of it.                                    *)
LEMMA DragUpKeeps ==
  ASSUME MapInv, DragUp
  PROVE  MapInv'
  <1> DEFINE q == Quiet(map)
             n == [q EXCEPT !.drag = "no"]
             f == [kind |-> "inertia", center |-> 0, zoom |-> 0]
  <1>1. /\ q \in MapState /\ MoveGoesOn(q) /\ ZoomGoesOn(q)
        /\ q.drag = map.drag
    BY QuietInOrder DEF Same
  <1>2. /\ map.drag = "moving" => map' = Emit(n, "moveend") \/ map' = RequestFrame(n, f)
        /\ map.drag # "moving" => map' = n
    BY DEF DragUp, OnDragEnd
  <1> HIDE DEF q
  <1>3. /\ n \in MapState /\ n.pan = q.pan /\ SameOpen(q, n)
        /\ n.anim = q.anim /\ n.fly = q.fly /\ n.pinch = q.pinch
        /\ n.frames = q.frames /\ n.flightCut = q.flightCut
    BY <1>1 DEF MapState, SameOpen, Opens
  <1> HIDE DEF n
  <1>4. ZoomGoesOn(n)
    BY <1>1, <1>3 DEF ZoomGoesOn, SameOpen, Opens
  <1>5. CASE map.drag # "moving"
    <2>1. MoveGoesOn(n)
      BY <1>1, <1>3, <1>5 DEF MoveGoesOn, SameOpen, Opens
    <2>2. QED
      BY <1>2, <1>3, <1>4, <1>5, <2>1, Awaited DEF DragUp, Orderly
  <1>6. CASE map' = Emit(n, "moveend")
    <2>1. /\ map' \in MapState /\ Same(n, map') /\ Told(n, map', "moveend")
      BY <1>3, <1>6, Emits DEF EventTypes
    <2>2. MoveGoesOn(map')
      BY <2>1 DEF MoveGoesOn, Told, Opens
    <2>3. ZoomGoesOn(map')
      BY <1>4, <2>1 DEF ZoomGoesOn, Same, Told, Opens
    <2>4. QED
      BY <2>1, <2>2, <2>3, Awaited DEF DragUp, Orderly
  <1>7. CASE map' = RequestFrame(n, f)
    <2>1. f \in Frame /\ n.frames \in Seq(Frame)
      BY <1>3, ZoomAssumption DEF Frame, Zooms, MapState
    <2> HIDE DEF f
    <2>2. /\ map' \in MapState /\ map'.frames = Append(n.frames, f)
          /\ map'.frames # <<>> /\ map'.anim = n.anim /\ map'.fly = n.fly
          /\ map'.pinch = n.pinch /\ map'.flightCut = n.flightCut
          /\ SameOpen(n, map')
      BY <1>3, <1>7, <2>1, RequestsFrame
    <2>3. MoveGoesOn(map')
      BY <2>2 DEF MoveGoesOn
    <2>4. ZoomGoesOn(map')
      BY <1>4, <2>1, <2>2, MoreFrames DEF ZoomGoesOn, SameOpen, Opens
    <2>5. QED
      BY <2>2, <2>3, <2>4, Awaited DEF DragUp, Orderly
  <1>8. QED
    BY <1>2, <1>5, <1>6, <1>7

(* A flight that two fingers stop is the movement that nothing may end.    *)
LEMMA OnTouchStartKeeps ==
  ASSUME MapInv, OnTouchStart
  PROVE  MapInv'
  <1> DEFINE q == Quiet(map)
  <1>1. PICK n \in Stop(q) :
          map' = [n EXCEPT !.pinch = "down", !.hushed = @ \/ map.fly # Nowhere]
    BY DEF OnTouchStart
  <1>2. /\ q \in MapState /\ MoveGoesOn(q) /\ ZoomGoesOn(q)
        /\ q.fly = map.fly /\ q.pinch = "no"
    BY QuietInOrder DEF Same, OnTouchStart
  <1> HIDE DEF q
  <1>3. /\ n \in MapState /\ ZoomGoesOn(n) /\ n.pinch = "no"
        /\ map.fly = Nowhere => MoveGoesOn(n)
    BY <1>1, <1>2, Stops
  <1>4. /\ map' \in MapState /\ map'.pinch = "down"
        /\ map'.hushed <=> (n.hushed \/ map.fly # Nowhere)
        /\ map'.moveOpen = n.moveOpen /\ map'.zoomOpen = n.zoomOpen
        /\ map'.anim = n.anim /\ map'.fly = n.fly /\ map'.pan = n.pan
        /\ map'.frames = n.frames /\ map'.flightCut = n.flightCut
        /\ map'.drag = n.drag
    BY <1>1, <1>3 DEF MapState
  <1>5. MoveGoesOn(map')
    BY <1>3, <1>4 DEF MoveGoesOn
  <1>6. ZoomGoesOn(map')
    BY <1>3, <1>4 DEF ZoomGoesOn
  <1>7. QED
    BY <1>4, <1>5, <1>6, Called DEF OnTouchStart, Orderly

LEMMA OnTouchMoveKeeps ==
  ASSUME MapInv, OnTouchMove
  PROVE  MapInv'
  <1> DEFINE k == MoveStart(Quiet(map), TRUE, FALSE)
  <1>1. k \in MapState
    BY QuietInOrder, MoveStarts
  <1>2. map' = [k EXCEPT !.pinch = "moving"]
    BY DEF OnTouchMove
  <1> HIDE DEF k
  <1>3. map' \in MapState /\ map'.pinch = "moving"
    BY <1>1, <1>2 DEF MapState
  <1>4. QED
    BY <1>3, Awaited DEF OnTouchMove, Orderly, MoveGoesOn, ZoomGoesOn

LEMMA PinchFrameKeeps ==
  ASSUME MapInv, NEW v \in Views, PinchFrame(v[1], v[2])
  PROVE  MapInv'
  <1> DEFINE q == Quiet(map)
             n == Move(q, v[1], v[2], TRUE)
  <1>1. Orderly(q) /\ q \in MapState
    BY QuietInOrder
  <1>2. n \in MapState /\ Same(q, n) /\ SameOpen(q, n)
    BY <1>1, ViewParts, Moves
  <1>3. Orderly(n)
    BY <1>1, <1>2, Keeps
  <1>4. QED
    BY <1>3, Awaited DEF PinchFrame

LEMMA OnTouchEndKeeps ==
  ASSUME MapInv, NEW v \in Views, OnTouchEnd(v[1], v[2])
  PROVE  MapInv'
  <1> DEFINE q == Quiet(map)
             n == [q EXCEPT !.pinch = "no"]
  <1>1. /\ q \in MapState /\ MoveGoesOn(q) /\ ZoomGoesOn(q)
        /\ q.pinch = map.pinch
    BY QuietInOrder DEF Same
  <1>2. map' = IF map.pinch = "moving" THEN AnimateZoom(n, v[1], v[2], TRUE) ELSE n
    BY DEF OnTouchEnd
  <1> HIDE DEF q
  <1>3. /\ n \in MapState /\ n.pan = q.pan /\ SameOpen(q, n)
        /\ n.anim = q.anim /\ n.fly = q.fly /\ n.drag = q.drag
        /\ n.frames = q.frames /\ n.flightCut = q.flightCut
    <2>1. n \in MapState
      BY <1>1 DEF MapState
    <2>2. SameOpen(q, n)
      BY <1>1 DEF MapState, SameOpen, Opens
    <2>3. QED
      BY <1>1, <2>1, <2>2 DEF MapState
  <1> HIDE DEF n
  <1>4. CASE map.pinch = "moving"
    BY <1>2, <1>3, <1>4, ViewParts, Animates, Awaited DEF OnTouchEnd
  <1>5. CASE map.pinch # "moving"
    <2>1. MoveGoesOn(n)
      BY <1>1, <1>3, <1>5 DEF MoveGoesOn, SameOpen, Opens
    <2>2. ZoomGoesOn(n)
      BY <1>1, <1>3, <1>5 DEF ZoomGoesOn, SameOpen, Opens
    <2>3. QED
      BY <1>2, <1>3, <1>5, <2>1, <2>2, Awaited DEF OnTouchEnd, Orderly
  <1>6. QED
    BY <1>4, <1>5

-----------------------------------------------------------------------------
(* The callbacks *)

LEMMA MinMax ==
  ASSUME NEW a \in Nat, NEW b \in Nat
  PROVE  Min({a, b}) \in {a, b} /\ Max({a, b}) \in {a, b}
  <1>1. \E x \in {a, b} : \A y \in {a, b} : x <= y
    OBVIOUS
  <1>2. \E x \in {a, b} : \A y \in {a, b} : x >= y
    OBVIOUS
  <1>3. QED
    BY <1>1, <1>2 DEF Min, Max

LEMMA FlyStepKeeps ==
  ASSUME MapInv, FlyStep
  PROVE  MapInv'
  <1> DEFINE q == Quiet(map)
  <1>1. Orderly(q) /\ q \in MapState /\ map \in MapState
    BY QuietInOrder DEF MapInv, Orderly
  <1>2. PICK zoom \in Between(map.zoom, map.fly.zoom) :
          map' = Move(q, map.center, zoom, TRUE)
    BY DEF FlyStep
  <1>3. map.zoom \in Zooms /\ map.fly.zoom \in Zooms /\ map.center \in Nat
    BY <1>1 DEF FlyStep, MapState, View
  <1>4. zoom \in Zooms
    <2>1. Min({map.zoom, map.fly.zoom}) \in Zooms
          /\ Max({map.zoom, map.fly.zoom}) \in Zooms
      BY <1>3, MinMax, ZoomAssumption DEF Zooms
    <2>2. QED
      BY <2>1, ZoomAssumption DEF Between, Zooms
  <1> HIDE DEF q
  <1>5. map' \in MapState /\ Same(q, map') /\ SameOpen(q, map')
    BY <1>1, <1>2, <1>3, <1>4, Moves
  <1>6. Orderly(map')
    BY <1>1, <1>5, Keeps
  <1>7. QED
    BY <1>6, Awaited DEF FlyStep

LEMMA FlyEndKeeps ==
  ASSUME MapInv, FlyEnd
  PROVE  MapInv'
  <1> DEFINE q == Quiet(map)
             a == [q EXCEPT !.fly = Nowhere]
             b == Move(a, map.fly.center, map.fly.zoom, FALSE)
  <1>1. q \in MapState /\ map \in MapState
    BY QuietInOrder DEF MapInv, Orderly
  <1>2. map.fly.center \in Nat /\ map.fly.zoom \in Zooms
    BY <1>1 DEF FlyEnd, MapState, View
  <1>3. map' = MoveEnd(b, TRUE)
    BY DEF FlyEnd
  <1> HIDE DEF q
  <1>4. a \in MapState
    BY <1>1 DEF MapState
  <1> HIDE DEF a
  <1>5. b \in MapState
    BY <1>2, <1>4, Moves
  <1> HIDE DEF b
  <1>6. map' \in MapState /\ ~map'.moveOpen /\ ~map'.zoomOpen
    BY <1>3, <1>5, MoveEnds DEF Opens
  <1>7. QED
    BY <1>6, Awaited DEF FlyEnd, Orderly, MoveGoesOn, ZoomGoesOn

LEMMA PanStepKeeps ==
  ASSUME MapInv, PanStep
  PROVE  MapInv'
  <1> DEFINE q == Quiet(map)
             center == (map.center + map.pan) \div 2
  <1>1. Orderly(q) /\ q \in MapState /\ map \in MapState
    BY QuietInOrder DEF MapInv, Orderly
  <1>2. map.center \in Nat /\ map.pan \in Nat
    BY <1>1 DEF PanStep, MapState
  <1>3. center \in Nat
    BY <1>2
  <1>4. map' = RunFrame(q, center)
    BY DEF PanStep
  <1> HIDE DEF q, center
  <1>5. map' \in MapState /\ Same(q, map') /\ SameOpen(q, map')
    BY <1>1, <1>3, <1>4, RunsFrame
  <1>6. Orderly(map')
    BY <1>1, <1>5, Keeps
  <1>7. QED
    BY <1>6, Awaited DEF PanStep

LEMMA PanEndKeeps ==
  ASSUME MapInv, PanEnd
  PROVE  MapInv'
  <1> DEFINE q == Quiet(map)
             k == RunFrame(q, map.pan)
  <1>1. q \in MapState /\ ZoomGoesOn(q) /\ map \in MapState
    BY QuietInOrder DEF MapInv, Orderly
  <1>2. map.pan \in Nat
    BY <1>1 DEF PanEnd, MapState
  <1>3. map' = Complete(k)
    BY DEF PanEnd
  <1> HIDE DEF q
  <1>4. k \in MapState /\ Same(q, k) /\ SameOpen(q, k)
    BY <1>1, <1>2, RunsFrame
  <1> HIDE DEF k
  <1>5. /\ map' \in MapState /\ BarPan(k, map')
        /\ Opens(map', FALSE, k.zoomOpen, FALSE)
    BY <1>3, <1>4, Completes
  <1>6. MoveGoesOn(map')
    BY <1>5 DEF MoveGoesOn, Opens
  <1>7. ZoomGoesOn(map')
    BY <1>1, <1>4, <1>5 DEF ZoomGoesOn, BarPan, Same, SameOpen, Opens
  <1>8. QED
    BY <1>5, <1>6, <1>7, Awaited DEF PanEnd, Orderly

(* A frame has been run: the frames after it are still awaited.            *)
LEMMA NextFrame ==
  ASSUME MapInv, map.frames # <<>>
  PROVE  LET m == [Quiet(map) EXCEPT !.frames = Tail(@)] IN
         /\ m \in MapState /\ Head(map.frames) \in Frame
         /\ m.anim = map.anim /\ m.fly = map.fly /\ m.pinch = map.pinch
         /\ m.flightCut = map.flightCut /\ m.zoomOpen = map.zoomOpen
         /\ Head(map.frames).kind # "moveEnd" => ZoomGoesOn(m)
  <1> DEFINE q == Quiet(map)
             m == [q EXCEPT !.frames = Tail(@)]
             s == map.frames
             t == Tail(s)
  <1>1. /\ q \in MapState /\ q.frames = s /\ s \in Seq(Frame)
        /\ q.anim = map.anim /\ q.fly = map.fly /\ q.pinch = map.pinch
        /\ q.flightCut = map.flightCut /\ q.zoomOpen = map.zoomOpen
        /\ ZoomGoesOn(q)
    <2>1. map \in MapState
      BY DEF MapInv, Orderly
    <2>2. q \in MapState /\ Same(map, q) /\ ZoomGoesOn(q)
      BY QuietInOrder
    <2>3. q.zoomOpen = map.zoomOpen
      BY <2>1 DEF Quiet, MapState
    <2>4. s \in Seq(Frame)
      BY <2>1 DEF MapState
    <2>5. QED
      BY <2>2, <2>3, <2>4 DEF Same
  <1>2. /\ t \in Seq(Frame) /\ Len(s) \in Nat \ {0} /\ Len(t) = Len(s) - 1
        /\ s[1] = Head(s) /\ Head(s) \in Frame
        /\ \A i \in 1..Len(t) : t[i] = s[i + 1]
    BY <1>1
  <1>3. m = [q EXCEPT !.frames = t]
    BY <1>1
  <1> HIDE DEF q, m, t, s
  <1>4. /\ m \in MapState /\ m.frames = t
        /\ m.anim = q.anim /\ m.fly = q.fly /\ m.pinch = q.pinch
        /\ m.flightCut = q.flightCut /\ m.zoomOpen = q.zoomOpen
    BY <1>1, <1>2, <1>3 DEF MapState
  <1>5. ASSUME Head(s).kind # "moveEnd"
        PROVE  ZoomGoesOn(m)
    <2>1. ASSUME NEW i \in 1..Len(s), s[i].kind = "moveEnd"
          PROVE  \E j \in 1..Len(t) : t[j].kind = "moveEnd"
      <3>1. i # 1
        BY <1>2, <1>5, <2>1
      <3>2. i - 1 \in 1..Len(t) /\ (i - 1) + 1 = i
        BY <1>2, <3>1
      <3>3. t[i - 1] = s[i]
        BY <1>2, <3>2
      <3>4. QED
        BY <2>1, <3>2, <3>3
    <2>2. QED
      BY <1>1, <1>4, <2>1 DEF ZoomGoesOn, s
  <1>6. QED
    BY <1>1, <1>2, <1>4, <1>5 DEF m, q, s

LEMMA AnimationFrameKeeps ==
  ASSUME MapInv, AnimationFrame
  PROVE  MapInv'
  <1> DEFINE f == Head(map.frames)
             m == [Quiet(map) EXCEPT !.frames = Tail(@)]
             a == MoveStart(m, TRUE, FALSE)
  <1>1. m \in MapState /\ f \in Frame
    BY NextFrame DEF AnimationFrame
  <1>2. f.kind \in {"animate", "moveEnd"} /\ f.center \in Nat /\ f.zoom \in Zooms
    BY <1>1 DEF AnimationFrame, Frame
  <1>3. /\ f.kind = "animate" => map' = AnimateZoom(a, f.center, f.zoom, FALSE)
        /\ f.kind = "moveEnd" => map' = MoveEnd(m, TRUE)
    BY <1>2 DEF AnimationFrame
  <1> HIDE DEF m, f
  <1>4. CASE f.kind = "animate"
    <2>1. a \in MapState
      BY <1>1, MoveStarts
    <2> HIDE DEF a
    <2>2. Orderly(map')
      BY <1>2, <1>3, <1>4, <2>1, Animates
    <2>3. QED
      BY <2>2, Awaited DEF AnimationFrame
  <1>5. CASE f.kind = "moveEnd"
    <2>1. /\ map' \in MapState
          /\ Opens(map', FALSE, m.zoomOpen /\ ~TRUE, FALSE)
      BY <1>1, <1>3, <1>5, MoveEnds
    <2>2. QED
      BY <2>1, Awaited DEF AnimationFrame, Orderly, MoveGoesOn, ZoomGoesOn, Opens
  <1>6. QED
    BY <1>2, <1>4, <1>5

LEMMA InertiaFrameKeeps ==
  ASSUME MapInv, NEW v \in Views, InertiaFrame(v[1])
  PROVE  MapInv'
  <1> DEFINE m == [Quiet(map) EXCEPT !.frames = Tail(@)]
  <1>1. m \in MapState /\ ZoomGoesOn(m)
    BY NextFrame DEF InertiaFrame
  <1>2. PICK n \in StopPan(m) : map' = [n EXCEPT !.pan = v[1]]
    BY DEF InertiaFrame
  <1> HIDE DEF m
  <1>3. n \in MapState /\ BarPan(m, n) /\ (n.zoomOpen <=> m.zoomOpen)
    BY <1>1, <1>2, StopsPan
  <1>4. v[1] \in Nat /\ v[1] # Nowhere
    BY ViewParts, SizesAssumption
  <1>5. /\ map' \in MapState /\ map'.pan # Nowhere /\ BarPan(n, map')
        /\ map'.zoomOpen = n.zoomOpen
    BY <1>2, <1>3, <1>4 DEF MapState, BarPan
  <1>6. MoveGoesOn(map')
    BY <1>5 DEF MoveGoesOn
  <1>7. ZoomGoesOn(map')
    BY <1>1, <1>3, <1>5 DEF ZoomGoesOn, BarPan
  <1>8. QED
    BY <1>5, <1>6, <1>7, Awaited DEF InertiaFrame, Orderly

LEMMA CatchTransitionEndKeeps ==
  ASSUME MapInv, CatchTransitionEnd
  PROVE  MapInv'
  <1>1. Quiet(map) \in MapState /\ Quiet(map).anim # Nowhere
    BY QuietInOrder DEF Same, CatchTransitionEnd
  <1>2. Orderly(map')
    BY <1>1, EndsTransition DEF CatchTransitionEnd
  <1>3. QED
    BY <1>2, Awaited DEF CatchTransitionEnd

LEMMA ZoomTimeoutKeeps ==
  ASSUME MapInv, ZoomTimeout
  PROVE  MapInv'
  <1> DEFINE q == Quiet(map)
             n == [q EXCEPT !.timers = @ - 1]
  <1>1. /\ q \in MapState /\ MoveGoesOn(q) /\ ZoomGoesOn(q) /\ q.timers = map.timers
    BY QuietInOrder DEF Same
  <1>2. map' = OnZoomTransitionEnd(n)
    BY DEF ZoomTimeout
  <1>3. q.timers > 0
    BY <1>1 DEF ZoomTimeout
  <1> HIDE DEF q
  <1>4. q.timers - 1 \in Nat
    BY <1>1, <1>3 DEF MapState
  <1>5. /\ n \in MapState /\ BarPan(q, n) /\ n.pan = q.pan /\ SameOpen(q, n)
    BY <1>1, <1>4 DEF MapState, BarPan, SameOpen, Opens
  <1> HIDE DEF n
  <1>6. Orderly(n)
    <2>1. MoveGoesOn(n)
      BY <1>1, <1>5 DEF MoveGoesOn, BarPan, SameOpen, Opens
    <2>2. ZoomGoesOn(n)
      BY <1>1, <1>5 DEF ZoomGoesOn, BarPan, SameOpen, Opens
    <2>3. QED
      BY <1>5, <2>1, <2>2 DEF Orderly
  <1>7. Orderly(map')
    <2>1. CASE n.anim = Nowhere
      BY <1>2, <1>6, <2>1 DEF OnZoomTransitionEnd
    <2>2. CASE n.anim # Nowhere
      BY <1>2, <1>5, <2>2, EndsTransition
    <2>3. QED
      BY <2>1, <2>2
  <1>8. QED
    BY <1>7, Awaited DEF ZoomTimeout

LEMMA ResizeFrameKeeps ==
  ASSUME MapInv, ResizeFrame
  PROVE  MapInv'
  <1> DEFINE q == Quiet(map)
             m == [q EXCEPT !.resizeRequest = FALSE]
             k == [m EXCEPT !.size = width]
             a == Emit(k, "move")
             b == Emit(a, "resize")
             n == [b EXCEPT !.sizeTimer = TRUE]
  <1>1. Orderly(q) /\ q \in MapState /\ MoveGoesOn(q) /\ ZoomGoesOn(q)
    BY QuietInOrder
  <1>2. map' = m \/ map' = k \/ map' = n
    BY DEF ResizeFrame
  <1>3. width \in Sizes
    BY DEF MapInv
  <1> HIDE DEF q
  <1>4. m \in MapState /\ BarPan(q, m) /\ m.pan = q.pan /\ SameOpen(q, m)
    <2>1. m \in MapState
      BY <1>1 DEF MapState
    <2>2. BarPan(q, m) /\ m.pan = q.pan
      BY <1>1 DEF MapState, BarPan
    <2>3. SameOpen(q, m)
      BY <1>1 DEF MapState, SameOpen, Opens
    <2>4. QED
      BY <2>1, <2>2, <2>3
  <1> HIDE DEF m
  <1>5. k \in MapState /\ BarPan(m, k) /\ k.pan = m.pan /\ SameOpen(m, k)
    <2>1. k \in MapState
      BY <1>3, <1>4 DEF MapState
    <2>2. BarPan(m, k) /\ k.pan = m.pan
      BY <1>3, <1>4 DEF MapState, BarPan
    <2>3. SameOpen(m, k)
      BY <1>3, <1>4 DEF MapState, SameOpen, Opens
    <2>4. QED
      BY <2>1, <2>2, <2>3
  <1> HIDE DEF k
  <1>6. a \in MapState /\ Same(k, a) /\ SameView(k, a) /\ Told(k, a, "move")
    BY <1>5, Emits DEF EventTypes
  <1> HIDE DEF a
  <1>7. b \in MapState /\ Same(a, b) /\ SameView(a, b) /\ Told(a, b, "resize")
    BY <1>6, Emits DEF EventTypes
  <1> HIDE DEF b
  <1>8. n \in MapState /\ BarPan(b, n) /\ n.pan = b.pan /\ SameOpen(b, n)
    <2>1. n \in MapState
      BY <1>7 DEF MapState
    <2>2. BarPan(b, n) /\ n.pan = b.pan
      BY <1>7 DEF MapState, BarPan
    <2>3. SameOpen(b, n)
      BY <1>7 DEF MapState, SameOpen, Opens
    <2>4. QED
      BY <2>1, <2>2, <2>3
  <1> HIDE DEF n
  <1>9. ASSUME NEW r \in {m, k, n}
        PROVE  r \in MapState /\ BarPan(q, r) /\ r.pan = q.pan /\ SameOpen(q, r)
    <2>1. CASE r \in {m, k}
      BY <1>4, <1>5, <2>1 DEF BarPan, SameOpen, Opens
    <2>2. CASE r = n
      <3>1. BarPan(k, n) /\ n.pan = k.pan
        BY <1>6, <1>7, <1>8 DEF Same, SameView, BarPan
      <3>2. SameOpen(k, n)
        BY <1>6, <1>7, <1>8 DEF Told, SameOpen, Opens
      <3>3. QED
        BY <1>4, <1>5, <1>8, <2>2, <3>1, <3>2 DEF BarPan, SameOpen, Opens
    <2>3. QED
      BY <2>1, <2>2
  <1>10. /\ map' \in MapState /\ BarPan(q, map') /\ map'.pan = q.pan
         /\ SameOpen(q, map')
    BY <1>2, <1>9
  <1>11. MoveGoesOn(map')
    BY <1>1, <1>10 DEF MoveGoesOn, BarPan, SameOpen, Opens
  <1>12. ZoomGoesOn(map')
    BY <1>1, <1>10 DEF ZoomGoesOn, BarPan, SameOpen, Opens
  <1>13. QED
    BY <1>10, <1>11, <1>12, Awaited DEF ResizeFrame, Orderly

LEMMA SizeTimeoutKeeps ==
  ASSUME MapInv, SizeTimeout
  PROVE  MapInv'
  <1> DEFINE q == Quiet(map)
             k == [q EXCEPT !.sizeTimer = FALSE]
  <1>1. q \in MapState /\ ZoomGoesOn(q)
    BY QuietInOrder
  <1>2. map' = Emit(k, "moveend")
    BY DEF SizeTimeout
  <1> HIDE DEF q
  <1>3. k \in MapState /\ Same(q, k) /\ SameOpen(q, k)
    BY <1>1, ClearsTimer
  <1> HIDE DEF k
  <1>4. map' \in MapState /\ Same(k, map') /\ Told(k, map', "moveend")
    BY <1>2, <1>3, Emits DEF EventTypes
  <1>5. MoveGoesOn(map')
    BY <1>4 DEF MoveGoesOn, Told, Opens
  <1>6. ZoomGoesOn(map')
    BY <1>1, <1>3, <1>4 DEF ZoomGoesOn, Same, Told, SameOpen, Opens
  <1>7. QED
    BY <1>4, <1>5, <1>6, Awaited DEF SizeTimeout, Orderly

-----------------------------------------------------------------------------
LEMMA MapInvInit == MapInit => MapInv
  <1> SUFFICES ASSUME MapInit PROVE MapInv
    OBVIOUS
  <1>1. width \in Sizes /\ calls = 0 /\ 0 \in Zooms /\ <<>> \in Seq(Frame)
        /\ <<>> \in Seq(Event)
    BY ZoomAssumption DEF MapInit, Zooms
  <1>2. map \in MapState /\ ~map.moveOpen /\ ~map.zoomOpen
    BY <1>1 DEF MapInit, Init0, MapState
  <1>3. QED
    BY <1>1, <1>2, ZoomAssumption DEF MapInv, Orderly, MoveGoesOn, ZoomGoesOn

LEMMA MapInvStep == MapInv /\ [MapNext]_mapVars => MapInv'
  <1> SUFFICES ASSUME MapInv, [MapNext]_mapVars PROVE MapInv'
    OBVIOUS
  <1>1. CASE UNCHANGED mapVars
    BY <1>1 DEF mapVars, MapInv, Orderly, MoveGoesOn, ZoomGoesOn
  <1>2. CASE \E v \in Views :
                \/ \E reset \in BOOLEAN : CallSetView(v[1], v[2], reset)
                \/ FlyTo(v[1], v[2])
                \/ CallPanBy(v[1])
                \/ SetZoom(v[2])
    BY <1>2, SetViewKeeps, FlyToKeeps, PanByKeeps, SetZoomKeeps
  <1>3. CASE \E v \in Views : DragStep(v[1]) \/ PinchFrame(v[1], v[2])
                              \/ OnTouchEnd(v[1], v[2])
    BY <1>3, DragStepKeeps, PinchFrameKeeps, OnTouchEndKeeps
  <1>4. CASE \/ CallStop \/ Resize
             \/ DragDown \/ DragStart \/ SecondPress \/ DragUp
             \/ OnTouchStart \/ OnTouchMove
    BY <1>4, StopKeeps, ResizeKeeps, DragDownKeeps, DragStartKeeps,
       SecondPressKeeps, DragUpKeeps, OnTouchStartKeeps, OnTouchMoveKeeps
  <1>5. CASE Callback
    BY <1>5, FlyStepKeeps, FlyEndKeeps, PanStepKeeps, PanEndKeeps,
       AnimationFrameKeeps, InertiaFrameKeeps, CatchTransitionEndKeeps,
       ZoomTimeoutKeeps, ResizeFrameKeeps, SizeTimeoutKeeps DEF Callback
  <1>6. QED
    BY <1>1, <1>2, <1>3, <1>4, <1>5 DEF MapNext

(***************************************************************************)
(* Whatever calls, gestures and callbacks follow one another, the map's    *)
(* fields keep their types: an animation always leads to a view, and every *)
(* event tells a zoom that the map has.                                    *)
(***************************************************************************)
THEOREM MapTypeCorrect == MapSpec => []MapTypeOK
  <1>1. MapInv => MapTypeOK
    BY DEF MapInv, Orderly, MapTypeOK
  <1>2. QED
    BY <1>1, MapInvInit, MapInvStep, PTL DEF MapSpec

(***************************************************************************)
(* Whatever calls interrupt each other, a map at rest has ended what it    *)
(* began, but for the ends that a flight that was cut or a press that      *)
(* broke a drag off leave out.                                             *)
(***************************************************************************)
THEOREM MovementsEnd == MapSpec => []EndsWhatItStarts
  <1>1. MapInv => EndsWhatItStarts
    <2> SUFFICES ASSUME MapInv, AtRest
                 PROVE  /\ ~map.moveOpen \/ map.hushed
                        /\ ~map.zoomOpen \/ map.flightCut
      BY DEF EndsWhatItStarts
    <2>1. ~(\E i \in 1..Len(map.frames) : map.frames[i].kind = "moveEnd")
      BY DEF AtRest
    <2>2. QED
      BY <2>1 DEF MapInv, Orderly, MoveGoesOn, ZoomGoesOn, AtRest
  <1>2. QED
    BY <1>1, MapInvInit, MapInvStep, PTL DEF MapSpec

-----------------------------------------------------------------------------
(* Limits of the zoom *)

Levels == 0..Highest

LimitState ==
    [loaded : BOOLEAN, zoom : Levels \cup {Unset},
     minZoom : Levels \cup {Unset}, maxZoom : Levels \cup {Unset},
     bound : SUBSET TileLayers, layers : SUBSET TileLayers,
     animates : BOOLEAN, anim : Levels \cup {Unset},
     frames : Seq(Levels \cup {Unset}), fly : Levels \cup {Unset},
     pinch : {"no", "down", "moving"},
     control : BOOLEAN, disabled : BOOLEAN, inOff : BOOLEAN,
     outOff : BOOLEAN, silent : BOOLEAN]

(* A view has a zoom, and the buttons of a map that is settled show where  *)
(* it can go, if they were told.                                           *)
Buttons(m) ==
    m.control /\ ~m.silent /\ Settled(m) =>
        /\ m.outOff <=> m.disabled \/ m.zoom = GetMinZoom(m)
        /\ m.inOff <=> m.disabled \/ m.zoom = GetMaxZoom(m)

Sound(m) == m \in LimitState /\ (m.loaded => m.zoom # Unset) /\ Buttons(m)

(* The limits of the map are the same.                                     *)
Alike(m, n) ==
    /\ n.loaded <=> m.loaded
    /\ n.minZoom = m.minZoom /\ n.maxZoom = m.maxZoom /\ n.bound = m.bound

(* So is what goes on, but for a flight.                                   *)
SameGoals(m, n) == n.anim = m.anim /\ n.frames = m.frames /\ n.pinch = m.pinch

SameButtons(m, n) ==
    /\ n.control = m.control /\ n.disabled = m.disabled
    /\ n.outOff = m.outOff /\ n.inOff = m.inOff /\ n.silent = m.silent

-----------------------------------------------------------------------------
(* Least and greatest *)

LEMMA LeastLevel ==
  ASSUME NEW S \in SUBSET Nat, S # {}
  PROVE  \E x \in S : \A y \in S : x <= y
  <1>1. IsWellFoundedOn(OpToRel(<, Nat), Nat)
    BY NatLessThanWellFounded
  <1>2. PICK x \in S : \A y \in S : ~(<<y, x>> \in OpToRel(<, Nat))
    BY <1>1, WFMin
  <1>3. ASSUME NEW y \in S
        PROVE  x <= y
    <2>1. x \in Nat /\ y \in Nat
      OBVIOUS
    <2>2. ~(y < x)
      BY <1>2, <2>1 DEF OpToRel
    <2>3. QED
      BY <2>1, <2>2
  <1>4. QED
    BY <1>3

LEMMA Extremes ==
  ASSUME NEW S \in SUBSET Levels, S # {}
  PROVE  /\ Min(S) \in S /\ \A y \in S : Min(S) <= y
         /\ Max(S) \in S /\ \A y \in S : Max(S) >= y
  <1>1. Highest \in Nat
    BY ZoomLimitsAssumption
  <1>2. \E x \in S : \A y \in S : x <= y
    BY <1>1, LeastLevel DEF Levels
  <1>3. \E x \in S : \A y \in S : x >= y
    <2> DEFINE T == {Highest - x : x \in S}
    <2>1. T \in SUBSET Nat /\ T # {}
      <3>1. \A x \in S : Highest - x \in Nat
        BY <1>1 DEF Levels
      <3>2. QED
        BY <3>1
    <2>2. PICK t \in T : \A u \in T : t <= u
      BY <2>1, LeastLevel
    <2>3. PICK x \in S : t = Highest - x
      BY <2>2
    <2>4. \A y \in S : Highest - x <= Highest - y
      BY <2>2, <2>3
    <2>5. \A y \in S : x >= y
      BY <1>1, <2>4 DEF Levels
    <2>6. QED
      BY <2>5
  <1>4. QED
    BY <1>2, <1>3 DEF Min, Max

LEMMA OfTwo ==
  ASSUME NEW a \in Int, NEW b \in Int
  PROVE  /\ Min({a, b}) = IF a <= b THEN a ELSE b
         /\ Max({a, b}) = IF a >= b THEN a ELSE b
  <1>1. \A x \in {a, b} : (\A y \in {a, b} : x <= y) <=> x = IF a <= b THEN a ELSE b
    OBVIOUS
  <1>2. \A x \in {a, b} : (\A y \in {a, b} : x >= y) <=> x = IF a >= b THEN a ELSE b
    OBVIOUS
  <1>3. (IF a <= b THEN a ELSE b) \in {a, b} /\ (IF a >= b THEN a ELSE b) \in {a, b}
    OBVIOUS
  <1>4. Min({a, b}) = CHOOSE x \in {a, b} : \A y \in {a, b} : x <= y
    BY DEF Min
  <1>5. Max({a, b}) = CHOOSE x \in {a, b} : \A y \in {a, b} : x >= y
    BY DEF Max
  <1>6. QED
    BY <1>1, <1>2, <1>3, <1>4, <1>5

-----------------------------------------------------------------------------
(* Limits *)

LEMMA LayersLimits ==
  ASSUME NEW m \in LimitState
  PROVE  LayersMin(m) \in Levels \cup {Unset} /\ LayersMax(m) \in Levels \cup {Unset}
  <1> DEFINE mins == {l.min : l \in m.bound} \ {Unset}
             maxs == {l.max : l \in m.bound} \ {Unset}
  <1>1. m.bound \in SUBSET TileLayers
    BY DEF LimitState
  <1>2. mins \in SUBSET Levels /\ maxs \in SUBSET Levels
    BY <1>1, ZoomLimitsAssumption DEF Levels
  <1>3. LayersMin(m) = (IF mins = {} THEN Unset ELSE Min(mins))
    BY DEF LayersMin
  <1>4. LayersMax(m) = (IF maxs = {} THEN Unset ELSE Max(maxs))
    BY DEF LayersMax
  <1> HIDE DEF mins, maxs
  <1>5. mins # {} => Min(mins) \in Levels
    BY <1>2, Extremes
  <1>6. maxs # {} => Max(maxs) \in Levels
    BY <1>2, Extremes
  <1>7. QED
    BY <1>3, <1>4, <1>5, <1>6

LEMMA Limits ==
  ASSUME NEW m \in LimitState
  PROVE  /\ GetMinZoom(m) \in Levels /\ GetMaxZoom(m) \in Levels \cup {Endless}
         /\ m.minZoom # Unset => GetMinZoom(m) = m.minZoom
         /\ m.minZoom = Unset => GetMinZoom(m) =
               IF LayersMin(m) = Unset THEN 0 ELSE LayersMin(m)
         /\ m.maxZoom # Unset => GetMaxZoom(m) = m.maxZoom
         /\ m.maxZoom = Unset => GetMaxZoom(m) =
               IF LayersMax(m) = Unset THEN Endless ELSE LayersMax(m)
         /\ Highest \in Nat /\ Endless \in Nat /\ Endless > Highest
         /\ Unset \notin Int /\ Levels \subseteq Nat
  <1>1. /\ Highest \in Nat /\ Endless \in Nat /\ Endless > Highest
        /\ Unset \notin Int /\ Levels \subseteq Nat /\ 0 \in Levels
    BY ZoomLimitsAssumption DEF Levels
  <1>2. m.minZoom \in Levels \cup {Unset} /\ m.maxZoom \in Levels \cup {Unset}
    BY DEF LimitState
  <1>3. LayersMin(m) \in Levels \cup {Unset} /\ LayersMax(m) \in Levels \cup {Unset}
    BY LayersLimits
  <1>4. /\ m.minZoom # Unset => GetMinZoom(m) = m.minZoom
        /\ m.minZoom = Unset => GetMinZoom(m) =
               IF LayersMin(m) = Unset THEN 0 ELSE LayersMin(m)
    BY DEF GetMinZoom
  <1>5. /\ m.maxZoom # Unset => GetMaxZoom(m) = m.maxZoom
        /\ m.maxZoom = Unset => GetMaxZoom(m) =
               IF LayersMax(m) = Unset THEN Endless ELSE LayersMax(m)
    BY DEF GetMaxZoom
  <1>6. QED
    BY <1>1, <1>2, <1>3, <1>4, <1>5

LEMMA LimitsAreNumbers ==
  ASSUME NEW m \in LimitState
  PROVE  GetMinZoom(m) \in Int /\ GetMaxZoom(m) \in Int
  <1>1. /\ GetMinZoom(m) \in 0..Highest
        /\ GetMaxZoom(m) \in (0..Highest) \cup {Endless}
        /\ Highest \in Nat /\ Endless \in Nat
    BY Limits DEF Levels
  <1>2. QED
    BY <1>1

LEMMA SameLimits ==
  ASSUME NEW m, NEW n, n.minZoom = m.minZoom, n.maxZoom = m.maxZoom,
         n.bound = m.bound
  PROVE  /\ LayersMin(n) = LayersMin(m) /\ LayersMax(n) = LayersMax(m)
         /\ GetMinZoom(n) = GetMinZoom(m) /\ GetMaxZoom(n) = GetMaxZoom(m)
  <1>1. LayersMin(n) = LayersMin(m) /\ LayersMax(n) = LayersMax(m)
    BY DEF LayersMin, LayersMax
  <1>2. QED
    BY <1>1 DEF GetMinZoom, GetMaxZoom

LEMMA LimitsZoom ==
  ASSUME NEW m \in LimitState, NEW zoom \in Int, zoom <= Highest
  PROVE  /\ LimitZoom(m, zoom) \in Levels
         /\ GetMinZoom(m) <= GetMaxZoom(m) =>
               LimitZoom(m, zoom) \in GetMinZoom(m)..GetMaxZoom(m)
  <1> DEFINE a == GetMinZoom(m)
             b == GetMaxZoom(m)
             c == IF b <= zoom THEN b ELSE zoom
  <1>1. /\ a \in 0..Highest /\ b \in (0..Highest) \cup {Endless}
        /\ Highest \in Nat /\ Endless \in Nat /\ Endless > Highest
    BY Limits DEF Levels
  <1> HIDE DEF a, b
  <1>2. a \in Int /\ b \in Int /\ c \in Int
    BY <1>1
  <1>3. Min({b, zoom}) = c
    BY <1>2, OfTwo
  <1> HIDE DEF c
  <1>4. Max({a, c}) = IF a >= c THEN a ELSE c
    BY <1>2, OfTwo
  <1>5. LimitZoom(m, zoom) = IF a >= c THEN a ELSE c
    BY <1>3, <1>4 DEF LimitZoom, a, b
  <1>6. c <= Highest /\ c <= b
    BY <1>1, <1>2 DEF c
  <1>7. LimitZoom(m, zoom) \in 0..Highest
    BY <1>1, <1>2, <1>5, <1>6
  <1>8. a <= b => LimitZoom(m, zoom) \in a..b
    BY <1>1, <1>2, <1>5, <1>6
  <1>9. QED
    BY <1>7, <1>8 DEF a, b, Levels

LEMMA SameAllowed ==
  ASSUME NEW m, NEW n, Alike(m, n)
  PROVE  /\ LayersMin(n) = LayersMin(m) /\ LayersMax(n) = LayersMax(m)
         /\ GetMinZoom(n) = GetMinZoom(m) /\ GetMaxZoom(n) = GetMaxZoom(m)
         /\ Allowed(n) = Allowed(m)
  <1>1. /\ LayersMin(n) = LayersMin(m) /\ LayersMax(n) = LayersMax(m)
        /\ GetMinZoom(n) = GetMinZoom(m) /\ GetMaxZoom(n) = GetMaxZoom(m)
    BY SameLimits DEF Alike
  <1>2. QED
    BY <1>1 DEF Allowed

-----------------------------------------------------------------------------
(* Zooms that animations lead to *)

LEMMA GoalsSame ==
  ASSUME NEW m, NEW n, SameGoals(m, n)
  PROVE  Goals(n) = Goals(m)
  BY DEF SameGoals, Goals

LEMMA ButtonsSame ==
  ASSUME NEW m, NEW n, Buttons(m), SameButtons(m, n), Alike(m, n), n.zoom = m.zoom,
         Settled(n) => Settled(m)
  PROVE  Buttons(n)
  <1>1. GetMinZoom(n) = GetMinZoom(m) /\ GetMaxZoom(n) = GetMaxZoom(m)
    BY SameAllowed
  <1>2. QED
    BY <1>1 DEF Buttons, SameButtons

FrameGoals(m) == {m.frames[i] : i \in DOMAIN m.frames}

LEMMA GoalsAre ==
  ASSUME NEW m
  PROVE  /\ Goals(m) = ({m.anim} \cup FrameGoals(m)) \ {Unset}
         /\ Settled(m) <=> /\ m.anim = Unset /\ m.fly = Unset /\ m.pinch # "moving"
                           /\ Unset \notin FrameGoals(m)
  BY DEF Goals, Settled, FrameGoals

LEMMA FrameAdded ==
  ASSUME NEW m \in LimitState, NEW n, NEW x \in Levels \cup {Unset},
         n.frames = Append(m.frames, x)
  PROVE  /\ n.frames \in Seq(Levels \cup {Unset})
         /\ FrameGoals(n) = FrameGoals(m) \cup {x}
  <1> DEFINE s == m.frames
             t == Append(s, x)
  <1>1. s \in Seq(Levels \cup {Unset})
    BY DEF LimitState
  <1>2. /\ t \in Seq(Levels \cup {Unset}) /\ Len(t) = Len(s) + 1 /\ Len(s) \in Nat
        /\ \A i \in 1..Len(s) : t[i] = s[i]
        /\ t[Len(s) + 1] = x
    BY <1>1, AppendProperties, LenProperties
  <1>3. DOMAIN s = 1..Len(s) /\ DOMAIN t = 1..Len(t)
    BY <1>1, <1>2, LenProperties
  <1> HIDE DEF s, t
  <1>4. Len(s) + 1 \in DOMAIN t /\ \A i \in DOMAIN s : i \in DOMAIN t /\ t[i] = s[i]
    BY <1>2, <1>3
  <1>5. \A i \in DOMAIN t : i \in DOMAIN s \/ i = Len(s) + 1
    BY <1>2, <1>3
  <1>6. {t[i] : i \in DOMAIN t} = {s[i] : i \in DOMAIN s} \cup {x}
    BY <1>2, <1>4, <1>5
  <1>7. n.frames = t /\ m.frames = s
    BY DEF s, t
  <1>8. QED
    BY <1>2, <1>6, <1>7 DEF FrameGoals

LEMMA FrameTaken ==
  ASSUME NEW m \in LimitState, m.frames # <<>>, NEW n, n.frames = Tail(m.frames)
  PROVE  /\ Head(m.frames) \in Levels \cup {Unset}
         /\ n.frames \in Seq(Levels \cup {Unset})
         /\ FrameGoals(m) = {Head(m.frames)} \cup FrameGoals(n)
  <1> DEFINE s == m.frames
             t == Tail(s)
  <1>1. s \in Seq(Levels \cup {Unset}) /\ s # <<>>
    BY DEF LimitState
  <1>2. /\ t \in Seq(Levels \cup {Unset}) /\ Len(t) = Len(s) - 1 /\ Len(s) \in Nat
        /\ Len(s) >= 1 /\ \A i \in 1..Len(t) : t[i] = s[i + 1]
        /\ Head(s) = s[1]
    BY <1>1
  <1>3. DOMAIN s = 1..Len(s) /\ DOMAIN t = 1..Len(t)
    BY <1>1, <1>2, LenProperties
  <1>4. \A i \in 1..Len(s) : s[i] \in Levels \cup {Unset}
    BY <1>1, ElementOfSeq
  <1> HIDE DEF s, t
  <1>5. 1 \in DOMAIN s /\ \A i \in DOMAIN t : i + 1 \in DOMAIN s
    BY <1>2, <1>3
  <1>6. \A i \in DOMAIN s : i = 1 \/ (i - 1 \in DOMAIN t /\ t[i - 1] = s[i])
    BY <1>2, <1>3
  <1>7. {s[i] : i \in DOMAIN s} = {Head(s)} \cup {t[i] : i \in DOMAIN t}
    <2>1. \A i \in DOMAIN s : s[i] = Head(s) \/ \E j \in DOMAIN t : s[i] = t[j]
      BY <1>2, <1>6
    <2>2. \A j \in DOMAIN t : \E i \in DOMAIN s : t[j] = s[i]
      BY <1>2, <1>3, <1>5
    <2>3. \E i \in DOMAIN s : Head(s) = s[i]
      BY <1>2, <1>5
    <2>4. QED
      BY <2>1, <2>2, <2>3
  <1>8. Head(s) \in Levels \cup {Unset}
    BY <1>2, <1>3, <1>4, <1>5
  <1>9. n.frames = t
    BY DEF s, t
  <1>10. FrameGoals(n) = {t[i] : i \in DOMAIN t}
    BY <1>9 DEF FrameGoals
  <1>11. FrameGoals(m) = {s[i] : i \in DOMAIN s}
    BY DEF FrameGoals, s
  <1>12. Head(m.frames) = Head(s)
    BY DEF s
  <1>13. QED
    BY <1>2, <1>7, <1>8, <1>9, <1>10, <1>11, <1>12

-----------------------------------------------------------------------------
(* What tells the buttons *)

LEMMA LevelsChanges ==
  ASSUME NEW m \in LimitState
  PROVE  LET n == LevelsChange(m) IN
         /\ n \in LimitState /\ Buttons(n) /\ Alike(m, n) /\ n.zoom = m.zoom
         /\ SameGoals(m, n)
  <1> DEFINE out == m.disabled \/ m.zoom = GetMinZoom(m)
             in == m.disabled \/ m.zoom = GetMaxZoom(m)
             k == UpdateDisabled(m)
             n == LevelsChange(m)
  <1>1. out \in BOOLEAN /\ in \in BOOLEAN
    BY DEF LimitState
  <1>2. k = IF ~m.control THEN m ELSE [m EXCEPT !.outOff = out, !.inOff = in]
    BY DEF UpdateDisabled
  <1>3. out <=> m.disabled \/ m.zoom = GetMinZoom(m)
    OBVIOUS
  <1>4. in <=> m.disabled \/ m.zoom = GetMaxZoom(m)
    OBVIOUS
  <1>5. n = [k EXCEPT !.silent = FALSE]
    BY DEF LevelsChange
  <1> HIDE DEF out, in, k, n
  <1>6. /\ k \in LimitState /\ k.zoom = m.zoom
        /\ k.minZoom = m.minZoom /\ k.maxZoom = m.maxZoom /\ k.bound = m.bound
        /\ k.loaded = m.loaded /\ k.control = m.control /\ k.disabled = m.disabled
        /\ k.anim = m.anim /\ k.frames = m.frames /\ k.pinch = m.pinch
        /\ m.control => k.outOff = out /\ k.inOff = in
    BY <1>1, <1>2 DEF LimitState
  <1>7. /\ n \in LimitState /\ n.zoom = m.zoom
        /\ n.minZoom = m.minZoom /\ n.maxZoom = m.maxZoom /\ n.bound = m.bound
        /\ n.loaded = m.loaded /\ n.control = m.control /\ n.disabled = m.disabled
        /\ n.anim = m.anim /\ n.frames = m.frames /\ n.pinch = m.pinch
        /\ m.control => n.outOff = out /\ n.inOff = in
    BY <1>5, <1>6 DEF LimitState
  <1>8. GetMinZoom(n) = GetMinZoom(m) /\ GetMaxZoom(n) = GetMaxZoom(m)
    BY <1>7, SameLimits
  <1>9. Buttons(n)
    BY <1>3, <1>4, <1>7, <1>8 DEF Buttons
  <1>10. Alike(m, n) /\ SameGoals(m, n)
    BY <1>7 DEF Alike, SameGoals
  <1>11. QED
    BY <1>7, <1>9, <1>10 DEF n

LEMMA Silenced ==
  ASSUME NEW m \in LimitState
  PROVE  LET n == [m EXCEPT !.silent = TRUE] IN
         /\ n \in LimitState /\ Buttons(n) /\ Alike(m, n) /\ n.zoom = m.zoom
         /\ SameGoals(m, n)
  <1> DEFINE n == [m EXCEPT !.silent = TRUE]
  <1>1. /\ n \in LimitState /\ n.silent = TRUE /\ n.zoom = m.zoom
        /\ n.loaded = m.loaded /\ n.minZoom = m.minZoom /\ n.maxZoom = m.maxZoom
        /\ n.bound = m.bound
        /\ n.anim = m.anim /\ n.frames = m.frames /\ n.pinch = m.pinch
    BY DEF LimitState
  <1> HIDE DEF n
  <1>2. QED
    BY <1>1 DEF Buttons, Alike, SameGoals, n

(* The view is another one, at the zoom that the limits make of the one    *)
(* that was asked for.                                                     *)
LEMMA Viewed ==
  ASSUME NEW m \in LimitState, Buttons(m), NEW zoom \in Int, zoom <= Highest
  PROVE  LET n == LimitedView(m, zoom) IN
         /\ Sound(n) /\ Alike(m, n) /\ SameGoals(m, n)
         /\ GetMinZoom(m) <= GetMaxZoom(m) => n.zoom \in Allowed(m)
  <1> DEFINE z == LimitZoom(m, zoom)
             k == [m EXCEPT !.zoom = z]
             n == LimitedView(m, zoom)
  <1>1. n = IF k.zoom # m.zoom THEN LevelsChange(k) ELSE k
    BY DEF LimitedView
  <1>2. /\ z \in Levels
        /\ GetMinZoom(m) <= GetMaxZoom(m) => z \in Allowed(m)
    BY LimitsZoom DEF Allowed
  <1>3. Unset \notin Levels
    BY ZoomLimitsAssumption DEF Levels
  <1> HIDE DEF n, z
  <1>4. /\ k \in LimitState /\ k.zoom = z
        /\ k.minZoom = m.minZoom /\ k.maxZoom = m.maxZoom /\ k.bound = m.bound
        /\ k.loaded = m.loaded
        /\ k.anim = m.anim /\ k.frames = m.frames /\ k.pinch = m.pinch
    BY <1>2 DEF LimitState
  <1>5. k.zoom = m.zoom => k = m
    BY DEF LimitState
  <1> HIDE DEF k
  <1>6. Alike(m, k) /\ SameGoals(m, k)
    BY <1>4 DEF Alike, SameGoals
  <1>7. /\ n \in LimitState /\ Buttons(n) /\ Alike(m, n) /\ SameGoals(m, n) /\ n.zoom = z
    <2>1. CASE k.zoom # m.zoom
      <3>1. /\ n \in LimitState /\ Buttons(n) /\ Alike(k, n) /\ n.zoom = k.zoom
            /\ SameGoals(k, n)
        BY <1>1, <1>4, <2>1, LevelsChanges
      <3>2. QED
        BY <1>4, <1>6, <3>1 DEF Alike, SameGoals
    <2>2. CASE k.zoom = m.zoom
      <3>1. n = k /\ k = m
        BY <1>1, <1>5, <2>2
      <3>2. QED
        BY <1>4, <1>6, <3>1
    <2>3. QED
      BY <2>1, <2>2
  <1>8. QED
    BY <1>2, <1>3, <1>7 DEF Sound, n

LEMMA FlightIsCut ==
  ASSUME NEW m \in LimitState, Buttons(m)
  PROVE  LET n == CutFlight(m) IN
         /\ n \in LimitState /\ Buttons(n) /\ Alike(m, n) /\ n.zoom = m.zoom
         /\ SameGoals(m, n) /\ n.animates = m.animates /\ n.fly = Unset
  <1> DEFINE t == m.silent \/ m.fly # Unset
             n == [m EXCEPT !.fly = Unset, !.silent = t]
  <1>1. CutFlight(m) = n
    BY DEF CutFlight
  <1>2. t \in BOOLEAN /\ (~t => ~m.silent /\ m.fly = Unset)
    BY DEF LimitState
  <1> HIDE DEF t
  <1>3. /\ n \in LimitState /\ n.silent = t /\ n.zoom = m.zoom
        /\ n.loaded = m.loaded /\ n.minZoom = m.minZoom /\ n.maxZoom = m.maxZoom
        /\ n.bound = m.bound /\ n.fly = Unset /\ n.animates = m.animates
        /\ n.anim = m.anim /\ n.frames = m.frames /\ n.pinch = m.pinch
        /\ n.control = m.control /\ n.disabled = m.disabled
        /\ n.outOff = m.outOff /\ n.inOff = m.inOff
    BY <1>2 DEF LimitState
  <1> HIDE DEF n
  <1>4. Alike(m, n) /\ SameGoals(m, n)
    BY <1>3 DEF Alike, SameGoals
  <1>5. GetMinZoom(n) = GetMinZoom(m) /\ GetMaxZoom(n) = GetMaxZoom(m)
    BY <1>4, SameAllowed
  <1>6. Buttons(n)
    BY <1>2, <1>3, <1>5 DEF Buttons, Settled
  <1>7. QED
    BY <1>1, <1>3, <1>4, <1>6

-----------------------------------------------------------------------------
(* What is asked for *)

(* From m the map is at an allowed zoom or on its way to one.              *)
HeadsFor(m, n) ==
    /\ Goals(m) \subseteq Goals(n) /\ n.pinch = m.pinch
    /\ m.loaded /\ GetMinZoom(m) <= GetMaxZoom(m) =>
         /\ Goals(n) \subseteq Goals(m) \cup Allowed(m)
         /\ n.zoom \in Allowed(m) \/ Goals(n) # {}

LEMMA ZoomsTo ==
  ASSUME NEW m, Sound(m), NEW zoom \in Int, zoom <= Highest,
         m.loaded \/ zoom \in Levels, NEW n \in ChangeZoom(m, zoom)
  PROVE  Sound(n) /\ Alike(m, n) /\ HeadsFor(m, n)
  <1> DEFINE to == LimitZoom(m, zoom)
             k == [m EXCEPT !.zoom = zoom]
             c == CutFlight(m)
             e == [c EXCEPT !.frames = Append(@, to)]
  <1>1. m \in LimitState /\ Buttons(m) /\ (m.loaded => m.zoom # Unset)
    BY DEF Sound
  <1>2. \/ ~m.loaded /\ n = [m EXCEPT !.zoom = zoom, !.silent = TRUE]
        \/ m.loaded /\ (to = m.zoom \/ m.anim # Unset) /\ n = c
        \/ m.loaded /\ (n = LimitedView(c, to) \/ n = e)
    <2>1. m.loaded \in BOOLEAN
      BY <1>1 DEF LimitState
    <2>2. CASE ~m.loaded
      <3>1. n \in {[m EXCEPT !.zoom = zoom, !.silent = TRUE]}
        BY <2>1, <2>2 DEF ChangeZoom
      <3>2. QED
        BY <2>2, <3>1
    <2>3. CASE m.loaded /\ (to = m.zoom \/ m.anim # Unset)
      <3>1. n \in {c}
        BY <2>1, <2>3 DEF ChangeZoom
      <3>2. QED
        BY <2>3, <3>1
    <2>4. CASE m.loaded /\ ~(to = m.zoom \/ m.anim # Unset)
      <3>1. n \in {LimitedView(c, to)} \cup IF m.animates THEN {e} ELSE {}
        BY <2>1, <2>4 DEF ChangeZoom
      <3>2. QED
        BY <2>4, <3>1
    <2>5. QED
      BY <2>2, <2>3, <2>4
  <1>3. /\ to \in Levels /\ to \in Int /\ to <= Highest /\ to # Unset
        /\ GetMinZoom(m) <= GetMaxZoom(m) => to \in Allowed(m)
    <2>1. /\ to \in Levels
          /\ GetMinZoom(m) <= GetMaxZoom(m) => to \in Allowed(m)
      BY <1>1, LimitsZoom DEF Allowed
    <2> HIDE DEF to
    <2>2. QED
      BY <2>1, ZoomLimitsAssumption DEF Levels
  <1>4. /\ c \in LimitState /\ Buttons(c) /\ Alike(m, c) /\ c.zoom = m.zoom
        /\ SameGoals(m, c)
    BY <1>1, FlightIsCut
  <1>5. Goals(c) = Goals(m)
    BY <1>4, GoalsSame
  <1> HIDE DEF to, c
  <1>6. CASE ~m.loaded
    <2>1. n = [k EXCEPT !.silent = TRUE] /\ zoom \in Levels
      BY <1>2, <1>6
    <2>2. k \in LimitState /\ Alike(m, k) /\ SameGoals(m, k) /\ k.loaded = m.loaded
      BY <1>1, <2>1 DEF LimitState, Alike, SameGoals
    <2> HIDE DEF k
    <2>3. n \in LimitState /\ Buttons(n) /\ Alike(k, n) /\ SameGoals(k, n)
      BY <2>1, <2>2, Silenced
    <2>4. Alike(m, n) /\ SameGoals(m, n) /\ ~n.loaded
      BY <1>6, <2>2, <2>3 DEF Alike, SameGoals
    <2>5. Goals(n) = Goals(m) /\ n.pinch = m.pinch
      BY <2>4, GoalsSame DEF SameGoals
    <2>6. QED
      BY <1>6, <2>3, <2>4, <2>5 DEF Sound, HeadsFor
  <1>7. CASE m.loaded /\ (to = m.zoom \/ m.anim # Unset) /\ n = c
    <2>1. Sound(n)
      BY <1>1, <1>4, <1>7 DEF Sound, Alike
    <2>2. m.anim # Unset => Goals(m) # {}
      BY DEF Goals
    <2>3. HeadsFor(m, n)
      BY <1>3, <1>4, <1>5, <1>7, <2>2 DEF HeadsFor, SameGoals
    <2>4. QED
      BY <1>4, <1>7, <2>1, <2>3
  <1>8. CASE m.loaded /\ n = LimitedView(c, to)
    <2>1. /\ Sound(n) /\ Alike(c, n) /\ SameGoals(c, n)
          /\ GetMinZoom(c) <= GetMaxZoom(c) => n.zoom \in Allowed(c)
      BY <1>3, <1>4, <1>8, Viewed
    <2>2. Alike(m, n) /\ SameGoals(m, n)
      BY <1>4, <2>1 DEF Alike, SameGoals
    <2>3. /\ Goals(n) = Goals(m) /\ Allowed(c) = Allowed(m)
          /\ GetMinZoom(c) = GetMinZoom(m) /\ GetMaxZoom(c) = GetMaxZoom(m)
      BY <1>4, <2>2, GoalsSame, SameAllowed
    <2>4. HeadsFor(m, n)
      BY <2>1, <2>2, <2>3 DEF HeadsFor, SameGoals
    <2>5. QED
      BY <2>1, <2>2, <2>4
  <1>9. CASE m.loaded /\ n = e
    <2>1. /\ n.frames = Append(c.frames, to) /\ n.zoom = c.zoom /\ n.loaded = c.loaded
          /\ n.minZoom = c.minZoom /\ n.maxZoom = c.maxZoom /\ n.bound = c.bound
          /\ n.anim = c.anim /\ n.pinch = c.pinch /\ n.fly = c.fly /\ SameButtons(c, n)
      BY <1>4, <1>9 DEF LimitState, SameButtons
    <2>2. /\ n.frames \in Seq(Levels \cup {Unset})
          /\ FrameGoals(n) = FrameGoals(c) \cup {to}
      BY <1>3, <1>4, <2>1, FrameAdded
    <2>3. n \in LimitState
      BY <1>4, <1>9, <2>1, <2>2 DEF LimitState
    <2>4. Goals(n) = Goals(m) \cup {to}
      <3>1. Goals(n) = Goals(c) \cup {to}
        BY <1>3, <2>1, <2>2, GoalsAre
      <3>2. QED
        BY <1>5, <3>1
    <2>5. Alike(m, n) /\ n.pinch = m.pinch /\ n.zoom = m.zoom
      BY <1>4, <2>1 DEF Alike, SameGoals
    <2>6. Settled(n) => Settled(c)
      BY <2>1, <2>2, GoalsAre
    <2>7. Buttons(n)
      BY <1>4, <2>1, <2>6, ButtonsSame DEF Alike
    <2>8. QED
      BY <1>1, <1>3, <1>9, <2>3, <2>4, <2>5, <2>7 DEF Sound, Alike, HeadsFor
  <1>10. QED
    BY <1>2, <1>6, <1>7, <1>8, <1>9

(* The zoom follows the options of the map itself.                         *)
Fits(m) ==
    /\ m.minZoom # Unset => m.zoom >= m.minZoom
    /\ m.maxZoom # Unset => m.zoom <= m.maxZoom

(* What checking the zoom leads to: an animation that is under way goes on,*)
(* and the map is at an allowed zoom, or on its way to one.                *)
LEMMA UpdatesLevels ==
  ASSUME NEW m \in LimitState, NEW old, m.loaded => m.zoom # Unset,
         NEW n \in UpdateZoomLevels(m, old)
  PROVE  /\ Sound(n) /\ Alike(m, n) /\ Goals(m) \subseteq Goals(n) /\ n.pinch = m.pinch
         /\ m.loaded /\ GetMinZoom(m) <= GetMaxZoom(m) /\ LayersMax(m) # 0 =>
              /\ Goals(n) \subseteq Goals(m) \cup Allowed(m)
              /\ Fits(m) => n.zoom \in Allowed(m) \/ Goals(n) # {}
  <1> DEFINE j == IF ZoomSpan(m) # ZoomSpan(old) THEN LevelsChange(m)
                  ELSE [m EXCEPT !.silent = TRUE]
             high == /\ j.maxZoom = Unset /\ LayersMax(j) \notin {Unset, 0}
                     /\ j.zoom # Unset /\ j.zoom > LayersMax(j)
             low(k) == /\ k.minZoom = Unset /\ LayersMin(k) \notin {Unset, 0}
                       /\ k.zoom # Unset /\ k.zoom < LayersMin(k)
             lowered == IF high THEN ChangeZoom(j, LayersMax(j)) ELSE {j}
             Raised(k) == IF low(k) THEN ChangeZoom(k, LayersMin(k)) ELSE {k}
             a == GetMinZoom(m)
             b == GetMaxZoom(m)
  <1>1. PICK k \in lowered : n \in Raised(k)
    BY DEF UpdateZoomLevels
  <1>2. /\ j \in LimitState /\ Buttons(j) /\ Alike(m, j) /\ j.zoom = m.zoom
        /\ SameGoals(m, j)
    <2>1. CASE ZoomSpan(m) # ZoomSpan(old)
      BY <2>1, LevelsChanges
    <2>2. CASE ZoomSpan(m) = ZoomSpan(old)
      BY <2>2, Silenced
    <2>3. QED
      BY <2>1, <2>2
  <1> HIDE DEF j
  <1>3. /\ LayersMin(j) = LayersMin(m) /\ LayersMax(j) = LayersMax(m)
        /\ GetMinZoom(j) = a /\ GetMaxZoom(j) = b
        /\ Allowed(j) = Allowed(m) /\ Goals(j) = Goals(m) /\ j.pinch = m.pinch
    BY <1>2, SameAllowed, GoalsSame DEF SameGoals
  <1>4. /\ LayersMin(m) \in Levels \cup {Unset} /\ LayersMax(m) \in Levels \cup {Unset}
        /\ \A x \in Levels : x \in Int /\ x <= Highest
    BY LayersLimits, ZoomLimitsAssumption DEF Levels
  <1>5. Sound(j)
    BY <1>2 DEF Sound, Alike
  <1>6. /\ Sound(k) /\ Alike(m, k) /\ Goals(m) \subseteq Goals(k) /\ k.pinch = m.pinch
        /\ high /\ m.loaded /\ a <= b => /\ Goals(k) \subseteq Goals(m) \cup Allowed(m)
                                         /\ k.zoom \in Allowed(m) \/ Goals(k) # {}
        /\ ~high => k.zoom = m.zoom /\ Goals(k) = Goals(m)
    <2>1. CASE high
      <3>1. LayersMax(j) \in Levels
        BY <1>3, <1>4, <2>1
      <3>2. k \in ChangeZoom(j, LayersMax(j))
        BY <1>1, <2>1
      <3> HIDE DEF high, lowered, Raised
      <3>3. Sound(k) /\ Alike(j, k) /\ HeadsFor(j, k)
        BY <1>4, <1>5, <3>1, <3>2, ZoomsTo
      <3>4. j.loaded <=> m.loaded
        BY <1>2 DEF Alike
      <3>5. QED
        BY <1>2, <1>3, <2>1, <3>3, <3>4 DEF Alike, HeadsFor
    <2>2. CASE ~high
      <3>1. k = j
        BY <1>1, <2>2
      <3> HIDE DEF high, lowered, Raised
      <3>2. QED
        BY <1>2, <1>3, <1>5, <2>2, <3>1
    <2>3. QED
      BY <2>1, <2>2
  <1>7. high <=> /\ m.maxZoom = Unset /\ LayersMax(m) \notin {Unset, 0}
                 /\ m.zoom # Unset /\ m.zoom > LayersMax(m)
    BY <1>2, <1>3 DEF Alike
  <1> HIDE DEF high, lowered
  <1>8. /\ LayersMin(k) = LayersMin(m) /\ LayersMax(k) = LayersMax(m)
        /\ GetMinZoom(k) = a /\ GetMaxZoom(k) = b /\ Allowed(k) = Allowed(m)
    BY <1>6, SameAllowed
  <1>9. /\ Sound(n) /\ Alike(m, n) /\ Goals(k) \subseteq Goals(n) /\ n.pinch = m.pinch
        /\ low(k) /\ m.loaded /\ a <= b => /\ Goals(n) \subseteq Goals(k) \cup Allowed(m)
                                           /\ n.zoom \in Allowed(m) \/ Goals(n) # {}
        /\ ~low(k) => n.zoom = k.zoom /\ Goals(n) = Goals(k)
    <2>1. CASE low(k)
      <3>1. LayersMin(k) \in Levels
        BY <1>4, <1>8, <2>1
      <3>2. n \in ChangeZoom(k, LayersMin(k))
        BY <1>1, <2>1
      <3> HIDE DEF low, Raised
      <3>3. Sound(n) /\ Alike(k, n) /\ HeadsFor(k, n)
        BY <1>4, <1>6, <3>1, <3>2, ZoomsTo
      <3>4. k.loaded <=> m.loaded
        BY <1>6 DEF Alike
      <3>5. QED
        BY <1>6, <1>8, <2>1, <3>3, <3>4 DEF Alike, HeadsFor
    <2>2. CASE ~low(k)
      <3>1. n = k
        BY <1>1, <2>2
      <3> HIDE DEF low, Raised
      <3>2. QED
        BY <1>6, <2>2, <3>1
    <2>3. QED
      BY <2>1, <2>2
  <1>10. low(k) <=> /\ m.minZoom = Unset /\ LayersMin(m) \notin {Unset, 0}
                    /\ k.zoom # Unset /\ k.zoom < LayersMin(m)
    BY <1>6, <1>8 DEF Alike
  <1> HIDE DEF low, Raised
  <1>11. Goals(m) \subseteq Goals(n)
    BY <1>6, <1>9
  <1>12. ASSUME m.loaded, a <= b
         PROVE  Goals(n) \subseteq Goals(m) \cup Allowed(m)
    <2>1. Goals(k) \subseteq Goals(m) \cup Allowed(m)
      BY <1>6, <1>12
    <2>2. Goals(n) \subseteq Goals(k) \cup Allowed(m)
      BY <1>9, <1>12
    <2>3. QED
      BY <2>1, <2>2
  <1>13. ASSUME m.loaded, a <= b, LayersMax(m) # 0, Fits(m), Goals(n) = {}
         PROVE  n.zoom \in Allowed(m)
    <2>1. Goals(k) = {} /\ m.zoom # Unset
      BY <1>9, <1>13
    <2>2. m.zoom \in Levels
      BY <2>1 DEF LimitState
    <2>3. /\ a \in Levels /\ b \in Levels \cup {Endless}
          /\ m.minZoom # Unset => a = m.minZoom
          /\ m.minZoom = Unset => a = IF LayersMin(m) = Unset THEN 0 ELSE LayersMin(m)
          /\ m.maxZoom # Unset => b = m.maxZoom
          /\ m.maxZoom = Unset => b = IF LayersMax(m) = Unset THEN Endless ELSE LayersMax(m)
          /\ Highest \in Nat /\ Endless \in Nat /\ Endless > Highest
          /\ Levels \subseteq Nat
      BY Limits
    <2>4. a \in Int /\ b \in Int
      BY LimitsAreNumbers
    <2>5. Allowed(m) = a..b
      BY DEF Allowed
    <2> HIDE DEF a, b
    <2>6. ~high => m.zoom <= b
      <3>1. CASE m.maxZoom # Unset
        BY <1>13, <2>3, <3>1 DEF Fits
      <3>2. CASE m.maxZoom = Unset
        <4>1. CASE LayersMax(m) = Unset
          BY <2>2, <2>3, <3>2, <4>1 DEF Levels
        <4>2. CASE LayersMax(m) # Unset
          <5>1. b = LayersMax(m) /\ b \in Nat /\ m.zoom \in Nat
            BY <1>4, <2>2, <2>3, <3>2, <4>2
          <5>2. ~high => ~(m.zoom > LayersMax(m))
            BY <1>7, <1>13, <2>1, <3>2, <4>2
          <5>3. QED
            BY <5>1, <5>2
        <4>3. QED
          BY <4>1, <4>2
      <3>3. QED
        BY <3>1, <3>2
    <2>7. high => k.zoom \in a..b
      BY <1>6, <1>13, <2>1, <2>5
    <2>8. k.zoom \in Int /\ k.zoom <= b /\ k.zoom # Unset
      <3>1. CASE high
        BY <2>4, <2>7, <3>1, ZoomLimitsAssumption
      <3>2. CASE ~high
        BY <1>4, <1>6, <2>1, <2>2, <2>6, <3>2
      <3>3. QED
        BY <3>1, <3>2
    <2>9. m.minZoom # Unset => k.zoom >= a
      <3>1. CASE high
        BY <2>4, <2>7, <3>1
      <3>2. CASE ~high
        BY <1>6, <1>13, <2>3, <3>2 DEF Fits
      <3>3. QED
        BY <3>1, <3>2
    <2>10. ASSUME m.minZoom = Unset, ~low(k) PROVE k.zoom >= a
      <3>1. CASE LayersMin(m) \in {Unset, 0}
        <4>1. a = 0
          BY <2>3, <2>10, <3>1
        <4>2. CASE high
          BY <2>4, <2>7, <4>2
        <4>3. CASE ~high
          <5>1. k.zoom = m.zoom
            BY <1>6, <4>3
          <5>2. m.zoom \in Nat
            BY <2>2, <2>3
          <5>3. QED
            BY <4>1, <5>1, <5>2
        <4>4. QED
          BY <4>2, <4>3
      <3>2. CASE LayersMin(m) \notin {Unset, 0}
        <4>1. a = LayersMin(m) /\ ~(k.zoom < LayersMin(m))
          BY <1>10, <2>3, <2>8, <2>10, <3>2
        <4>2. QED
          BY <2>4, <2>8, <4>1
      <3>3. QED
        BY <3>1, <3>2
    <2>11. CASE low(k)
      BY <1>9, <1>13, <2>11
    <2>12. CASE ~low(k)
      <3>1. k.zoom \in a..b
        BY <2>4, <2>8, <2>9, <2>10, <2>12
      <3>2. QED
        BY <1>9, <2>5, <2>12, <3>1
    <2>13. QED
      BY <2>11, <2>12
  <1>14. QED
    BY <1>9, <1>11, <1>12, <1>13

-----------------------------------------------------------------------------
(* The calls *)

(* What every step from m to n owes.                                       *)
LimitsStay(m, n) ==
    /\ Sound(n)
    /\ /\ OnCourse(m)
       /\ GetMinZoom(n) <= GetMaxZoom(n) /\ LayersMax(n) # 0
       /\ Goals(m) \subseteq Allowed(n)
       /\ m.fly = Unset \/ n.zoom = m.zoom
       => OnCourse(n)

LEMMA AllowedFits ==
  ASSUME NEW m \in LimitState, m.zoom \in Allowed(m)
  PROVE  Fits(m)
  <1>1. /\ GetMinZoom(m) \in Int /\ GetMaxZoom(m) \in Int
    BY LimitsAreNumbers
  <1>2. /\ m.minZoom # Unset => GetMinZoom(m) = m.minZoom
        /\ m.maxZoom # Unset => GetMaxZoom(m) = m.maxZoom
    BY Limits
  <1>3. QED
    BY <1>1, <1>2 DEF Fits, Allowed

(* Neither the limits nor the zoom change, nor what the map is heading for.*)
LEMMA Unmoved ==
  ASSUME NEW m, Sound(m), NEW n \in LimitState, Alike(m, n), n.zoom = m.zoom,
         Buttons(n), Goals(n) = Goals(m), m.pinch = "moving" => n.pinch = "moving"
  PROVE  LimitsStay(m, n)
  <1>1. Allowed(n) = Allowed(m)
    BY SameAllowed
  <1>2. Sound(n)
    BY DEF Sound, Alike
  <1>3. QED
    BY <1>1, <1>2 DEF LimitsStay, OnCourse, Alike

(* The map is asked to go to a zoom.                                       *)
LEMMA Asked ==
  ASSUME NEW m, NEW k, Sound(k), Goals(k) = Goals(m), NEW zoom \in Int,
         zoom <= Highest, k.loaded \/ zoom \in Levels, NEW n \in ChangeZoom(k, zoom)
  PROVE  LimitsStay(m, n)
  <1>1. Sound(n) /\ Alike(k, n) /\ HeadsFor(k, n)
    BY ZoomsTo
  <1>2. /\ GetMinZoom(n) = GetMinZoom(k) /\ GetMaxZoom(n) = GetMaxZoom(k)
        /\ Allowed(n) = Allowed(k)
    BY <1>1, SameAllowed
  <1>3. n.loaded <=> k.loaded
    BY <1>1 DEF Alike
  <1>4. ASSUME GetMinZoom(n) <= GetMaxZoom(n), Goals(m) \subseteq Allowed(n), n.loaded
        PROVE  /\ Goals(n) \subseteq Allowed(n)
               /\ n.zoom \in Allowed(n) \/ Goals(n) # {}
    BY <1>1, <1>2, <1>3, <1>4 DEF HeadsFor
  <1>5. QED
    BY <1>1, <1>4 DEF LimitsStay, OnCourse

(* The view is reset.                                                      *)
LEMMA ViewReset ==
  ASSUME NEW m, NEW k \in LimitState, Buttons(k), Goals(k) = Goals(m),
         NEW zoom \in Int, zoom <= Highest
  PROVE  LimitsStay(m, LimitedView(k, zoom))
  <1> DEFINE n == LimitedView(k, zoom)
  <1>1. /\ Sound(n) /\ Alike(k, n) /\ SameGoals(k, n)
        /\ GetMinZoom(k) <= GetMaxZoom(k) => n.zoom \in Allowed(k)
    BY Viewed
  <1> HIDE DEF n
  <1>2. /\ GetMinZoom(n) = GetMinZoom(k) /\ GetMaxZoom(n) = GetMaxZoom(k)
        /\ Allowed(n) = Allowed(k) /\ Goals(n) = Goals(m)
    BY <1>1, SameAllowed, GoalsSame
  <1>3. LimitsStay(m, n)
    BY <1>1, <1>2 DEF LimitsStay, OnCourse
  <1>4. QED
    BY <1>3 DEF n

(* The layers that count change.                                           *)
LEMMA Rebounds ==
  ASSUME NEW m, Sound(m), NEW k \in LimitState, NEW old,
         k.loaded <=> m.loaded, k.zoom = m.zoom, SameGoals(m, k),
         k.minZoom = m.minZoom, k.maxZoom = m.maxZoom,
         NEW n \in UpdateZoomLevels(k, old)
  PROVE  LimitsStay(m, n)
  <1>1. m \in LimitState /\ (k.loaded => k.zoom # Unset)
    BY DEF Sound
  <1>2. /\ Sound(n) /\ Alike(k, n) /\ Goals(k) \subseteq Goals(n) /\ n.pinch = k.pinch
        /\ k.loaded /\ GetMinZoom(k) <= GetMaxZoom(k) /\ LayersMax(k) # 0 =>
              /\ Goals(n) \subseteq Goals(k) \cup Allowed(k)
              /\ Fits(k) => n.zoom \in Allowed(k) \/ Goals(n) # {}
    BY <1>1, UpdatesLevels
  <1>3. /\ GetMinZoom(n) = GetMinZoom(k) /\ GetMaxZoom(n) = GetMaxZoom(k)
        /\ LayersMax(n) = LayersMax(k)
        /\ Allowed(n) = Allowed(k) /\ Goals(k) = Goals(m)
    BY <1>2, SameAllowed, GoalsSame
  <1>4. m.zoom \in Allowed(m) => Fits(k)
    <2>1. m.zoom \in Allowed(m) => Fits(m)
      BY <1>1, AllowedFits
    <2>2. QED
      BY <2>1 DEF Fits
  <1>5. n.pinch = m.pinch /\ (n.loaded <=> m.loaded) /\ (k.loaded <=> m.loaded)
    BY <1>2 DEF Alike, SameGoals
  <1>6. ASSUME OnCourse(m), GetMinZoom(n) <= GetMaxZoom(n), LayersMax(n) # 0,
               Goals(m) \subseteq Allowed(n), n.loaded
        PROVE  /\ Goals(n) \subseteq Allowed(n)
               /\ n.zoom \in Allowed(n) \/ Goals(n) # {} \/ n.pinch = "moving"
    <2>1. /\ Goals(n) \subseteq Goals(k) \cup Allowed(k)
          /\ Fits(k) => n.zoom \in Allowed(k) \/ Goals(n) # {}
      BY <1>2, <1>3, <1>5, <1>6
    <2>2. m.zoom \in Allowed(m) \/ Goals(m) # {} \/ m.pinch = "moving"
      BY <1>5, <1>6 DEF OnCourse
    <2>3. QED
      BY <1>2, <1>3, <1>4, <1>5, <1>6, <2>1, <2>2
  <1>7. QED
    BY <1>2, <1>6 DEF LimitsStay, OnCourse

LEMMA AddTileLayerKeeps ==
  ASSUME Sound(limits), NEW l \in TileLayers, AddTileLayer(l)
  PROVE  LimitsStay(limits, limits')
  <1> DEFINE k == [limits EXCEPT !.layers = @ \cup {l}]
             j == [k EXCEPT !.bound = @ \cup {l}]
  <1>1. limits' \in IF l.max = Unset \/ l.min # Unset THEN UpdateZoomLevels(j, k)
                    ELSE {k}
    BY DEF AddTileLayer, AddZoomLimit
  <1>2. limits \in LimitState /\ Buttons(limits)
    BY DEF Sound
  <1>3. /\ k \in LimitState /\ k.zoom = limits.zoom /\ Alike(limits, k)
        /\ SameGoals(limits, k) /\ SameButtons(limits, k) /\ k.fly = limits.fly
    BY <1>2 DEF LimitState, Alike, SameGoals, SameButtons
  <1> HIDE DEF k
  <1>4. /\ j \in LimitState /\ j.zoom = k.zoom /\ SameGoals(k, j)
        /\ j.minZoom = k.minZoom /\ j.maxZoom = k.maxZoom /\ j.loaded = k.loaded
    BY <1>3 DEF LimitState, SameGoals
  <1> HIDE DEF j
  <1>5. CASE limits' \in UpdateZoomLevels(j, k)
    <2>1. /\ SameGoals(limits, j) /\ j.zoom = limits.zoom /\ j.minZoom = limits.minZoom
          /\ j.maxZoom = limits.maxZoom /\ (j.loaded <=> limits.loaded)
      BY <1>3, <1>4 DEF Alike, SameGoals
    <2>2. QED
      BY <1>4, <1>5, <2>1, Rebounds
  <1>6. CASE limits' = k
    <2>1. Settled(k) => Settled(limits)
      BY <1>3 DEF SameGoals, Settled
    <2>2. Buttons(k) /\ Goals(k) = Goals(limits) /\ k.pinch = limits.pinch
      BY <1>2, <1>3, <2>1, ButtonsSame, GoalsSame DEF SameGoals
    <2>3. QED
      BY <1>3, <1>6, <2>2, Unmoved
  <1>7. QED
    BY <1>1, <1>5, <1>6

LEMMA RemoveTileLayerKeeps ==
  ASSUME Sound(limits), NEW l \in TileLayers, RemoveTileLayer(l)
  PROVE  LimitsStay(limits, limits')
  <1> DEFINE k == [limits EXCEPT !.layers = @ \ {l}]
             j == [k EXCEPT !.bound = @ \ {l}]
  <1>1. limits' \in IF limits.loaded /\ l \in k.bound THEN UpdateZoomLevels(j, k)
                    ELSE {k}
    BY DEF RemoveTileLayer, RemoveZoomLimit
  <1>2. limits \in LimitState /\ Buttons(limits)
    BY DEF Sound
  <1>3. /\ k \in LimitState /\ k.zoom = limits.zoom /\ Alike(limits, k)
        /\ SameGoals(limits, k) /\ SameButtons(limits, k) /\ k.fly = limits.fly
    BY <1>2 DEF LimitState, Alike, SameGoals, SameButtons
  <1> HIDE DEF k
  <1>4. /\ j \in LimitState /\ j.zoom = k.zoom /\ SameGoals(k, j)
        /\ j.minZoom = k.minZoom /\ j.maxZoom = k.maxZoom /\ j.loaded = k.loaded
    BY <1>3 DEF LimitState, SameGoals
  <1> HIDE DEF j
  <1>5. CASE limits' \in UpdateZoomLevels(j, k)
    <2>1. /\ SameGoals(limits, j) /\ j.zoom = limits.zoom /\ j.minZoom = limits.minZoom
          /\ j.maxZoom = limits.maxZoom /\ (j.loaded <=> limits.loaded)
      BY <1>3, <1>4 DEF Alike, SameGoals
    <2>2. QED
      BY <1>4, <1>5, <2>1, Rebounds
  <1>6. CASE limits' = k
    <2>1. Settled(k) => Settled(limits)
      BY <1>3 DEF SameGoals, Settled
    <2>2. Buttons(k) /\ Goals(k) = Goals(limits) /\ k.pinch = limits.pinch
      BY <1>2, <1>3, <2>1, ButtonsSame, GoalsSame DEF SameGoals
    <2>3. QED
      BY <1>3, <1>6, <2>2, Unmoved
  <1>7. QED
    BY <1>1, <1>5, <1>6

LEMMA ResetKeepsLimits ==
  ASSUME Sound(limits), NEW zoom \in Levels,
         FirstView(zoom) \/ ResetZoom(zoom) \/ PanFar
  PROVE  LimitsStay(limits, limits')
  <1>1. limits \in LimitState /\ Buttons(limits)
    BY DEF Sound
  <1>2. /\ zoom \in Int /\ zoom <= Highest
        /\ \A z \in Levels : z \in Int /\ z <= Highest
    BY ZoomLimitsAssumption DEF Levels
  <1>3. CASE FirstView(zoom)
    <2> DEFINE k == [limits EXCEPT !.loaded = TRUE]
    <2>1. limits' = LimitedView(k, zoom)
      BY <1>3 DEF FirstView
    <2>2. /\ k \in LimitState /\ k.zoom = limits.zoom /\ k.minZoom = limits.minZoom
          /\ k.maxZoom = limits.maxZoom /\ k.bound = limits.bound
          /\ SameGoals(limits, k) /\ SameButtons(limits, k) /\ k.fly = limits.fly
      BY <1>1 DEF LimitState, SameGoals, SameButtons
    <2> HIDE DEF k
    <2>3. GetMinZoom(k) = GetMinZoom(limits) /\ GetMaxZoom(k) = GetMaxZoom(limits)
      BY <2>2, SameLimits
    <2>4. Settled(k) => Settled(limits)
      BY <2>2 DEF SameGoals, Settled
    <2>5. Buttons(k)
      BY <1>1, <2>2, <2>3, <2>4 DEF Buttons, SameButtons
    <2>6. QED
      BY <1>2, <2>1, <2>2, <2>5, GoalsSame, ViewReset
  <1>4. CASE ResetZoom(zoom)
    <2>1. limits' = LimitedView(CutFlight(limits), zoom)
      BY <1>4 DEF ResetZoom
    <2>2. /\ CutFlight(limits) \in LimitState /\ Buttons(CutFlight(limits))
          /\ SameGoals(limits, CutFlight(limits))
      BY <1>1, FlightIsCut
    <2>3. QED
      BY <1>2, <2>1, <2>2, GoalsSame, ViewReset
  <1>5. CASE PanFar
    <2>1. limits' = LimitedView(limits, limits.zoom) /\ limits.loaded
      BY <1>5 DEF PanFar
    <2>2. limits.zoom \in Levels
      BY <1>1, <2>1 DEF Sound, LimitState
    <2>3. QED
      BY <1>1, <1>2, <2>1, <2>2, ViewReset
  <1>6. QED
    BY <1>3, <1>4, <1>5

LEMMA AskZoomKeeps ==
  ASSUME Sound(limits), NEW zoom \in Levels, AskZoom(zoom)
  PROVE  LimitsStay(limits, limits')
  <1>1. zoom \in Int /\ zoom <= Highest
    BY ZoomLimitsAssumption DEF Levels
  <1>2. QED
    BY <1>1, Asked DEF AskZoom

LEMMA ClickZoomKeeps ==
  ASSUME Sound(limits), NEW levels \in {1, 3},
         ClickZoomIn(levels) \/ ClickZoomOut(levels)
  PROVE  LimitsStay(limits, limits')
  <1>1. Highest \in Nat /\ limits.zoom \in 0..Highest
    BY ZoomLimitsAssumption DEF Sound, LimitState, Levels, ClickZoomIn, ClickZoomOut
  <1>2. CASE ClickZoomIn(levels)
    <2> DEFINE zoom == Min({limits.zoom + levels, Highest})
    <2>1. zoom \in Levels /\ zoom \in Int /\ zoom <= Highest
      <3>1. limits.zoom + levels \in Int /\ Highest \in Int
        BY <1>1
      <3>2. zoom = IF limits.zoom + levels <= Highest THEN limits.zoom + levels
                                                     ELSE Highest
        BY <3>1, OfTwo
      <3>3. QED
        BY <1>1, <3>1, <3>2 DEF Levels
    <2>2. limits' \in ChangeZoom(limits, zoom)
      BY <1>2 DEF ClickZoomIn
    <2> HIDE DEF zoom
    <2>3. QED
      BY <2>1, <2>2, Asked
  <1>3. CASE ClickZoomOut(levels)
    <2> DEFINE zoom == limits.zoom - levels
    <2>1. /\ zoom \in Int /\ zoom <= Highest
          /\ levels <= limits.zoom => zoom \in Levels
      BY <1>1 DEF Levels
    <2>2. /\ limits' \in ChangeZoom(limits, zoom)
          /\ limits.loaded \/ levels <= limits.zoom
      BY <1>3 DEF ClickZoomOut
    <2> HIDE DEF zoom
    <2>3. QED
      BY <2>1, <2>2, Asked
  <1>4. QED
    BY <1>2, <1>3

LEMMA SetMinZoomKeeps ==
  ASSUME Sound(limits), NEW zoom \in Levels, SetMinZoom(zoom)
  PROVE  LimitsStay(limits, limits')
  <1> DEFINE m == [limits EXCEPT !.minZoom = zoom]
             k == LevelsChange(m)
  <1>1. /\ zoom \in Int /\ zoom <= Highest /\ zoom # Unset
        /\ limits \in LimitState
    BY ZoomLimitsAssumption DEF Levels, Sound
  <1>2. /\ m \in LimitState /\ m.minZoom = zoom /\ m.zoom = limits.zoom
        /\ m.maxZoom = limits.maxZoom /\ m.bound = limits.bound
        /\ m.loaded = limits.loaded /\ SameGoals(limits, m) /\ m.loaded \in BOOLEAN
    BY <1>1 DEF LimitState, SameGoals
  <1>3. /\ ~m.loaded => limits' = [m EXCEPT !.silent = TRUE]
        /\ m.loaded /\ m.zoom < zoom => limits' \in ChangeZoom(k, zoom)
        /\ m.loaded /\ ~(m.zoom < zoom) => limits' = k
    BY <1>2 DEF SetMinZoom
  <1>4. /\ k \in LimitState /\ Buttons(k) /\ Alike(m, k) /\ k.zoom = m.zoom
        /\ SameGoals(m, k)
    BY <1>2, LevelsChanges
  <1> HIDE DEF m, k
  <1>5. Goals(k) = Goals(limits) /\ k.pinch = limits.pinch
    BY <1>2, <1>4, GoalsSame DEF SameGoals
  <1>6. Sound(k) /\ (k.loaded <=> limits.loaded)
    BY <1>2, <1>4 DEF Sound, Alike
  <1>7. CASE ~m.loaded
    <2>1. /\ limits' \in LimitState /\ Buttons(limits') /\ Alike(m, limits')
      BY <1>2, <1>3, <1>7, Silenced
    <2>2. QED
      BY <1>7, <2>1 DEF LimitsStay, Sound, OnCourse, Alike
  <1>8. CASE m.loaded /\ m.zoom < zoom
    BY <1>1, <1>3, <1>5, <1>6, <1>8, Asked
  <1>9. CASE m.loaded /\ ~(m.zoom < zoom)
    <2>1. limits' = k
      BY <1>3, <1>9
    <2>2. /\ GetMinZoom(k) = zoom /\ GetMaxZoom(k) = GetMaxZoom(limits)
      <3>1. k.minZoom = zoom /\ k.maxZoom = limits.maxZoom /\ k.bound = limits.bound
        BY <1>2, <1>4 DEF Alike
      <3>2. LayersMax(k) = LayersMax(limits)
        BY <3>1 DEF LayersMax
      <3>3. GetMaxZoom(k) = GetMaxZoom(limits)
        BY <3>1, <3>2 DEF GetMaxZoom
      <3>4. GetMinZoom(k) = zoom
        BY <1>1, <3>1 DEF GetMinZoom
      <3>5. QED
        BY <3>3, <3>4
    <2>3. GetMaxZoom(limits) \in Int /\ GetMinZoom(limits) \in Int
      BY <1>1, LimitsAreNumbers
    <2>4. ASSUME limits.zoom \in Allowed(limits)
          PROVE  k.zoom \in Allowed(k)
      <3>1. limits.zoom \in GetMinZoom(limits)..GetMaxZoom(limits)
        BY <2>4 DEF Allowed
      <3>2. ~(limits.zoom < zoom) /\ k.zoom = limits.zoom
        BY <1>2, <1>4, <1>9
      <3>3. k.zoom \in zoom..GetMaxZoom(limits)
        BY <1>1, <2>3, <3>1, <3>2
      <3>4. QED
        BY <2>2, <3>3 DEF Allowed
    <2>5. QED
      BY <1>5, <1>6, <2>1, <2>4 DEF LimitsStay, OnCourse
  <1>10. QED
    BY <1>2, <1>7, <1>8, <1>9

LEMMA SetMaxZoomKeeps ==
  ASSUME Sound(limits), NEW zoom \in Levels, SetMaxZoom(zoom)
  PROVE  LimitsStay(limits, limits')
  <1> DEFINE m == [limits EXCEPT !.maxZoom = zoom]
             k == LevelsChange(m)
  <1>1. /\ zoom \in Int /\ zoom <= Highest /\ zoom # Unset
        /\ limits \in LimitState
    BY ZoomLimitsAssumption DEF Levels, Sound
  <1>2. /\ m \in LimitState /\ m.maxZoom = zoom /\ m.zoom = limits.zoom
        /\ m.minZoom = limits.minZoom /\ m.bound = limits.bound
        /\ m.loaded = limits.loaded /\ SameGoals(limits, m) /\ m.loaded \in BOOLEAN
    BY <1>1 DEF LimitState, SameGoals
  <1>3. /\ ~m.loaded => limits' = [m EXCEPT !.silent = TRUE]
        /\ m.loaded /\ m.zoom > zoom => limits' \in ChangeZoom(k, zoom)
        /\ m.loaded /\ ~(m.zoom > zoom) => limits' = k
    BY <1>2 DEF SetMaxZoom
  <1>4. /\ k \in LimitState /\ Buttons(k) /\ Alike(m, k) /\ k.zoom = m.zoom
        /\ SameGoals(m, k)
    BY <1>2, LevelsChanges
  <1> HIDE DEF m, k
  <1>5. Goals(k) = Goals(limits) /\ k.pinch = limits.pinch
    BY <1>2, <1>4, GoalsSame DEF SameGoals
  <1>6. Sound(k) /\ (k.loaded <=> limits.loaded)
    BY <1>2, <1>4 DEF Sound, Alike
  <1>7. CASE ~m.loaded
    <2>1. /\ limits' \in LimitState /\ Buttons(limits') /\ Alike(m, limits')
      BY <1>2, <1>3, <1>7, Silenced
    <2>2. QED
      BY <1>7, <2>1 DEF LimitsStay, Sound, OnCourse, Alike
  <1>8. CASE m.loaded /\ m.zoom > zoom
    BY <1>1, <1>3, <1>5, <1>6, <1>8, Asked
  <1>9. CASE m.loaded /\ ~(m.zoom > zoom)
    <2>1. limits' = k
      BY <1>3, <1>9
    <2>2. /\ GetMaxZoom(k) = zoom /\ GetMinZoom(k) = GetMinZoom(limits)
      <3>1. k.maxZoom = zoom /\ k.minZoom = limits.minZoom /\ k.bound = limits.bound
        BY <1>2, <1>4 DEF Alike
      <3>2. LayersMin(k) = LayersMin(limits)
        BY <3>1 DEF LayersMin
      <3>3. GetMinZoom(k) = GetMinZoom(limits)
        BY <3>1, <3>2 DEF GetMinZoom
      <3>4. GetMaxZoom(k) = zoom
        BY <1>1, <3>1 DEF GetMaxZoom
      <3>5. QED
        BY <3>3, <3>4
    <2>3. GetMaxZoom(limits) \in Int /\ GetMinZoom(limits) \in Int
      BY <1>1, LimitsAreNumbers
    <2>4. ASSUME limits.zoom \in Allowed(limits)
          PROVE  k.zoom \in Allowed(k)
      <3>1. limits.zoom \in GetMinZoom(limits)..GetMaxZoom(limits)
        BY <2>4 DEF Allowed
      <3>2. ~(limits.zoom > zoom) /\ k.zoom = limits.zoom
        BY <1>2, <1>4, <1>9
      <3>3. k.zoom \in GetMinZoom(limits)..zoom
        BY <1>1, <2>3, <3>1, <3>2
      <3>4. QED
        BY <2>2, <3>3 DEF Allowed
    <2>5. QED
      BY <1>5, <1>6, <2>1, <2>4 DEF LimitsStay, OnCourse
  <1>10. QED
    BY <1>2, <1>7, <1>8, <1>9

LEMMA ControlKeeps ==
  ASSUME Sound(limits),
         \/ AddZoomControl \/ RemoveZoomControl
         \/ \E on \in BOOLEAN : EnableZoomControl(on)
  PROVE  LimitsStay(limits, limits')
  <1>1. limits \in LimitState
    BY DEF Sound
  <1>2. ASSUME NEW m \in LimitState, Alike(limits, m), m.zoom = limits.zoom,
               SameGoals(limits, m), limits' = LevelsChange(m)
        PROVE  LimitsStay(limits, limits')
    <2>1. /\ limits' \in LimitState /\ Buttons(limits') /\ Alike(m, limits')
          /\ limits'.zoom = m.zoom /\ SameGoals(m, limits')
      BY <1>2, LevelsChanges
    <2>2. /\ Alike(limits, limits') /\ limits'.zoom = limits.zoom
          /\ SameGoals(limits, limits')
      BY <1>2, <2>1 DEF Alike, SameGoals
    <2>3. Goals(limits') = Goals(limits) /\ limits'.pinch = limits.pinch
      BY <2>2, GoalsSame DEF SameGoals
    <2>4. QED
      BY <2>1, <2>2, <2>3, Unmoved
  <1>3. CASE AddZoomControl
    <2> DEFINE m == [limits EXCEPT !.control = TRUE]
    <2>1. m \in LimitState /\ m.zoom = limits.zoom
      BY <1>1 DEF LimitState
    <2>2. Alike(limits, m) /\ SameGoals(limits, m)
      BY <1>1 DEF LimitState, Alike, SameGoals
    <2>3. limits' = LevelsChange(m)
      BY <1>3 DEF AddZoomControl
    <2> HIDE DEF m
    <2>4. QED
      BY <1>2, <2>1, <2>2, <2>3
  <1>4. CASE RemoveZoomControl
    <2>1. limits' = [limits EXCEPT !.control = FALSE]
      BY <1>4 DEF RemoveZoomControl
    <2>2. limits' \in LimitState /\ ~limits'.control /\ limits'.zoom = limits.zoom
      BY <1>1, <2>1 DEF LimitState
    <2>3. Alike(limits, limits') /\ SameGoals(limits, limits')
      BY <1>1, <2>1 DEF LimitState, Alike, SameGoals
    <2>4. Buttons(limits')
      BY <2>2 DEF Buttons
    <2>5. Goals(limits') = Goals(limits) /\ limits'.pinch = limits.pinch
      BY <2>3, GoalsSame DEF SameGoals
    <2>6. QED
      BY <2>2, <2>3, <2>4, <2>5, Unmoved
  <1>5. ASSUME NEW on \in BOOLEAN, EnableZoomControl(on)
        PROVE  LimitsStay(limits, limits')
    <2> DEFINE v == ~on
               m == [limits EXCEPT !.disabled = v]
    <2>1. v \in BOOLEAN
      OBVIOUS
    <2>2. limits' = LevelsChange(m)
      BY <1>5 DEF EnableZoomControl
    <2> HIDE DEF v
    <2>3. m \in LimitState /\ m.zoom = limits.zoom
      BY <1>1, <2>1 DEF LimitState
    <2>4. Alike(limits, m) /\ SameGoals(limits, m)
      BY <1>1 DEF LimitState, Alike, SameGoals
    <2> HIDE DEF m
    <2>5. QED
      BY <1>2, <2>2, <2>3, <2>4
  <1>6. QED
    BY <1>3, <1>4, <1>5

-----------------------------------------------------------------------------
(* Flights, animations and pinches *)

(* While a flight goes on the zoom may be any.                             *)
LEMMA Flown ==
  ASSUME NEW m, Sound(m), NEW n \in LimitState, Alike(m, n), SameGoals(m, n),
         Buttons(n), n.zoom # Unset, m.fly # Unset
  PROVE  LimitsStay(m, n)
  <1>1. Goals(n) = Goals(m) /\ n.pinch = m.pinch
    BY GoalsSame DEF SameGoals
  <1>2. n.zoom = m.zoom => LimitsStay(m, n)
    BY <1>1, Unmoved
  <1>3. n.zoom # m.zoom => LimitsStay(m, n)
    BY DEF LimitsStay, Sound
  <1>4. QED
    BY <1>2, <1>3

LEMMA FlightKeeps ==
  ASSUME Sound(limits), NEW zoom \in Levels,
         FlyToZoom(zoom) \/ FlightFrame(zoom) \/ FlightEnds
  PROVE  LimitsStay(limits, limits')
  <1>1. limits \in LimitState /\ Buttons(limits) /\ zoom # Unset
    BY ZoomLimitsAssumption DEF Sound, Levels
  <1>2. CASE FlyToZoom(zoom)
    <2> DEFINE c == CutFlight(limits)
    <2>1. /\ c \in LimitState /\ Buttons(c) /\ Alike(limits, c)
          /\ c.zoom = limits.zoom /\ SameGoals(limits, c)
      BY <1>1, FlightIsCut
    <2>2. limits' = [c EXCEPT !.fly = zoom]
      BY <1>2 DEF FlyToZoom
    <2> HIDE DEF c
    <2>3. /\ limits' \in LimitState /\ limits'.zoom = c.zoom /\ limits'.fly = zoom
          /\ Alike(c, limits') /\ SameGoals(c, limits')
      BY <2>1, <2>2 DEF LimitState, Alike, SameGoals
    <2>4. Alike(limits, limits') /\ SameGoals(limits, limits')
      BY <2>1, <2>3 DEF Alike, SameGoals
    <2>5. Buttons(limits')
      BY <1>1, <2>3 DEF Buttons, Settled
    <2>6. Goals(limits') = Goals(limits) /\ limits'.pinch = limits.pinch
      BY <2>4, GoalsSame DEF SameGoals
    <2>7. QED
      BY <2>1, <2>3, <2>4, <2>5, <2>6, Unmoved
  <1>3. CASE FlightFrame(zoom)
    <2>1. limits' = [limits EXCEPT !.zoom = zoom] /\ limits.fly # Unset
      BY <1>3 DEF FlightFrame
    <2>2. /\ limits' \in LimitState /\ limits'.zoom = zoom /\ limits'.fly = limits.fly
          /\ Alike(limits, limits') /\ SameGoals(limits, limits')
      BY <1>1, <2>1 DEF LimitState, Alike, SameGoals
    <2>3. Buttons(limits')
      BY <2>1, <2>2 DEF Buttons, Settled
    <2>4. QED
      BY <1>1, <2>1, <2>2, <2>3, Flown
  <1>4. CASE FlightEnds
    <2> DEFINE to == limits.fly
               k == [limits EXCEPT !.zoom = to, !.fly = Unset]
    <2>1. limits' = LevelsChange(k) /\ to # Unset
      BY <1>4 DEF FlightEnds
    <2>2. /\ k \in LimitState /\ k.zoom = to
          /\ Alike(limits, k) /\ SameGoals(limits, k)
      BY <1>1 DEF LimitState, Alike, SameGoals
    <2> HIDE DEF k
    <2>3. /\ limits' \in LimitState /\ Buttons(limits') /\ Alike(k, limits')
          /\ limits'.zoom = k.zoom /\ SameGoals(k, limits')
      BY <2>1, <2>2, LevelsChanges
    <2>4. Alike(limits, limits') /\ SameGoals(limits, limits')
      BY <2>2, <2>3 DEF Alike, SameGoals
    <2>5. QED
      BY <2>1, <2>2, <2>3, <2>4, Flown
  <1>5. QED
    BY <1>2, <1>3, <1>4

LEMMA ZoomFrameKeeps ==
  ASSUME Sound(limits), ZoomFrame
  PROVE  LimitsStay(limits, limits')
  <1> DEFINE h == Head(limits.frames)
             rest == Tail(limits.frames)
             m == [limits EXCEPT !.frames = rest]
  <1>1. limits \in LimitState /\ limits.frames # <<>> /\ (limits.loaded => limits.zoom # Unset)
    BY DEF Sound, ZoomFrame
  <1>2. limits' = IF h = Unset THEN LevelsChange(m) ELSE [m EXCEPT !.anim = h]
    BY DEF ZoomFrame
  <1>3. /\ m.frames = rest /\ m.anim = limits.anim /\ m.pinch = limits.pinch
        /\ m.zoom = limits.zoom /\ Alike(limits, m)
    BY <1>1 DEF LimitState, Alike
  <1>4. /\ h \in Levels \cup {Unset} /\ m.frames \in Seq(Levels \cup {Unset})
        /\ FrameGoals(limits) = {h} \cup FrameGoals(m)
    BY <1>1, <1>3, FrameTaken
  <1>5. m \in LimitState
    BY <1>1, <1>3, <1>4 DEF LimitState
  <1> HIDE DEF m, h, rest
  <1>6. /\ Goals(limits) = ({limits.anim} \cup FrameGoals(limits)) \ {Unset}
        /\ Goals(m) = ({m.anim} \cup FrameGoals(m)) \ {Unset}
    BY GoalsAre
  <1>7. CASE h = Unset
    <2>1. /\ limits' \in LimitState /\ Buttons(limits') /\ Alike(m, limits')
          /\ limits'.zoom = m.zoom /\ SameGoals(m, limits')
      BY <1>2, <1>5, <1>7, LevelsChanges
    <2>2. Goals(m) = Goals(limits)
      BY <1>3, <1>4, <1>6, <1>7
    <2>3. Goals(limits') = Goals(limits) /\ limits'.pinch = limits.pinch
      BY <1>3, <2>1, <2>2, GoalsSame DEF SameGoals
    <2>4. Alike(limits, limits')
      BY <1>3, <2>1 DEF Alike
    <2>5. QED
      BY <1>3, <2>1, <2>3, <2>4, Unmoved
  <1>8. CASE h # Unset
    <2>1. limits' = [m EXCEPT !.anim = h]
      BY <1>2, <1>8
    <2>2. /\ limits' \in LimitState /\ limits'.anim = h /\ limits'.frames = m.frames
          /\ limits'.zoom = m.zoom /\ Alike(m, limits')
      BY <1>4, <1>5, <2>1 DEF LimitState, Alike
    <2>3. Buttons(limits')
      BY <1>8, <2>2 DEF Buttons, Settled
    <2>4. Sound(limits')
      BY <1>1, <1>3, <2>2, <2>3 DEF Sound, Alike
    <2>5. /\ FrameGoals(limits') = FrameGoals(m)
          /\ Goals(limits') = ({h} \cup FrameGoals(limits')) \ {Unset}
      BY <2>2, GoalsAre DEF FrameGoals
    <2>6. Goals(limits') \subseteq Goals(limits) /\ Goals(limits') # {}
      BY <1>4, <1>6, <1>8, <2>5
    <2>7. QED
      BY <2>4, <2>6 DEF LimitsStay, OnCourse
  <1>9. QED
    BY <1>7, <1>8

LEMMA ZoomTransitionEndKeeps ==
  ASSUME Sound(limits), ZoomTransitionEnd
  PROVE  LimitsStay(limits, limits')
  <1> DEFINE z == limits.anim
             more == Append(limits.frames, Unset)
  <1>1. limits \in LimitState /\ z # Unset
    BY DEF Sound, ZoomTransitionEnd
  <1>2. z \in Levels
    BY <1>1 DEF LimitState
  <1>3. limits' = [limits EXCEPT !.zoom = z, !.anim = Unset, !.frames = more]
    BY DEF ZoomTransitionEnd
  <1>4. limits'.frames = more
    BY <1>1, <1>3 DEF LimitState
  <1>5. /\ more \in Seq(Levels \cup {Unset})
        /\ FrameGoals(limits') = FrameGoals(limits) \cup {Unset}
    BY <1>1, <1>4, FrameAdded
  <1> HIDE DEF more
  <1>6. /\ limits' \in LimitState /\ limits'.zoom = z /\ limits'.anim = Unset
        /\ Alike(limits, limits')
    BY <1>1, <1>2, <1>3, <1>5 DEF LimitState, Alike
  <1>7. /\ Goals(limits) = ({z} \cup FrameGoals(limits)) \ {Unset}
        /\ Goals(limits') = ({Unset} \cup FrameGoals(limits')) \ {Unset}
        /\ ~Settled(limits')
    <2>1. Goals(limits) = ({z} \cup FrameGoals(limits)) \ {Unset}
      BY GoalsAre
    <2>2. /\ Goals(limits') = ({limits'.anim} \cup FrameGoals(limits')) \ {Unset}
          /\ Settled(limits') => Unset \notin FrameGoals(limits')
      BY GoalsAre
    <2>3. QED
      BY <1>5, <1>6, <2>1, <2>2
  <1>8. Sound(limits')
    BY <1>1, <1>6, <1>7 DEF Sound, Buttons
  <1>9. Goals(limits') \subseteq Goals(limits) /\ limits'.zoom \in Goals(limits)
    BY <1>1, <1>5, <1>6, <1>7
  <1>10. QED
    BY <1>8, <1>9 DEF LimitsStay, OnCourse

LEMMA PinchKeeps ==
  ASSUME Sound(limits), NEW zoom \in Levels,
         PinchStart \/ PinchMove(zoom) \/ PinchEnd(zoom)
  PROVE  LimitsStay(limits, limits')
  <1>1. limits \in LimitState /\ Buttons(limits) /\ zoom # Unset /\ zoom \in Int
        /\ zoom <= Highest /\ (limits.loaded => limits.zoom # Unset)
    BY ZoomLimitsAssumption DEF Sound, Levels
  <1>2. CASE PinchStart
    <2> DEFINE c == CutFlight(limits)
    <2>1. /\ c \in LimitState /\ Buttons(c) /\ Alike(limits, c)
          /\ c.zoom = limits.zoom /\ SameGoals(limits, c)
      BY <1>1, FlightIsCut
    <2>2. limits' = [c EXCEPT !.pinch = "down"] /\ limits.pinch = "no"
      BY <1>2 DEF PinchStart
    <2> HIDE DEF c
    <2>3. /\ limits' \in LimitState /\ limits'.zoom = c.zoom
          /\ limits'.anim = c.anim /\ limits'.frames = c.frames
          /\ limits'.fly = c.fly /\ limits'.pinch = "down"
          /\ Alike(c, limits') /\ SameButtons(c, limits')
      BY <2>1, <2>2 DEF LimitState, Alike, SameButtons
    <2>4. Settled(limits') => Settled(c)
      BY <2>1, <2>2, <2>3 DEF Settled, SameGoals
    <2>5. Buttons(limits')
      BY <2>1, <2>3, <2>4, ButtonsSame
    <2>6. Alike(limits, limits')
      BY <2>1, <2>3 DEF Alike
    <2>7. Goals(limits') = Goals(limits)
      BY <2>1, <2>3 DEF Goals, SameGoals
    <2>8. QED
      BY <2>1, <2>2, <2>3, <2>5, <2>6, <2>7, Unmoved
  <1>3. CASE PinchMove(zoom)
    <2>1. limits' = [limits EXCEPT !.pinch = "moving", !.zoom = zoom]
      BY <1>3 DEF PinchMove
    <2>2. /\ limits' \in LimitState /\ limits'.zoom = zoom
          /\ limits'.anim = limits.anim /\ limits'.frames = limits.frames
          /\ limits'.pinch = "moving"
      BY <1>1, <2>1 DEF LimitState
    <2>3. Sound(limits')
      BY <1>1, <2>2 DEF Sound, Buttons, Settled
    <2>4. Goals(limits') = Goals(limits)
      BY <2>2 DEF Goals
    <2>5. QED
      BY <2>2, <2>3, <2>4 DEF LimitsStay, OnCourse
  <1>4. CASE PinchEnd(zoom)
    <2> DEFINE m == [limits EXCEPT !.pinch = "no"]
               k == [m EXCEPT !.silent = TRUE]
               z == LimitZoom(m, zoom)
    <2>1. /\ limits.pinch = "down" => limits' = m
          /\ limits.pinch = "moving" /\ m.animates => limits' = [m EXCEPT !.anim = z]
          /\ limits.pinch = "moving" /\ ~m.animates => limits' = LimitedView(k, zoom)
          /\ limits.pinch \in {"down", "moving"}
      BY <1>1, <1>4 DEF PinchEnd, LimitState
    <2>2. /\ m \in LimitState /\ m.zoom = limits.zoom /\ m.anim = limits.anim
          /\ m.frames = limits.frames /\ m.fly = limits.fly /\ m.pinch = "no"
          /\ Alike(limits, m) /\ SameButtons(limits, m)
      BY <1>1 DEF LimitState, Alike, SameButtons
    <2>3. /\ z \in Levels
          /\ GetMinZoom(m) <= GetMaxZoom(m) => z \in Allowed(m)
      BY <1>1, <2>2, LimitsZoom DEF Allowed
    <2> HIDE DEF m, z
    <2>4. Goals(m) = Goals(limits)
      BY <2>2 DEF Goals
    <2>5. CASE limits.pinch = "down"
      <3>1. Settled(m) => Settled(limits)
        BY <2>2, <2>5 DEF Settled
      <3>2. Buttons(m)
        BY <1>1, <2>2, <3>1, ButtonsSame
      <3>3. QED
        BY <2>1, <2>2, <2>4, <2>5, <3>2, Unmoved
    <2>6. CASE limits.pinch = "moving" /\ m.animates
      <3>1. limits' = [m EXCEPT !.anim = z]
        BY <2>1, <2>6
      <3>2. /\ limits' \in LimitState /\ limits'.anim = z /\ limits'.frames = m.frames
            /\ limits'.zoom = m.zoom /\ Alike(m, limits')
        BY <2>2, <2>3, <3>1 DEF LimitState, Alike
      <3>3. z # Unset
        BY <2>3, ZoomLimitsAssumption DEF Levels
      <3>4. Sound(limits')
        BY <1>1, <2>2, <3>2, <3>3 DEF Sound, Buttons, Settled, Alike
      <3>5. /\ Goals(limits') = ({z} \cup FrameGoals(limits')) \ {Unset}
            /\ Goals(m) = ({m.anim} \cup FrameGoals(m)) \ {Unset}
            /\ FrameGoals(limits') = FrameGoals(m)
        BY <3>2, GoalsAre DEF FrameGoals
      <3>6. Goals(limits') \subseteq Goals(limits) \cup {z} /\ Goals(limits') # {}
        BY <2>4, <3>3, <3>5
      <3>7. /\ GetMinZoom(limits') = GetMinZoom(m) /\ GetMaxZoom(limits') = GetMaxZoom(m)
            /\ Allowed(limits') = Allowed(m)
        BY <3>2, SameAllowed
      <3>8. QED
        BY <2>3, <3>4, <3>6, <3>7 DEF LimitsStay, OnCourse
    <2>7. CASE limits.pinch = "moving" /\ ~m.animates
      <3>1. k \in LimitState /\ Buttons(k) /\ SameGoals(m, k)
        BY <2>2, Silenced
      <3>2. limits' = LimitedView(k, zoom)
        BY <2>1, <2>7
      <3> HIDE DEF k
      <3>3. Goals(k) = Goals(limits)
        BY <2>4, <3>1, GoalsSame
      <3>4. QED
        BY <1>1, <3>1, <3>2, <3>3, ViewReset
    <2>8. QED
      BY <2>1, <2>5, <2>6, <2>7
  <1>5. QED
    BY <1>2, <1>3, <1>4

LEMMA ZoomNextKeeps == Sound(limits) /\ ZoomNext => LimitsStay(limits, limits')
  <1> SUFFICES ASSUME Sound(limits), ZoomNext
               PROVE  LimitsStay(limits, limits')
    OBVIOUS
  <1>1. 0 \in Levels
    BY ZoomLimitsAssumption DEF Levels
  <1>2. CASE \E l \in TileLayers : AddTileLayer(l) \/ RemoveTileLayer(l)
    BY <1>2, AddTileLayerKeeps, RemoveTileLayerKeeps
  <1>3. ASSUME NEW zoom \in Levels,
               \/ FirstView(zoom) \/ AskZoom(zoom) \/ ResetZoom(zoom) \/ FlyToZoom(zoom)
               \/ SetMinZoom(zoom) \/ SetMaxZoom(zoom) \/ FlightFrame(zoom)
               \/ PinchMove(zoom) \/ PinchEnd(zoom)
        PROVE  LimitsStay(limits, limits')
    BY <1>3, ResetKeepsLimits, AskZoomKeeps, FlightKeeps, SetMinZoomKeeps,
       SetMaxZoomKeeps, PinchKeeps
  <1>4. CASE \/ AddZoomControl \/ RemoveZoomControl
             \/ \E on \in BOOLEAN : EnableZoomControl(on)
    BY <1>4, ControlKeeps
  <1>5. CASE \E levels \in {1, 3} : ClickZoomIn(levels) \/ ClickZoomOut(levels)
    BY <1>5, ClickZoomKeeps
  <1>6. CASE PanFar \/ FlightEnds \/ PinchStart
    BY <1>1, <1>6, ResetKeepsLimits, FlightKeeps, PinchKeeps
  <1>7. CASE ZoomFrame \/ ZoomTransitionEnd
    BY <1>7, ZoomFrameKeeps, ZoomTransitionEndKeeps
  <1>8. QED
    BY <1>2, <1>3, <1>4, <1>5, <1>6, <1>7 DEF ZoomNext, Levels

(***************************************************************************)
(* Whatever the limits of any set of tile layers are, and whichever calls, *)
(* layers, clicks, animations, flights and pinches come in any order: a map*)
(* in view that is at a zoom its limits allow, or on its way to such a one,*)
(* stays so, unless a limit is set that excludes where an animation under  *)
(* way leads, that leaves no zoom or is a layer's of zero, or a flight     *)
(* changes the zoom; and the buttons of a map that rests show where it can *)
(* go, as long as limits and zoom have not changed without an event.       *)
(***************************************************************************)
THEOREM LimitsKept == ZoomSpec => LimitsAreKept
  <1>1. ZoomInit => Sound(limits)
    <2> SUFFICES ASSUME ZoomInit
                 PROVE  Sound(limits)
      OBVIOUS
    <2>1. <<>> \in Seq(Levels \cup {Unset})
      OBVIOUS
    <2>2. QED
      BY <2>1 DEF ZoomInit, Sound, LimitState, Buttons
  <1>2. Sound(limits) /\ [ZoomNext]_limits => Sound(limits)'
    <2>1. CASE UNCHANGED limits
      BY <2>1
    <2>2. CASE ZoomNext
      BY <2>2, ZoomNextKeeps DEF LimitsStay
    <2>3. QED
      BY <2>1, <2>2
  <1>3. Sound(limits) => ZoomTypeOK /\ ButtonsTellLimits
    <2>1. Sound(limits) => ZoomTypeOK
      BY DEF Sound, ZoomTypeOK, LimitState, Levels
    <2>2. Sound(limits) => ButtonsTellLimits
      BY DEF Sound, Buttons, ButtonsTellLimits, LimitState
    <2>3. QED
      BY <2>1, <2>2
  <1>4. Sound(limits) /\ ZoomNext => ZoomStaysAllowed
    BY ZoomNextKeeps DEF LimitsStay, ZoomStaysAllowed
  <1>5. /\ Sound(limits) /\ Sound(limits)' /\ [ZoomNext]_limits
        => [limits' # limits => ZoomTypeOK' /\ ButtonsTellLimits'
                                   /\ ZoomStaysAllowed]_limits
    <2>1. Sound(limits)' => ZoomTypeOK' /\ ButtonsTellLimits'
      BY <1>3, PTL
    <2>2. QED
      BY <1>4, <2>1
  <1>6. QED
    BY <1>1, <1>2, <1>5, PTL DEF ZoomSpec, LimitsAreKept

-----------------------------------------------------------------------------
(* Tiles *)

TileMaps == UNION {[S -> Tile] : S \in SUBSET TileCoords}

GridState ==
    [onMap : {"no", "waiting", "yes"}, tileZoom : Zooms \cup {Nowhere},
     levels : SUBSET Zooms, tiles : TileMaps,
     noPrune : BOOLEAN, loading : BOOLEAN, fadeFrame : BOOLEAN,
     prunes : 0..MaxPrunes, lock : {"free", "locked", "again"},
     awaited : SUBSET TileCoords, late : BOOLEAN]

(* Every tile has its level.                                               *)
Levelled(g) == \A t \in DOMAIN g.tiles : t[2] \in g.levels

(* The images that are on their way are those of the tiles without one.    *)
Awaits(g) == g.awaited = {t \in DOMAIN g.tiles : ~g.tiles[t].loaded}

(* The tiles of a range at a zoom are there and kept.                      *)
Shows(g, range, z) ==
    \A x \in range : <<x, z>> \in DOMAIN g.tiles /\ g.tiles[<<x, z>>].current

(* What tiles do not change.                                               *)
SameGrid(g, n) ==
    /\ n.onMap = g.onMap /\ n.tileZoom = g.tileZoom /\ n.levels = g.levels
    /\ n.lock = g.lock

LEMMA TileMap ==
    ASSUME NEW f
    PROVE  f \in TileMaps <=> /\ f = [t \in DOMAIN f |-> f[t]]
                              /\ DOMAIN f \subseteq TileCoords
                              /\ \A t \in DOMAIN f : f[t] \in Tile
  BY DEF TileMaps

LEMMA RemovesTiles ==
    ASSUME NEW g \in GridState, NEW S
    PROVE  LET n == RemoveTiles(g, S) IN
           /\ n \in GridState /\ SameGrid(g, n)
           /\ DOMAIN n.tiles = DOMAIN g.tiles \ S
           /\ \A t \in DOMAIN n.tiles : n.tiles[t] = g.tiles[t]
           /\ Awaits(g) => Awaits(n)
           /\ Levelled(g) => Levelled(n)
  <1> DEFINE D == DOMAIN g.tiles \ S
             f == Restrict(g.tiles, D)
             a == g.awaited \ S
             l == g.late \/ S # {}
             n == RemoveTiles(g, S)
  <1>1. /\ g.tiles \in TileMaps /\ g.awaited \in SUBSET TileCoords /\ g.late \in BOOLEAN
    BY DEF GridState
  <1>2. f = [t \in D |-> g.tiles[t]]
    BY DEF Restrict
  <1>3. n = [g EXCEPT !.tiles = f, !.awaited = a, !.late = l]
    BY DEF RemoveTiles, GridState
  <1>4. f \in TileMaps
    <2>1. \A t \in D : g.tiles[t] \in Tile /\ t \in TileCoords
      BY <1>1, TileMap
    <2> HIDE DEF D
    <2>2. f \in [D -> Tile] /\ D \in SUBSET TileCoords
      BY <1>2, <2>1
    <2> HIDE DEF f
    <2>3. QED
      BY <2>2 DEF TileMaps
  <1>5. a \in SUBSET TileCoords /\ l \in BOOLEAN
    BY <1>1
  <1> HIDE DEF f, a, l, n
  <1>6. n \in GridState
    BY <1>3, <1>4, <1>5 DEF GridState
  <1>7. n.tiles = f /\ n.awaited = a
    BY <1>3 DEF GridState
  <1>8. SameGrid(g, n)
    BY <1>3 DEF GridState, SameGrid
  <1>9. DOMAIN n.tiles = D /\ \A t \in DOMAIN n.tiles : n.tiles[t] = g.tiles[t]
    BY <1>2, <1>7
  <1>10. Awaits(g) => Awaits(n)
    BY <1>7, <1>9 DEF Awaits, a
  <1>11. Levelled(g) => Levelled(n)
    BY <1>8, <1>9 DEF Levelled, SameGrid
  <1>12. QED
    BY <1>6, <1>8, <1>9, <1>10, <1>11 DEF n

(* What is current is not pruned.                                          *)
LEMMA Prunes ==
    ASSUME NEW g \in GridState
    PROVE  LET n == PruneTiles(g) IN
           /\ n \in GridState /\ SameGrid(g, n)
           /\ Awaits(g) => Awaits(n)
           /\ Levelled(g) => Levelled(n)
           /\ \A range, z : Shows(g, range, z) => Shows(n, range, z)
           /\ DOMAIN n.tiles \subseteq DOMAIN g.tiles
  <1> DEFINE S == DOMAIN g.tiles \ Retained(g)
             n == PruneTiles(g)
  <1>1. CASE g.onMap # "yes"
    BY <1>1 DEF PruneTiles, SameGrid
  <1>2. CASE g.onMap = "yes"
    <2>1. n = RemoveTiles(g, S)
      BY <1>2 DEF PruneTiles
    <2>2. \A t \in DOMAIN g.tiles : g.tiles[t].current => t \notin S
      BY DEF Retained
    <2> HIDE DEF S
    <2>3. /\ n \in GridState /\ SameGrid(g, n)
          /\ DOMAIN n.tiles = DOMAIN g.tiles \ S
          /\ \A t \in DOMAIN n.tiles : n.tiles[t] = g.tiles[t]
          /\ Awaits(g) => Awaits(n)
          /\ Levelled(g) => Levelled(n)
      BY <2>1, RemovesTiles
    <2> HIDE DEF n
    <2>4. \A range, z : Shows(g, range, z) => Shows(n, range, z)
      BY <2>2, <2>3 DEF Shows
    <2>5. QED
      BY <2>3, <2>4 DEF n
  <1>3. QED
    BY <1>1, <1>2

(* Images of other zooms are dropped.                                      *)
LEMMA Aborts ==
    ASSUME NEW g \in GridState
    PROVE  LET n == AbortLoading(g) IN
           /\ n \in GridState /\ SameGrid(g, n)
           /\ Awaits(g) => Awaits(n)
           /\ Levelled(g) => Levelled(n)
  BY RemovesTiles DEF AbortLoading

(* Whatever the levels were before, each tile has one then.                *)
LEMMA RenewsLevels ==
    ASSUME NEW g \in GridState, g.tileZoom # Nowhere, Levelled(g)
    PROVE  LET n == UpdateLevels(g) IN
           /\ n \in GridState /\ Levelled(n) /\ n.tileZoom \in n.levels
           /\ n.onMap = g.onMap /\ n.tileZoom = g.tileZoom /\ n.lock = g.lock
           /\ Awaits(g) => Awaits(n)
  <1> DEFINE s == {z \in g.levels : \E t \in DOMAIN g.tiles : t[2] = z} \cup {g.tileZoom}
             n == UpdateLevels(g)
  <1>1. s \in SUBSET Zooms
    BY DEF GridState
  <1>2. n = [g EXCEPT !.levels = s]
    BY DEF UpdateLevels, GridState
  <1>3. \A t \in DOMAIN g.tiles : t[2] \in s
    BY DEF Levelled
  <1>4. g.tileZoom \in s
    OBVIOUS
  <1> HIDE DEF s, n
  <1>5. n \in GridState
    BY <1>1, <1>2 DEF GridState
  <1>6. /\ n.levels = s /\ n.tiles = g.tiles /\ n.awaited = g.awaited
        /\ n.onMap = g.onMap /\ n.tileZoom = g.tileZoom /\ n.lock = g.lock
    BY <1>2 DEF GridState
  <1>7. QED
    BY <1>3, <1>4, <1>5, <1>6 DEF Levelled, Awaits, n

(* Tiles outside the range and its margin are no longer current.           *)
LEMMA MarksOutside ==
    ASSUME NEW g \in GridState, NEW e, NEW center
    PROVE  LET n == MarkOutside(g, e, center) IN
           /\ n \in GridState /\ SameGrid(g, n)
           /\ Awaits(g) => Awaits(n)
           /\ Levelled(g) => Levelled(n)
  <1> DEFINE keep == Margin(TileRange(e, center, g.tileZoom))
             Of(t) == IF t[2] # g.tileZoom \/ t[1] \notin keep
                        THEN [g.tiles[t] EXCEPT !.current = FALSE] ELSE g.tiles[t]
             f == [t \in DOMAIN g.tiles |-> Of(t)]
             n == MarkOutside(g, e, center)
  <1>1. g.tiles \in TileMaps
    BY DEF GridState
  <1>2. n = [g EXCEPT !.tiles = f]
    BY DEF MarkOutside, GridState
  <1>3. \A t \in DOMAIN g.tiles : Of(t) \in Tile /\ Of(t).loaded = g.tiles[t].loaded
    <2>1. \A t \in DOMAIN g.tiles : g.tiles[t] \in Tile
      BY <1>1, TileMap
    <2>2. \A u \in Tile : /\ [u EXCEPT !.current = FALSE] \in Tile
                          /\ [u EXCEPT !.current = FALSE].loaded = u.loaded
      BY DEF Tile
    <2> HIDE DEF keep
    <2>3. QED
      BY <2>1, <2>2
  <1> HIDE DEF Of
  <1>4. f \in TileMaps
    <2>1. f \in [DOMAIN g.tiles -> Tile] /\ DOMAIN g.tiles \in SUBSET TileCoords
      BY <1>1, <1>3, TileMap
    <2> HIDE DEF f
    <2>2. QED
      BY <2>1 DEF TileMaps
  <1>5. DOMAIN f = DOMAIN g.tiles /\ \A t \in DOMAIN g.tiles : f[t].loaded = g.tiles[t].loaded
    BY <1>3
  <1> HIDE DEF f, n
  <1>6. n \in GridState /\ SameGrid(g, n)
    BY <1>2, <1>4 DEF GridState, SameGrid
  <1>7. n.tiles = f /\ n.awaited = g.awaited
    BY <1>2 DEF GridState
  <1>8. QED
    BY <1>5, <1>6, <1>7 DEF Awaits, Levelled, SameGrid, n

(* The tiles of the range are there, and their images on the way.          *)
LEMMA AddsTiles ==
    ASSUME NEW g \in GridState, NEW e, NEW center, g.tileZoom # Nowhere
    PROVE  LET n == AddTiles(g, e, center) IN
           /\ n \in GridState /\ SameGrid(g, n)
           /\ Awaits(g) => Awaits(n)
           /\ Levelled(g) /\ g.tileZoom \in g.levels => Levelled(n)
           /\ Shows(n, TileRange(e, center, g.tileZoom), g.tileZoom)
  <1> DEFINE z == g.tileZoom
             range == TileRange(e, center, z)
             visible == {<<x, z>> : x \in range}
             queue == visible \ DOMAIN g.tiles
             D == DOMAIN g.tiles \cup queue
             Of(t) == IF t \in queue
                        THEN [current |-> TRUE, loaded |-> FALSE, active |-> FALSE]
                        ELSE IF t \in visible THEN [g.tiles[t] EXCEPT !.current = TRUE]
                        ELSE g.tiles[t]
             f == [t \in D |-> Of(t)]
             a == g.awaited \cup queue
             l == g.loading \/ queue # {}
             n == AddTiles(g, e, center)
  <1>1. g.tiles \in TileMaps /\ z \in Zooms /\ g.awaited \in SUBSET TileCoords /\ g.loading \in BOOLEAN
    BY DEF GridState
  <1>2. n = [g EXCEPT !.tiles = f, !.awaited = a, !.loading = l]
    BY DEF AddTiles, GridState
  <1>3. range \subseteq Int
    BY DEF TileRange
  <1>4. visible \subseteq TileCoords /\ \A t \in visible : t[2] = z
    BY <1>1, <1>3 DEF TileCoords
  <1>r. \A x \in range : <<x, z>> \in visible
    OBVIOUS
  <1>5. DOMAIN g.tiles \subseteq TileCoords /\ \A t \in DOMAIN g.tiles : g.tiles[t] \in Tile
    BY <1>1, TileMap
  <1> HIDE DEF range, visible, z
  <1>6. D \in SUBSET TileCoords
    BY <1>4, <1>5
  <1>7. ASSUME NEW t \in D
        PROVE  /\ Of(t) \in Tile
               /\ t \in visible => Of(t).current
               /\ t \in queue => ~Of(t).loaded
               /\ t \notin queue => Of(t).loaded = g.tiles[t].loaded
    <2>1. CASE t \in queue
      BY <2>1 DEF Tile
    <2>2. CASE t \notin queue
      <3>1. t \in DOMAIN g.tiles /\ g.tiles[t] \in Tile
        BY <1>5, <2>2
      <3>2. \A u \in Tile : /\ [u EXCEPT !.current = TRUE] \in Tile
                            /\ [u EXCEPT !.current = TRUE].current
                            /\ [u EXCEPT !.current = TRUE].loaded = u.loaded
        BY DEF Tile
      <3> DEFINE w == [g.tiles[t] EXCEPT !.current = TRUE]
      <3>3. w \in Tile /\ w.current /\ w.loaded = g.tiles[t].loaded
        BY <3>1, <3>2
      <3>4. Of(t) = IF t \in visible THEN w ELSE g.tiles[t]
        BY <2>2
      <3> HIDE DEF w, queue, Of
      <3>5. QED
        BY <2>2, <3>1, <3>3, <3>4
    <2>3. QED
      BY <2>1, <2>2
  <1> HIDE DEF Of
  <1>8. f \in TileMaps
    <2> HIDE DEF D
    <2>1. f \in [D -> Tile]
      BY <1>7
    <2> HIDE DEF f
    <2>2. QED
      BY <1>6, <2>1 DEF TileMaps
  <1>9. a \in SUBSET TileCoords /\ l \in BOOLEAN
    BY <1>1, <1>4
  <1>10. DOMAIN f = D /\ \A t \in D : f[t] = Of(t)
    OBVIOUS
  <1> HIDE DEF f, n, l
  <1>11. n \in GridState
    <2> HIDE DEF a
    <2>1. QED
      BY <1>2, <1>8, <1>9 DEF GridState
  <1>12. n.tiles = f /\ n.awaited = a
    BY <1>2 DEF GridState
  <1>13. SameGrid(g, n)
    BY <1>2 DEF GridState, SameGrid
  <1>14. Awaits(g) => Awaits(n)
    <2> SUFFICES ASSUME Awaits(g) PROVE Awaits(n)
      OBVIOUS
    <2>1. \A t : t \in a <=> t \in D /\ ~Of(t).loaded
      BY <1>7 DEF Awaits
    <2>2. \A t \in D : n.tiles[t].loaded = Of(t).loaded
      BY <1>10, <1>12
    <2> HIDE DEF a, D
    <2>3. QED
      BY <1>10, <1>12, <2>1, <2>2 DEF Awaits
  <1>15. Levelled(g) /\ g.tileZoom \in g.levels => Levelled(n)
    BY <1>4, <1>10, <1>12, <1>13 DEF Levelled, SameGrid, z
  <1>16. Shows(n, range, z)
    <2>1. visible \subseteq D
      OBVIOUS
    <2> HIDE DEF D
    <2>2. QED
      BY <1>7, <1>10, <1>12, <1>r, <2>1 DEF Shows
  <1>17. QED
    BY <1>11, <1>13, <1>14, <1>15, <1>16 DEF n, range, z

(* A layer on the map, with or without a zoom of its own.                  *)
Placed(g) ==
    /\ g \in GridState /\ g.onMap = "yes" /\ Levelled(g) /\ Awaits(g)
    /\ g.tileZoom # Nowhere => g.tileZoom \in g.levels

Ready(g) == Placed(g) /\ g.tileZoom # Nowhere

(* A layer that is not on the map has nothing.                             *)
Bare(g) ==
    /\ g \in GridState /\ g.onMap # "yes" /\ Awaits(g)
    /\ DOMAIN g.tiles = {} /\ g.tileZoom = Nowhere

GridSound(g) == Placed(g) \/ Bare(g)

(* All of the view that is asked for is there.                             *)
ShowsAt(g, e, center) == Shows(g, TileRange(e, center, g.tileZoom), g.tileZoom)

(* The view is shown at one of two zooms.                                  *)
Shown(g, n, e, center, zoom) ==
    /\ Ready(n) /\ n.lock = g.lock
    /\ n.tileZoom \in {zoom, e.mapZoom}
    /\ ShowsAt(n, e, center)

LEMMA NoPruneKeeps ==
    ASSUME NEW g \in GridState, NEW noPrune \in BOOLEAN
    PROVE  LET n == [g EXCEPT !.noPrune = noPrune] IN
           /\ n \in GridState /\ SameGrid(g, n)
           /\ n.tiles = g.tiles /\ n.awaited = g.awaited
  BY DEF GridState, SameGrid

LEMMA LockKeeps ==
    ASSUME NEW g \in GridState, NEW lock \in {"free", "locked", "again"}
    PROVE  LET n == [g EXCEPT !.lock = lock] IN
           /\ n \in GridState /\ n.lock = lock
           /\ n.onMap = g.onMap /\ n.tileZoom = g.tileZoom /\ n.levels = g.levels
           /\ n.tiles = g.tiles /\ n.awaited = g.awaited
  BY DEF GridState

LEMMA ZoomKeeps ==
    ASSUME NEW g \in GridState, NEW zoom \in Zooms \cup {Nowhere}
    PROVE  LET n == [g EXCEPT !.tileZoom = zoom] IN
           /\ n \in GridState /\ n.lock = g.lock
           /\ n.onMap = g.onMap /\ n.tileZoom = zoom /\ n.levels = g.levels
           /\ n.tiles = g.tiles /\ n.awaited = g.awaited
  BY DEF GridState

LEMMA ZoomIsThere == \A z \in Zooms : z # Nowhere
  BY SizesAssumption, ZoomAssumption DEF Zooms

(* A new zoom, of which there is a level.                                  *)
LEMMA TakesZoom ==
    ASSUME NEW g \in GridState, g.onMap = "yes", Levelled(g), Awaits(g),
           NEW zoom \in Zooms
    PROVE  LET n == UpdateLevels(AbortLoading([g EXCEPT !.tileZoom = zoom])) IN
           Ready(n) /\ n.tileZoom = zoom /\ n.lock = g.lock
  <1> DEFINE h == [g EXCEPT !.tileZoom = zoom]
             k == AbortLoading(h)
             n == UpdateLevels(k)
  <1>1. /\ h \in GridState /\ h.lock = g.lock
        /\ h.onMap = g.onMap /\ h.tileZoom = zoom /\ h.levels = g.levels
        /\ h.tiles = g.tiles /\ h.awaited = g.awaited
    BY ZoomKeeps
  <1>2. Levelled(h) /\ Awaits(h)
    BY <1>1 DEF Levelled, Awaits
  <1> HIDE DEF h
  <1>3. k \in GridState /\ SameGrid(h, k) /\ Awaits(k) /\ Levelled(k)
    BY <1>1, <1>2, Aborts
  <1>4. k.tileZoom = zoom /\ k.tileZoom # Nowhere /\ k.lock = g.lock /\ k.onMap = "yes"
    BY <1>1, <1>3, ZoomIsThere DEF SameGrid
  <1> HIDE DEF k
  <1>5. /\ n \in GridState /\ Levelled(n) /\ n.tileZoom \in n.levels
        /\ n.onMap = k.onMap /\ n.tileZoom = k.tileZoom /\ n.lock = k.lock
        /\ Awaits(n)
    BY <1>3, <1>4, RenewsLevels
  <1> HIDE DEF n
  <1>6. Ready(n) /\ n.tileZoom = zoom /\ n.lock = g.lock
    BY <1>4, <1>5 DEF Ready, Placed
  <1>7. QED
    BY <1>6 DEF n, k, h

LEMMA MarksAndAdds ==
    ASSUME NEW g, Ready(g), NEW e, NEW center, NEW f, NEW d
    PROVE  LET n == AddTiles(MarkOutside(g, f, d), e, center) IN
           /\ Ready(n) /\ n.tileZoom = g.tileZoom /\ n.lock = g.lock
           /\ ShowsAt(n, e, center)
  <1> DEFINE k == MarkOutside(g, f, d)
             n == AddTiles(k, e, center)
  <1>1. /\ g \in GridState /\ g.onMap = "yes" /\ Levelled(g) /\ Awaits(g)
        /\ g.tileZoom # Nowhere /\ g.tileZoom \in g.levels
    BY DEF Ready, Placed
  <1>2. k \in GridState /\ SameGrid(g, k) /\ Awaits(k) /\ Levelled(k)
    BY <1>1, MarksOutside
  <1>3. k.tileZoom # Nowhere /\ k.tileZoom \in k.levels
    BY <1>1, <1>2 DEF SameGrid
  <1> HIDE DEF k
  <1>4. /\ n \in GridState /\ SameGrid(k, n) /\ Awaits(n) /\ Levelled(n)
        /\ Shows(n, TileRange(e, center, k.tileZoom), k.tileZoom)
    BY <1>2, <1>3, AddsTiles
  <1> HIDE DEF n
  <1>5. /\ Ready(n) /\ n.tileZoom = g.tileZoom /\ n.lock = g.lock
        /\ ShowsAt(n, e, center)
    BY <1>1, <1>2, <1>4 DEF Ready, Placed, SameGrid, ShowsAt
  <1>6. QED
    BY <1>5 DEF n, k

LEMMA PrunedAfter ==
    ASSUME NEW g, Ready(g), NEW e, NEW center, ShowsAt(g, e, center),
           NEW noPrune \in BOOLEAN, NEW k, k \in {g, PruneTiles(g)}
    PROVE  LET n == [k EXCEPT !.noPrune = noPrune] IN
           /\ Ready(n) /\ n.tileZoom = g.tileZoom /\ n.lock = g.lock
           /\ ShowsAt(n, e, center)
  <1> DEFINE n == [k EXCEPT !.noPrune = noPrune]
  <1>1. g \in GridState /\ Levelled(g) /\ Awaits(g)
    BY DEF Ready, Placed
  <1>2. /\ k \in GridState /\ SameGrid(g, k) /\ Levelled(k) /\ Awaits(k)
        /\ Shows(k, TileRange(e, center, g.tileZoom), g.tileZoom)
    <2>1. CASE k = g
      BY <1>1, <2>1 DEF SameGrid, ShowsAt
    <2>2. CASE k = PruneTiles(g)
      BY <1>1, <2>2, Prunes DEF ShowsAt
    <2>3. QED
      BY <2>1, <2>2
  <1>3. /\ n \in GridState /\ SameGrid(k, n)
        /\ n.tiles = k.tiles /\ n.awaited = k.awaited
    BY <1>2, NoPruneKeeps
  <1> HIDE DEF n
  <1>4. Levelled(n) /\ Awaits(n)
    BY <1>2, <1>3 DEF Levelled, Awaits, SameGrid
  <1>5. ShowsAt(n, e, center)
    BY <1>2, <1>3 DEF ShowsAt, Shows, SameGrid
  <1>6. Ready(n) /\ n.tileZoom = g.tileZoom /\ n.lock = g.lock
    BY <1>2, <1>3, <1>4 DEF Ready, Placed, SameGrid
  <1>7. QED
    BY <1>5, <1>6 DEF n

LEMMA Updates ==
    ASSUME NEW g, Ready(g), NEW e, e.mapZoom \in Zooms, NEW center
    PROVE  Shown(g, Update(g, e, center), e, center, g.tileZoom)
  <1> DEFINE n == MarkOutside(g, e, center)
             s == SetViewAt(n, e, center, e.mapZoom)
             u == Update(g, e, center)
  <1>1. /\ g \in GridState /\ g.onMap = "yes" /\ Levelled(g) /\ Awaits(g)
        /\ g.tileZoom # Nowhere /\ g.tileZoom \in g.levels
    BY DEF Ready, Placed
  <1>2. CASE ~(Distance(e.mapZoom, g.tileZoom) > 1)
    <2>1. u = AddTiles(n, e, center)
      BY <1>1, <1>2 DEF Update
    <2> HIDE DEF u
    <2>2. /\ Ready(u) /\ u.tileZoom = g.tileZoom /\ u.lock = g.lock
          /\ ShowsAt(u, e, center)
      BY <2>1, MarksAndAdds
    <2>3. Shown(g, u, e, center, g.tileZoom)
      BY <2>2 DEF Shown
    <2>4. QED
      BY <2>3 DEF u
  <1>3. CASE Distance(e.mapZoom, g.tileZoom) > 1
    <2>1. u = [PruneTiles(s) EXCEPT !.noPrune = FALSE]
      BY <1>1, <1>3 DEF Update
    <2>2. n \in GridState /\ SameGrid(g, n) /\ Awaits(n) /\ Levelled(n)
      BY <1>1, MarksOutside
    <2>3. n.onMap = "yes" /\ n.lock = g.lock
      BY <1>1, <2>2 DEF SameGrid
    <2> HIDE DEF n
    <2> DEFINE k == UpdateLevels(AbortLoading([n EXCEPT !.tileZoom = e.mapZoom]))
    <2>4. Ready(k) /\ k.tileZoom = e.mapZoom /\ k.lock = g.lock
      BY <2>2, <2>3, TakesZoom
    <2>5. s = AddTiles(MarkOutside(k, e, center), e, center)
      BY DEF SetViewAt
    <2> HIDE DEF k, s, u
    <2>6. /\ Ready(s) /\ s.tileZoom = e.mapZoom /\ s.lock = g.lock
          /\ ShowsAt(s, e, center)
      BY <2>4, <2>5, MarksAndAdds
    <2>7. /\ Ready(u) /\ u.tileZoom = s.tileZoom /\ u.lock = s.lock
          /\ ShowsAt(u, e, center)
      BY <2>1, <2>6, PrunedAfter
    <2>8. Shown(g, u, e, center, g.tileZoom)
      BY <2>6, <2>7 DEF Shown
    <2>9. QED
      BY <2>8 DEF u
  <1>4. QED
    BY <1>2, <1>3

(* Unless it is the zoom that the layer has and there is no need.          *)
LEMMA SetsGridView ==
    ASSUME NEW g, Placed(g), NEW e, e.mapZoom \in Zooms, NEW center,
           NEW zoom \in Zooms, NEW noPrune \in BOOLEAN, NEW noUpdate \in BOOLEAN
    PROVE  LET n == GridSetView(g, e, center, zoom, noPrune, noUpdate) IN
           \/ noUpdate /\ zoom = g.tileZoom /\ n = g
           \/ Shown(g, n, e, center, zoom)
  <1> DEFINE k == UpdateLevels(AbortLoading([g EXCEPT !.tileZoom = zoom]))
             u == Update(k, e, center)
             p == IF noPrune THEN u ELSE PruneTiles(u)
             n == GridSetView(g, e, center, zoom, noPrune, noUpdate)
  <1>1. CASE noUpdate /\ zoom = g.tileZoom
    BY <1>1 DEF GridSetView
  <1>2. CASE ~(noUpdate /\ zoom = g.tileZoom)
    <2>1. n = [p EXCEPT !.noPrune = noPrune]
      BY <1>2 DEF GridSetView
    <2>2. Ready(k) /\ k.tileZoom = zoom /\ k.lock = g.lock
      BY TakesZoom DEF Placed
    <2> HIDE DEF k, n
    <2>3. Shown(k, u, e, center, zoom)
      BY <2>2, Updates
    <2>4. p \in {u, PruneTiles(u)}
      OBVIOUS
    <2>5. Ready(u) /\ ShowsAt(u, e, center) /\ u.lock = k.lock /\ u.tileZoom \in {zoom, e.mapZoom}
      BY <2>3 DEF Shown
    <2> HIDE DEF u, p
    <2>6. /\ Ready(n) /\ n.tileZoom = u.tileZoom /\ n.lock = u.lock
          /\ ShowsAt(n, e, center)
      BY <2>1, <2>4, <2>5, PrunedAfter
    <2>7. Shown(g, n, e, center, zoom)
      BY <2>2, <2>5, <2>6 DEF Shown
    <2>8. QED
      BY <2>7 DEF n
  <1>3. QED
    BY <1>1, <1>2

LEMMA Empties ==
    ASSUME NEW g \in GridState
    PROVE  LET n == RemoveAllTiles(g) IN
           /\ n \in GridState /\ SameGrid(g, n) /\ DOMAIN n.tiles = {}
           /\ Awaits(g) => Awaits(n)
           /\ Levelled(n)
  <1> DEFINE n == RemoveAllTiles(g)
  <1>1. /\ n \in GridState /\ SameGrid(g, n)
        /\ DOMAIN n.tiles = DOMAIN g.tiles \ DOMAIN g.tiles
        /\ Awaits(g) => Awaits(n)
    BY RemovesTiles DEF RemoveAllTiles
  <1> HIDE DEF n
  <1>2. QED
    BY <1>1 DEF Levelled, n

LEMMA Invalidates ==
    ASSUME NEW g, Placed(g)
    PROVE  LET n == InvalidateAll(g) IN Placed(n) /\ n.tileZoom = Nowhere /\ n.lock = g.lock
  <1> DEFINE h == [g EXCEPT !.levels = {}]
             k == RemoveAllTiles(h)
             n == InvalidateAll(g)
  <1>1. g \in GridState /\ g.onMap = "yes" /\ Awaits(g)
    BY DEF Placed
  <1>2. /\ h \in GridState /\ h.onMap = g.onMap /\ h.lock = g.lock
        /\ h.tiles = g.tiles /\ h.awaited = g.awaited
    BY <1>1 DEF GridState
  <1>3. Awaits(h)
    BY <1>1, <1>2 DEF Awaits
  <1> HIDE DEF h
  <1>4. /\ k \in GridState /\ SameGrid(h, k) /\ DOMAIN k.tiles = {}
        /\ Awaits(k) /\ Levelled(k)
    BY <1>2, <1>3, Empties
  <1>5. n = [k EXCEPT !.tileZoom = Nowhere]
    BY DEF InvalidateAll, h
  <1> HIDE DEF k, n
  <1>6. /\ n \in GridState /\ n.lock = k.lock
        /\ n.onMap = k.onMap /\ n.tileZoom = Nowhere /\ n.levels = k.levels
        /\ n.tiles = k.tiles /\ n.awaited = k.awaited
    BY <1>4, <1>5, ZoomKeeps
  <1>7. Levelled(n) /\ Awaits(n)
    BY <1>4, <1>6 DEF Levelled, Awaits
  <1>8. Placed(n) /\ n.tileZoom = Nowhere /\ n.lock = g.lock
    BY <1>1, <1>2, <1>4, <1>6, <1>7 DEF Placed, SameGrid
  <1>9. QED
    BY <1>8 DEF n

(* A layer that comes to the map has nothing yet.                          *)
LEMMA Comes ==
    ASSUME NEW g, Bare(g)
    PROVE  LET h == [g EXCEPT !.onMap = "yes", !.levels = {}, !.tiles = <<>>] IN
           Placed(h) /\ h.lock = g.lock /\ DOMAIN h.tiles = {}
  <1> DEFINE h == [g EXCEPT !.onMap = "yes", !.levels = {}, !.tiles = <<>>]
  <1>1. g \in GridState /\ Awaits(g) /\ DOMAIN g.tiles = {} /\ g.tileZoom = Nowhere
    BY DEF Bare
  <1>2. DOMAIN <<>> = {} /\ <<>> \in TileMaps
    <2>1. DOMAIN <<>> = {} /\ <<>> = [t \in {} |-> <<>>[t]]
      OBVIOUS
    <2>2. QED
      BY <2>1, TileMap
  <1>3. /\ h \in GridState /\ h.onMap = "yes" /\ h.lock = g.lock /\ h.levels = {}
        /\ h.tiles = <<>> /\ h.awaited = g.awaited /\ h.tileZoom = Nowhere
    <2> DEFINE s == <<>>
    <2>1. s \in TileMaps
      BY <1>2
    <2>2. h = [g EXCEPT !.onMap = "yes", !.levels = {}, !.tiles = s]
      OBVIOUS
    <2> HIDE DEF s, h
    <2>3. /\ h \in GridState /\ h.onMap = "yes" /\ h.lock = g.lock /\ h.levels = {}
          /\ h.tiles = s /\ h.awaited = g.awaited /\ h.tileZoom = g.tileZoom
      BY <1>1, <2>1, <2>2 DEF GridState
    <2>4. QED
      BY <1>1, <2>3 DEF s
  <1>4. Placed(h)
    <2>1. DOMAIN h.tiles = {}
      BY <1>2, <1>3
    <2> HIDE DEF h
    <2>2. Levelled(h) /\ Awaits(h)
      BY <1>1, <1>3, <2>1 DEF Levelled, Awaits
    <2>3. QED
      BY <1>3, <2>2 DEF Placed
  <1>5. h.lock = g.lock /\ DOMAIN h.tiles = {}
    BY <1>2, <1>3
  <1>6. QED
    BY <1>4, <1>5

(* The layer comes to the map with nothing and shows the view.             *)
LEMMA Adds ==
    ASSUME NEW g, Bare(g), NEW e, e.mapZoom \in Zooms
    PROVE  Shown(g, OnAdd(g, e), e, e.mapCenter, e.mapZoom)
  <1> DEFINE h == [g EXCEPT !.onMap = "yes", !.levels = {}, !.tiles = <<>>]
             r == GridResetView(h, e, FALSE)
             n == OnAdd(g, e)
  <1>4. Placed(h) /\ h.lock = g.lock
    BY Comes
  <1>5. n = Update(r, e, e.mapCenter)
    BY DEF OnAdd
  <1> HIDE DEF h, n
  <1>6. Shown(h, r, e, e.mapCenter, e.mapZoom)
    <2> DEFINE no == FALSE
               c == e.mapCenter
               z == e.mapZoom
    <2>1. r = GridSetView(h, e, c, z, no, no) /\ no \in BOOLEAN /\ ~no /\ z \in Zooms
      BY DEF GridResetView
    <2> HIDE DEF no, r, c, z
    <2>2. Shown(h, r, e, c, z)
      BY <1>4, <2>1, SetsGridView
    <2>3. QED
      BY <2>2 DEF c, z
  <1>7. Ready(r) /\ r.tileZoom = e.mapZoom /\ r.lock = g.lock
    BY <1>4, <1>6 DEF Shown
  <1> HIDE DEF r
  <1>8. Shown(r, n, e, e.mapCenter, r.tileZoom)
    BY <1>5, <1>7, Updates
  <1>9. Shown(g, n, e, e.mapCenter, e.mapZoom)
    BY <1>7, <1>8 DEF Shown
  <1>10. QED
    BY <1>9 DEF n

(* What an event says of the map.                                          *)
Sees(e, m) ==
    /\ e.mapZoom = m.zoom /\ e.mapCenter = m.center
    /\ e.anim = m.anim /\ e.size = m.size

(* The layer has the zoom of the map, or of the one it is on its way to.   *)
Near(g, m) ==
    /\ GridSound(g)
    /\ g.onMap = "yes" =>
          /\ m.loaded
          /\ g.tileZoom = m.zoom \/ (m.anim # Nowhere /\ g.tileZoom = m.anim.zoom)

(* And it shows the view, unless it was told to look again later or the    *)
(* map is on its way.                                                      *)
Follows(g, m) ==
    /\ Near(g, m)
    /\ g.onMap = "yes" /\ m.anim = Nowhere /\ g.lock # "again" =>
          ShowsAt(g, Env(m), m.center)

(* Only the layer of a map with a view is on it.                           *)
NeedsView(g, m) == GridSound(g) /\ (g.onMap = "yes" => m.loaded)

LEMMA SameRange ==
    ASSUME NEW e, NEW m, Sees(e, m)
    PROVE  \A center, z : TileRange(e, center, z) = TileRange(Env(m), center, z)
  <1> DEFINE f == Env(m)
  <1>1. f.mapZoom = e.mapZoom /\ f.anim = e.anim /\ f.size = e.size
    BY DEF Env, Sees
  <1> HIDE DEF f
  <1>2. \A center, z : TileRange(e, center, z) = TileRange(f, center, z)
    BY <1>1 DEF TileRange
  <1>3. QED
    BY <1>2 DEF f

LEMMA ShownFollows ==
    ASSUME NEW g, NEW n, NEW e, NEW m, Sees(e, m), m.loaded,
           Shown(g, n, e, m.center, m.zoom)
    PROVE  Follows(n, m) /\ n.onMap = "yes" /\ n.tileZoom = m.zoom
  <1>1. Ready(n) /\ n.tileZoom = m.zoom /\ ShowsAt(n, e, m.center)
    BY DEF Shown, Sees
  <1>2. GridSound(n) /\ n.onMap = "yes"
    BY <1>1 DEF Ready, GridSound, Placed
  <1>3. ShowsAt(n, Env(m), m.center)
    BY <1>1, SameRange DEF ShowsAt
  <1>4. QED
    BY <1>1, <1>2, <1>3 DEF Follows, Near

LEMMA NotOnMap ==
    ASSUME NEW g, GridSound(g)
    PROVE  /\ g.onMap # "yes" => Bare(g)
           /\ g.onMap = "yes" => Placed(g)
           /\ g \in GridState
  BY DEF GridSound, Placed, Bare

(* A new lock changes nothing else.                                        *)
LEMMA LockStays ==
    ASSUME NEW g, GridSound(g), NEW lock \in {"free", "locked", "again"}
    PROVE  LET n == [g EXCEPT !.lock = lock] IN
           /\ GridSound(n) /\ n.onMap = g.onMap /\ n.tileZoom = g.tileZoom
           /\ n.lock = lock
           /\ \A e, center : ShowsAt(g, e, center) => ShowsAt(n, e, center)
  <1> DEFINE n == [g EXCEPT !.lock = lock]
  <1>1. g \in GridState
    BY NotOnMap
  <1>2. /\ n \in GridState /\ n.lock = lock
        /\ n.onMap = g.onMap /\ n.tileZoom = g.tileZoom /\ n.levels = g.levels
        /\ n.tiles = g.tiles /\ n.awaited = g.awaited
    BY <1>1, LockKeeps
  <1> HIDE DEF n
  <1>3. GridSound(n)
    BY <1>2 DEF GridSound, Placed, Bare, Levelled, Awaits
  <1>4. \A e, center : ShowsAt(g, e, center) => ShowsAt(n, e, center)
    BY <1>2 DEF ShowsAt, Shows
  <1>5. QED
    BY <1>2, <1>3, <1>4 DEF n

(* With or without a zoom of its own, the layer stays sound.               *)
LEMMA EndOfMove ==
    ASSUME NEW g, GridSound(g), NEW e, e.mapZoom \in Zooms
    PROVE  LET n == OnMoveEnd(g, e) IN
           /\ GridSound(n) /\ n.onMap = g.onMap
           /\ \/ n = g /\ (g.onMap # "yes" \/ e.anim # Nowhere \/ g.tileZoom = Nowhere)
              \/ Shown(g, n, e, e.mapCenter, g.tileZoom)
  <1>1. CASE g.onMap # "yes" \/ e.anim # Nowhere \/ g.tileZoom = Nowhere
    BY <1>1 DEF OnMoveEnd, Update
  <1>2. CASE g.onMap = "yes" /\ e.anim = Nowhere /\ g.tileZoom # Nowhere
    <2> DEFINE n == OnMoveEnd(g, e)
    <2>1. n = Update(g, e, e.mapCenter)
      BY <1>2 DEF OnMoveEnd
    <2>2. Ready(g)
      BY <1>2, NotOnMap DEF Ready
    <2> HIDE DEF n
    <2>3. Shown(g, n, e, e.mapCenter, g.tileZoom)
      BY <2>1, <2>2, Updates
    <2>4. GridSound(n) /\ n.onMap = g.onMap
      BY <1>2, <2>3 DEF Shown, Ready, Placed, GridSound
    <2>5. QED
      BY <2>3, <2>4 DEF n
  <1>3. QED
    BY <1>1, <1>2

LEMMA EndOfMoveFollows ==
    ASSUME NEW g, NEW e, NEW m, e.mapZoom \in Zooms, Sees(e, m), Near(g, m),
           Follows(g, m) \/ m.anim = Nowhere
    PROVE  Follows(OnMoveEnd(g, e), m)
  <1> DEFINE n == OnMoveEnd(g, e)
  <1>1. GridSound(g)
    BY DEF Near
  <1>2. /\ GridSound(n) /\ n.onMap = g.onMap
        /\ \/ n = g /\ (g.onMap # "yes" \/ e.anim # Nowhere \/ g.tileZoom = Nowhere)
           \/ Shown(g, n, e, e.mapCenter, g.tileZoom)
    BY <1>1, EndOfMove
  <1> HIDE DEF n
  <1>3. CASE n = g /\ (g.onMap # "yes" \/ e.anim # Nowhere \/ g.tileZoom = Nowhere)
    <2>1. m.zoom # Nowhere /\ e.anim = m.anim
      BY ZoomIsThere DEF Sees
    <2>2. Follows(g, m)
      BY <1>3, <2>1 DEF Follows, Near
    <2>3. QED
      BY <1>3, <2>2 DEF n
  <1>4. Shown(g, n, e, e.mapCenter, g.tileZoom) => n.onMap = "yes"
    BY DEF Shown, Ready, Placed
  <1>5. CASE Shown(g, n, e, e.mapCenter, g.tileZoom)
    <2>0. g.onMap = "yes"
      BY <1>2, <1>4, <1>5
    <2>1. CASE m.anim = Nowhere
      <3>1. m.loaded /\ g.tileZoom = m.zoom /\ e.mapCenter = m.center
        BY <2>0, <2>1 DEF Near, Sees
      <3>2. Shown(g, n, e, m.center, m.zoom)
        BY <1>5, <3>1
      <3>3. QED
        BY <3>1, <3>2, ShownFollows DEF n
    <2>2. CASE m.anim # Nowhere
      <3>1. n.tileZoom \in {g.tileZoom, m.zoom}
        BY <1>5 DEF Shown, Sees
      <3>2. QED
        BY <1>2, <2>0, <2>2, <3>1 DEF Near, Follows, n
    <2>3. QED
      BY <2>1, <2>2
  <1>6. QED
    BY <1>2, <1>3, <1>5

LEMMA OnMoveSound ==
    ASSUME NEW g, GridSound(g), NEW e, e.mapZoom \in Zooms
    PROVE  GridSound(OnMove(g, e)) /\ OnMove(g, e).onMap = g.onMap
  <1>1. CASE g.lock = "free"
    <2> DEFINE k == OnMoveEnd(g, e)
    <2>1. GridSound(k) /\ k.onMap = g.onMap
      BY EndOfMove
    <2>2. OnMove(g, e) = [k EXCEPT !.lock = "locked"]
      BY <1>1 DEF OnMove
    <2> DEFINE n == [k EXCEPT !.lock = "locked"]
    <2> HIDE DEF k
    <2>3. GridSound(n) /\ n.onMap = k.onMap
      BY <2>1, LockStays
    <2> HIDE DEF n
    <2>4. QED
      BY <2>1, <2>2, <2>3 DEF n
  <1>2. CASE g.lock # "free"
    <2> DEFINE n == [g EXCEPT !.lock = "again"]
    <2>1. GridSound(n) /\ n.onMap = g.onMap
      BY LockStays
    <2>2. OnMove(g, e) = n
      BY <1>2 DEF OnMove
    <2>3. QED
      BY <2>1, <2>2
  <1>3. QED
    BY <1>1, <1>2

(* After a move the view is shown, or will be looked at again.             *)
LEMMA OnMoveFollows ==
    ASSUME NEW g, NEW e, NEW m, e.mapZoom \in Zooms, Sees(e, m), Near(g, m)
    PROVE  Follows(OnMove(g, e), m)
  <1> DEFINE n == OnMove(g, e)
  <1>0. GridSound(g)
    BY DEF Near
  <1>1. CASE g.lock = "free"
    <2> DEFINE k == OnMoveEnd(g, e)
    <2>1. n = [k EXCEPT !.lock = "locked"]
      BY <1>1 DEF OnMove
    <2>2. Near(k, m) /\ (m.anim = Nowhere /\ k.onMap = "yes" => ShowsAt(k, Env(m), m.center))
      <3>1. CASE m.anim = Nowhere
        <4>1. /\ GridSound(k) /\ k.onMap = g.onMap
              /\ \/ k = g /\ (g.onMap # "yes" \/ e.anim # Nowhere \/ g.tileZoom = Nowhere)
                 \/ Shown(g, k, e, e.mapCenter, g.tileZoom)
          BY <1>0, EndOfMove
        <4>2. Follows(k, m)
          BY <3>1, EndOfMoveFollows
        <4> HIDE DEF k
        <4>3. ASSUME k.onMap = "yes" PROVE k.lock = g.lock
          BY <4>1 DEF Shown
        <4>4. QED
          BY <1>1, <4>2, <4>3 DEF Follows
      <3>2. CASE m.anim # Nowhere
        <4>1. Follows(g, m)
          BY <3>2 DEF Follows
        <4>2. Follows(k, m)
          BY <4>1, EndOfMoveFollows
        <4>3. QED
          BY <3>2, <4>2 DEF Follows
      <3>3. QED
        BY <3>1, <3>2
    <2> HIDE DEF k, n
    <2>3. GridSound(k)
      BY <2>2 DEF Near
    <2>4. /\ GridSound(n) /\ n.onMap = k.onMap /\ n.tileZoom = k.tileZoom
          /\ \A f, center : ShowsAt(k, f, center) => ShowsAt(n, f, center)
      BY <2>1, <2>3, LockStays
    <2>5. Follows(n, m)
      BY <2>2, <2>4 DEF Follows, Near
    <2>6. QED
      BY <2>5 DEF n
  <1>2. CASE g.lock # "free"
    <2>1. n = [g EXCEPT !.lock = "again"]
      BY <1>2 DEF OnMove
    <2> HIDE DEF n
    <2>2. /\ GridSound(n) /\ n.onMap = g.onMap /\ n.tileZoom = g.tileZoom
          /\ n.lock = "again"
      BY <1>0, <2>1, LockStays
    <2>3. Follows(n, m)
      BY <2>2 DEF Follows, Near
    <2>4. QED
      BY <2>3 DEF n
  <1>3. QED
    BY <1>1, <1>2

-----------------------------------------------------------------------------
(* Events *)

LEMMA EventParts ==
    ASSUME NEW e \in Event
    PROVE  /\ e.mapZoom \in Zooms /\ e.zoom \in Zooms /\ e.flyTo \in BOOLEAN
           /\ e.type \in EventTypes
  BY DEF Event

(* Without a view of its own, the layer waits for the map's first.         *)
LEMMA OffMap ==
    ASSUME NEW g, g.onMap # "yes", NEW e
    PROVE  Handle(g, e) = IF g.onMap = "waiting" /\ e.type = "load"
                            THEN OnAdd(g, e) ELSE g
  BY DEF Handle

LEMMA Neutral ==
    ASSUME NEW g, NEW e,
           e.type \in {"zoomstart", "zoomend", "movestart", "resize"}
    PROVE  Handle(g, e) = g
  BY DEF Handle

LEMMA ResetsGrid ==
    ASSUME NEW g, Placed(g), NEW e, e.mapZoom \in Zooms, NEW flight \in BOOLEAN
    PROVE  LET n == GridResetView(g, e, flight) IN
           /\ Placed(n) /\ n.tileZoom = e.mapZoom
           /\ ~flight => Shown(g, n, e, e.mapCenter, e.mapZoom)
  <1> DEFINE c == e.mapCenter
             z == e.mapZoom
             n == GridResetView(g, e, flight)
  <1>1. n = GridSetView(g, e, c, z, flight, flight) /\ z \in Zooms
    BY DEF GridResetView
  <1> HIDE DEF n, c, z
  <1>2. \/ flight /\ z = g.tileZoom /\ n = g
        \/ Shown(g, n, e, c, z)
    BY <1>1, SetsGridView
  <1>3. Shown(g, n, e, c, z) => Placed(n) /\ n.tileZoom = z
    BY DEF Shown, Ready, z
  <1>4. QED
    BY <1>2, <1>3 DEF n, c, z

LEMMA HandlesSound ==
    ASSUME NEW g, GridSound(g), NEW e \in Event
    PROVE  LET n == Handle(g, e) IN
           /\ GridSound(n)
           /\ n.onMap = "yes" => g.onMap = "yes" \/ e.type = "load"
  <1>0. e.mapZoom \in Zooms /\ e.zoom \in Zooms /\ e.flyTo \in BOOLEAN
    BY EventParts
  <1>1. CASE g.onMap # "yes"
    <2>1. CASE g.onMap = "waiting" /\ e.type = "load"
      <3> DEFINE n == OnAdd(g, e)
      <3>1. Shown(g, n, e, e.mapCenter, e.mapZoom)
        BY <1>0, <1>1, NotOnMap, Adds
      <3>2. Handle(g, e) = n
        BY <1>1, <2>1, OffMap
      <3> HIDE DEF n
      <3>3. GridSound(n)
        BY <3>1 DEF Shown, Ready, GridSound
      <3>4. QED
        BY <2>1, <3>2, <3>3
    <2>2. CASE ~(g.onMap = "waiting" /\ e.type = "load")
      BY <1>1, <2>2, OffMap
    <2>3. QED
      BY <2>1, <2>2
  <1>2. CASE g.onMap = "yes"
    <2>0. Placed(g)
      BY <1>2, NotOnMap
    <2> DEFINE n == Handle(g, e)
    <2>1. CASE e.type = "viewprereset"
      <3>1. n = InvalidateAll(g)
        BY <1>2, <2>1 DEF Handle
      <3>2. Placed(n)
        BY <2>0, <3>1, Invalidates
      <3>3. QED
        BY <1>2, <3>2 DEF GridSound
    <2>2. CASE e.type = "viewreset"
      <3>1. n = GridResetView(g, e, FALSE)
        BY <1>2, <2>2 DEF Handle
      <3>2. Placed(n)
        BY <1>0, <2>0, <3>1, ResetsGrid
      <3>3. QED
        BY <1>2, <3>2 DEF GridSound
    <2>3. CASE e.type = "zoom"
      <3>1. n = GridResetView(g, e, e.flyTo)
        BY <1>2, <2>3 DEF Handle
      <3>2. Placed(n)
        BY <1>0, <2>0, <3>1, ResetsGrid
      <3>3. QED
        BY <1>2, <3>2 DEF GridSound
    <2>4. CASE e.type = "move"
      <3>1. n = OnMove(g, e)
        BY <1>2, <2>4 DEF Handle
      <3>2. QED
        BY <1>0, <1>2, <3>1, OnMoveSound
    <2>5. CASE e.type = "moveend"
      <3>1. n = OnMoveEnd(g, e)
        BY <1>2, <2>5 DEF Handle
      <3>2. QED
        BY <1>0, <1>2, <3>1, EndOfMove
    <2>6. CASE e.type = "zoomanim"
      <3> DEFINE c == e.center
                 z == e.zoom
                 yes == TRUE
                 u == e.flyTo
      <3>1. n = GridSetView(g, e, c, z, yes, u) /\ yes \in BOOLEAN /\ u \in BOOLEAN /\ z \in Zooms
        BY <1>0, <1>2, <2>6 DEF Handle
      <3> HIDE DEF n, c, z, yes, u
      <3>2. n = g \/ Shown(g, n, e, c, z)
        BY <1>0, <2>0, <3>1, SetsGridView
      <3>3. Placed(n)
        BY <2>0, <3>2 DEF Shown, Ready
      <3>4. QED
        BY <1>2, <3>3 DEF GridSound, n
    <2>7. CASE e.type \notin {"viewprereset", "viewreset", "zoom", "move", "moveend", "zoomanim"}
      <3>1. n = g
        BY <1>2, <2>7 DEF Handle
      <3>2. QED
        BY <1>2, <3>1
    <2>8. QED
      BY <2>1, <2>2, <2>3, <2>4, <2>5, <2>6, <2>7
  <1>3. QED
    BY <1>1, <1>2

Heard(g, s) == FoldLeft(Handle, g, s)

(* What the layer is after the first i of the events.                      *)
Hears(h, g, s) ==
    /\ h[{}] = g
    /\ \A i \in 1..Len(s) : h[1..i] = Handle(h[1..(i - 1)], s[i])

LEMMA HeardInTurn ==
    ASSUME NEW b, GridSound(b), NEW s \in Seq(Event)
    PROVE  \E h : Hears(h, b, s) /\ Heard(b, s) = h[1..Len(s)]
  <1> DEFINE T == DOMAIN s
             V == {g \in GridState : GridSound(g)}
             Step(v, i) == Handle(v, s[i])
             f == [z \in T \X V |-> Step(z[2], z[1])]
             c == [S \in SUBSET T |-> Max(S)]
             Iter(g) == [S \in SUBSET T |-> IF S = {} THEN b
                            ELSE LET x == Max(S) IN Step(g[S \ {x}], x)]
  <1>1. T = 1..Len(s) /\ Len(s) \in Nat /\ IsFiniteSet(T)
    BY LenProperties, FS_Interval
  <1>2. \A S \in SUBSET T : S # {} => c[S] = Max(S) /\ c[S] \in S
    BY <1>1, MaxIn
  <1>c. \A S \in SUBSET T : S # {} => c[S] \in S
    BY <1>2
  <1>f. IsFiniteSet(T)
    BY <1>1
  <1>3. ASSUME NEW i \in T, NEW v \in V PROVE Step(v, i) \in V
    <2>1. s[i] \in Event /\ GridSound(v)
      BY ElementOfSeq, <1>1
    <2>2. GridSound(Handle(v, s[i]))
      BY <2>1, HandlesSound
    <2>3. QED
      BY <2>2, NotOnMap
  <1>4. b \in V
    BY NotOnMap
  <1> HIDE DEF V, T, Step
  <1>5. \A i \in T, v \in V : f[<<i, v>>] = Step(v, i)
    OBVIOUS
  <1> HIDE DEF f
  <1>6. PICK g : IsFold(g, f, c, b, T, V)
    <2>1. StaysWithin(f, T, V)
      BY <1>3, <1>5 DEF StaysWithin
    <2>2. Chooses(c, T)
      BY <1>c DEF Chooses
    <2> HIDE DEF c
    <2>3. QED
      BY <1>f, <1>4, <2>1, <2>2, FoldFound
  <1>7. g = Iter(g)
    <2>1. \A S \in SUBSET T : S # {} => g[S] = Step(g[S \ {Max(S)}], Max(S))
      BY <1>2, <1>5, <1>6 DEF IsFold
    <2>2. QED
      BY <1>6, <2>1 DEF IsFold
  <1> DEFINE h == CHOOSE h : h = Iter(h)
  <1>8. Heard(b, s) = h[T]
    BY DEF Heard, FoldLeft, MapThenFoldSet, T, Step
  <1>9. h = Iter(h)
    BY <1>7
  <1> HIDE DEF h
  <1>10. h[{}] = b /\ \A S \in SUBSET T : S # {} => h[S] = Step(h[S \ {Max(S)}], Max(S))
    BY <1>9
  <1>11. ASSUME NEW i \in 1..Len(s) PROVE h[1..i] = Handle(h[1..(i - 1)], s[i])
    <2>1. i \in Nat /\ i > 0 /\ 1..i \in SUBSET T
      BY <1>1
    <2>2. Max(1..i) = i /\ (1..i) \ {i} = 1..(i - 1) /\ 1..i # {}
      BY <2>1, LastOf
    <2>3. h[1..i] = Step(h[1..(i - 1)], i)
      BY <1>10, <2>1, <2>2
    <2>4. QED
      BY <2>3 DEF Step
  <1>12. Hears(h, b, s) /\ Heard(b, s) = h[1..Len(s)]
    BY <1>1, <1>8, <1>10, <1>11 DEF Hears
  <1>13. QED
    BY <1>12

LEMMA HeardNothing ==
    ASSUME NEW b, GridSound(b)
    PROVE  Heard(b, <<>>) = b
  <1>1. <<>> \in Seq(Event) /\ Len(<<>>) = 0 /\ 1..0 = {}
    OBVIOUS
  <1>2. PICK h : Hears(h, b, <<>>) /\ Heard(b, <<>>) = h[1..Len(<<>>)]
    BY <1>1, HeardInTurn
  <1>3. QED
    BY <1>1, <1>2 DEF Hears

LEMMA HeardIsSound ==
    ASSUME NEW b, GridSound(b), NEW s \in Seq(Event)
    PROVE  GridSound(Heard(b, s))
  <1>1. PICK h : Hears(h, b, s) /\ Heard(b, s) = h[1..Len(s)]
    BY HeardInTurn
  <1> DEFINE P == {i \in Nat : i <= Len(s) => GridSound(h[1..i])}
  <1>2. 0 \in P
    <2>1. 1..0 = {}
      OBVIOUS
    <2>2. QED
      BY <1>1, <2>1 DEF Hears
  <1>3. ASSUME NEW i \in Nat, i \in P PROVE i + 1 \in P
    <2>1. ASSUME i + 1 <= Len(s) PROVE GridSound(h[1..(i + 1)])
      <3>1. i + 1 \in 1..Len(s) /\ (i + 1) - 1 = i /\ i <= Len(s)
        BY <2>1, LenProperties
      <3>2. h[1..(i + 1)] = Handle(h[1..i], s[i + 1])
        BY <1>1, <3>1 DEF Hears
      <3>3. s[i + 1] \in Event
        BY <3>1, ElementOfSeq
      <3>4. GridSound(h[1..i])
        BY <1>3, <3>1
      <3>5. QED
        BY <3>2, <3>3, <3>4, HandlesSound
    <2>2. QED
      BY <2>1
  <1>4. Nat \subseteq P
    <2> HIDE DEF P
    <2>1. QED
      BY <1>2, <1>3, AllNumbers
  <1>5. QED
    BY <1>1, <1>4, LenProperties

(* One event more is handled after the others.                             *)
LEMMA HeardOneMore ==
    ASSUME NEW b, GridSound(b), NEW s \in Seq(Event), NEW e \in Event
    PROVE  Heard(b, Append(s, e)) = Handle(Heard(b, s), e)
  <1> DEFINE r == Append(s, e)
             n == Len(s)
  <1>1. /\ r \in Seq(Event) /\ Len(r) = n + 1 /\ n \in Nat
        /\ \A i \in 1..n : r[i] = s[i]
        /\ r[n + 1] = e
    BY AppendProperties, LenProperties
  <1> HIDE DEF r
  <1>2. PICK h : Hears(h, b, s) /\ Heard(b, s) = h[1..n]
    BY HeardInTurn
  <1>3. PICK k : Hears(k, b, r) /\ Heard(b, r) = k[1..Len(r)]
    BY <1>1, HeardInTurn
  <1> DEFINE P == {i \in Nat : i <= n => h[1..i] = k[1..i]}
  <1>4. 0 \in P
    <2>1. 1..0 = {}
      OBVIOUS
    <2>2. QED
      BY <1>2, <1>3, <2>1 DEF Hears
  <1>5. ASSUME NEW i \in Nat, i \in P PROVE i + 1 \in P
    <2>1. ASSUME i + 1 <= n PROVE h[1..(i + 1)] = k[1..(i + 1)]
      <3>1. i + 1 \in 1..n /\ i + 1 \in 1..Len(r) /\ (i + 1) - 1 = i /\ i <= n
        BY <1>1, <2>1
      <3>2. h[1..(i + 1)] = Handle(h[1..i], s[i + 1])
        BY <1>2, <3>1 DEF Hears
      <3>3. k[1..(i + 1)] = Handle(k[1..i], r[i + 1])
        BY <1>3, <3>1 DEF Hears
      <3>4. h[1..i] = k[1..i] /\ r[i + 1] = s[i + 1]
        BY <1>1, <1>5, <3>1
      <3>5. QED
        BY <3>2, <3>3, <3>4
    <2>2. QED
      BY <2>1
  <1>6. Nat \subseteq P
    <2> HIDE DEF P
    <2>1. QED
      BY <1>4, <1>5, AllNumbers
  <1>7. h[1..n] = k[1..n]
    BY <1>1, <1>6
  <1>8. n + 1 \in 1..Len(r) /\ (n + 1) - 1 = n
    BY <1>1
  <1>9. k[1..(n + 1)] = Handle(k[1..n], e)
    BY <1>1, <1>3, <1>8 DEF Hears
  <1>10. QED
    BY <1>1, <1>2, <1>3, <1>7, <1>9 DEF r

-----------------------------------------------------------------------------
(* What the layer makes of an event of this map *)

LEMMA HearsLoad ==
    ASSUME NEW g, NEW m, NEW e, e.mapZoom \in Zooms, Sees(e, m),
           m.loaded, Follows(g, m), e.type = "load"
    PROVE  Follows(Handle(g, e), m)
  <1>0. GridSound(g)
    BY DEF Follows, Near
  <1>1. CASE g.onMap = "yes"
    BY <1>1 DEF Handle
  <1>2. CASE g.onMap = "waiting"
    <2> DEFINE n == OnAdd(g, e)
    <2>1. Handle(g, e) = n
      BY <1>2, OffMap
    <2>2. Shown(g, n, e, e.mapCenter, e.mapZoom)
      BY <1>0, <1>2, NotOnMap, Adds
    <2> HIDE DEF n
    <2>3. Shown(g, n, e, m.center, m.zoom)
      BY <2>2 DEF Sees
    <2>4. QED
      BY <2>1, <2>3, ShownFollows
  <1>3. CASE g.onMap \notin {"waiting", "yes"}
    BY <1>3, OffMap
  <1>4. QED
    BY <1>1, <1>2, <1>3

LEMMA HearsMoveEnd ==
    ASSUME NEW g, NEW m, NEW e, e.mapZoom \in Zooms, Sees(e, m),
           Follows(g, m), e.type = "moveend"
    PROVE  Follows(Handle(g, e), m)
  <1>1. CASE g.onMap = "yes"
    <2>1. Handle(g, e) = OnMoveEnd(g, e)
      BY <1>1 DEF Handle
    <2>2. Near(g, m)
      BY DEF Follows
    <2>3. QED
      BY <2>1, <2>2, EndOfMoveFollows
  <1>2. CASE g.onMap # "yes"
    BY <1>2, OffMap
  <1>3. QED
    BY <1>1, <1>2

LEMMA HearsMove ==
    ASSUME NEW g, NEW m, NEW e, e.mapZoom \in Zooms, Sees(e, m),
           Near(g, m), e.type = "move"
    PROVE  Follows(Handle(g, e), m)
  <1>1. CASE g.onMap = "yes"
    <2>1. Handle(g, e) = OnMove(g, e)
      BY <1>1 DEF Handle
    <2>2. QED
      BY <2>1, OnMoveFollows
  <1>2. CASE g.onMap # "yes"
    BY <1>2, OffMap DEF Follows
  <1>3. QED
    BY <1>1, <1>2

LEMMA HearsReset ==
    ASSUME NEW g, NEW m, NEW e, e.mapZoom \in Zooms, Sees(e, m),
           GridSound(g), m.loaded, e.type = "viewreset"
    PROVE  Follows(Handle(g, e), m)
  <1>1. CASE g.onMap = "yes"
    <2> DEFINE n == GridResetView(g, e, FALSE)
    <2>1. Handle(g, e) = n
      BY <1>1 DEF Handle
    <2>2. Placed(g)
      BY <1>1, NotOnMap
    <2>3. Shown(g, n, e, e.mapCenter, e.mapZoom)
      BY <2>2, ResetsGrid
    <2> HIDE DEF n
    <2>4. Shown(g, n, e, m.center, m.zoom)
      BY <2>3 DEF Sees
    <2>5. QED
      BY <2>1, <2>4, ShownFollows
  <1>2. CASE g.onMap # "yes"
    BY <1>2, OffMap DEF Follows, Near
  <1>3. QED
    BY <1>1, <1>2

LEMMA HearsZoom ==
    ASSUME NEW g, NEW m, NEW e \in Event, Sees(e, m), NeedsView(g, m), e.type = "zoom"
    PROVE  Near(Handle(g, e), m)
  <1>1. CASE g.onMap = "yes"
    <2> DEFINE n == GridResetView(g, e, e.flyTo)
    <2>1. Handle(g, e) = n
      BY <1>1 DEF Handle
    <2>2. Placed(g) /\ e.mapZoom \in Zooms /\ e.flyTo \in BOOLEAN /\ m.loaded
      BY <1>1, NotOnMap, EventParts DEF NeedsView
    <2>3. Placed(n) /\ n.tileZoom = e.mapZoom
      BY <2>2, ResetsGrid
    <2> HIDE DEF n
    <2>4. QED
      BY <2>1, <2>2, <2>3 DEF Near, GridSound, Sees
  <1>2. CASE g.onMap # "yes"
    BY <1>2, OffMap DEF Near, NeedsView
  <1>3. QED
    BY <1>1, <1>2

(* The view is shown, if at its zoom.                                      *)
Loosely(g, m) ==
    /\ NeedsView(g, m)
    /\ g.onMap = "yes" /\ g.tileZoom = m.zoom => Follows(g, m)

LEMMA HearsMoveLoosely ==
    ASSUME NEW g, NEW m, NEW e, e.mapZoom \in Zooms, Sees(e, m),
           NeedsView(g, m), m.anim = Nowhere, e.type = "move"
    PROVE  Loosely(Handle(g, e), m)
  <1>0. GridSound(g)
    BY DEF NeedsView
  <1>1. CASE g.onMap # "yes"
    BY <1>1, OffMap DEF Loosely
  <1>2. CASE g.onMap = "yes" /\ g.lock = "free"
    <2> DEFINE k == OnMoveEnd(g, e)
               n == Handle(g, e)
    <2>1. n = [k EXCEPT !.lock = "locked"]
      BY <1>2 DEF Handle, OnMove
    <2>2. /\ GridSound(k) /\ k.onMap = g.onMap
          /\ \/ k = g /\ (g.onMap # "yes" \/ e.anim # Nowhere \/ g.tileZoom = Nowhere)
             \/ Shown(g, k, e, e.mapCenter, g.tileZoom)
      BY <1>0, EndOfMove
    <2> HIDE DEF k, n
    <2>3. /\ GridSound(n) /\ n.onMap = k.onMap /\ n.tileZoom = k.tileZoom
          /\ \A f, center : ShowsAt(k, f, center) => ShowsAt(n, f, center)
      BY <2>1, <2>2, LockStays
    <2>4. m.loaded /\ e.anim = Nowhere /\ m.zoom # Nowhere /\ e.mapCenter = m.center
      BY <1>2, ZoomIsThere DEF NeedsView, Sees
    <2>5. ASSUME n.tileZoom = m.zoom PROVE Follows(n, m)
      <3>1. Shown(g, k, e, m.center, g.tileZoom)
        BY <1>2, <2>2, <2>3, <2>4, <2>5
      <3>2. Shown(g, k, e, m.center, m.zoom)
        BY <2>3, <2>5, <3>1 DEF Shown
      <3>3. Follows(k, m) /\ k.lock = "free"
        BY <1>2, <2>4, <3>2, ShownFollows DEF Shown
      <3>4. QED
        BY <2>3, <3>3 DEF Follows, Near
    <2>6. QED
      BY <1>2, <2>2, <2>3, <2>4, <2>5 DEF Loosely, NeedsView, n
  <1>3. CASE g.onMap = "yes" /\ g.lock # "free"
    <2> DEFINE n == Handle(g, e)
    <2>1. n = [g EXCEPT !.lock = "again"]
      BY <1>3 DEF Handle, OnMove
    <2> HIDE DEF n
    <2>2. /\ GridSound(n) /\ n.onMap = g.onMap /\ n.tileZoom = g.tileZoom
          /\ n.lock = "again"
      BY <1>0, <2>1, LockStays
    <2>3. QED
      BY <2>2 DEF Loosely, NeedsView, Follows, Near, n
  <1>4. QED
    BY <1>1, <1>2, <1>3

(* A zoom animation begins, or has ended as soon as it began.              *)
LEMMA HearsZoomAnim ==
    ASSUME NEW g, NEW m, NEW e \in Event, Sees(e, m), e.type = "zoomanim",
           \/ NeedsView(g, m) /\ m.anim # Nowhere /\ m.anim.zoom = e.zoom
           \/ Loosely(g, m) /\ m.anim = Nowhere /\ m.zoom = e.zoom /\ m.center = e.center
    PROVE  Follows(Handle(g, e), m)
  <1>0. GridSound(g) /\ (g.onMap = "yes" => m.loaded)
    BY DEF Loosely, NeedsView
  <1>1. CASE g.onMap = "yes"
    <2> DEFINE c == e.center
               z == e.zoom
               yes == TRUE
               u == e.flyTo
               n == GridSetView(g, e, c, z, yes, u)
    <2>1. Handle(g, e) = n
      BY <1>1 DEF Handle
    <2>2. /\ Placed(g) /\ e.mapZoom \in Zooms /\ z \in Zooms /\ u \in BOOLEAN
          /\ yes \in BOOLEAN /\ m.loaded
      BY <1>0, <1>1, NotOnMap, EventParts
    <2> HIDE DEF c, z, u, yes
    <2>3. \/ u /\ z = g.tileZoom /\ n = g
          \/ Shown(g, n, e, c, z)
      BY <2>2, SetsGridView
    <2> HIDE DEF n
    <2>4. CASE u /\ z = g.tileZoom /\ n = g
      BY <1>0, <1>1, <2>1, <2>2, <2>4 DEF Loosely, Follows, Near, z
    <2>5. CASE Shown(g, n, e, c, z)
      <3>1. CASE m.anim # Nowhere
        <4>1. m.anim.zoom = z
          BY <3>1 DEF z
        <4>2. GridSound(n) /\ n.tileZoom \in {z, m.zoom}
          BY <2>5 DEF Shown, Ready, GridSound, Sees
        <4>3. QED
          BY <2>1, <2>2, <3>1, <4>1, <4>2 DEF Follows, Near
      <3>2. CASE m.anim = Nowhere
        <4>1. m.zoom = z /\ m.center = c
          BY <3>2 DEF z, c
        <4>2. Shown(g, n, e, m.center, m.zoom)
          BY <2>5, <4>1
        <4>3. QED
          BY <2>1, <2>2, <4>2, ShownFollows
      <3>3. QED
        BY <3>1, <3>2
    <2>6. QED
      BY <2>3, <2>4, <2>5
  <1>2. CASE g.onMap # "yes"
    BY <1>0, <1>2, OffMap DEF Follows, Near
  <1>3. QED
    BY <1>1, <1>2

-----------------------------------------------------------------------------
(* The map tells, the layer listens *)

Grid(m) == Heard(grid, m.fired)

(* Map and layer in the middle of a step.                                  *)
Linked(m) == m \in MapState /\ Follows(Grid(m), m)
NearlyLinked(m) == m \in MapState /\ Near(Grid(m), m)
LooselyLinked(m) == m \in MapState /\ NeedsView(Grid(m), m)

(* What the layer reads of the map.                                        *)
SameSeen(m, n) ==
    /\ n.loaded = m.loaded /\ n.zoom = m.zoom /\ n.center = m.center
    /\ n.anim = m.anim /\ n.size = m.size

LEMMA SeesTheSame ==
    ASSUME NEW m, NEW n, SameSeen(m, n), NEW g
    PROVE  /\ Follows(g, m) <=> Follows(g, n)
           /\ Near(g, m) <=> Near(g, n)
           /\ NeedsView(g, m) <=> NeedsView(g, n)
           /\ Loosely(g, m) <=> Loosely(g, n)
  <1>1. Env(m) = Env(n)
    BY DEF Env, SameSeen
  <1>2. Near(g, m) <=> Near(g, n)
    BY DEF SameSeen, Near
  <1>3. Follows(g, m) <=> Follows(g, n)
    BY <1>1, <1>2 DEF SameSeen, Follows
  <1>4. NeedsView(g, m) <=> NeedsView(g, n)
    BY DEF SameSeen, NeedsView
  <1>5. QED
    BY <1>2, <1>3, <1>4 DEF Loosely, SameSeen

LEMMA LinksWeaken ==
    ASSUME NEW m
    PROVE  /\ Linked(m) => NearlyLinked(m)
           /\ NearlyLinked(m) => LooselyLinked(m)
           /\ LooselyLinked(m) => GridSound(Grid(m))
  BY DEF Linked, NearlyLinked, LooselyLinked, Follows, Near, NeedsView

(* A change that the layer neither reads nor hears of.                     *)
LEMMA Unheard ==
    ASSUME NEW m, NEW n \in MapState, SameSeen(m, n), n.fired = m.fired
    PROVE  /\ Grid(n) = Grid(m)
           /\ Linked(m) => Linked(n)
           /\ NearlyLinked(m) => NearlyLinked(n)
           /\ LooselyLinked(m) => LooselyLinked(n)
  <1>1. Grid(n) = Grid(m)
    BY DEF Grid
  <1>2. QED
    BY <1>1, SeesTheSame DEF Linked, NearlyLinked, LooselyLinked

LEMMA IsHeard ==
    ASSUME GridSound(grid), NEW m \in MapState, NEW type \in EventTypes,
           NEW center \in Nat, NEW zoom \in Zooms, NEW flight \in BOOLEAN
    PROVE  LET n == FireData(m, type, center, zoom, flight) IN
           /\ n \in MapState /\ SameSeen(m, n)
           /\ \E e \in Event :
                 /\ e.type = type /\ e.center = center /\ e.zoom = zoom
                 /\ e.flyTo = flight
                 /\ e.mapZoom \in Zooms /\ Sees(e, m) /\ Sees(e, n)
                 /\ Grid(n) = Handle(Grid(m), e)
  <1> DEFINE n == FireData(m, type, center, zoom, flight)
             e == [type |-> type, center |-> center, zoom |-> zoom,
                   mapZoom |-> m.zoom, mapCenter |-> m.center,
                   anim |-> m.anim, size |-> m.size, flyTo |-> flight]
  <1>1. n \in MapState /\ Same(m, n) /\ SameView(m, n)
    BY Fires
  <1>2. SameSeen(m, n)
    BY <1>1 DEF Same, SameView, SameSeen
  <1>3. e \in Event
    BY DEF MapState, Event
  <1>4. m.fired \in Seq(Event) /\ n.fired = Append(m.fired, e)
    BY DEF MapState, FireData
  <1>5. /\ e.type = type /\ e.center = center /\ e.zoom = zoom
        /\ e.mapZoom = m.zoom /\ e.mapCenter = m.center
        /\ e.anim = m.anim /\ e.size = m.size /\ e.flyTo = flight
    OBVIOUS
  <1>6. m.zoom \in Zooms
    BY DEF MapState
  <1> HIDE DEF n, e
  <1>7. Grid(n) = Handle(Grid(m), e)
    BY <1>3, <1>4, HeardOneMore DEF Grid
  <1>8. Sees(e, m) /\ Sees(e, n)
    BY <1>2, <1>5 DEF Sees, SameSeen
  <1>9. \E f \in Event :
           /\ f.type = type /\ f.center = center /\ f.zoom = zoom
           /\ f.flyTo = flight
           /\ f.mapZoom \in Zooms /\ Sees(f, m) /\ Sees(f, n)
           /\ Grid(n) = Handle(Grid(m), f)
    <2>1. e.mapZoom \in Zooms
      BY <1>5, <1>6
    <2>2. QED
      BY <1>3, <1>5, <1>7, <1>8, <2>1, Zenon
  <1>10. n \in MapState /\ SameSeen(m, n)
    BY <1>1, <1>2
  <1> USE DEF n
  <1>11. QED
    BY <1>9, <1>10, Zenon

LEMMA Emitted ==
    ASSUME GridSound(grid), NEW m \in MapState, NEW type \in EventTypes
    PROVE  LET n == Emit(m, type) IN
           /\ n \in MapState /\ SameSeen(m, n)
           /\ \E e \in Event :
                 /\ e.type = type /\ e.mapZoom \in Zooms /\ Sees(e, m) /\ Sees(e, n)
                 /\ Grid(n) = Handle(Grid(m), e)
  <1> DEFINE no == FALSE
             n == Emit(m, type)
  <1>1. m.center \in Nat /\ m.zoom \in Zooms
    BY DEF MapState
  <1>2. n = FireData(m, type, m.center, m.zoom, no) /\ no \in BOOLEAN
    BY DEF Emit
  <1> HIDE DEF no, n
  <1>3. /\ n \in MapState /\ SameSeen(m, n)
        /\ \E e \in Event :
              /\ e.type = type /\ e.mapZoom \in Zooms /\ Sees(e, m) /\ Sees(e, n)
              /\ Grid(n) = Handle(Grid(m), e)
    BY <1>1, <1>2, IsHeard
  <1>4. QED
    BY <1>3 DEF n

LEMMA EmitsLinked ==
    ASSUME GridSound(grid), NEW m \in MapState,
           NEW type \in {"zoomstart", "zoomend", "movestart", "resize"}
    PROVE  LET n == Emit(m, type) IN
           /\ n \in MapState /\ SameSeen(m, n)
           /\ Linked(m) => Linked(n)
           /\ NearlyLinked(m) => NearlyLinked(n)
           /\ LooselyLinked(m) => LooselyLinked(n)
  <1> DEFINE n == Emit(m, type)
  <1>1. type \in EventTypes
    BY DEF EventTypes
  <1>2. n \in MapState /\ SameSeen(m, n)
    BY <1>1, Emitted
  <1>3. Grid(n) = Grid(m)
    BY <1>1, Emitted, Neutral
  <1> HIDE DEF n
  <1>4. QED
    BY <1>2, <1>3, SeesTheSame DEF Linked, NearlyLinked, LooselyLinked, n

LEMMA EmitsLoosely ==
    ASSUME GridSound(grid), NEW m, LooselyLinked(m), NEW type \in EventTypes,
           type = "load" => m.loaded
    PROVE  LooselyLinked(Emit(m, type)) /\ SameSeen(m, Emit(m, type))
  <1> DEFINE n == Emit(m, type)
  <1>0. m \in MapState /\ GridSound(Grid(m)) /\ (Grid(m).onMap = "yes" => m.loaded)
    BY DEF LooselyLinked, NeedsView
  <1>1. n \in MapState /\ SameSeen(m, n)
    BY <1>0, Emitted
  <1>2. PICK e \in Event : e.type = type /\ Grid(n) = Handle(Grid(m), e)
    BY <1>0, Emitted
  <1> HIDE DEF n
  <1>3. GridSound(Grid(n)) /\ (Grid(n).onMap = "yes" => Grid(m).onMap = "yes" \/ type = "load")
    BY <1>0, <1>2, HandlesSound
  <1>4. QED
    BY <1>0, <1>1, <1>3 DEF LooselyLinked, NeedsView, SameSeen, n

LEMMA EmitsMoveEnd ==
    ASSUME GridSound(grid), NEW m, Linked(m)
    PROVE  Linked(Emit(m, "moveend")) /\ SameSeen(m, Emit(m, "moveend"))
  <1> DEFINE n == Emit(m, "moveend")
  <1>1. m \in MapState /\ Follows(Grid(m), m) /\ "moveend" \in EventTypes
    BY DEF Linked, EventTypes
  <1>2. n \in MapState /\ SameSeen(m, n)
    BY <1>1, Emitted
  <1>3. Follows(Grid(n), m)
    BY <1>1, Emitted, HearsMoveEnd
  <1> HIDE DEF n
  <1>4. QED
    BY <1>2, <1>3, SeesTheSame DEF Linked, n

LEMMA EmitsMove ==
    ASSUME GridSound(grid), NEW m, NearlyLinked(m)
    PROVE  Linked(Emit(m, "move")) /\ SameSeen(m, Emit(m, "move"))
  <1> DEFINE n == Emit(m, "move")
  <1>1. m \in MapState /\ Near(Grid(m), m) /\ "move" \in EventTypes
    BY DEF NearlyLinked, EventTypes
  <1>2. n \in MapState /\ SameSeen(m, n)
    BY <1>1, Emitted
  <1>3. Follows(Grid(n), m)
    BY <1>1, Emitted, HearsMove
  <1> HIDE DEF n
  <1>4. QED
    BY <1>2, <1>3, SeesTheSame DEF Linked, n

LEMMA EmitsReset ==
    ASSUME GridSound(grid), NEW m, LooselyLinked(m), m.loaded
    PROVE  Linked(Emit(m, "viewreset")) /\ SameSeen(m, Emit(m, "viewreset"))
  <1> DEFINE n == Emit(m, "viewreset")
  <1>1. m \in MapState /\ GridSound(Grid(m)) /\ "viewreset" \in EventTypes
    BY DEF LooselyLinked, NeedsView, EventTypes
  <1>2. n \in MapState /\ SameSeen(m, n)
    BY <1>1, Emitted
  <1>3. Follows(Grid(n), m)
    BY <1>1, Emitted, HearsReset
  <1> HIDE DEF n
  <1>4. QED
    BY <1>2, <1>3, SeesTheSame DEF Linked, n

LEMMA EmitsLoad ==
    ASSUME GridSound(grid), NEW m, Linked(m), m.loaded
    PROVE  Linked(Emit(m, "load")) /\ SameSeen(m, Emit(m, "load"))
  <1> DEFINE n == Emit(m, "load")
  <1>1. m \in MapState /\ Follows(Grid(m), m) /\ "load" \in EventTypes
    BY DEF Linked, EventTypes
  <1>2. n \in MapState /\ SameSeen(m, n)
    BY <1>1, Emitted
  <1>3. Follows(Grid(n), m)
    BY <1>1, Emitted, HearsLoad
  <1> HIDE DEF n
  <1>4. QED
    BY <1>2, <1>3, SeesTheSame DEF Linked, n

LEMMA StartsLinked ==
    ASSUME GridSound(grid), NEW m \in MapState, NEW changed \in BOOLEAN,
           NEW silent \in BOOLEAN
    PROVE  LET n == MoveStart(m, changed, silent) IN
           /\ n \in MapState /\ SameSeen(m, n)
           /\ Linked(m) => Linked(n)
           /\ LooselyLinked(m) => LooselyLinked(n)
  <1> DEFINE k == IF changed THEN Emit(m, "zoomstart") ELSE m
             n == MoveStart(m, changed, silent)
  <1>1. /\ k \in MapState /\ SameSeen(m, k)
        /\ Linked(m) => Linked(k)
        /\ LooselyLinked(m) => LooselyLinked(k)
    <2>1. CASE changed
      BY <2>1, EmitsLinked
    <2>2. CASE ~changed
      BY <2>2 DEF SameSeen
    <2>3. QED
      BY <2>1, <2>2
  <1>2. n = IF silent THEN k ELSE Emit(k, "movestart")
    BY DEF MoveStart
  <1> HIDE DEF k, n
  <1>3. CASE silent
    BY <1>1, <1>2, <1>3 DEF n
  <1>4. CASE ~silent
    <2>1. /\ n \in MapState /\ SameSeen(k, n)
          /\ Linked(k) => Linked(n)
          /\ LooselyLinked(k) => LooselyLinked(n)
      BY <1>1, <1>2, <1>4, EmitsLinked
    <2>2. QED
      BY <1>1, <2>1 DEF SameSeen, n
  <1>5. QED
    BY <1>3, <1>4

(* The layer has the zoom that the map goes to, if the map has it already. *)
FitsZoom(m, zoom) ==
    Grid(m).onMap = "yes" /\ zoom = m.zoom =>
        \/ Grid(m).tileZoom = zoom
        \/ m.anim # Nowhere /\ Grid(m).tileZoom = m.anim.zoom

LinkedAtZoom(m) == m \in MapState /\ Loosely(Grid(m), m)

LEMMA MovesLinked ==
    ASSUME GridSound(grid), NEW m, LooselyLinked(m), NEW center \in Nat,
           NEW zoom \in Zooms, NEW flight \in BOOLEAN
    PROVE  LET n == Move(m, center, zoom, flight) IN
           /\ n \in MapState /\ n.loaded = m.loaded /\ n.zoom = zoom
           /\ n.center = center /\ n.anim = m.anim
           /\ LooselyLinked(n)
           /\ FitsZoom(m, zoom) => Linked(n)
           /\ m.anim = Nowhere => LinkedAtZoom(n)
  <1> DEFINE j == [m EXCEPT !.zoom = zoom, !.center = center]
             k == IF zoom # m.zoom THEN FireData(j, "zoom", center, zoom, flight)
                                   ELSE j
             n == Move(m, center, zoom, flight)
  <1>0. m \in MapState /\ NeedsView(Grid(m), m)
    BY DEF LooselyLinked
  <1>1. /\ j \in MapState /\ j.loaded = m.loaded /\ j.zoom = zoom /\ j.center = center
        /\ j.anim = m.anim /\ j.fired = m.fired /\ j.size = m.size
    BY <1>0 DEF MapState
  <1>2. n = FireData(k, "move", center, zoom, flight)
    BY DEF Move
  <1> HIDE DEF j, n
  <1>3. Grid(j) = Grid(m) /\ NeedsView(Grid(j), j)
    BY <1>0, <1>1 DEF Grid, NeedsView
  <1>4. /\ k \in MapState /\ SameSeen(j, k) /\ NeedsView(Grid(k), k)
        /\ FitsZoom(m, zoom) => Near(Grid(k), k)
    <2>1. CASE zoom # m.zoom
      <3>1. "zoom" \in EventTypes
        BY DEF EventTypes
      <3>2. /\ k \in MapState /\ SameSeen(j, k)
            /\ \E e \in Event : /\ e.type = "zoom" /\ Sees(e, k) /\ Sees(e, j)
                                /\ Grid(k) = Handle(Grid(j), e)
        BY <1>1, <2>1, <3>1, IsHeard
      <3> HIDE DEF k
      <3>3. Near(Grid(k), j)
        BY <1>3, <3>2, HearsZoom
      <3>4. Near(Grid(k), k)
        BY <3>2, <3>3, SeesTheSame
      <3>5. QED
        BY <3>2, <3>4 DEF Near, NeedsView
    <2>2. CASE zoom = m.zoom
      <3>1. k = j
        BY <2>2
      <3>2. FitsZoom(m, zoom) => Near(Grid(j), j)
        BY <1>1, <1>3, <2>2 DEF FitsZoom, Near, NeedsView
      <3> HIDE DEF k
      <3>3. QED
        BY <1>1, <1>3, <3>1, <3>2 DEF SameSeen
    <2>3. QED
      BY <2>1, <2>2
  <1> HIDE DEF k
  <1>5. "move" \in EventTypes
    BY DEF EventTypes
  <1>6. /\ n \in MapState /\ SameSeen(k, n)
        /\ \E e \in Event : /\ e.type = "move" /\ e.mapZoom \in Zooms
                            /\ Sees(e, k) /\ Sees(e, n)
                            /\ Grid(n) = Handle(Grid(k), e)
    BY <1>2, <1>4, <1>5, IsHeard
  <1>7. PICK e \in Event : /\ e.type = "move" /\ e.mapZoom \in Zooms
                           /\ Sees(e, k) /\ Sees(e, n)
                           /\ Grid(n) = Handle(Grid(k), e)
    BY <1>6
  <1>8. FitsZoom(m, zoom) => Linked(n)
    <2>1. Near(Grid(k), k) => Follows(Grid(n), k)
      BY <1>7, HearsMove
    <2>2. QED
      BY <1>4, <1>6, <2>1, SeesTheSame DEF Linked
  <1>9. m.anim = Nowhere => LinkedAtZoom(n)
    <2>1. k.anim = Nowhere => Loosely(Grid(n), k)
      BY <1>4, <1>7, HearsMoveLoosely
    <2>2. QED
      BY <1>1, <1>4, <1>6, <2>1, SeesTheSame DEF LinkedAtZoom, SameSeen
  <1>10. LooselyLinked(n)
    <2>1. GridSound(Grid(n)) /\ (Grid(n).onMap = "yes" => Grid(k).onMap = "yes")
      BY <1>4, <1>7, HandlesSound DEF NeedsView
    <2>2. QED
      BY <1>4, <1>6, <2>1 DEF LooselyLinked, NeedsView, SameSeen
  <1>11. /\ n.loaded = m.loaded /\ n.zoom = zoom
         /\ n.center = center /\ n.anim = m.anim
    BY <1>1, <1>4, <1>6 DEF SameSeen
  <1>12. QED
    BY <1>6, <1>8, <1>9, <1>10, <1>11 DEF n

LEMMA MovesOnLinked ==
    ASSUME GridSound(grid), NEW m, Linked(m), NEW center \in Nat,
           NEW zoom \in Zooms, NEW flight \in BOOLEAN
    PROVE  LET n == Move(m, center, zoom, flight) IN
           /\ Linked(n) /\ n.zoom = zoom /\ n.center = center
           /\ n.loaded = m.loaded /\ n.anim = m.anim
  <1>1. LooselyLinked(m) /\ FitsZoom(m, zoom)
    BY LinksWeaken DEF Linked, Follows, Near, FitsZoom
  <1>2. QED
    BY <1>1, MovesLinked

LEMMA EndsLinked ==
    ASSUME GridSound(grid), NEW m, Linked(m), NEW changed \in BOOLEAN
    PROVE  LET n == MoveEnd(m, changed) IN Linked(n) /\ SameSeen(m, n)
  <1> DEFINE k == IF changed THEN Emit(m, "zoomend") ELSE m
             n == MoveEnd(m, changed)
  <1>0. m \in MapState
    BY DEF Linked
  <1>1. Linked(k) /\ SameSeen(m, k)
    <2>1. CASE changed
      BY <1>0, <2>1, EmitsLinked
    <2>2. CASE ~changed
      BY <2>2 DEF SameSeen
    <2>3. QED
      BY <2>1, <2>2
  <1>2. n = Emit(k, "moveend")
    BY DEF MoveEnd
  <1> HIDE DEF k, n
  <1>3. Linked(n) /\ SameSeen(k, n)
    BY <1>1, <1>2, EmitsMoveEnd
  <1>4. QED
    BY <1>1, <1>3 DEF SameSeen, n

LEMMA EndsLoosely ==
    ASSUME GridSound(grid), NEW m, LooselyLinked(m), NEW changed \in BOOLEAN
    PROVE  LET n == MoveEnd(m, changed) IN LooselyLinked(n) /\ SameSeen(m, n)
  <1> DEFINE k == IF changed THEN Emit(m, "zoomend") ELSE m
             n == MoveEnd(m, changed)
  <1>0. m \in MapState
    BY DEF LooselyLinked
  <1>1. LooselyLinked(k) /\ SameSeen(m, k)
    <2>1. CASE changed
      BY <1>0, <2>1, EmitsLinked
    <2>2. CASE ~changed
      BY <2>2 DEF SameSeen
    <2>3. QED
      BY <2>1, <2>2
  <1>2. n = Emit(k, "moveend")
    BY DEF MoveEnd
  <1> HIDE DEF k, n
  <1>3. LooselyLinked(n) /\ SameSeen(k, n)
    BY <1>1, <1>2, EmitsLoosely DEF EventTypes
  <1>4. QED
    BY <1>1, <1>3 DEF SameSeen, n

(* Whatever was before, after a reset the layer shows the view.            *)
LEMMA ResetsLinked ==
    ASSUME GridSound(grid), NEW m \in MapState, GridSound(Grid(m)),
           NEW center \in Nat, NEW zoom \in Zooms
    PROVE  LET n == ResetView(m, center, zoom) IN Linked(n)
  <1> DEFINE changed == m.zoom # zoom
             l == [m EXCEPT !.loaded = TRUE]
             a == Emit(l, "viewprereset")
             b == MoveStart(a, changed, FALSE)
             c == Move(b, center, zoom, FALSE)
             d == MoveEnd(c, changed)
             e == Emit(d, "viewreset")
             f == Emit(e, "load")
             n == ResetView(m, center, zoom)
  <1>1. n = IF m.loaded THEN e ELSE f
    BY DEF ResetView
  <1>2. LooselyLinked(l) /\ l.loaded
    <2>1. l \in MapState /\ l.loaded /\ l.fired = m.fired
      BY DEF MapState
    <2> HIDE DEF l
    <2>2. QED
      BY <2>1 DEF LooselyLinked, NeedsView, Grid
  <1>b. changed \in BOOLEAN /\ FALSE \in BOOLEAN
    OBVIOUS
  <1> HIDE DEF l, changed, n
  <1>3. LooselyLinked(a) /\ a.loaded
    BY <1>2, EmitsLoosely DEF EventTypes, SameSeen
  <1> HIDE DEF a
  <1>4. LooselyLinked(b) /\ b.loaded
    <2> DEFINE no == FALSE
    <2>1. no \in BOOLEAN /\ b = MoveStart(a, changed, no) /\ a \in MapState
      BY <1>3 DEF LooselyLinked
    <2> HIDE DEF b, no
    <2>2. QED
      BY <1>3, <1>b, <2>1, StartsLinked DEF SameSeen
  <1> HIDE DEF b
  <1>5. LooselyLinked(c) /\ c.loaded
    <2> DEFINE no == FALSE
    <2>1. no \in BOOLEAN /\ c = Move(b, center, zoom, no)
      OBVIOUS
    <2> HIDE DEF c, no
    <2>2. QED
      BY <1>4, <2>1, MovesLinked
  <1> HIDE DEF c
  <1>6. LooselyLinked(d) /\ d.loaded
    BY <1>5, <1>b, EndsLoosely DEF SameSeen
  <1> HIDE DEF d
  <1>7. Linked(e) /\ e.loaded
    BY <1>6, EmitsReset DEF SameSeen
  <1> HIDE DEF e
  <1>8. Linked(f)
    BY <1>7, EmitsLoad
  <1>9. QED
    BY <1>1, <1>7, <1>8 DEF n

LEMMA RunsLinked ==
    ASSUME GridSound(grid), NEW m, Linked(m), NEW center \in Nat
    PROVE  LET n == RunFrame(m, center) IN Linked(n) /\ n.loaded = m.loaded /\ n.anim = m.anim
  <1> DEFINE k == [m EXCEPT !.center = center]
             n == RunFrame(m, center)
  <1>0. m \in MapState
    BY DEF Linked
  <1>1. /\ k \in MapState /\ k.zoom = m.zoom /\ k.loaded = m.loaded
        /\ k.anim = m.anim /\ k.fired = m.fired
    BY <1>0 DEF MapState
  <1>2. n = Emit(k, "move")
    BY DEF RunFrame
  <1> HIDE DEF k, n
  <1>3. NearlyLinked(k)
    BY <1>1 DEF NearlyLinked, Linked, Follows, Near, Grid
  <1>4. Linked(n) /\ SameSeen(k, n)
    BY <1>2, <1>3, EmitsMove
  <1>5. QED
    BY <1>1, <1>4 DEF SameSeen, n

LEMMA CompletesLinked ==
    ASSUME GridSound(grid), NEW m, Linked(m)
    PROVE  LET n == Complete(m) IN Linked(n) /\ SameSeen(m, n)
  <1> DEFINE k == [m EXCEPT !.pan = Nowhere]
             n == Complete(m)
  <1>0. m \in MapState
    BY DEF Linked
  <1>1. k \in MapState /\ SameSeen(m, k) /\ k.fired = m.fired
    BY <1>0 DEF MapState, SameSeen
  <1>2. n = Emit(k, "moveend")
    BY DEF Complete
  <1> HIDE DEF k, n
  <1>3. Linked(k)
    BY <1>0, <1>1, Unheard
  <1>4. Linked(n) /\ SameSeen(k, n)
    BY <1>2, <1>3, EmitsMoveEnd
  <1>5. QED
    BY <1>1, <1>4 DEF SameSeen, n

LEMMA StopsPanLinked ==
    ASSUME GridSound(grid), NEW m, Linked(m), NEW n \in StopPan(m)
    PROVE  Linked(n) /\ n.loaded = m.loaded /\ n.anim = m.anim
  <1>0. m \in MapState
    BY DEF Linked
  <1>1. CASE m.pan = Nowhere
    BY <1>1 DEF StopPan
  <1>2. CASE m.pan # Nowhere
    <2>1. m.pan \in Nat /\ m.center \in Nat
      BY <1>0, <1>2 DEF MapState
    <2>2. PICK c \in Nat : LET k == Complete(RunFrame(m, c)) IN
                           n = k \/ n = Complete(k)
      BY <1>2, <2>1 DEF StopPan
    <2> DEFINE j == RunFrame(m, c)
               k == Complete(j)
    <2>3. Linked(j) /\ j.loaded = m.loaded /\ j.anim = m.anim
      BY RunsLinked
    <2> HIDE DEF j
    <2>4. Linked(k) /\ SameSeen(j, k)
      BY <2>3, CompletesLinked
    <2>5. n = k \/ n = Complete(k)
      BY <2>2 DEF j
    <2> HIDE DEF k
    <2>6. Linked(n) /\ SameSeen(k, n)
      BY <2>4, <2>5, CompletesLinked DEF SameSeen
    <2>7. QED
      BY <2>3, <2>4, <2>6 DEF SameSeen
  <1>3. QED
    BY <1>1, <1>2

LEMMA StopsLinked ==
    ASSUME GridSound(grid), NEW m, Linked(m), NEW n \in Stop(m)
    PROVE  Linked(n) /\ n.loaded = m.loaded /\ n.anim = m.anim
  <1> DEFINE cut == m.flightCut \/ m.fly # Nowhere
             k == [m EXCEPT !.fly = Nowhere, !.flightCut = cut]
  <1>0. m \in MapState
    BY DEF Linked
  <1>1. k \in MapState /\ SameSeen(m, k) /\ k.fired = m.fired
    <2>1. cut \in BOOLEAN
      BY <1>0 DEF MapState
    <2> HIDE DEF cut
    <2>2. QED
      BY <1>0, <2>1 DEF MapState, SameSeen
  <1>2. n \in StopPan(k)
    BY DEF Stop
  <1> HIDE DEF k
  <1>3. Linked(k)
    BY <1>0, <1>1, Unheard
  <1>4. QED
    BY <1>1, <1>2, <1>3, StopsPanLinked DEF SameSeen

LEMMA PansLinked ==
    ASSUME GridSound(grid), NEW m, Linked(m), NEW center \in Nat,
           NEW n \in PanBy(m, center)
    PROVE  Linked(n)
  <1>0. m \in MapState /\ m.zoom \in Zooms
    BY DEF Linked, MapState
  <1>1. CASE n = Emit(m, "moveend")
    BY <1>1, EmitsMoveEnd
  <1>2. CASE n = ResetView(m, center, m.zoom)
    BY <1>0, <1>2, ResetsLinked, LinksWeaken
  <1>3. ASSUME NEW k \in StopPan(Emit(m, "movestart")),
               n = [k EXCEPT !.pan = center]
        PROVE  Linked(n)
    <2> DEFINE j == Emit(m, "movestart")
    <2>1. Linked(j)
      BY <1>0, EmitsLinked
    <2> HIDE DEF j
    <2>2. Linked(k)
      BY <2>1, StopsPanLinked DEF j
    <2>3. k \in MapState
      BY <2>2 DEF Linked
    <2>4. n \in MapState /\ SameSeen(k, n) /\ n.fired = k.fired
      BY <1>3, <2>3 DEF MapState, SameSeen
    <2>5. QED
      BY <2>2, <2>3, <2>4, Unheard
  <1>4. \/ n = Emit(m, "moveend")
        \/ n = ResetView(m, center, m.zoom)
        \/ \E k \in StopPan(Emit(m, "movestart")) : n = [k EXCEPT !.pan = center]
    BY DEF PanBy
  <1>5. QED
    BY <1>1, <1>2, <1>3, <1>4

LEMMA RequestUnheard ==
    ASSUME NEW m \in MapState, NEW f \in Frame
    PROVE  LET n == RequestFrame(m, f) IN
           n \in MapState /\ SameSeen(m, n) /\ n.fired = m.fired
  <1>1. m.frames \in Seq(Frame)
    BY DEF MapState
  <1> DEFINE s == Append(m.frames, f)
  <1>2. s \in Seq(Frame)
    BY <1>1
  <1>3. RequestFrame(m, f) = [m EXCEPT !.frames = s]
    BY DEF RequestFrame
  <1> HIDE DEF s
  <1>4. QED
    BY <1>2, <1>3 DEF MapState, SameSeen

LEMMA MoveEndFrame == [kind |-> "moveEnd", center |-> 0, zoom |-> 0] \in Frame
  BY ZoomAssumption DEF Frame, Zooms

(* The transition has ended: the map is where it was going.                *)
LEMMA EndsTransitionLinked ==
    ASSUME GridSound(grid), NEW m, LooselyLinked(m), m.anim # Nowhere
    PROVE  LET n == OnZoomTransitionEnd(m) IN
           /\ LinkedAtZoom(n) /\ n.anim = Nowhere
           /\ n.zoom = m.anim.zoom /\ n.center = m.anim.center
           /\ Linked(m) => Linked(n)
  <1> DEFINE j == [m EXCEPT !.anim = Nowhere]
             c == m.anim.center
             z == m.anim.zoom
             k == Move(j, c, z, FALSE)
             f == [kind |-> "moveEnd", center |-> 0, zoom |-> 0]
             n == OnZoomTransitionEnd(m)
  <1>0. m \in MapState /\ NeedsView(Grid(m), m)
    BY DEF LooselyLinked
  <1>1. m.anim \in View
    BY <1>0 DEF MapState
  <1>2. c \in Nat /\ z \in Zooms
    BY <1>1 DEF View
  <1>3. n = RequestFrame(k, f)
    BY DEF OnZoomTransitionEnd
  <1>4. /\ j \in MapState /\ j.anim = Nowhere /\ j.zoom = m.zoom
        /\ j.loaded = m.loaded /\ j.fired = m.fired
    BY <1>0 DEF MapState
  <1> HIDE DEF j, n
  <1>5. LooselyLinked(j)
    BY <1>0, <1>4 DEF LooselyLinked, NeedsView, Grid
  <1>6. Linked(m) => FitsZoom(j, z)
    BY <1>4 DEF Linked, Follows, Near, FitsZoom, Grid
  <1>7. /\ k \in MapState /\ k.zoom = z /\ k.center = c /\ k.anim = Nowhere
        /\ FitsZoom(j, z) => Linked(k)
        /\ LinkedAtZoom(k)
    <2> DEFINE no == FALSE
    <2>1. no \in BOOLEAN /\ k = Move(j, c, z, no)
      OBVIOUS
    <2> HIDE DEF k, no, c, z
    <2>2. QED
      BY <1>2, <1>4, <1>5, <2>1, MovesLinked
  <1> HIDE DEF k
  <1>8. n \in MapState /\ SameSeen(k, n) /\ n.fired = k.fired
    BY <1>3, <1>7, MoveEndFrame, RequestUnheard
  <1>9. Linked(m) => Linked(n)
    BY <1>6, <1>7, <1>8, Unheard
  <1>10. LinkedAtZoom(n)
    BY <1>7, <1>8, SeesTheSame DEF LinkedAtZoom, Grid
  <1>11. QED
    BY <1>7, <1>8, <1>9, <1>10 DEF SameSeen, n

LEMMA AnimatesLinked ==
    ASSUME GridSound(grid), NEW m, Linked(m), NEW center \in Nat, NEW zoom \in Zooms,
           NEW noUpdate \in BOOLEAN
    PROVE  Linked(AnimateZoom(m, center, zoom, noUpdate))
  <1> DEFINE to == [center |-> center, zoom |-> zoom]
             j == [m EXCEPT !.anim = to, !.proxy = to, !.timers = @ + 1]
             k == IF m.proxy = to THEN OnZoomTransitionEnd(j) ELSE j
             n == AnimateZoom(m, center, zoom, noUpdate)
  <1>0. m \in MapState /\ LooselyLinked(m)
    BY LinksWeaken DEF Linked
  <1>1. to \in View /\ to # Nowhere /\ to.center = center /\ to.zoom = zoom
    BY NowhereAssumption DEF View
  <1>2. n = FireData(k, "zoomanim", center, zoom, noUpdate)
    BY DEF AnimateZoom
  <1> HIDE DEF to
  <1>3. /\ j \in MapState /\ j.anim = to /\ j.fired = m.fired /\ j.loaded = m.loaded
    <2> DEFINE i == [m EXCEPT !.anim = to, !.proxy = to]
    <2>1. j = [i EXCEPT !.timers = i.timers + 1]
      BY <1>0 DEF MapState
    <2>2. i \in MapState /\ i.anim = to /\ i.fired = m.fired /\ i.loaded = m.loaded
      BY <1>0, <1>1 DEF MapState
    <2> HIDE DEF i, j
    <2>3. i.timers + 1 \in Nat
      BY <2>2 DEF MapState
    <2>4. QED
      BY <1>1, <2>1, <2>2, <2>3 DEF MapState
  <1> HIDE DEF j, n
  <1>4. LooselyLinked(j)
    BY <1>0, <1>3 DEF LooselyLinked, NeedsView, Grid
  <1>5. /\ k \in MapState
        /\ \/ NeedsView(Grid(k), k) /\ k.anim # Nowhere /\ k.anim.zoom = zoom
           \/ Loosely(Grid(k), k) /\ k.anim = Nowhere /\ k.zoom = zoom /\ k.center = center
    <2>1. CASE m.proxy = to
      <3>1. k = OnZoomTransitionEnd(j) /\ j.anim # Nowhere
        BY <1>1, <1>3, <2>1
      <3> HIDE DEF k
      <3>2. /\ LinkedAtZoom(k) /\ k.anim = Nowhere
            /\ k.zoom = j.anim.zoom /\ k.center = j.anim.center
        BY <1>4, <3>1, EndsTransitionLinked
      <3>3. QED
        BY <1>1, <1>3, <3>2 DEF LinkedAtZoom
    <2>2. CASE m.proxy # to
      <3>1. k = j
        BY <2>2
      <3> HIDE DEF k
      <3>2. QED
        BY <1>1, <1>3, <1>4, <3>1 DEF LooselyLinked
    <2>3. QED
      BY <2>1, <2>2
  <1> HIDE DEF k
  <1>6. "zoomanim" \in EventTypes
    BY DEF EventTypes
  <1>7. /\ n \in MapState /\ SameSeen(k, n)
        /\ \E e \in Event :
              /\ e.type = "zoomanim" /\ e.center = center /\ e.zoom = zoom
              /\ e.mapZoom \in Zooms /\ Sees(e, k) /\ Sees(e, n)
              /\ Grid(n) = Handle(Grid(k), e)
    BY <1>2, <1>5, <1>6, IsHeard
  <1>8. PICK e \in Event :
              /\ e.type = "zoomanim" /\ e.center = center /\ e.zoom = zoom
              /\ Sees(e, k) /\ Grid(n) = Handle(Grid(k), e)
    BY <1>7
  <1>9. Follows(Grid(n), k)
    BY <1>5, <1>8, HearsZoomAnim
  <1>10. QED
    BY <1>7, <1>9, SeesTheSame DEF Linked, n

LEMMA TriesLinked ==
    ASSUME NEW m, Linked(m), NEW center \in Nat, NEW zoom \in Zooms
    PROVE  Linked(TryAnimatedZoom(m, center, zoom))
  <1> DEFINE f == [kind |-> "animate", center |-> center, zoom |-> zoom]
             n == TryAnimatedZoom(m, center, zoom)
  <1>1. CASE m.anim # Nowhere
    BY <1>1 DEF TryAnimatedZoom
  <1>2. CASE m.anim = Nowhere
    <2>1. f \in Frame /\ m \in MapState
      BY DEF Frame, Linked
    <2>2. n = RequestFrame(m, f)
      BY <1>2 DEF TryAnimatedZoom
    <2> HIDE DEF f, n
    <2>3. n \in MapState /\ SameSeen(m, n) /\ n.fired = m.fired
      BY <2>1, <2>2, RequestUnheard
    <2>4. QED
      BY <2>1, <2>3, Unheard DEF n
  <1>3. QED
    BY <1>1, <1>2

LEMMA ClearsLinked ==
    ASSUME NEW m, Linked(m)
    PROVE  Linked([m EXCEPT !.sizeTimer = FALSE])
  <1> DEFINE n == [m EXCEPT !.sizeTimer = FALSE]
  <1>1. m \in MapState
    BY DEF Linked
  <1>2. n \in MapState /\ SameSeen(m, n) /\ n.fired = m.fired
    BY <1>1 DEF MapState, SameSeen
  <1> HIDE DEF n
  <1>3. QED
    BY <1>1, <1>2, Unheard DEF n

LEMMA SetsViewLinked ==
    ASSUME GridSound(grid), NEW m, Linked(m), NEW center \in Nat, NEW zoom \in Zooms,
           NEW reset \in BOOLEAN, NEW r \in SetView(m, center, zoom, reset)
    PROVE  Linked(r)
  <1>2. PICK n \in Stop(m) :
          LET clear == [n EXCEPT !.sizeTimer = FALSE] IN
          \/ r = ResetView(n, center, zoom)
          \/ \E p \in PanBy(n, center) : r = [p EXCEPT !.sizeTimer = FALSE]
          \/ /\ n.loaded /\ zoom # n.zoom
             /\ r = TryAnimatedZoom(clear, center, zoom)
    BY DEF SetView
  <1>3. Linked(n) /\ n \in MapState /\ GridSound(Grid(n))
    BY StopsLinked, LinksWeaken DEF Linked
  <1>4. CASE r = ResetView(n, center, zoom)
    BY <1>3, <1>4, ResetsLinked
  <1>5. ASSUME NEW p \in PanBy(n, center), r = [p EXCEPT !.sizeTimer = FALSE]
        PROVE  Linked(r)
    BY <1>3, <1>5, PansLinked, ClearsLinked
  <1>6. ASSUME r = TryAnimatedZoom([n EXCEPT !.sizeTimer = FALSE], center, zoom)
        PROVE  Linked(r)
    BY <1>3, <1>6, ClearsLinked, TriesLinked
  <1>7. QED
    BY <1>2, <1>3, <1>4, <1>5, <1>6

-----------------------------------------------------------------------------
(* The steps of the map *)

GridInv == MapInv /\ GridSound(grid) /\ Follows(grid, map)

LEMMA QuietLinked ==
    ASSUME GridInv
    PROVE  LET q == Quiet(map) IN
           /\ Linked(q) /\ q \in MapState /\ SameView(map, q) /\ Same(map, q)
           /\ GridSound(grid)
  <1> DEFINE q == Quiet(map)
  <1>1. map \in MapState /\ Follows(grid, map) /\ GridSound(grid)
    BY DEF GridInv, MapInv, Orderly
  <1>2. q \in MapState /\ SameView(map, q) /\ Same(map, q)
    BY <1>1, Quiets
  <1>3. q.fired = <<>>
    BY <1>1 DEF Quiet, MapState
  <1>4. SameSeen(map, q)
    BY <1>2 DEF Same, SameView, SameSeen
  <1> HIDE DEF q
  <1>5. Grid(q) = grid
    BY <1>1, <1>3, HeardNothing DEF Grid
  <1>6. Linked(q)
    BY <1>1, <1>2, <1>4, <1>5, SeesTheSame, Zenon DEF Linked
  <1>7. QED
    BY <1>1, <1>2, <1>6 DEF q

(* A field that the layer does not see.                                    *)
LEMMA FieldsUnseen ==
    ASSUME NEW m, Linked(m)
    PROVE  /\ \A v \in BOOLEAN : Linked([m EXCEPT !.resizeRequest = v])
           /\ \A v \in {"no", "down", "moving"} :
                 /\ Linked([m EXCEPT !.drag = v])
                 /\ Linked([m EXCEPT !.pinch = v])
                 /\ \A h \in BOOLEAN : /\ Linked([m EXCEPT !.drag = v, !.hushed = h])
                                       /\ Linked([m EXCEPT !.pinch = v, !.hushed = h])
           /\ \A v \in Nat \cup {Nowhere} : Linked([m EXCEPT !.pan = v])
           /\ \A v \in View \cup {Nowhere} : Linked([m EXCEPT !.fly = v])
           /\ \A v \in Seq(Frame) : Linked([m EXCEPT !.frames = v])
           /\ \A v \in Nat : Linked([m EXCEPT !.timers = v])
           /\ \A v \in BOOLEAN : Linked([m EXCEPT !.sizeTimer = v])
  <1>1. m \in MapState
    BY DEF Linked
  <1> DEFINE Ok(n) == n \in MapState /\ SameSeen(m, n) /\ n.fired = m.fired
  <1>2. ASSUME NEW n, Ok(n) PROVE Linked(n)
    BY <1>1, <1>2, Unheard
  <1>3. \A v \in BOOLEAN : Ok([m EXCEPT !.resizeRequest = v])
    BY <1>1 DEF MapState, SameSeen
  <1>4. \A v \in {"no", "down", "moving"} : Ok([m EXCEPT !.drag = v])
    BY <1>1 DEF MapState, SameSeen
  <1>5. \A v \in {"no", "down", "moving"} : Ok([m EXCEPT !.pinch = v])
    BY <1>1 DEF MapState, SameSeen
  <1>6. ASSUME NEW v \in {"no", "down", "moving"}, NEW h \in BOOLEAN
        PROVE  Ok([m EXCEPT !.drag = v, !.hushed = h])
    <2> DEFINE k == [m EXCEPT !.drag = v]
    <2>1. k \in MapState /\ SameSeen(m, k) /\ k.fired = m.fired
      BY <1>1 DEF MapState, SameSeen
    <2>2. [m EXCEPT !.drag = v, !.hushed = h] = [k EXCEPT !.hushed = h]
      OBVIOUS
    <2> HIDE DEF k
    <2>3. QED
      BY <2>1, <2>2 DEF MapState, SameSeen
  <1>7. ASSUME NEW v \in {"no", "down", "moving"}, NEW h \in BOOLEAN
        PROVE  Ok([m EXCEPT !.pinch = v, !.hushed = h])
    <2> DEFINE k == [m EXCEPT !.pinch = v]
    <2>1. k \in MapState /\ SameSeen(m, k) /\ k.fired = m.fired
      BY <1>1 DEF MapState, SameSeen
    <2>2. [m EXCEPT !.pinch = v, !.hushed = h] = [k EXCEPT !.hushed = h]
      OBVIOUS
    <2> HIDE DEF k
    <2>3. QED
      BY <2>1, <2>2 DEF MapState, SameSeen
  <1>8. \A v \in Nat \cup {Nowhere} : Ok([m EXCEPT !.pan = v])
    BY <1>1 DEF MapState, SameSeen
  <1>9. \A v \in View \cup {Nowhere} : Ok([m EXCEPT !.fly = v])
    BY <1>1 DEF MapState, SameSeen
  <1>10. \A v \in Seq(Frame) : Ok([m EXCEPT !.frames = v])
    BY <1>1 DEF MapState, SameSeen
  <1>11. \A v \in Nat : Ok([m EXCEPT !.timers = v])
    BY <1>1 DEF MapState, SameSeen
  <1>12. \A v \in BOOLEAN : Ok([m EXCEPT !.sizeTimer = v])
    BY <1>1 DEF MapState, SameSeen
  <1> HIDE DEF Ok
  <1>13. QED
    BY <1>2, <1>3, <1>4, <1>5, <1>6, <1>7, <1>8, <1>9, <1>10, <1>11, <1>12, Zenon

LEMMA LinkedParts ==
    ASSUME NEW m, Linked(m)
    PROVE  /\ m \in MapState /\ m.center \in Nat /\ m.zoom \in Zooms
           /\ m.frames \in Seq(Frame) /\ m.hushed \in BOOLEAN
           /\ m.timers \in Nat
           /\ LooselyLinked(m) /\ NearlyLinked(m) /\ GridSound(Grid(m))
  BY LinksWeaken DEF Linked, MapState

LEMMA SetViewLinked ==
    ASSUME GridInv, NEW v \in Views, NEW reset \in BOOLEAN,
           CallSetView(v[1], v[2], reset)
    PROVE  Linked(map')
  <1>1. map' \in SetView(Quiet(map), v[1], v[2], reset)
    BY DEF CallSetView
  <1>2. QED
    BY <1>1, QuietLinked, ViewParts, SetsViewLinked

LEMMA SetZoomLinked ==
    ASSUME GridInv, NEW v \in Views, SetZoom(v[2])
    PROVE  Linked(map')
  <1> DEFINE q == Quiet(map)
             no == FALSE
  <1>1. Linked(q) /\ GridSound(grid) /\ q \in MapState /\ SameView(map, q)
    BY QuietLinked
  <1>2. v[2] \in Zooms /\ map.center \in Nat
    BY ViewParts DEF GridInv, MapInv, Orderly, MapState
  <1>3. CASE map.loaded
    <2>1. map' \in SetView(q, map.center, v[2], no) /\ no \in BOOLEAN
      BY <1>3 DEF SetZoom
    <2> HIDE DEF q, no
    <2>2. QED
      BY <1>1, <1>2, <2>1, SetsViewLinked
  <1>4. CASE ~map.loaded
    <2>1. map' = [q EXCEPT !.zoom = v[2]]
      BY <1>4 DEF SetZoom
    <2>2. ~q.loaded
      BY <1>1, <1>4 DEF SameView
    <2> HIDE DEF q
    <2>3. map' \in MapState /\ map'.fired = q.fired
      BY <1>1, <1>2, <2>1 DEF MapState
    <2>4. GridSound(Grid(q)) /\ Grid(q).onMap # "yes"
      BY <1>1, <2>2 DEF Linked, Follows, Near
    <2>5. Grid(map') = Grid(q)
      BY <2>3 DEF Grid
    <2>6. QED
      BY <2>3, <2>4, <2>5 DEF Linked, Follows, Near
  <1>5. QED
    BY <1>3, <1>4

LEMMA PanByLinked ==
    ASSUME GridInv, NEW v \in Views, CallPanBy(v[1])
    PROVE  Linked(map')
  BY QuietLinked, ViewParts, PansLinked DEF CallPanBy

LEMMA StopLinked ==
    ASSUME GridInv, CallStop
    PROVE  Linked(map')
  <1> DEFINE q == Quiet(map)
             no == FALSE
  <1>1. Linked(q) /\ GridSound(grid)
    BY QuietLinked
  <1>2. PICK n \in SetView(q, map.center, map.zoom, no) : map' \in Stop(n)
    BY DEF CallStop
  <1>3. map.zoom \in Zooms /\ map.center \in Nat /\ no \in BOOLEAN
    BY DEF GridInv, MapInv, Orderly, MapState
  <1> HIDE DEF q, no
  <1>4. Linked(n)
    BY <1>1, <1>2, <1>3, SetsViewLinked
  <1>5. QED
    BY <1>1, <1>2, <1>4, StopsLinked

LEMMA FlyToLinked ==
    ASSUME GridInv, NEW v \in Views, FlyTo(v[1], v[2])
    PROVE  Linked(map')
  <1> DEFINE to == [center |-> v[1], zoom |-> v[2]]
             yes == TRUE
             no == FALSE
  <1>1. PICK n \in Stop(Quiet(map)) :
          map' = [Move(MoveStart(n, yes, no), n.center, n.zoom, yes) EXCEPT !.fly = to]
    BY DEF FlyTo
  <1>2. to \in View /\ yes \in BOOLEAN /\ no \in BOOLEAN
    BY ViewParts DEF View
  <1>3. GridSound(grid) /\ Linked(n)
    BY QuietLinked, StopsLinked
  <1>4. n \in MapState /\ n.center \in Nat /\ n.zoom \in Zooms
    BY <1>3, LinkedParts
  <1> HIDE DEF to, yes, no
  <1> DEFINE a == MoveStart(n, yes, no)
             b == Move(a, n.center, n.zoom, yes)
  <1>5. Linked(a)
    BY <1>2, <1>3, <1>4, StartsLinked
  <1> HIDE DEF a
  <1>6. Linked(b)
    BY <1>2, <1>3, <1>4, <1>5, MovesOnLinked
  <1>7. map' = [b EXCEPT !.fly = to]
    BY <1>1, Zenon DEF a
  <1> HIDE DEF b
  <1>8. QED
    BY <1>2, <1>6, <1>7, FieldsUnseen, Zenon

LEMMA ResizeLinked ==
    ASSUME GridInv, Resize
    PROVE  Linked(map')
  BY QuietLinked, FieldsUnseen, Zenon DEF Resize

LEMMA DragDownLinked ==
    ASSUME GridInv, DragDown
    PROVE  Linked(map')
  BY QuietLinked, FieldsUnseen, Zenon DEF DragDown

LEMMA DragStartLinked ==
    ASSUME GridInv, DragStart
    PROVE  Linked(map')
  <1>1. PICK n \in Stop(Quiet(map)) : map' = [Emit(n, "movestart") EXCEPT !.drag = "moving"]
    BY DEF DragStart
  <1>2. GridSound(grid) /\ Linked(n)
    BY QuietLinked, StopsLinked
  <1>3. Linked(Emit(n, "movestart"))
    BY <1>2, LinkedParts, EmitsLinked
  <1>4. QED
    BY <1>1, <1>3, FieldsUnseen, Zenon

LEMMA DragStepLinked ==
    ASSUME GridInv, NEW v \in Views, DragStep(v[1])
    PROVE  Linked(map')
  BY QuietLinked, ViewParts, RunsLinked, Zenon DEF DragStep

LEMMA SecondPressLinked ==
    ASSUME GridInv, SecondPress
    PROVE  Linked(map')
  BY QuietLinked, FieldsUnseen, Zenon DEF SecondPress

LEMMA DragUpLinked ==
    ASSUME GridInv, DragUp
    PROVE  Linked(map')
  <1> DEFINE n == [Quiet(map) EXCEPT !.drag = "no"]
             f == [kind |-> "inertia", center |-> 0, zoom |-> 0]
  <1>1. GridSound(grid) /\ Linked(n)
    BY QuietLinked, FieldsUnseen, Zenon
  <1>2. map' \in OnDragEnd(n) \/ map' = n
    BY DEF DragUp
  <1> HIDE DEF n
  <1>3. map' \in {n, Emit(n, "moveend"), RequestFrame(n, f)}
    BY <1>2 DEF OnDragEnd
  <1>4. f \in Frame
    BY ZoomAssumption DEF Frame, Zooms
  <1> HIDE DEF f
  <1>5. CASE map' = Emit(n, "moveend")
    BY <1>1, <1>5, EmitsMoveEnd
  <1>6. CASE map' = RequestFrame(n, f)
    <2>1. n \in MapState
      BY <1>1, LinkedParts
    <2>2. map' \in MapState /\ SameSeen(n, map') /\ map'.fired = n.fired
      BY <1>4, <1>6, <2>1, RequestUnheard, Zenon
    <2>3. QED
      BY <1>1, <2>1, <2>2, Unheard
  <1>7. QED
    BY <1>1, <1>3, <1>5, <1>6, Zenon

LEMMA OnTouchStartLinked ==
    ASSUME GridInv, OnTouchStart
    PROVE  Linked(map')
  <1>1. PICK n \in Stop(Quiet(map)) :
          map' = [n EXCEPT !.pinch = "down", !.hushed = @ \/ map.fly # Nowhere]
    BY DEF OnTouchStart
  <1>2. Linked(n)
    BY QuietLinked, StopsLinked
  <1> DEFINE h == n.hushed \/ map.fly # Nowhere
  <1>3. map' = [n EXCEPT !.pinch = "down", !.hushed = h] /\ h \in BOOLEAN
    BY <1>1, <1>2, LinkedParts, Zenon
  <1> HIDE DEF h
  <1>4. QED
    BY <1>2, <1>3, FieldsUnseen, Zenon

LEMMA OnTouchMoveLinked ==
    ASSUME GridInv, OnTouchMove
    PROVE  Linked(map')
  <1> DEFINE q == Quiet(map)
             yes == TRUE
             no == FALSE
             n == MoveStart(q, yes, no)
  <1>1. map' = [n EXCEPT !.pinch = "moving"]
    BY DEF OnTouchMove
  <1>2. Linked(q) /\ q \in MapState /\ GridSound(grid) /\ yes \in BOOLEAN /\ no \in BOOLEAN
    BY QuietLinked
  <1> HIDE DEF q, yes, no
  <1>3. Linked(n)
    BY <1>2, StartsLinked
  <1> HIDE DEF n
  <1>4. QED
    BY <1>1, <1>3, FieldsUnseen, Zenon

LEMMA PinchFrameLinked ==
    ASSUME GridInv, NEW v \in Views, PinchFrame(v[1], v[2])
    PROVE  Linked(map')
  <1> DEFINE yes == TRUE
  <1>1. map' = Move(Quiet(map), v[1], v[2], yes) /\ yes \in BOOLEAN
    BY DEF PinchFrame
  <1> HIDE DEF yes
  <1>2. QED
    BY <1>1, QuietLinked, ViewParts, MovesOnLinked

LEMMA OnTouchEndLinked ==
    ASSUME GridInv, NEW v \in Views, OnTouchEnd(v[1], v[2])
    PROVE  Linked(map')
  <1> DEFINE n == [Quiet(map) EXCEPT !.pinch = "no"]
             yes == TRUE
  <1>1. GridSound(grid) /\ Linked(n) /\ yes \in BOOLEAN
    BY QuietLinked, FieldsUnseen, Zenon
  <1>2. map' = AnimateZoom(n, v[1], v[2], yes) \/ map' = n
    BY DEF OnTouchEnd
  <1> HIDE DEF n, yes
  <1>3. QED
    BY <1>1, <1>2, ViewParts, AnimatesLinked, Zenon

LEMMA FlyStepLinked ==
    ASSUME GridInv, FlyStep
    PROVE  Linked(map')
  <1> DEFINE q == Quiet(map)
             yes == TRUE
  <1>1. Linked(q) /\ GridSound(grid) /\ yes \in BOOLEAN /\ map \in MapState
    BY QuietLinked DEF GridInv, MapInv, Orderly
  <1>2. PICK zoom \in Between(map.zoom, map.fly.zoom) :
          map' = Move(q, map.center, zoom, yes)
    BY DEF FlyStep
  <1>3. map.zoom \in Zooms /\ map.fly.zoom \in Zooms /\ map.center \in Nat
    BY <1>1 DEF FlyStep, MapState, View
  <1>4. zoom \in Zooms
    <2>1. Min({map.zoom, map.fly.zoom}) \in Zooms
          /\ Max({map.zoom, map.fly.zoom}) \in Zooms
      BY <1>3, MinMax, ZoomAssumption DEF Zooms
    <2>2. QED
      BY <2>1, ZoomAssumption DEF Between, Zooms
  <1> HIDE DEF q, yes
  <1>5. QED
    BY <1>1, <1>2, <1>3, <1>4, MovesOnLinked

LEMMA FlyEndLinked ==
    ASSUME GridInv, FlyEnd
    PROVE  Linked(map')
  <1> DEFINE a == [Quiet(map) EXCEPT !.fly = Nowhere]
             no == FALSE
             yes == TRUE
             b == Move(a, map.fly.center, map.fly.zoom, no)
  <1>1. map.fly.center \in Nat /\ map.fly.zoom \in Zooms
    BY DEF GridInv, MapInv, Orderly, FlyEnd, MapState, View
  <1>2. map' = MoveEnd(b, yes) /\ yes \in BOOLEAN /\ no \in BOOLEAN
    BY Zenon DEF FlyEnd
  <1>3. Linked(a) /\ GridSound(grid)
    BY QuietLinked, FieldsUnseen, Zenon
  <1> HIDE DEF a, no, yes
  <1>4. Linked(b)
    BY <1>1, <1>2, <1>3, MovesOnLinked
  <1> HIDE DEF b
  <1>5. QED
    BY <1>2, <1>3, <1>4, EndsLinked

LEMMA PanStepLinked ==
    ASSUME GridInv, PanStep
    PROVE  Linked(map')
  <1> DEFINE center == (map.center + map.pan) \div 2
  <1>1. center \in Nat
    <2>1. map.center \in Nat /\ map.pan \in Nat
      BY DEF GridInv, MapInv, Orderly, PanStep, MapState
    <2>2. QED
      BY <2>1
  <1>2. map' = RunFrame(Quiet(map), center)
    BY DEF PanStep
  <1> HIDE DEF center
  <1>3. QED
    BY <1>1, <1>2, QuietLinked, RunsLinked

LEMMA PanEndLinked ==
    ASSUME GridInv, PanEnd
    PROVE  Linked(map')
  <1> DEFINE n == RunFrame(Quiet(map), map.pan)
  <1>1. map.pan \in Nat
    BY DEF GridInv, MapInv, Orderly, PanEnd, MapState
  <1>2. map' = Complete(n)
    BY DEF PanEnd
  <1>3. Linked(n) /\ GridSound(grid)
    BY <1>1, QuietLinked, RunsLinked, Zenon
  <1> HIDE DEF n
  <1>4. QED
    BY <1>2, <1>3, CompletesLinked

(* The next frame is taken from those that the map asked for.              *)
LEMMA NextFrameLinked ==
    ASSUME GridInv, map.frames # <<>>
    PROVE  /\ Linked([Quiet(map) EXCEPT !.frames = Tail(@)])
           /\ Head(map.frames) \in Frame
           /\ GridSound(grid)
  <1> DEFINE q == Quiet(map)
             s == q.frames
             t == Tail(s)
  <1>1. Linked(q) /\ GridSound(grid) /\ s = map.frames
    BY QuietLinked DEF Same
  <1>2. s \in Seq(Frame)
    BY <1>1, LinkedParts
  <1>3. [q EXCEPT !.frames = Tail(@)] = [q EXCEPT !.frames = t]
    OBVIOUS
  <1> HIDE DEF q, s
  <1>4. t \in Seq(Frame) /\ Head(s) \in Frame
    BY <1>1, <1>2
  <1> HIDE DEF t
  <1>5. QED
    BY <1>1, <1>3, <1>4, FieldsUnseen, Zenon DEF q

LEMMA AnimationFrameLinked ==
    ASSUME GridInv, AnimationFrame
    PROVE  Linked(map')
  <1> DEFINE f == Head(map.frames)
             m == [Quiet(map) EXCEPT !.frames = Tail(@)]
             yes == TRUE
             no == FALSE
             a == MoveStart(m, yes, no)
  <1>1. Linked(m) /\ f \in Frame /\ GridSound(grid)
    BY NextFrameLinked DEF AnimationFrame
  <1>2. f.kind \in {"animate", "moveEnd"} /\ f.center \in Nat /\ f.zoom \in Zooms
    BY <1>1 DEF AnimationFrame, Frame
  <1>3. /\ f.kind = "animate" => map' = AnimateZoom(a, f.center, f.zoom, no)
        /\ f.kind = "moveEnd" => map' = MoveEnd(m, yes)
        /\ yes \in BOOLEAN /\ no \in BOOLEAN
    BY <1>2 DEF AnimationFrame
  <1> HIDE DEF m, f, yes, no
  <1>4. CASE f.kind = "animate"
    <2>1. Linked(a)
      BY <1>1, <1>3, LinkedParts, StartsLinked
    <2> HIDE DEF a
    <2>2. QED
      BY <1>1, <1>2, <1>3, <1>4, <2>1, AnimatesLinked
  <1>5. CASE f.kind = "moveEnd"
    BY <1>1, <1>3, <1>5, EndsLinked, Zenon
  <1>6. QED
    BY <1>2, <1>4, <1>5

LEMMA InertiaFrameLinked ==
    ASSUME GridInv, NEW v \in Views, InertiaFrame(v[1])
    PROVE  Linked(map')
  <1> DEFINE m == [Quiet(map) EXCEPT !.frames = Tail(@)]
  <1>1. Linked(m) /\ GridSound(grid)
    BY NextFrameLinked DEF InertiaFrame
  <1>2. PICK n \in StopPan(m) : map' = [n EXCEPT !.pan = v[1]]
    BY DEF InertiaFrame
  <1> HIDE DEF m
  <1>3. Linked(n)
    BY <1>1, <1>2, StopsPanLinked
  <1>4. QED
    BY <1>2, <1>3, ViewParts, FieldsUnseen, Zenon

(* A transition that is over already is not ended again.                   *)
LEMMA TransitionLinked ==
    ASSUME GridSound(grid), NEW m, Linked(m)
    PROVE  Linked(OnZoomTransitionEnd(m))
  <1>1. CASE m.anim = Nowhere
    BY <1>1 DEF OnZoomTransitionEnd
  <1>2. CASE m.anim # Nowhere
    BY <1>2, LinkedParts, EndsTransitionLinked
  <1>3. QED
    BY <1>1, <1>2

LEMMA CatchTransitionEndLinked ==
    ASSUME GridInv, CatchTransitionEnd
    PROVE  Linked(map')
  BY QuietLinked, TransitionLinked DEF CatchTransitionEnd

LEMMA ZoomTimeoutLinked ==
    ASSUME GridInv, ZoomTimeout
    PROVE  Linked(map')
  <1> DEFINE q == Quiet(map)
             t == q.timers - 1
             m == [q EXCEPT !.timers = t]
  <1>1. Linked(q) /\ GridSound(grid) /\ q.timers = map.timers
    <2>1. map \in MapState
      BY DEF GridInv, MapInv, Orderly
    <2>2. q.timers = map.timers
      BY <2>1 DEF Quiet, MapState
    <2>3. QED
      BY <2>2, QuietLinked
  <1>2. map' = OnZoomTransitionEnd(m) /\ map.timers > 0
    BY DEF ZoomTimeout
  <1> HIDE DEF q
  <1>3. t \in Nat
    <2>1. q.timers \in Nat
      BY <1>1, LinkedParts, Zenon
    <2>2. QED
      BY <2>1, <1>1, <1>2
  <1> HIDE DEF t
  <1>4. Linked(m)
    BY <1>1, <1>3, FieldsUnseen, Zenon
  <1> HIDE DEF m
  <1>5. QED
    BY <1>1, <1>2, <1>4, TransitionLinked

(* A new size: the layer hears of the move that it is.                     *)
LEMMA ResizeFrameLinked ==
    ASSUME GridInv, ResizeFrame
    PROVE  Linked(map')
  <1> DEFINE q == Quiet(map)
             m == [q EXCEPT !.resizeRequest = FALSE]
             k == [m EXCEPT !.size = width]
             a == Emit(k, "move")
             b == Emit(a, "resize")
  <1>1. Linked(m) /\ GridSound(grid) /\ m.loaded = map.loaded
    <2>1. Linked(q) /\ GridSound(grid) /\ q.loaded = map.loaded /\ q \in MapState
      BY QuietLinked, Zenon DEF SameView
    <2> HIDE DEF q
    <2>2. Linked(m)
      BY <2>1, FieldsUnseen, Zenon
    <2>3. m.loaded = q.loaded
      BY <2>1 DEF MapState
    <2>4. QED
      BY <2>1, <2>2, <2>3
  <1>2. \/ map' = m
        \/ ~map.loaded /\ map' = k
        \/ map' = [b EXCEPT !.sizeTimer = TRUE]
    BY DEF ResizeFrame
  <1>3. width \in Sizes
    BY DEF GridInv, MapInv
  <1> HIDE DEF q, m
  <1>4. /\ k \in MapState /\ k.fired = m.fired /\ k.loaded = m.loaded
        /\ k.zoom = m.zoom /\ k.anim = m.anim
    BY <1>1, <1>3 DEF Linked, MapState
  <1> HIDE DEF k
  <1>5. NearlyLinked(k)
    BY <1>1, <1>4 DEF NearlyLinked, Linked, Follows, Near, Grid
  <1>6. Linked(a)
    BY <1>1, <1>5, EmitsMove
  <1> HIDE DEF a
  <1>7. Linked(b)
    BY <1>1, <1>6, LinkedParts, EmitsLinked, Zenon
  <1> HIDE DEF b
  <1>8. Linked([b EXCEPT !.sizeTimer = TRUE])
    BY <1>7, FieldsUnseen, Zenon
  <1>9. ~map.loaded => Linked(k)
    BY <1>1, <1>4, <1>5 DEF NearlyLinked, Linked, Near, Follows
  <1>10. QED
    BY <1>1, <1>2, <1>8, <1>9

LEMMA SizeTimeoutLinked ==
    ASSUME GridInv, SizeTimeout
    PROVE  Linked(map')
  <1> DEFINE n == [Quiet(map) EXCEPT !.sizeTimer = FALSE]
  <1>1. Linked(n) /\ GridSound(grid)
    BY QuietLinked, FieldsUnseen, Zenon
  <1>2. map' = Emit(n, "moveend")
    BY DEF SizeTimeout
  <1> HIDE DEF n
  <1>3. QED
    BY <1>1, <1>2, EmitsMoveEnd, Zenon

LEMMA MapNextLinked ==
    ASSUME GridInv, MapNext
    PROVE  Linked(map')
  <1>1. CASE \E v \in Views :
                \/ \E reset \in BOOLEAN : CallSetView(v[1], v[2], reset)
                \/ FlyTo(v[1], v[2])
                \/ CallPanBy(v[1])
                \/ SetZoom(v[2])
    BY <1>1, SetViewLinked, FlyToLinked, PanByLinked, SetZoomLinked
  <1>2. CASE \E v \in Views : DragStep(v[1]) \/ PinchFrame(v[1], v[2])
                              \/ OnTouchEnd(v[1], v[2])
    BY <1>2, DragStepLinked, PinchFrameLinked, OnTouchEndLinked
  <1>3. CASE \/ CallStop \/ Resize
             \/ DragDown \/ DragStart \/ SecondPress \/ DragUp
             \/ OnTouchStart \/ OnTouchMove
    BY <1>3, StopLinked, ResizeLinked, DragDownLinked, DragStartLinked,
       SecondPressLinked, DragUpLinked, OnTouchStartLinked, OnTouchMoveLinked
  <1>4. CASE Callback
    BY <1>4, FlyStepLinked, FlyEndLinked, PanStepLinked, PanEndLinked,
       AnimationFrameLinked, InertiaFrameLinked, CatchTransitionEndLinked,
       ZoomTimeoutLinked, ResizeFrameLinked, SizeTimeoutLinked DEF Callback
  <1>5. QED
    BY <1>1, <1>2, <1>3, <1>4 DEF MapNext

LEMMA MapStepKeeps ==
    ASSUME GridInv, MapStep
    PROVE  GridInv'
  <1>1. Linked(map')
    BY MapNextLinked DEF MapStep
  <1>2. grid' = Grid(map')
    BY DEF MapStep, Grid, Heard
  <1>3. Follows(grid', map') /\ GridSound(grid')
    BY <1>1, <1>2 DEF Linked, Follows, Near
  <1>4. MapInv'
    BY MapInvStep DEF GridInv, MapStep
  <1>5. QED
    BY <1>3, <1>4 DEF GridInv, Follows, Near, GridSound

-----------------------------------------------------------------------------
(* The steps of the layer *)

LEMMA EnvSees ==
    ASSUME NEW m \in MapState
    PROVE  /\ Sees(Env(m), m) /\ Env(m).mapZoom \in Zooms
           /\ Env(m).mapCenter = m.center
  BY DEF Sees, Env, MapState

LEMMA InvParts ==
    ASSUME GridInv
    PROVE  /\ map \in MapState /\ Near(grid, map) /\ Follows(grid, map)
           /\ GridSound(grid) /\ grid \in GridState /\ Levelled(grid) /\ Awaits(grid)
           /\ Sees(Env(map), map) /\ Env(map).mapZoom \in Zooms
  BY EnvSees, NotOnMap DEF GridInv, MapInv, Orderly, Follows, GridSound, Bare, Placed, Levelled

(* Some tiles change, the rest of the layer does not.                      *)
LEMMA FollowsStays ==
    ASSUME NEW g, NEW n \in GridState, NEW m, Follows(g, m), SameGrid(g, n),
           Levelled(n), Awaits(n), DOMAIN n.tiles \subseteq DOMAIN g.tiles,
           \A range, z : Shows(g, range, z) => Shows(n, range, z)
    PROVE  Follows(n, m)
  <1>1. GridSound(g)
    BY DEF Follows, Near
  <1>2. GridSound(n)
    <2>1. CASE Placed(g)
      BY <2>1 DEF Placed, SameGrid, GridSound
    <2>2. CASE Bare(g)
      BY <2>2 DEF Bare, SameGrid, GridSound
    <2>3. QED
      BY <1>1, <2>1, <2>2 DEF GridSound
  <1>3. \A e, center : ShowsAt(g, e, center) => ShowsAt(n, e, center)
    BY DEF ShowsAt, SameGrid
  <1>4. QED
    BY <1>2, <1>3 DEF Follows, Near, SameGrid

LEMMA UpdateFollows ==
    ASSUME NEW g, NEW m, NEW e, Near(g, m), m \in MapState, g.onMap = "yes",
           Sees(e, m), e.mapZoom \in Zooms
    PROVE  Follows(Update(g, e, m.center), m)
  <1> DEFINE n == Update(g, e, m.center)
  <1>1. Placed(g) /\ m.loaded /\ g.tileZoom # Nowhere
    <2>1. m.zoom # Nowhere /\ (m.anim # Nowhere => m.anim.zoom # Nowhere)
      BY ZoomIsThere DEF MapState, View
    <2>2. QED
      BY <2>1, NotOnMap DEF Near
  <1>2. Shown(g, n, e, m.center, g.tileZoom)
    BY <1>1, Updates DEF Ready
  <1>3. CASE m.anim = Nowhere
    <2>1. g.tileZoom = m.zoom
      BY <1>3 DEF Near
    <2> HIDE DEF n
    <2>2. QED
      BY <1>1, <1>2, <2>1, ShownFollows DEF n
  <1>4. CASE m.anim # Nowhere
    <2> HIDE DEF n
    <2>1. Ready(n) /\ n.tileZoom \in {g.tileZoom, m.zoom}
      BY <1>2 DEF Shown, Sees
    <2>2. GridSound(n)
      BY <2>1 DEF Ready, GridSound
    <2>3. QED
      BY <1>1, <1>4, <2>1, <2>2 DEF Near, Follows, n
  <1>5. QED
    BY <1>3, <1>4

LEMMA LayerKeeps ==
    ASSUME GridInv, LayerStep \/ LayerCall, Follows(grid', map)
    PROVE  GridInv'
  <1>1. map' = Quiet(map) /\ MapInv
    BY DEF LayerStep, LayerCall, GridInv
  <1>2. Orderly(map')
    BY <1>1, QuietInOrder
  <1>3. MapInv'
    BY <1>1, <1>2, Called, Awaited DEF LayerStep, LayerCall
  <1>4. SameSeen(map, map')
    BY <1>1, QuietInOrder DEF Same, SameView, SameSeen
  <1>5. Follows(grid', map')
    BY <1>4, SeesTheSame
  <1>6. QED
    BY <1>3, <1>5 DEF GridInv, Follows, Near, GridSound

LEMMA AddToKeeps ==
    ASSUME GridInv, AddTo
    PROVE  GridInv'
  <1> DEFINE e == Env(map)
  <1>0. map \in MapState /\ GridSound(grid) /\ Sees(e, map) /\ e.mapZoom \in Zooms
        /\ e.mapCenter = map.center /\ e.mapZoom = map.zoom
    BY InvParts, EnvSees DEF Sees
  <1>1. Bare(grid)
    BY <1>0, NotOnMap DEF AddTo
  <1>2. CASE map.loaded
    <2>1. grid' = OnAdd(grid, e)
      BY <1>2 DEF AddTo
    <2> HIDE DEF e
    <2>2. Shown(grid, grid', e, e.mapCenter, e.mapZoom)
      BY <1>0, <1>1, <2>1, Adds
    <2>3. Follows(grid', map)
      BY <1>0, <1>2, <2>2, ShownFollows
    <2>4. QED
      BY <2>3, LayerKeeps DEF AddTo
  <1>3. CASE ~map.loaded
    <2>1. grid' = [grid EXCEPT !.onMap = "waiting"] /\ grid \in GridState
      BY <1>1, <1>3 DEF AddTo, Bare
    <2>2. /\ grid' \in GridState /\ grid'.onMap = "waiting"
          /\ grid'.tiles = grid.tiles /\ grid'.awaited = grid.awaited
          /\ grid'.tileZoom = grid.tileZoom
      BY <2>1 DEF GridState
    <2>3. Bare(grid')
      BY <1>1, <2>2 DEF Bare, Awaits
    <2>4. Follows(grid', map)
      BY <2>2, <2>3 DEF Follows, Near, GridSound
    <2>5. QED
      BY <2>4, LayerKeeps DEF AddTo
  <1>4. QED
    BY <1>2, <1>3

LEMMA RemoveLayerKeeps ==
    ASSUME GridInv, RemoveGridLayer
    PROVE  GridInv'
  <1> DEFINE k == RemoveAllTiles(grid)
  <1>1. grid' = [k EXCEPT !.tileZoom = Nowhere, !.onMap = "no"]
    BY DEF RemoveGridLayer, OnRemove
  <1>2. k \in GridState /\ DOMAIN k.tiles = {} /\ Awaits(k)
    BY InvParts, Empties
  <1> HIDE DEF k
  <1>3. /\ grid' \in GridState /\ grid'.onMap = "no" /\ grid'.tileZoom = Nowhere
        /\ grid'.tiles = k.tiles /\ grid'.awaited = k.awaited
    BY <1>1, <1>2 DEF GridState
  <1>4. Bare(grid')
    BY <1>2, <1>3 DEF Bare, Awaits
  <1>5. Follows(grid', map)
    BY <1>3, <1>4 DEF Follows, Near, GridSound
  <1>6. QED
    BY <1>5, LayerKeeps DEF RemoveGridLayer

LEMMA RedrawKeeps ==
    ASSUME GridInv, Redraw
    PROVE  GridInv'
  <1> DEFINE k == RemoveAllTiles(grid)
  <1>0. /\ map \in MapState /\ Near(grid, map) /\ grid \in GridState /\ Awaits(grid)
        /\ Sees(Env(map), map) /\ Env(map).mapZoom \in Zooms /\ GridSound(grid)
    BY InvParts
  <1>1. grid' = Update(k, Env(map), map.center) /\ grid.onMap = "yes"
    BY DEF Redraw
  <1>2. k \in GridState /\ SameGrid(grid, k) /\ Awaits(k) /\ Levelled(k)
    BY <1>0, Empties
  <1> HIDE DEF k
  <1>3. Placed(grid)
    BY <1>0, <1>1, NotOnMap
  <1>4. Near(k, map) /\ k.onMap = "yes"
    BY <1>0, <1>1, <1>2, <1>3 DEF Near, SameGrid, Placed, GridSound
  <1>5. Follows(grid', map)
    BY <1>0, <1>1, <1>4, UpdateFollows
  <1>6. QED
    BY <1>5, LayerKeeps DEF Redraw

(* The tile whose image is there.                                          *)
LEMMA TileLoads ==
    ASSUME NEW f \in TileMaps, NEW t \in DOMAIN f
    PROVE  LET h == [f EXCEPT ![t].loaded = TRUE] IN
           /\ h \in TileMaps /\ DOMAIN h = DOMAIN f
           /\ \A u \in DOMAIN f : /\ h[u].current = f[u].current
                                  /\ h[u].active = f[u].active
                                  /\ h[u].loaded <=> u = t \/ f[u].loaded
  <1> DEFINE r == [f[t] EXCEPT !.loaded = TRUE]
             h == [f EXCEPT ![t] = r]
  <1>1. [f EXCEPT ![t].loaded = TRUE] = h
    OBVIOUS
  <1>2. /\ f = [u \in DOMAIN f |-> f[u]] /\ DOMAIN f \subseteq TileCoords
        /\ \A u \in DOMAIN f : f[u] \in Tile
    BY TileMap
  <1>3. r \in Tile /\ r.loaded /\ r.current = f[t].current /\ r.active = f[t].active
    BY <1>2 DEF Tile
  <1> HIDE DEF r
  <1>4. DOMAIN h = DOMAIN f /\ \A u \in DOMAIN f : h[u] = IF u = t THEN r ELSE f[u]
    BY <1>2
  <1>5. h = [u \in DOMAIN h |-> h[u]]
    BY <1>2
  <1> HIDE DEF h
  <1>6. h \in TileMaps
    BY <1>2, <1>3, <1>4, <1>5, TileMap
  <1>7. \A u \in DOMAIN f : /\ h[u].current = f[u].current
                            /\ h[u].active = f[u].active
                            /\ h[u].loaded <=> u = t \/ f[u].loaded
    BY <1>3, <1>4
  <1>8. QED
    BY <1>1, <1>4, <1>6, <1>7

LEMMA TileArrivesKeeps ==
    ASSUME GridInv, NEW t \in grid.awaited, TileArrives(t)
    PROVE  GridInv'
  <1> DEFINE g == grid
             a == g.awaited \ {t}
             h == [g EXCEPT !.awaited = a]
             f == [g.tiles EXCEPT ![t].loaded = TRUE]
             n == [g EXCEPT !.awaited = a, !.tiles = f, !.fadeFrame = TRUE]
             p == Min({n.prunes + 1, MaxPrunes})
             l == [n EXCEPT !.loading = FALSE, !.prunes = p]
  <1>0. /\ g \in GridState /\ Levelled(g) /\ Awaits(g) /\ GridSound(g)
        /\ Follows(g, map)
    BY InvParts
  <1>1. t \in DOMAIN g.tiles
    BY <1>0 DEF Awaits
  <1>2. g.onMap = "yes"
    BY <1>0, <1>1, NotOnMap DEF Bare
  <1>3. g.tiles \in TileMaps /\ g.awaited \in SUBSET TileCoords
    BY <1>0 DEF GridState
  <1>4. grid' = n \/ grid' = l
    <2>1. h.onMap = "yes" /\ h.tiles = g.tiles
      BY <1>0, <1>2 DEF GridState
    <2>2. grid' = TileReady(h, t, FALSE)
      BY DEF TileArrives
    <2>3. [h EXCEPT !.tiles[t].loaded = TRUE, !.fadeFrame = TRUE] = n
      BY <1>0 DEF GridState
    <2>4. QED
      BY <1>1, <2>1, <2>2, <2>3 DEF TileReady
  <1>5. /\ f \in TileMaps /\ DOMAIN f = DOMAIN g.tiles
        /\ \A u \in DOMAIN f : /\ f[u].current = g.tiles[u].current
                               /\ f[u].loaded <=> u = t \/ g.tiles[u].loaded
    BY <1>1, <1>3, TileLoads
  <1>6. a \in SUBSET TileCoords
    BY <1>3
  <1> HIDE DEF g, f, h
  <1>7. a = {u \in DOMAIN f : ~f[u].loaded}
    BY <1>0, <1>5 DEF Awaits
  <1> HIDE DEF a
  <1>8. /\ n \in GridState /\ SameGrid(g, n) /\ n.tiles = f /\ n.awaited = a
    BY <1>0, <1>5, <1>6 DEF GridState, SameGrid
  <1> HIDE DEF n
  <1>9. p \in 0..MaxPrunes
    <2>1. n.prunes \in 0..MaxPrunes
      BY <1>8 DEF GridState
    <2>2. n.prunes + 1 \in Int /\ MaxPrunes \in Int
      BY <2>1 DEF MaxPrunes
    <2> DEFINE i == n.prunes + 1
    <2>3. p \in {i, MaxPrunes} /\ p <= MaxPrunes
      <3>1. p = Min({i, MaxPrunes}) /\ i \in Int /\ MaxPrunes \in Int
        BY <2>2
      <3> HIDE DEF i, p
      <3>2. \E x \in {i, MaxPrunes} : \A y \in {i, MaxPrunes} : x <= y
        BY <3>1
      <3>3. QED
        BY <3>1, <3>2 DEF Min
    <2> HIDE DEF p
    <2>4. QED
      BY <2>1, <2>3 DEF MaxPrunes
  <1> HIDE DEF p
  <1>10. /\ l \in GridState /\ SameGrid(n, l) /\ l.tiles = f /\ l.awaited = a
    BY <1>8, <1>9 DEF GridState, SameGrid
  <1> HIDE DEF l
  <1>11. /\ grid' \in GridState /\ SameGrid(g, grid')
         /\ grid'.tiles = f /\ grid'.awaited = a
    BY <1>4, <1>8, <1>10 DEF SameGrid
  <1>12. Levelled(grid') /\ Awaits(grid')
    BY <1>0, <1>5, <1>7, <1>11 DEF Levelled, Awaits, SameGrid
  <1>13. \A range, z : Shows(g, range, z) => Shows(grid', range, z)
    BY <1>5, <1>11 DEF Shows
  <1>14. Follows(grid', map)
    BY <1>0, <1>5, <1>11, <1>12, <1>13, FollowsStays
  <1>15. QED
    BY <1>14, LayerKeeps DEF TileArrives

LEMMA LateArrivesKeeps ==
    ASSUME GridInv, NEW t, LateArrives(t)
    PROVE  GridInv'
  <1>1. grid' = grid
    BY DEF LateArrives, TileReady
  <1>2. QED
    BY <1>1, InvParts, LayerKeeps DEF LateArrives

LEMMA PrunesFollow ==
    ASSUME NEW g, NEW m, Follows(g, m)
    PROVE  Follows(PruneTiles(g), m)
  <1> DEFINE n == PruneTiles(g)
  <1>1. g \in GridState /\ Levelled(g) /\ Awaits(g)
    BY NotOnMap DEF Follows, Near, GridSound, Placed, Bare, Levelled
  <1>2. /\ n \in GridState /\ SameGrid(g, n) /\ Awaits(n) /\ Levelled(n)
        /\ \A range, z : Shows(g, range, z) => Shows(n, range, z)
        /\ DOMAIN n.tiles \subseteq DOMAIN g.tiles
    BY <1>1, Prunes
  <1> HIDE DEF n
  <1>3. QED
    BY <1>2, FollowsStays DEF n

(* Tiles become active.                                                    *)
LEMMA TilesFade ==
    ASSUME NEW f \in TileMaps, NEW S
    PROVE  LET h == [t \in DOMAIN f |-> IF t \in S THEN [f[t] EXCEPT !.active = TRUE]
                                                   ELSE f[t]] IN
           /\ h \in TileMaps /\ DOMAIN h = DOMAIN f
           /\ \A u \in DOMAIN f : /\ h[u].current = f[u].current
                                  /\ h[u].loaded = f[u].loaded
                                  /\ h[u].active <=> u \in S \/ f[u].active
  <1> DEFINE h == [t \in DOMAIN f |-> IF t \in S THEN [f[t] EXCEPT !.active = TRUE]
                                                 ELSE f[t]]
  <1>1. DOMAIN f \in SUBSET TileCoords /\ \A u \in DOMAIN f : f[u] \in Tile
    BY TileMap
  <1>2. \A u \in Tile : /\ [u EXCEPT !.active = TRUE] \in Tile
                        /\ [u EXCEPT !.active = TRUE].current = u.current
                        /\ [u EXCEPT !.active = TRUE].loaded = u.loaded
                        /\ [u EXCEPT !.active = TRUE].active
    BY DEF Tile
  <1>3. h \in [DOMAIN f -> Tile]
    BY <1>1, <1>2
  <1>4. \A u \in DOMAIN f : /\ h[u].current = f[u].current /\ h[u].loaded = f[u].loaded
                            /\ h[u].active <=> u \in S \/ f[u].active
    BY <1>1, <1>2
  <1> HIDE DEF h
  <1>5. h \in TileMaps /\ DOMAIN h = DOMAIN f
    BY <1>1, <1>3 DEF TileMaps
  <1>6. QED
    BY <1>4, <1>5 DEF h

LEMMA OpacityFollows ==
    ASSUME NEW g, NEW m, Follows(g, m), NEW opaque
    PROVE  Follows(UpdateOpacity(g, opaque), m)
  <1> DEFINE shown == {t \in DOMAIN g.tiles : g.tiles[t].current /\ g.tiles[t].loaded}
             f == [t \in DOMAIN g.tiles |->
                      IF t \in opaque THEN [g.tiles[t] EXCEPT !.active = TRUE]
                                      ELSE g.tiles[t]]
             b == opaque # shown
             n == [g EXCEPT !.tiles = f, !.fadeFrame = b]
             u == UpdateOpacity(g, opaque)
  <1>1. g \in GridState /\ Levelled(g) /\ Awaits(g)
    BY NotOnMap DEF Follows, Near, GridSound, Placed, Bare, Levelled
  <1>2. u = n \/ u = PruneTiles(n)
    BY <1>1 DEF UpdateOpacity, GridState
  <1>3. g.tiles \in TileMaps /\ b \in BOOLEAN
    BY <1>1 DEF GridState
  <1>4. /\ f \in TileMaps /\ DOMAIN f = DOMAIN g.tiles
        /\ \A t \in DOMAIN g.tiles : /\ f[t].current = g.tiles[t].current
                                     /\ f[t].loaded = g.tiles[t].loaded
    BY <1>3, TilesFade
  <1> HIDE DEF f, b
  <1>5. /\ n \in GridState /\ SameGrid(g, n) /\ n.tiles = f /\ n.awaited = g.awaited
    BY <1>1, <1>3, <1>4 DEF GridState, SameGrid
  <1> HIDE DEF n
  <1>6. Levelled(n) /\ Awaits(n)
    BY <1>1, <1>4, <1>5 DEF Levelled, Awaits, SameGrid
  <1>7. \A range, z : Shows(g, range, z) => Shows(n, range, z)
    BY <1>4, <1>5 DEF Shows
  <1>8. Follows(n, m)
    BY <1>4, <1>5, <1>6, <1>7, FollowsStays
  <1>9. QED
    BY <1>2, <1>8, PrunesFollow

LEMMA FadeFrameKeeps ==
    ASSUME GridInv, FadeFrame
    PROVE  GridInv'
  <1>1. Follows(grid, map) /\ grid \in GridState /\ Levelled(grid) /\ Awaits(grid)
    BY InvParts
  <1>2. \/ grid' = [grid EXCEPT !.fadeFrame = FALSE]
        \/ \E opaque : grid' = UpdateOpacity(grid, opaque)
    BY DEF FadeFrame
  <1>3. CASE grid' = [grid EXCEPT !.fadeFrame = FALSE]
    <2>1. /\ grid' \in GridState /\ SameGrid(grid, grid')
          /\ grid'.tiles = grid.tiles /\ grid'.awaited = grid.awaited
      BY <1>1, <1>3 DEF GridState, SameGrid
    <2>2. Levelled(grid') /\ Awaits(grid')
      BY <1>1, <2>1 DEF Levelled, Awaits, SameGrid
    <2>3. \A range, z : Shows(grid, range, z) => Shows(grid', range, z)
      BY <2>1 DEF Shows
    <2>4. Follows(grid', map)
      BY <1>1, <2>1, <2>2, <2>3, FollowsStays
    <2>5. QED
      BY <2>4, LayerKeeps DEF FadeFrame
  <1>4. ASSUME NEW opaque, grid' = UpdateOpacity(grid, opaque)
        PROVE  GridInv'
    <2>1. Follows(grid', map)
      BY <1>1, <1>4, OpacityFollows
    <2>2. QED
      BY <2>1, LayerKeeps DEF FadeFrame
  <1>5. QED
    BY <1>2, <1>3, <1>4

LEMMA PruneTimeoutKeeps ==
    ASSUME GridInv, PruneTimeout
    PROVE  GridInv'
  <1> DEFINE p == grid.prunes - 1
             n == [grid EXCEPT !.prunes = p]
  <1>1. Follows(grid, map) /\ grid \in GridState /\ Levelled(grid) /\ Awaits(grid)
    BY InvParts
  <1>2. grid.prunes \in 0..MaxPrunes /\ grid.prunes > 0
    BY <1>1 DEF PruneTimeout, GridState
  <1>3. p \in 0..MaxPrunes
    BY <1>2 DEF MaxPrunes
  <1>4. grid' = PruneTiles(n)
    BY DEF PruneTimeout
  <1> HIDE DEF p
  <1>5. /\ n \in GridState /\ SameGrid(grid, n)
        /\ n.tiles = grid.tiles /\ n.awaited = grid.awaited
    BY <1>1, <1>3 DEF GridState, SameGrid
  <1> HIDE DEF n
  <1>6. Levelled(n) /\ Awaits(n)
    BY <1>1, <1>5 DEF Levelled, Awaits, SameGrid
  <1>7. \A range, z : Shows(grid, range, z) => Shows(n, range, z)
    BY <1>5 DEF Shows
  <1>8. Follows(n, map)
    BY <1>1, <1>5, <1>6, <1>7, FollowsStays
  <1>9. Follows(grid', map)
    BY <1>4, <1>8, PrunesFollow
  <1>10. QED
    BY <1>9, LayerKeeps DEF PruneTimeout

(* The time of the throttle is over: what was asked for meanwhile is done. *)
LEMMA ThrottleLaterKeeps ==
    ASSUME GridInv, ThrottleLater
    PROVE  GridInv'
  <1> DEFINE n == [grid EXCEPT !.lock = "free"]
  <1>1. /\ Follows(grid, map) /\ Near(grid, map) /\ GridSound(grid)
        /\ Sees(Env(map), map) /\ Env(map).mapZoom \in Zooms
    BY InvParts
  <1>2. /\ grid.lock = "again" => grid' = OnMove(n, Env(map))
        /\ grid.lock # "again" => grid' = n
    BY DEF ThrottleLater
  <1>3. /\ GridSound(n) /\ n.onMap = grid.onMap /\ n.tileZoom = grid.tileZoom
        /\ n.lock = "free"
        /\ \A e, center : ShowsAt(grid, e, center) => ShowsAt(n, e, center)
    BY <1>1, LockStays
  <1> HIDE DEF n
  <1>4. Near(n, map)
    BY <1>1, <1>3 DEF Near
  <1>5. CASE grid.lock = "again"
    <2>1. Follows(grid', map)
      BY <1>1, <1>2, <1>4, <1>5, OnMoveFollows
    <2>2. QED
      BY <2>1, LayerKeeps DEF ThrottleLater
  <1>6. CASE grid.lock # "again"
    <2>1. Follows(grid', map)
      BY <1>1, <1>2, <1>3, <1>4, <1>6 DEF Follows
    <2>2. QED
      BY <2>1, LayerKeeps DEF ThrottleLater
  <1>7. QED
    BY <1>5, <1>6

-----------------------------------------------------------------------------
LEMMA GridInvInit == GridInit => GridInv
  <1> SUFFICES ASSUME GridInit PROVE GridInv
    OBVIOUS
  <1>1. MapInv
    BY MapInvInit DEF GridInit
  <1>2. DOMAIN <<>> = {} /\ <<>> \in TileMaps
    <2>1. DOMAIN <<>> = {} /\ <<>> = [t \in {} |-> <<>>[t]]
      OBVIOUS
    <2>2. QED
      BY <2>1, TileMap
  <1>3. /\ grid \in GridState /\ grid.onMap = "no" /\ grid.tileZoom = Nowhere
        /\ grid.tiles = <<>> /\ grid.awaited = {}
    <2> DEFINE s == <<>>
    <2>1. s \in TileMaps
      BY <1>2
    <2>2. grid = [onMap |-> "no", tileZoom |-> Nowhere, levels |-> {}, tiles |-> s,
                  noPrune |-> FALSE, loading |-> FALSE,
                  fadeFrame |-> FALSE, prunes |-> 0,
                  lock |-> "free", awaited |-> {}, late |-> FALSE]
      BY DEF GridInit
    <2> HIDE DEF s
    <2>3. 0 \in 0..MaxPrunes
      BY DEF MaxPrunes
    <2>4. QED
      BY <2>1, <2>2, <2>3 DEF GridState, s
  <1>4. Bare(grid)
    BY <1>2, <1>3 DEF Bare, Awaits
  <1>5. QED
    BY <1>1, <1>3, <1>4 DEF GridInv, Follows, Near, GridSound

LEMMA GridInvStep == GridInv /\ [GridNext]_gridVars => GridInv'
  <1> SUFFICES ASSUME GridInv, [GridNext]_gridVars PROVE GridInv'
    OBVIOUS
  <1>1. CASE UNCHANGED gridVars
    <2>1. MapInv'
      BY <1>1, MapInvStep DEF GridInv, gridVars, mapVars
    <2>2. Follows(grid', map') /\ GridSound(grid')
      BY <1>1 DEF GridInv, gridVars
    <2>3. QED
      BY <2>1, <2>2 DEF GridInv, Follows, Near, GridSound
  <1>2. CASE MapStep
    BY <1>2, MapStepKeeps
  <1>3. CASE AddTo \/ RemoveGridLayer \/ Redraw
    BY <1>3, AddToKeeps, RemoveLayerKeeps, RedrawKeeps
  <1>4. CASE \/ \E t \in grid.awaited : TileArrives(t)
             \/ \E t \in DOMAIN grid.tiles : LateArrives(t)
    BY <1>4, TileArrivesKeeps, LateArrivesKeeps
  <1>5. CASE FadeFrame \/ PruneTimeout \/ ThrottleLater
    BY <1>5, FadeFrameKeeps, PruneTimeoutKeeps, ThrottleLaterKeeps
  <1>6. QED
    BY <1>1, <1>2, <1>3, <1>4, <1>5 DEF GridNext, LayerNext

LEMMA GridInvFollows == GridInv => TilesFollowMap
  <1> SUFFICES ASSUME GridInv PROVE TilesFollowMap
    OBVIOUS
  <1>0. /\ Near(grid, map) /\ Follows(grid, map)
        /\ GridSound(grid) /\ grid \in GridState /\ Levelled(grid) /\ Awaits(grid)
    BY InvParts
  <1>1. GridTypeOK
    <2>1. MapTypeOK
      BY DEF GridInv, MapInv, Orderly, MapTypeOK
    <2>2. grid.tiles \in TileMaps
      BY <1>0 DEF GridState
    <2>3. DOMAIN grid.tiles \subseteq TileCoords /\ \A t \in DOMAIN grid.tiles : grid.tiles[t] \in Tile
      BY <2>2, TileMap
    <2>4. QED
      BY <1>0, <2>1, <2>3 DEF GridTypeOK, GridState
  <1>2. TilesHaveLevels
    <2>1. ASSUME grid.onMap # "yes" PROVE grid.tiles = <<>>
      <3>1. DOMAIN grid.tiles = {} /\ grid.tiles \in TileMaps
        BY <1>0, <2>1, NotOnMap DEF Bare, GridState
      <3>2. grid.tiles = [t \in {} |-> grid.tiles[t]]
        BY <3>1, TileMap
      <3>3. QED
        BY <3>2
    <2>2. QED
      BY <1>0, <2>1 DEF TilesHaveLevels, Levelled
  <1>3. LoadedByOwnImage
    BY <1>0 DEF LoadedByOwnImage, Awaits
  <1>4. ViewIsCovered
    <2>1. ASSUME AtRest, grid.lock = "free", grid.onMap = "yes"
          PROVE  Shows(grid, TileRange(Env(map), map.center, map.zoom), map.zoom)
      <3>1. map.anim = Nowhere
        BY <2>1 DEF AtRest
      <3>2. grid.tileZoom = map.zoom /\ ShowsAt(grid, Env(map), map.center)
        BY <1>0, <2>1, <3>1 DEF Follows, Near
      <3>3. QED
        BY <3>2 DEF ShowsAt
    <2>2. QED
      BY <2>1 DEF ViewIsCovered, Shows
  <1>5. QED
    BY <1>1, <1>2, <1>3, <1>4 DEF TilesFollowMap

(***************************************************************************)
(* Whatever calls, gestures, frames, timeouts and images cross each other, *)
(* the tiles follow the map: each has a level, counts as loaded only by    *)
(* its own image, and a map at rest is covered.                            *)
(***************************************************************************)
THEOREM TilesFollow == GridSpec => []TilesFollowMap
  <1>1. QED
    BY GridInvInit, GridInvStep, GridInvFollows, PTL DEF GridSpec

-----------------------------------------------------------------------------
(***************************************************************************)
(* No holes. GoesOn says that no active tile has gone, Kept that the place *)
(* of a tile without its own picture is still shown. Pruning keeps the     *)
(* places (PruningKeeps), but what it does to a tile that only becomes     *)
(* current afterwards nobody knows: so a step has to be followed event by  *)
(* event. Every event but `zoom` of a layer at the map's zoom lets all     *)
(* that is active go on; after the ones that prune, the layer shows the    *)
(* whole view (Full), in which nothing becomes current anew (Steady).      *)
(***************************************************************************)

(* What has faded in has an image.                                         *)
Backed(g) == \A t \in DOMAIN g.tiles : g.tiles[t].active => g.tiles[t].loaded

(* No active tile goes.                                                    *)
GoesOn(g, n) == Backed(n) /\ \A t : Active(g, t) => Active(n, t)

Unfaded(n, t) == t \in DOMAIN n.tiles /\ n.tiles[t].current /\ ~n.tiles[t].active

(* What is over a tile that has not faded in is still there.               *)
Kept(g, n) == \A t : Unfaded(n, t) /\ Over(g, t) # {} => Over(n, t) # {}

(* No tile becomes current that was not.                                   *)
NoneNew(g, n) == \A t : Unfaded(n, t) => Unfaded(g, t)

(* One after the other.                                                    *)
LEMMA GoingOnKeeps ==
    ASSUME NEW g, NEW k, NEW n
    PROVE  /\ GoesOn(g, k) => Kept(g, k)
           /\ GoesOn(g, k) /\ GoesOn(k, n) => GoesOn(g, n)
           /\ GoesOn(g, k) /\ Kept(k, n) => Kept(g, n)
           /\ Kept(g, k) /\ Kept(k, n) /\ NoneNew(k, n) => Kept(g, n)
           /\ NoneNew(g, k) /\ NoneNew(k, n) => NoneNew(g, n)
  <1>1. ASSUME GoesOn(g, k), NEW t PROVE Over(g, t) \subseteq Over(k, t)
    BY <1>1 DEF GoesOn, Over
  <1>2. GoesOn(g, k) => Kept(g, k)
    BY <1>1 DEF Kept
  <1>3. GoesOn(g, k) /\ GoesOn(k, n) => GoesOn(g, n)
    BY DEF GoesOn
  <1>4. GoesOn(g, k) /\ Kept(k, n) => Kept(g, n)
    BY <1>1 DEF Kept
  <1>5. Kept(g, k) /\ Kept(k, n) /\ NoneNew(k, n) => Kept(g, n)
    BY DEF Kept, NoneNew
  <1>6. NoneNew(g, k) /\ NoneNew(k, n) => NoneNew(g, n)
    BY DEF NoneNew
  <1>7. QED
    BY <1>2, <1>3, <1>4, <1>5, <1>6

(* With the same tiles nothing is different.                               *)
LEMMA SameTiles ==
    ASSUME NEW g, NEW n, n.tiles = g.tiles
    PROVE  /\ Backed(g) => Backed(n) /\ GoesOn(g, n)
           /\ NoneNew(g, n)
           /\ \A t : Over(n, t) = Over(g, t)
           /\ \A k : Kept(g, k) <=> Kept(n, k)
           /\ \A k : Kept(k, g) <=> Kept(k, n)
  <1>1. \A t : Active(n, t) <=> Active(g, t)
    BY DEF Active
  <1>2. \A t : Over(n, t) = Over(g, t)
    BY <1>1 DEF Over
  <1>3. \A t : Unfaded(n, t) <=> Unfaded(g, t)
    BY DEF Unfaded
  <1>4. Backed(g) => Backed(n)
    BY DEF Backed
  <1>5. QED
    BY <1>1, <1>2, <1>3, <1>4 DEF GoesOn, NoneNew, Kept

(* The nearest active parent is retained.                                  *)
LEMMA NearestParent ==
    ASSUME NEW g, Backed(g), NEW t, NEW i \in 1..5, Active(g, Parent(t, i))
    PROVE  \E k \in 1..5 : Active(g, Parent(t, k)) /\ Parent(t, k) \in RetainedParents(g, t)
  <1> DEFINE S == {k \in 1..5 : Active(g, Parent(t, k))}
             k == Min(S)
  <1>1. S \in SUBSET Nat /\ S # {}
    OBVIOUS
  <1>2. k \in S /\ \A j \in S : k <= j
    <2> HIDE DEF S
    <2>1. QED
      BY <1>1, LeastStep DEF Min
  <1>3. \A j \in 1..(k - 1) : ~Active(g, Parent(t, j))
    <2>1. k \in 1..5
      BY <1>2
    <2>2. ASSUME NEW j \in 1..(k - 1) PROVE j \in 1..5 /\ ~(k <= j)
      BY <2>1
    <2> HIDE DEF k
    <2>3. QED
      BY <1>2, <2>2
  <1>4. Loaded(g, Parent(t, k))
    BY <1>2 DEF Active, Loaded, Backed
  <1>5. Parent(t, k) \in RetainedParents(g, t)
    <2> HIDE DEF k
    <2>1. QED
      BY <1>2, <1>3, <1>4 DEF RetainedParents
  <1> HIDE DEF k
  <1>6. QED
    BY <1>2, <1>5

(* If no parent is active, what is active below is retained.               *)
LEMMA NearestChild ==
    ASSUME NEW g, Backed(g), NEW t, NEW u, Active(g, u),
           u \in Children(t) \cup UNION {Children(c) : c \in Children(t)}
    PROVE  \E v \in Children(t) \cup UNION {Children(c) : c \in Children(t)} :
              Active(g, v) /\ v \in RetainedChildren(g, t)
  <1>1. \A v : Active(g, v) => Loaded(g, v)
    BY DEF Active, Loaded, Backed
  <1>2. CASE u \in Children(t)
    <2>1. u \in RetainedChildren(g, t)
      BY <1>1, <1>2 DEF RetainedChildren
    <2>2. QED
      BY <1>2, <2>1
  <1>3. ASSUME NEW c \in Children(t), u \in Children(c)
        PROVE  \E v \in Children(t) \cup UNION {Children(d) : d \in Children(t)} :
                  Active(g, v) /\ v \in RetainedChildren(g, t)
    <2>1. CASE Active(g, c)
      <3>1. c \in RetainedChildren(g, t)
        BY <1>1, <2>1 DEF RetainedChildren
      <3>2. QED
        BY <2>1, <3>1
    <2>2. CASE ~Active(g, c)
      <3>1. u \in UNION {Children(d) : d \in {e \in Children(t) : ~Active(g, e)}}
        BY <1>3, <2>2
      <3>2. u \in RetainedChildren(g, t)
        BY <1>1, <3>1 DEF RetainedChildren
      <3>3. QED
        BY <3>2
    <2>3. QED
      BY <2>1, <2>2
  <1>4. QED
    BY <1>2, <1>3

(* Pruning retains what shows the place of a tile that has not faded in.   *)
LEMMA PruningKeeps ==
    ASSUME NEW g \in GridState, Backed(g)
    PROVE  LET n == PruneTiles(g) IN Backed(n) /\ Kept(g, n) /\ NoneNew(g, n)
  <1> DEFINE R == Retained(g)
             S == DOMAIN g.tiles \ R
             n == PruneTiles(g)
  <1>1. CASE g.onMap # "yes"
    <2>1. n = g
      BY <1>1 DEF PruneTiles
    <2>2. QED
      BY <2>1 DEF Kept, NoneNew
  <1>2. CASE g.onMap = "yes"
    <2>1. n = RemoveTiles(g, S)
      BY <1>2 DEF PruneTiles
    <2> HIDE DEF S
    <2>2. /\ DOMAIN n.tiles = DOMAIN g.tiles \ S
          /\ \A t \in DOMAIN n.tiles : n.tiles[t] = g.tiles[t]
      BY <2>1, RemovesTiles
    <2> HIDE DEF n
    <2>3. Backed(n) /\ NoneNew(g, n)
      BY <2>2 DEF Backed, NoneNew, Unfaded
    <2>4. \A u : Active(g, u) /\ u \in R => Active(n, u)
      BY <2>2 DEF Active, S
    <2>5. ASSUME NEW t, Unfaded(n, t), NEW u \in Over(g, t) PROVE Over(n, t) # {}
      <3> DEFINE low == Children(t) \cup UNION {Children(c) : c \in Children(t)}
                 bare == {x \in {y \in DOMAIN g.tiles : g.tiles[y].current} : ~g.tiles[x].active}
      <3>1. t \in bare /\ ~g.tiles[t].active
        BY <2>2, <2>5 DEF Unfaded
      <3>2. /\ RetainedParents(g, t) \subseteq R
            /\ ~HasActiveParent(g, t) => RetainedChildren(g, t) \subseteq R
        <4> DEFINE Of(x) == RetainedParents(g, x)
                              \cup (IF HasActiveParent(g, x) THEN {} ELSE RetainedChildren(g, x))
        <4>1. UNION {Of(x) : x \in bare} \subseteq R
          BY DEF Retained
        <4>2. Of(t) \subseteq R
          <5> HIDE DEF Of, bare, R
          <5>1. QED
            BY <3>1, <4>1
        <4> HIDE DEF R
        <4>3. QED
          BY <4>2
      <3> HIDE DEF R, bare
      <3>3. CASE HasActiveParent(g, t)
        <4>1. PICK i \in 1..5 : Active(g, Parent(t, i))
          BY <3>3 DEF HasActiveParent
        <4>2. PICK k \in 1..5 : Active(g, Parent(t, k)) /\ Parent(t, k) \in RetainedParents(g, t)
          BY <4>1, NearestParent
        <4>3. Active(n, Parent(t, k))
          BY <2>4, <3>2, <4>2
        <4>4. Parent(t, k) \in Over(n, t)
          BY <4>3 DEF Over
        <4>5. QED
          BY <4>4
      <3>4. CASE ~HasActiveParent(g, t)
        <4>1. u \in low /\ Active(g, u)
          BY <3>4 DEF Over, HasActiveParent
        <4>2. PICK v \in low : Active(g, v) /\ v \in RetainedChildren(g, t)
          BY <4>1, NearestChild
        <4>3. Active(n, v)
          BY <2>4, <3>2, <3>4, <4>2
        <4>4. v \in Over(n, t)
          BY <4>2, <4>3 DEF Over
        <4>5. QED
          BY <4>4
      <3>5. QED
        BY <3>3, <3>4
    <2>6. QED
      BY <2>3, <2>5 DEF Kept, n
  <1>3. QED
    BY <1>1, <1>2

(* Images on their way belong to tiles that are not active.                *)
LEMMA AbortingGoesOn ==
    ASSUME NEW g \in GridState, Awaits(g), Backed(g)
    PROVE  LET n == AbortLoading(g) IN
           /\ GoesOn(g, n) /\ NoneNew(g, n)
           /\ \A range : Shows(g, range, g.tileZoom) => Shows(n, range, g.tileZoom)
  <1> DEFINE S == {t \in DOMAIN g.tiles : t[2] # g.tileZoom /\ t \in g.awaited}
             n == AbortLoading(g)
  <1>1. n = RemoveTiles(g, S)
    BY DEF AbortLoading
  <1>2. \A t \in S : ~g.tiles[t].active
    BY DEF Awaits, Backed
  <1>3. \A x : <<x, g.tileZoom>> \notin S
    OBVIOUS
  <1> HIDE DEF S
  <1>4. /\ DOMAIN n.tiles = DOMAIN g.tiles \ S
        /\ \A t \in DOMAIN n.tiles : n.tiles[t] = g.tiles[t]
    BY <1>1, RemovesTiles
  <1> HIDE DEF n
  <1>5. GoesOn(g, n)
    BY <1>2, <1>4 DEF GoesOn, Backed, Active
  <1>6. NoneNew(g, n)
    BY <1>4 DEF NoneNew, Unfaded
  <1>7. \A range : Shows(g, range, g.tileZoom) => Shows(n, range, g.tileZoom)
    BY <1>3, <1>4 DEF Shows
  <1>8. QED
    BY <1>5, <1>6, <1>7 DEF n

(* Going to another zoom drops only images that are awaited.               *)
LEMMA TakingGoesOn ==
    ASSUME NEW g, Placed(g), Backed(g), NEW zoom \in Zooms
    PROVE  LET n == UpdateLevels(AbortLoading([g EXCEPT !.tileZoom = zoom])) IN
           /\ GoesOn(g, n) /\ NoneNew(g, n)
           /\ \A range : Shows(g, range, zoom) => Shows(n, range, zoom)
  <1> DEFINE h == [g EXCEPT !.tileZoom = zoom]
             k == AbortLoading(h)
             n == UpdateLevels(k)
  <1>0. g \in GridState /\ Awaits(g)
    BY DEF Placed
  <1>1. /\ h \in GridState /\ h.tileZoom = zoom
        /\ h.tiles = g.tiles /\ h.awaited = g.awaited
    BY <1>0, ZoomKeeps
  <1> HIDE DEF h
  <1>2. Awaits(h) /\ Backed(h) /\ GoesOn(g, h) /\ NoneNew(g, h)
    BY <1>0, <1>1, SameTiles DEF Awaits
  <1>3. /\ GoesOn(h, k) /\ NoneNew(h, k)
        /\ \A range : Shows(h, range, zoom) => Shows(k, range, zoom)
        /\ k \in GridState
    BY <1>1, <1>2, AbortingGoesOn, Aborts
  <1> HIDE DEF k
  <1>4. n.tiles = k.tiles
    BY <1>3 DEF UpdateLevels, GridState
  <1> HIDE DEF n
  <1>5. GoesOn(k, n) /\ NoneNew(k, n)
    BY <1>3, <1>4, SameTiles DEF GoesOn
  <1>6. GoesOn(g, k) /\ NoneNew(g, k)
    BY <1>2, <1>3, GoingOnKeeps
  <1>7. GoesOn(g, n) /\ NoneNew(g, n)
    BY <1>5, <1>6, GoingOnKeeps
  <1>8. \A range : Shows(g, range, zoom) => Shows(n, range, zoom)
    BY <1>1, <1>3, <1>4 DEF Shows
  <1>9. QED
    BY <1>7, <1>8 DEF n, k, h

(* What is visible lies within the margin.                                 *)
LEMMA RangeInMargin ==
    ASSUME NEW e, NEW center, NEW z
    PROVE  LET range == TileRange(e, center, z) IN
           range \subseteq Int /\ range \subseteq Margin(range)
  <1> DEFINE range == TileRange(e, center, z)
  <1>1. range \subseteq Int
    BY DEF TileRange
  <1> HIDE DEF range
  <1>2. 0 \in -KeepBuffer..KeepBuffer
    BY TileAssumption
  <1>3. \A x \in range : x = x + 0
    BY <1>1
  <1>4. range \subseteq Margin(range)
    BY <1>2, <1>3 DEF Margin
  <1>5. QED
    BY <1>1, <1>4 DEF range

(* A tile may be no longer current, but it goes on showing its place.      *)
LEMMA MarkingGoesOn ==
    ASSUME NEW g \in GridState, Backed(g), NEW e, NEW center
    PROVE  LET n == MarkOutside(g, e, center) IN
           /\ GoesOn(g, n) /\ NoneNew(g, n)
           /\ ShowsAt(g, e, center) => ShowsAt(n, e, center)
  <1> DEFINE z == g.tileZoom
             range == TileRange(e, center, z)
             keep == Margin(range)
             Of(t) == IF t[2] # z \/ t[1] \notin keep
                        THEN [g.tiles[t] EXCEPT !.current = FALSE] ELSE g.tiles[t]
             f == [t \in DOMAIN g.tiles |-> Of(t)]
             n == MarkOutside(g, e, center)
  <1>1. n = [g EXCEPT !.tiles = f]
    BY DEF MarkOutside, GridState
  <1>2. \A t \in DOMAIN g.tiles : g.tiles[t] \in Tile
    <2>1. g.tiles \in TileMaps
      BY DEF GridState
    <2>2. QED
      BY <2>1, TileMap
  <1>3. range \subseteq keep
    BY RangeInMargin
  <1> HIDE DEF range, keep, z
  <1>4. ASSUME NEW t \in DOMAIN g.tiles
        PROVE  /\ Of(t).active = g.tiles[t].active /\ Of(t).loaded = g.tiles[t].loaded
               /\ Of(t).current => g.tiles[t].current
               /\ t[2] = z /\ t[1] \in keep => Of(t) = g.tiles[t]
    <2>1. \A u \in Tile : LET v == [u EXCEPT !.current = FALSE] IN
             v.active = u.active /\ v.loaded = u.loaded /\ ~v.current
      BY DEF Tile
    <2>2. QED
      BY <1>2, <2>1
  <1> HIDE DEF Of
  <1>5. /\ n.tiles = f /\ n.tileZoom = z
        /\ DOMAIN f = DOMAIN g.tiles /\ \A t \in DOMAIN f : f[t] = Of(t)
    BY <1>1 DEF GridState, z
  <1> HIDE DEF f, n
  <1>6. GoesOn(g, n)
    BY <1>4, <1>5 DEF GoesOn, Active, Backed
  <1>7. NoneNew(g, n)
    BY <1>4, <1>5 DEF NoneNew, Unfaded
  <1>8. ASSUME Shows(g, range, z) PROVE Shows(n, range, z)
    <2>1. ASSUME NEW x \in range
          PROVE  <<x, z>> \in DOMAIN n.tiles /\ n.tiles[<<x, z>>].current
      <3>1. <<x, z>> \in DOMAIN g.tiles /\ g.tiles[<<x, z>>].current
        BY <1>8 DEF Shows
      <3>2. Of(<<x, z>>) = g.tiles[<<x, z>>]
        BY <1>3, <1>4, <3>1
      <3>3. QED
        BY <1>5, <3>1, <3>2
    <2>2. QED
      BY <2>1 DEF Shows
  <1>9. ShowsAt(g, e, center) => ShowsAt(n, e, center)
    BY <1>5, <1>8 DEF ShowsAt, range, z
  <1>10. QED
    BY <1>6, <1>7, <1>9 DEF n

(* What is there stays; what all is there adds nothing.                    *)
LEMMA AddingGoesOn ==
    ASSUME NEW g \in GridState, Backed(g), NEW e, NEW center
    PROVE  LET n == AddTiles(g, e, center) IN
           /\ GoesOn(g, n)
           /\ ShowsAt(g, e, center) => NoneNew(g, n)
  <1> DEFINE z == g.tileZoom
             range == TileRange(e, center, z)
             visible == {<<x, z>> : x \in range}
             queue == visible \ DOMAIN g.tiles
             D == DOMAIN g.tiles \cup queue
             Of(t) == IF t \in queue
                        THEN [current |-> TRUE, loaded |-> FALSE, active |-> FALSE]
                        ELSE IF t \in visible THEN [g.tiles[t] EXCEPT !.current = TRUE]
                        ELSE g.tiles[t]
             f == [t \in D |-> Of(t)]
             a == g.awaited \cup queue
             l == g.loading \/ queue # {}
             n == AddTiles(g, e, center)
  <1>1. n = [g EXCEPT !.tiles = f, !.awaited = a, !.loading = l]
    BY DEF AddTiles, GridState
  <1>2. \A t \in DOMAIN g.tiles : g.tiles[t] \in Tile
    <2>1. g.tiles \in TileMaps
      BY DEF GridState
    <2>2. QED
      BY <2>1, TileMap
  <1>3. ASSUME Shows(g, range, z)
        PROVE  \A t \in visible : t \in DOMAIN g.tiles /\ g.tiles[t].current
    BY <1>3 DEF Shows
  <1> HIDE DEF visible, range, z
  <1>4. ASSUME NEW t \in D
        PROVE  /\ t \in queue => ~Of(t).active
               /\ t \notin queue => /\ t \in DOMAIN g.tiles
                                    /\ Of(t).active = g.tiles[t].active
                                    /\ Of(t).loaded = g.tiles[t].loaded
                                    /\ t \notin visible => Of(t) = g.tiles[t]
    <2>1. \A u \in Tile : LET v == [u EXCEPT !.current = TRUE] IN
             v.active = u.active /\ v.loaded = u.loaded
      BY DEF Tile
    <2>2. CASE t \in queue
      BY <2>2
    <2>3. CASE t \notin queue
      <3>1. t \in DOMAIN g.tiles
        BY <2>3
      <3>2. Of(t) = IF t \in visible THEN [g.tiles[t] EXCEPT !.current = TRUE]
                                     ELSE g.tiles[t]
        BY <2>3
      <3>3. QED
        BY <1>2, <2>1, <2>3, <3>1, <3>2
    <2>4. QED
      BY <2>2, <2>3
  <1>5. n.tiles = f
    BY <1>1 DEF GridState
  <1> HIDE DEF Of
  <1>6. DOMAIN n.tiles = D /\ \A t \in D : n.tiles[t] = Of(t)
    BY <1>5
  <1> HIDE DEF f, n, a, l
  <1>7. GoesOn(g, n)
    <2>1. Backed(n)
      BY <1>4, <1>6 DEF Backed
    <2>2. ASSUME NEW t, Active(g, t) PROVE Active(n, t)
      <3>1. t \in DOMAIN g.tiles /\ g.tiles[t].active
        BY <2>2 DEF Active
      <3>2. t \in D /\ t \notin queue
        BY <3>1
      <3> HIDE DEF D, queue
      <3>3. QED
        BY <1>4, <1>6, <3>1, <3>2 DEF Active
    <2>3. QED
      BY <2>1, <2>2 DEF GoesOn
  <1>8. ASSUME ShowsAt(g, e, center) PROVE NoneNew(g, n)
    <2>1. \A t \in visible : t \in DOMAIN g.tiles /\ g.tiles[t].current
      BY <1>3, <1>8 DEF ShowsAt, range, z
    <2>2. queue = {}
      BY <2>1
    <2>3. ASSUME NEW t, Unfaded(n, t) PROVE Unfaded(g, t)
      <3>1. t \in D /\ t \notin queue
        BY <1>6, <2>2, <2>3 DEF Unfaded
      <3> HIDE DEF D, queue
      <3>2. t \in DOMAIN g.tiles /\ ~g.tiles[t].active /\ (t \notin visible => g.tiles[t].current)
        BY <1>4, <1>6, <2>3, <3>1 DEF Unfaded
      <3>3. QED
        BY <2>1, <3>2 DEF Unfaded
    <2>4. QED
      BY <2>3 DEF NoneNew
  <1>9. QED
    BY <1>7, <1>8 DEF n

(* Both together, which is an update of the view.                          *)
LEMMA MarkingAndAdding ==
    ASSUME NEW g, Ready(g), Backed(g), NEW e, NEW center
    PROVE  LET n == AddTiles(MarkOutside(g, e, center), e, center) IN
           /\ GoesOn(g, n)
           /\ ShowsAt(g, e, center) => NoneNew(g, n)
  <1> DEFINE k == MarkOutside(g, e, center)
             n == AddTiles(k, e, center)
  <1>1. g \in GridState /\ g.tileZoom # Nowhere
    BY DEF Ready, Placed
  <1>2. /\ GoesOn(g, k) /\ NoneNew(g, k)
        /\ ShowsAt(g, e, center) => ShowsAt(k, e, center)
        /\ k \in GridState
    BY <1>1, MarkingGoesOn, MarksOutside
  <1> HIDE DEF k
  <1>3. Backed(k)
    BY <1>2 DEF GoesOn
  <1>4. /\ GoesOn(k, n)
        /\ ShowsAt(k, e, center) => NoneNew(k, n)
    BY <1>2, <1>3, AddingGoesOn
  <1> HIDE DEF n
  <1>5. GoesOn(g, n) /\ (ShowsAt(g, e, center) => NoneNew(g, n))
    BY <1>2, <1>4, GoingOnKeeps
  <1>6. QED
    BY <1>5 DEF n, k

(* No zoom is far from itself.                                             *)
LEMMA NotFar ==
    ASSUME NEW z \in Zooms
    PROVE  ~(Distance(z, z) > 1)
  <1>1. z \in Int /\ {z, z} = {z}
    BY ZoomAssumption DEF Zooms
  <1>2. Max({z}) = z /\ Min({z}) = z
    <2>1. \E x \in {z} : \A y \in {z} : y <= x
      BY <1>1
    <2>2. \E x \in {z} : \A y \in {z} : x <= y
      BY <1>1
    <2>3. QED
      BY <2>1, <2>2 DEF Max, Min
  <1>3. Distance(z, z) = z - z
    BY <1>1, <1>2 DEF Distance
  <1>4. QED
    BY <1>1, <1>3

(* Unless the zoom is far away, nothing goes.                              *)
LEMMA UpdatingKeeps ==
    ASSUME NEW g, Ready(g), Backed(g), NEW e, e.mapZoom \in Zooms, NEW center
    PROVE  LET n == Update(g, e, center) IN
           /\ Backed(n) /\ Kept(g, n)
           /\ GoesOn(g, n) \/ n.tileZoom = e.mapZoom
           /\ g.tileZoom = e.mapZoom =>
                 /\ GoesOn(g, n)
                 /\ ShowsAt(g, e, center) => NoneNew(g, n)
  <1> DEFINE k == MarkOutside(g, e, center)
             s == SetViewAt(k, e, center, e.mapZoom)
             n == Update(g, e, center)
  <1>1. g \in GridState /\ g.tileZoom # Nowhere
    BY DEF Ready, Placed
  <1>2. CASE ~(Distance(e.mapZoom, g.tileZoom) > 1)
    <2>1. n = AddTiles(k, e, center)
      BY <1>1, <1>2 DEF Update
    <2> HIDE DEF n
    <2>2. /\ GoesOn(g, n)
          /\ ShowsAt(g, e, center) => NoneNew(g, n)
      BY <2>1, MarkingAndAdding
    <2>3. Backed(n) /\ Kept(g, n)
      BY <2>2, GoingOnKeeps DEF GoesOn
    <2>4. QED
      BY <2>2, <2>3 DEF n
  <1>3. CASE Distance(e.mapZoom, g.tileZoom) > 1
    <2>0. g.tileZoom # e.mapZoom
      BY <1>3, NotFar
    <2>1. n = [PruneTiles(s) EXCEPT !.noPrune = FALSE]
      BY <1>1, <1>3 DEF Update
    <2>2. /\ k \in GridState /\ GoesOn(g, k) /\ SameGrid(g, k) /\ Awaits(k) /\ Levelled(k)
      BY <1>1, MarksOutside, MarkingGoesOn DEF Ready, Placed
    <2>3. Placed(k) /\ Backed(k)
      BY <2>2 DEF Ready, Placed, SameGrid, GoesOn
    <2> HIDE DEF k
    <2> DEFINE j == UpdateLevels(AbortLoading([k EXCEPT !.tileZoom = e.mapZoom]))
    <2>4. GoesOn(k, j) /\ Ready(j) /\ j.tileZoom = e.mapZoom
      BY <2>3, TakingGoesOn, TakesZoom DEF Placed
    <2>5. s = AddTiles(MarkOutside(j, e, center), e, center)
      BY DEF SetViewAt
    <2> HIDE DEF j, s, n
    <2>6. GoesOn(j, s) /\ Ready(s)
      BY <2>4, <2>5, MarkingAndAdding, MarksAndAdds DEF GoesOn
    <2>7. GoesOn(g, j)
      BY <2>2, <2>4, GoingOnKeeps
    <2>8. GoesOn(g, s)
      BY <2>6, <2>7, GoingOnKeeps
    <2> DEFINE p == PruneTiles(s)
    <2>9. s \in GridState /\ Backed(s)
      BY <2>6 DEF Ready, Placed, GoesOn
    <2>10. Backed(p) /\ Kept(s, p) /\ p \in GridState /\ p.tileZoom = e.mapZoom
      <3>1. s.tileZoom = e.mapZoom
        BY <2>4, <2>5, MarksAndAdds
      <3>2. QED
        BY <2>9, <3>1, PruningKeeps, Prunes DEF SameGrid
    <2> HIDE DEF p
    <2>11. n.tiles = p.tiles /\ n.tileZoom = e.mapZoom
      BY <2>1, <2>10 DEF GridState, p
    <2>12. Kept(g, p)
      BY <2>8, <2>10, GoingOnKeeps
    <2>13. Backed(n) /\ Kept(g, n)
      BY <2>10, <2>11, <2>12, SameTiles
    <2>14. QED
      BY <2>0, <2>11, <2>13 DEF n
  <1>4. QED
    BY <1>2, <1>3

(* Nor when the layer goes to the zoom of the map and is not to prune.     *)
LEMMA SettingKeeps ==
    ASSUME NEW g, Placed(g), Backed(g), NEW e, e.mapZoom \in Zooms, NEW center,
           NEW zoom \in Zooms, NEW noPrune \in BOOLEAN, NEW noUpdate \in BOOLEAN
    PROVE  LET n == GridSetView(g, e, center, zoom, noPrune, noUpdate) IN
           /\ Backed(n) /\ Kept(g, n)
           /\ noPrune /\ zoom = e.mapZoom =>
                 /\ GoesOn(g, n)
                 /\ g.tileZoom = zoom /\ ShowsAt(g, e, center) => NoneNew(g, n)
  <1> DEFINE k == UpdateLevels(AbortLoading([g EXCEPT !.tileZoom = zoom]))
             u == Update(k, e, center)
             p == IF noPrune THEN u ELSE PruneTiles(u)
             n == GridSetView(g, e, center, zoom, noPrune, noUpdate)
  <1>1. CASE noUpdate /\ zoom = g.tileZoom
    <2>1. n = g
      BY <1>1 DEF GridSetView
    <2> HIDE DEF n
    <2>2. GoesOn(g, n) /\ NoneNew(g, n) /\ Kept(g, n) /\ Backed(n)
      BY <2>1, SameTiles, GoingOnKeeps
    <2>3. QED
      BY <2>2 DEF n
  <1>2. CASE ~(noUpdate /\ zoom = g.tileZoom)
    <2>1. n = [p EXCEPT !.noPrune = noPrune]
      BY <1>2 DEF GridSetView
    <2>2. /\ Ready(k) /\ k.tileZoom = zoom
          /\ GoesOn(g, k) /\ NoneNew(g, k)
          /\ \A range : Shows(g, range, zoom) => Shows(k, range, zoom)
      BY TakesZoom, TakingGoesOn DEF Placed
    <2> HIDE DEF k, n
    <2>3. Backed(k)
      BY <2>2 DEF GoesOn
    <2>4. /\ Backed(u) /\ Kept(k, u) /\ u \in GridState
          /\ zoom = e.mapZoom =>
                 /\ GoesOn(k, u)
                 /\ ShowsAt(k, e, center) => NoneNew(k, u)
      BY <2>2, <2>3, Updates, UpdatingKeeps DEF Shown, Ready, Placed
    <2> HIDE DEF u
    <2>5. /\ p \in GridState /\ Backed(p) /\ Kept(u, p) /\ NoneNew(u, p)
          /\ noPrune => p = u
      BY <2>4, PruningKeeps, Prunes, SameTiles, GoingOnKeeps
    <2> HIDE DEF p
    <2>6. n.tiles = p.tiles
      BY <2>1, <2>5 DEF GridState
    <2>7. Kept(g, u)
      BY <2>2, <2>4, GoingOnKeeps
    <2>8. Kept(g, p)
      BY <2>5, <2>7, GoingOnKeeps
    <2>9. Backed(n) /\ Kept(g, n)
      BY <2>5, <2>6, <2>8, SameTiles
    <2>10. ASSUME noPrune, zoom = e.mapZoom
           PROVE  /\ GoesOn(g, n)
                  /\ g.tileZoom = zoom /\ ShowsAt(g, e, center) => NoneNew(g, n)
      <3>1. n.tiles = u.tiles
        BY <2>5, <2>6, <2>10
      <3>2. GoesOn(u, n) /\ NoneNew(u, n)
        BY <2>4, <3>1, SameTiles
      <3>3. GoesOn(g, u)
        BY <2>2, <2>4, <2>10, GoingOnKeeps
      <3>4. GoesOn(g, n)
        BY <3>2, <3>3, GoingOnKeeps
      <3>5. ASSUME g.tileZoom = zoom, ShowsAt(g, e, center) PROVE NoneNew(g, n)
        <4>1. ShowsAt(k, e, center)
          BY <2>2, <3>5 DEF ShowsAt
        <4>2. NoneNew(k, u)
          BY <2>4, <2>10, <4>1
        <4>3. NoneNew(g, u)
          BY <2>2, <4>2, GoingOnKeeps
        <4>4. QED
          BY <3>2, <4>3, GoingOnKeeps
      <3>6. QED
        BY <3>4, <3>5
    <2>11. QED
      BY <2>9, <2>10 DEF n
  <1>3. QED
    BY <1>1, <1>2

(* The whole view is there, unless an animation changes it.                *)
Full(g, m) ==
    g.onMap = "yes" /\ m.anim = Nowhere =>
        g.tileZoom = m.zoom /\ ShowsAt(g, Env(m), m.center)

(* Nothing has gone, or all that has gone was pruned for the view.         *)
Steady(b, g, m) == Backed(g) /\ (GoesOn(b, g) \/ (Kept(b, g) /\ Full(g, m)))

CalmTypes == {"move", "moveend", "zoomstart", "zoomend", "movestart", "resize"}

(* What is shown is the whole view of the map that is seen, and back.      *)
LEMMA ShownFull ==
    ASSUME NEW g, NEW n, NEW e, NEW m, Sees(e, m), Shown(g, n, e, m.center, m.zoom)
    PROVE  Full(n, m)
  <1>1. n.tileZoom = m.zoom /\ ShowsAt(n, e, m.center)
    BY DEF Shown, Sees
  <1>2. ShowsAt(n, Env(m), m.center)
    BY <1>1, SameRange DEF ShowsAt
  <1>3. QED
    BY <1>1, <1>2 DEF Full

LEMMA SeesFull ==
    ASSUME NEW g, NEW e, NEW m, Sees(e, m), Full(g, m), g.onMap = "yes", m.anim = Nowhere
    PROVE  g.tileZoom = e.mapZoom /\ ShowsAt(g, e, e.mapCenter)
  <1>1. g.tileZoom = m.zoom /\ ShowsAt(g, Env(m), m.center)
    BY DEF Full
  <1>2. ShowsAt(g, e, m.center)
    BY <1>1, SameRange DEF ShowsAt
  <1>3. QED
    BY <1>1, <1>2 DEF Sees

(* The lock hides nothing.                                                 *)
LEMMA LockHides ==
    ASSUME NEW g, GridSound(g), Backed(g), NEW m, NEW lock \in {"free", "locked", "again"}
    PROVE  LET n == [g EXCEPT !.lock = lock] IN
           /\ GoesOn(g, n) /\ NoneNew(g, n) /\ Backed(n)
           /\ Full(g, m) => Full(n, m)
           /\ \A b : Kept(b, g) => Kept(b, n)
  <1> DEFINE n == [g EXCEPT !.lock = lock]
  <1>1. n.tiles = g.tiles /\ n.onMap = g.onMap /\ n.tileZoom = g.tileZoom
    BY NotOnMap, LockKeeps
  <1>2. \A e, center : ShowsAt(g, e, center) => ShowsAt(n, e, center)
    BY LockStays
  <1> HIDE DEF n
  <1>3. GoesOn(g, n) /\ NoneNew(g, n) /\ Backed(n) /\ \A b : Kept(b, g) => Kept(b, n)
    BY <1>1, SameTiles
  <1>4. Full(g, m) => Full(n, m)
    BY <1>1, <1>2 DEF Full
  <1>5. QED
    BY <1>3, <1>4 DEF n

(* At the end of a movement the layer adds what is visible.                *)
LEMMA EndOfMoveGoesOn ==
    ASSUME NEW g, NEW m, NEW e, Near(g, m), Sees(e, m), e.mapZoom \in Zooms, Backed(g),
           g.onMap = "yes"
    PROVE  LET n == OnMoveEnd(g, e) IN
           /\ GoesOn(g, n)
           /\ Full(g, m) => NoneNew(g, n) /\ Full(n, m)
  <1> DEFINE n == OnMoveEnd(g, e)
             c == e.mapCenter
  <1>1. CASE e.anim # Nowhere
    <2>1. n = g
      BY <1>1 DEF OnMoveEnd
    <2> HIDE DEF n
    <2>2. QED
      BY <2>1, SameTiles DEF n
  <1>2. CASE e.anim = Nowhere
    <2>1. n = Update(g, e, c) /\ m.anim = Nowhere
      BY <1>2 DEF OnMoveEnd, Sees
    <2>2. g.tileZoom = e.mapZoom /\ g.tileZoom = m.zoom /\ Placed(g)
      BY <2>1, NotOnMap DEF Near, Sees
    <2>3. Ready(g)
      BY <2>2, ZoomIsThere DEF Ready
    <2> HIDE DEF n, c
    <2>4. GoesOn(g, n) /\ (ShowsAt(g, e, c) => NoneNew(g, n))
      BY <2>1, <2>2, <2>3, UpdatingKeeps
    <2>5. Shown(g, n, e, c, g.tileZoom)
      BY <2>1, <2>3, Updates
    <2>6. Full(n, m)
      <3>1. c = m.center
        BY DEF c, Sees
      <3>2. Shown(g, n, e, m.center, m.zoom)
        BY <2>2, <2>5, <3>1
      <3>3. QED
        BY <3>2, ShownFull
    <2>7. Full(g, m) => ShowsAt(g, e, c)
      BY <2>1, SeesFull DEF c
    <2>8. QED
      BY <2>4, <2>6, <2>7 DEF n
  <1>3. QED
    BY <1>1, <1>2

(* A layer that is near the map takes nothing away when it hears of a      *)
(* movement, and adds nothing to a view that is all there.                 *)
LEMMA HearingGoesOn ==
    ASSUME NEW g, NEW m, NEW e, Near(g, m), Sees(e, m), e.mapZoom \in Zooms, Backed(g),
           e.type \in CalmTypes
    PROVE  LET n == Handle(g, e) IN
           /\ GoesOn(g, n)
           /\ Full(g, m) => NoneNew(g, n) /\ Full(n, m)
  <1> DEFINE n == Handle(g, e)
  <1>0. GridSound(g)
    BY DEF Near
  <1>1. ASSUME n = g PROVE GoesOn(g, n) /\ (Full(g, m) => NoneNew(g, n) /\ Full(n, m))
    <2> HIDE DEF n
    <2>1. QED
      BY <1>1, SameTiles
  <1>2. CASE g.onMap # "yes"
    <2>1. n = g
      BY <1>2, OffMap DEF CalmTypes
    <2>2. QED
      BY <1>1, <2>1
  <1>3. CASE g.onMap = "yes" /\ e.type = "moveend"
    <2>1. n = OnMoveEnd(g, e)
      BY <1>3 DEF Handle
    <2> HIDE DEF n
    <2>2. GoesOn(g, n) /\ (Full(g, m) => NoneNew(g, n) /\ Full(n, m))
      BY <1>3, <2>1, EndOfMoveGoesOn
    <2>3. QED
      BY <2>2 DEF n
  <1>4. CASE g.onMap = "yes" /\ e.type = "move"
    <2>1. n = OnMove(g, e)
      BY <1>4 DEF Handle
    <2>2. CASE g.lock = "free"
      <3> DEFINE k == OnMoveEnd(g, e)
      <3>1. n = [k EXCEPT !.lock = "locked"]
        BY <2>1, <2>2 DEF OnMove
      <3>2. GoesOn(g, k) /\ (Full(g, m) => NoneNew(g, k) /\ Full(k, m)) /\ GridSound(k)
        BY <1>0, <1>4, EndOfMoveGoesOn, EndOfMove
      <3> HIDE DEF k, n
      <3>3. GoesOn(k, n) /\ NoneNew(k, n) /\ (Full(k, m) => Full(n, m))
        BY <3>1, <3>2, LockHides DEF GoesOn
      <3>4. GoesOn(g, n) /\ (Full(g, m) => NoneNew(g, n) /\ Full(n, m))
        BY <3>2, <3>3, GoingOnKeeps
      <3>5. QED
        BY <3>4 DEF n
    <2>3. CASE g.lock # "free"
      <3>1. n = [g EXCEPT !.lock = "again"]
        BY <2>1, <2>3 DEF OnMove
      <3> HIDE DEF n
      <3>2. GoesOn(g, n) /\ (Full(g, m) => NoneNew(g, n) /\ Full(n, m))
        BY <1>0, <3>1, LockHides
      <3>3. QED
        BY <3>2 DEF n
    <2>4. QED
      BY <2>2, <2>3
  <1>5. CASE e.type \in {"zoomstart", "zoomend", "movestart", "resize"}
    <2>1. n = g
      BY <1>5, Neutral
    <2>2. QED
      BY <1>1, <2>1
  <1>6. QED
    BY <1>2, <1>3, <1>4, <1>5 DEF CalmTypes

(* So it stays steady.                                                     *)
LEMMA HearingSteady ==
    ASSUME NEW b, NEW g, NEW m, NEW e, Near(g, m), Sees(e, m), e.mapZoom \in Zooms,
           e.type \in CalmTypes
    PROVE  LET n == Handle(g, e) IN
           /\ GoesOn(b, g) => GoesOn(b, n)
           /\ Steady(b, g, m) => Steady(b, n, m)
  <1> DEFINE n == Handle(g, e)
  <1>1. ASSUME Backed(g)
        PROVE  GoesOn(g, n) /\ (Full(g, m) => NoneNew(g, n) /\ Full(n, m))
    BY <1>1, HearingGoesOn
  <1> HIDE DEF n
  <1>2. GoesOn(b, g) => GoesOn(b, n)
    BY <1>1, GoingOnKeeps DEF GoesOn
  <1>3. ASSUME Steady(b, g, m) PROVE Steady(b, n, m)
    <2>1. Backed(g) /\ GoesOn(g, n) /\ Backed(n)
      BY <1>1, <1>3 DEF Steady, GoesOn
    <2>2. CASE GoesOn(b, g)
      BY <1>2, <2>1, <2>2 DEF Steady
    <2>3. CASE Kept(b, g) /\ Full(g, m)
      <3>1. Kept(g, n) /\ NoneNew(g, n) /\ Full(n, m)
        BY <1>1, <2>1, <2>3, GoingOnKeeps
      <3>2. Kept(b, n)
        BY <2>3, <3>1, GoingOnKeeps
      <3>3. QED
        BY <2>1, <3>1, <3>2 DEF Steady
    <2>4. QED
      BY <1>3, <2>2, <2>3 DEF Steady
  <1>4. QED
    BY <1>2, <1>3 DEF n

(* Even of a layer at another zoom than that of the map.                   *)
LEMMA LooseMoveSteady ==
    ASSUME NEW b, NEW g, NEW m, NEW e, GridSound(g), Sees(e, m), e.mapZoom \in Zooms,
           m.anim = Nowhere, GoesOn(b, g), e.type = "move"
    PROVE  Steady(b, Handle(g, e), m)
  <1> DEFINE n == Handle(g, e)
             k == OnMoveEnd(g, e)
             c == e.mapCenter
  <1>0. Backed(g)
    BY DEF GoesOn
  <1>1. CASE g.onMap # "yes"
    <2>1. n = g
      BY <1>1, OffMap
    <2> HIDE DEF n
    <2>2. Steady(b, n, m)
      BY <1>0, <2>1 DEF Steady
    <2>3. QED
      BY <2>2 DEF n
  <1>2. CASE g.onMap = "yes" /\ g.lock = "free"
    <2>1. n = [k EXCEPT !.lock = "locked"]
      BY <1>2 DEF Handle, OnMove
    <2>2. k = Update(g, e, c) /\ GridSound(k)
      BY <1>2, EndOfMove DEF OnMoveEnd, Sees
    <2> HIDE DEF k, n
    <2>3. Steady(b, k, m)
      <3>1. CASE g.tileZoom = Nowhere
        <4>1. k = g
          BY <2>2, <3>1 DEF Update
        <4>2. QED
          BY <1>0, <4>1 DEF Steady
      <3>2. CASE g.tileZoom # Nowhere
        <4>1. Ready(g)
          BY <1>2, <3>2, NotOnMap DEF Ready
        <4> HIDE DEF c
        <4>2. Backed(k) /\ Kept(g, k) /\ (GoesOn(g, k) \/ k.tileZoom = e.mapZoom)
          BY <1>0, <2>2, <4>1, UpdatingKeeps
        <4>3. Shown(g, k, e, c, g.tileZoom)
          BY <2>2, <4>1, Updates
        <4>4. CASE GoesOn(g, k)
          <5>1. GoesOn(b, k)
            BY <4>4, GoingOnKeeps
          <5>2. QED
            BY <4>2, <5>1 DEF Steady
        <4>5. CASE k.tileZoom = e.mapZoom
          <5>1. Shown(g, k, e, m.center, m.zoom)
            BY <4>3, <4>5 DEF Shown, Sees, c
          <5>2. Full(k, m)
            BY <5>1, ShownFull
          <5>3. Kept(b, k)
            BY <4>2, GoingOnKeeps
          <5>4. QED
            BY <4>2, <5>2, <5>3 DEF Steady
        <4>6. QED
          BY <4>2, <4>4, <4>5
      <3>3. QED
        BY <3>1, <3>2
    <2>4. Backed(k)
      BY <2>3 DEF Steady
    <2>5. /\ GoesOn(k, n) /\ Backed(n) /\ (Full(k, m) => Full(n, m))
          /\ Kept(b, k) => Kept(b, n)
      BY <2>1, <2>2, <2>4, LockHides
    <2>6. GoesOn(b, k) => GoesOn(b, n)
      BY <2>5, GoingOnKeeps
    <2>7. Steady(b, n, m)
      BY <2>3, <2>5, <2>6 DEF Steady
    <2>8. QED
      BY <2>7 DEF n
  <1>3. CASE g.onMap = "yes" /\ g.lock # "free"
    <2>1. n = [g EXCEPT !.lock = "again"]
      BY <1>3 DEF Handle, OnMove
    <2> HIDE DEF n
    <2>2. GoesOn(g, n) /\ Backed(n)
      BY <1>0, <2>1, LockHides
    <2>3. Steady(b, n, m)
      BY <2>2, GoingOnKeeps DEF Steady
    <2>4. QED
      BY <2>3 DEF n
  <1>4. QED
    BY <1>1, <1>2, <1>3

(* A zoom prunes, when it is not one of a flight, and then shows the view. *)
LEMMA ZoomSteady ==
    ASSUME NEW b, NEW g, NEW m, NEW e \in Event, GridSound(g), Sees(e, m),
           GoesOn(b, g), e.type = "zoom"
    PROVE  LET n == Handle(g, e) IN
           /\ Steady(b, n, m)
           /\ e.flyTo => GoesOn(b, n)
  <1> DEFINE n == Handle(g, e)
             c == e.mapCenter
             z == e.mapZoom
             u == e.flyTo
  <1>0. Backed(g) /\ z \in Zooms /\ u \in BOOLEAN
    BY EventParts DEF GoesOn
  <1>1. CASE g.onMap # "yes"
    <2>1. n = g
      BY <1>1, OffMap
    <2> HIDE DEF n
    <2>2. Steady(b, n, m) /\ GoesOn(b, n)
      BY <1>0, <2>1 DEF Steady
    <2>3. QED
      BY <2>2 DEF n
  <1>2. CASE g.onMap = "yes"
    <2>1. n = GridSetView(g, e, c, z, u, u)
      BY <1>2 DEF Handle, GridResetView
    <2>2. Placed(g)
      BY <1>2, NotOnMap
    <2> HIDE DEF n, c, u
    <2>3. /\ Backed(n) /\ Kept(g, n)
          /\ u => GoesOn(g, n)
      BY <1>0, <2>1, <2>2, SettingKeeps
    <2>4. \/ u /\ z = g.tileZoom /\ n = g
          \/ Shown(g, n, e, c, z)
      BY <1>0, <2>1, <2>2, SetsGridView
    <2>5. u => GoesOn(b, n)
      BY <2>3, GoingOnKeeps
    <2>6. CASE u
      BY <2>3, <2>5, <2>6 DEF Steady, n, u
    <2>7. CASE ~u
      <3>1. Shown(g, n, e, m.center, m.zoom)
        BY <2>4, <2>7 DEF Sees, c
      <3>2. Full(n, m)
        BY <3>1, ShownFull
      <3>3. Kept(b, n)
        BY <2>3, GoingOnKeeps
      <3>4. QED
        BY <2>3, <2>7, <3>2, <3>3 DEF Steady, n, u
    <2>8. QED
      BY <1>0, <2>6, <2>7
  <1>3. QED
    BY <1>1, <1>2

(* The beginning of a zoom animation, or of one that is over already.      *)
LEMMA ZoomAnimKeeps ==
    ASSUME NEW b, NEW g, NEW m, NEW e \in Event, GridSound(g), Sees(e, m),
           e.type = "zoomanim",
           \/ GoesOn(b, g)
           \/ Steady(b, g, m) /\ m.anim = Nowhere /\ m.zoom = e.zoom /\ m.center = e.center
    PROVE  Kept(b, Handle(g, e))
  <1> DEFINE n == Handle(g, e)
             c == e.center
             z == e.zoom
             u == e.flyTo
             yes == TRUE
  <1>0. Backed(g) /\ e.mapZoom \in Zooms /\ z \in Zooms /\ u \in BOOLEAN /\ yes \in BOOLEAN
    BY EventParts DEF GoesOn, Steady
  <1>1. CASE g.onMap # "yes"
    <2>1. n = g
      BY <1>1, OffMap
    <2> HIDE DEF n
    <2>2. Kept(b, g)
      BY GoingOnKeeps DEF Steady
    <2>3. QED
      BY <2>1, <2>2 DEF n
  <1>2. CASE g.onMap = "yes"
    <2>1. n = GridSetView(g, e, c, z, yes, u)
      BY <1>2 DEF Handle
    <2>2. Placed(g)
      BY <1>2, NotOnMap
    <2>u. yes
      OBVIOUS
    <2> HIDE DEF n, c, z, u, yes
    <2>3. /\ Kept(g, n)
          /\ z = e.mapZoom =>
                /\ GoesOn(g, n)
                /\ g.tileZoom = z /\ ShowsAt(g, e, c) => NoneNew(g, n)
      BY <1>0, <2>1, <2>2, <2>u, SettingKeeps
    <2>4. CASE GoesOn(b, g)
      <3>1. Kept(b, n)
        BY <2>3, <2>4, GoingOnKeeps
      <3>2. QED
        BY <3>1 DEF n
    <2>5. CASE /\ Kept(b, g) /\ Full(g, m) /\ m.anim = Nowhere
               /\ m.zoom = z /\ m.center = c
      <3>1. g.tileZoom = e.mapZoom /\ ShowsAt(g, e, e.mapCenter)
        BY <1>2, <2>5, SeesFull
      <3>2. e.mapZoom = z /\ e.mapCenter = c
        BY <2>5 DEF Sees
      <3>3. NoneNew(g, n)
        BY <2>3, <3>1, <3>2
      <3>4. Kept(b, n)
        BY <2>3, <2>5, <3>3, GoingOnKeeps
      <3>5. QED
        BY <3>4 DEF n
    <2>6. QED
      BY <2>4, <2>5 DEF Steady, c, z
  <1>3. QED
    BY <1>1, <1>2

(* What was active has an image, whatever the layer hears.                 *)
LEMMA UpdatingBacks ==
    ASSUME NEW g, Placed(g), Backed(g), NEW e, e.mapZoom \in Zooms, NEW center
    PROVE  Backed(Update(g, e, center))
  <1>1. CASE g.tileZoom = Nowhere
    BY <1>1 DEF Update
  <1>2. CASE g.tileZoom # Nowhere
    BY <1>2, UpdatingKeeps DEF Ready
  <1>3. QED
    BY <1>1, <1>2

(* The same of a view set again, of a layer that comes to the map, and of  *)
(* all that a layer hears.                                                 *)
LEMMA ResettingBacks ==
    ASSUME NEW g, Placed(g), Backed(g), NEW e, e.mapZoom \in Zooms, NEW flight \in BOOLEAN
    PROVE  Backed(GridResetView(g, e, flight))
  <1> DEFINE c == e.mapCenter
             z == e.mapZoom
  <1>1. GridResetView(g, e, flight) = GridSetView(g, e, c, z, flight, flight) /\ z \in Zooms
    BY DEF GridResetView
  <1> HIDE DEF c, z
  <1>2. QED
    BY <1>1, SettingKeeps

LEMMA ComingBacks ==
    ASSUME NEW g, Bare(g), NEW e, e.mapZoom \in Zooms
    PROVE  Backed(OnAdd(g, e))
  <1> DEFINE h == [g EXCEPT !.onMap = "yes", !.levels = {}, !.tiles = <<>>]
             no == FALSE
             r == GridResetView(h, e, no)
  <1>1. Placed(h) /\ Backed(h) /\ no \in BOOLEAN
    BY Comes DEF Backed
  <1>2. OnAdd(g, e) = Update(r, e, e.mapCenter)
    BY DEF OnAdd
  <1> HIDE DEF h, no
  <1>3. Placed(r) /\ Backed(r)
    BY <1>1, ResetsGrid, ResettingBacks
  <1> HIDE DEF r
  <1>4. QED
    BY <1>2, <1>3, UpdatingBacks

LEMMA EndOfMoveBacks ==
    ASSUME NEW g, Placed(g), Backed(g), NEW e, e.mapZoom \in Zooms
    PROVE  Backed(OnMoveEnd(g, e))
  BY UpdatingBacks DEF OnMoveEnd

LEMMA HandleBacks ==
    ASSUME NEW g, GridSound(g), Backed(g), NEW e \in Event
    PROVE  Backed(Handle(g, e))
  <1>0. e.mapZoom \in Zooms /\ e.zoom \in Zooms /\ e.flyTo \in BOOLEAN
    BY EventParts
  <1>1. CASE g.onMap # "yes"
    <2>1. Bare(g)
      BY <1>1, NotOnMap
    <2>2. Handle(g, e) \in {g, OnAdd(g, e)}
      BY <1>1, OffMap
    <2>3. QED
      BY <1>0, <2>1, <2>2, ComingBacks
  <1>2. CASE g.onMap = "yes"
    <2>0. Placed(g)
      BY <1>2, NotOnMap
    <2> DEFINE n == Handle(g, e)
    <2>1. CASE e.type = "viewprereset"
      <3> DEFINE h == [g EXCEPT !.levels = {}]
                 k == RemoveAllTiles(h)
      <3>1. n = [k EXCEPT !.tileZoom = Nowhere]
        BY <1>2, <2>1 DEF Handle, InvalidateAll
      <3>2. h \in GridState
        BY <2>0 DEF Placed, GridState
      <3> HIDE DEF h
      <3>3. k \in GridState /\ DOMAIN k.tiles = {}
        BY <3>2, Empties
      <3> HIDE DEF k, n
      <3>4. n.tiles = k.tiles
        BY <3>1, <3>3, ZoomKeeps
      <3>5. Backed(n)
        BY <3>3, <3>4 DEF Backed
      <3>6. QED
        BY <3>5 DEF n
    <2>2. CASE e.type \in {"viewreset", "zoom"}
      <3> DEFINE u == IF e.type = "zoom" THEN e.flyTo ELSE FALSE
      <3>1. n = GridResetView(g, e, u)
        BY <1>2, <2>2 DEF Handle
      <3>2. u \in BOOLEAN
        BY <1>0
      <3> HIDE DEF u, n
      <3>3. Backed(n)
        BY <1>0, <2>0, <3>1, <3>2, ResettingBacks
      <3>4. QED
        BY <3>3 DEF n
    <2>4. CASE e.type = "move"
      <3> DEFINE k == OnMoveEnd(g, e)
      <3>1. CASE g.lock = "free"
        <4>1. n = [k EXCEPT !.lock = "locked"]
          BY <1>2, <2>4, <3>1 DEF Handle, OnMove
        <4>2. Backed(k) /\ GridSound(k)
          BY <1>0, <2>0, EndOfMoveBacks, EndOfMove
        <4> HIDE DEF n, k
        <4>3. Backed(n)
          BY <4>1, <4>2, LockHides
        <4>4. QED
          BY <4>3 DEF n
      <3>2. CASE g.lock # "free"
        <4>1. n = [g EXCEPT !.lock = "again"]
          BY <1>2, <2>4, <3>2 DEF Handle, OnMove
        <4> HIDE DEF n
        <4>2. Backed(n)
          BY <4>1, LockHides
        <4>3. QED
          BY <4>2 DEF n
      <3>3. QED
        BY <3>1, <3>2
    <2>5. CASE e.type = "moveend"
      <3>1. n = OnMoveEnd(g, e)
        BY <1>2, <2>5 DEF Handle
      <3>2. QED
        BY <1>0, <2>0, <3>1, EndOfMoveBacks
    <2>6. CASE e.type = "zoomanim"
      <3> DEFINE c == e.center
                 z == e.zoom
                 yes == TRUE
                 u == e.flyTo
      <3>1. n = GridSetView(g, e, c, z, yes, u) /\ yes \in BOOLEAN /\ u \in BOOLEAN /\ z \in Zooms
        BY <1>0, <1>2, <2>6 DEF Handle
      <3> HIDE DEF n, c, z, yes, u
      <3>2. Backed(n)
        BY <1>0, <2>0, <3>1, SettingKeeps
      <3>3. QED
        BY <3>2 DEF n
    <2>7. CASE e.type \notin {"viewprereset", "viewreset", "zoom", "move", "moveend", "zoomanim"}
      <3>1. n = g
        BY <1>2, <2>7 DEF Handle
      <3>2. QED
        BY <3>1
    <2>8. QED
      BY <2>1, <2>2, <2>4, <2>5, <2>6, <2>7
  <1>3. QED
    BY <1>1, <1>2

LEMMA HeardBacks ==
    ASSUME NEW b, GridSound(b), Backed(b), NEW s \in Seq(Event)
    PROVE  Backed(Heard(b, s))
  <1>1. PICK h : Hears(h, b, s) /\ Heard(b, s) = h[1..Len(s)]
    BY HeardInTurn
  <1> DEFINE P == {i \in Nat : i <= Len(s) => GridSound(h[1..i]) /\ Backed(h[1..i])}
  <1>2. 0 \in P
    <2>1. 1..0 = {}
      OBVIOUS
    <2>2. QED
      BY <1>1, <2>1 DEF Hears
  <1>3. ASSUME NEW i \in Nat, i \in P PROVE i + 1 \in P
    <2>1. ASSUME i + 1 <= Len(s) PROVE GridSound(h[1..(i + 1)]) /\ Backed(h[1..(i + 1)])
      <3>1. i + 1 \in 1..Len(s) /\ (i + 1) - 1 = i /\ i <= Len(s)
        BY <2>1, LenProperties
      <3>2. h[1..(i + 1)] = Handle(h[1..i], s[i + 1])
        BY <1>1, <3>1 DEF Hears
      <3>3. s[i + 1] \in Event
        BY <3>1, ElementOfSeq
      <3>4. GridSound(h[1..i]) /\ Backed(h[1..i])
        BY <1>3, <3>1
      <3>5. QED
        BY <3>2, <3>3, <3>4, HandlesSound, HandleBacks
    <2>2. QED
      BY <2>1
  <1>4. Nat \subseteq P
    <2> HIDE DEF P
    <2>1. QED
      BY <1>2, <1>3, AllNumbers
  <1>5. QED
    BY <1>1, <1>4, LenProperties

-----------------------------------------------------------------------------
(* Everything was thrown away.                                             *)
Reset(m) == \E i \in DOMAIN m.fired : m.fired[i].type = "viewprereset"

(* No active tile has gone so far.                                         *)
On(m) == GoesOn(grid, Grid(m))

Spared(m) == Reset(m) \/ On(m)

Steadied(m) == Steady(grid, Grid(m), m)

(* What the theorem says of the end of a step.                             *)
AllSettled(m) == Reset(m) \/ Kept(grid, Grid(m))

(* The first two are enough for the last.                                  *)
LEMMA Settles ==
    ASSUME NEW m
    PROVE  /\ Spared(m) => AllSettled(m)
           /\ Steadied(m) => AllSettled(m)
           /\ On(m) => Spared(m) /\ Steadied(m)
  BY GoingOnKeeps DEF Spared, AllSettled, Steadied, Steady, On, GoesOn

(* The same has been told.                                                 *)
LEMMA SameTold ==
    ASSUME NEW m, NEW n, n.fired = m.fired
    PROVE  /\ Grid(n) = Grid(m)
           /\ On(n) <=> On(m)
           /\ Spared(n) <=> Spared(m)
           /\ AllSettled(n) <=> AllSettled(m)
  BY DEF Grid, On, Reset, Spared, AllSettled

(* What was told is told after another event, too.                         *)
LEMMA FiresReset ==
    ASSUME NEW m \in MapState, NEW type \in EventTypes,
           NEW center \in Nat, NEW zoom \in Zooms, NEW flight \in BOOLEAN
    PROVE  LET n == FireData(m, type, center, zoom, flight) IN
           Reset(m) \/ type = "viewprereset" => Reset(n)
  <1> DEFINE n == FireData(m, type, center, zoom, flight)
             e == [type |-> type, center |-> center, zoom |-> zoom,
                   mapZoom |-> m.zoom, mapCenter |-> m.center,
                   anim |-> m.anim, size |-> m.size, flyTo |-> flight]
  <1>1. m.fired \in Seq(Event) /\ n.fired = Append(m.fired, e) /\ e.type = type
    BY DEF MapState, FireData
  <1>2. e \in Event
    BY DEF MapState, Event
  <1> HIDE DEF n, e
  <1>3. /\ Len(n.fired) = Len(m.fired) + 1 /\ Len(m.fired) \in Nat
        /\ \A i \in 1..Len(m.fired) : n.fired[i] = m.fired[i]
        /\ n.fired[Len(m.fired) + 1] = e
        /\ n.fired \in Seq(Event)
    BY <1>1, <1>2, AppendProperties, LenProperties
  <1>4. DOMAIN n.fired = 1..Len(n.fired) /\ DOMAIN m.fired = 1..Len(m.fired)
    BY <1>1, <1>3, LenProperties
  <1>5. CASE Reset(m)
    <2>1. PICK i \in DOMAIN m.fired : m.fired[i].type = "viewprereset"
      BY <1>5 DEF Reset
    <2>2. i \in DOMAIN n.fired /\ n.fired[i] = m.fired[i]
      BY <1>3, <1>4
    <2>3. Reset(n)
      BY <2>1, <2>2 DEF Reset
    <2>4. QED
      BY <2>3 DEF n
  <1>6. CASE type = "viewprereset"
    <2>1. Len(m.fired) + 1 \in DOMAIN n.fired
      BY <1>3, <1>4
    <2>2. Reset(n)
      BY <1>1, <1>3, <1>6, <2>1 DEF Reset
    <2>3. QED
      BY <2>2 DEF n
  <1>7. QED
    BY <1>5, <1>6

(* A change that the layer neither reads nor hears of.                     *)
LEMMA SteadyUnheard ==
    ASSUME NEW m, NEW n, SameSeen(m, n), n.fired = m.fired
    PROVE  Steadied(m) => Steadied(n)
  <1>1. Env(m) = Env(n)
    BY DEF Env, SameSeen
  <1>2. \A g : Full(g, m) <=> Full(g, n)
    BY <1>1 DEF Full, SameSeen
  <1>3. QED
    BY <1>2, SameTold DEF Steadied, Steady

(* An event of a movement spares what was spared.                          *)
LEMMA FiresOn ==
    ASSUME GridSound(grid), NEW m, NearlyLinked(m), NEW type \in CalmTypes,
           NEW center \in Nat, NEW zoom \in Zooms, NEW flight \in BOOLEAN
    PROVE  LET n == FireData(m, type, center, zoom, flight) IN
           /\ On(m) => On(n)
           /\ Spared(m) => Spared(n)
           /\ Steadied(m) => Steadied(n)
  <1> DEFINE n == FireData(m, type, center, zoom, flight)
  <1>1. m \in MapState /\ Near(Grid(m), m) /\ type \in EventTypes
    BY DEF NearlyLinked, CalmTypes, EventTypes
  <1>2. n \in MapState /\ SameSeen(m, n)
    BY <1>1, IsHeard
  <1>3. PICK e \in Event : /\ e.type = type /\ e.mapZoom \in Zooms /\ Sees(e, m)
                           /\ Sees(e, n) /\ Grid(n) = Handle(Grid(m), e)
    <2>1. \E e \in Event : /\ e.type = type /\ e.mapZoom \in Zooms /\ Sees(e, m)
                           /\ Sees(e, n) /\ Grid(n) = Handle(Grid(m), e)
      BY <1>1, IsHeard
    <2> HIDE DEF n
    <2>2. QED
      BY <2>1
  <1>4. Reset(m) => Reset(n)
    BY <1>1, FiresReset
  <1> HIDE DEF n
  <1>5. /\ GoesOn(grid, Grid(m)) => GoesOn(grid, Grid(n))
        /\ Steady(grid, Grid(m), m) => Steady(grid, Grid(n), m)
    BY <1>1, <1>3, HearingSteady
  <1>6. \A g : Full(g, m) <=> Full(g, n)
    <2>1. Env(m) = Env(n)
      BY <1>2 DEF Env, SameSeen
    <2>2. QED
      BY <1>2, <2>1 DEF Full, SameSeen
  <1>7. QED
    BY <1>4, <1>5, <1>6 DEF On, Spared, Steadied, Steady, n

LEMMA EmitsOn ==
    ASSUME GridSound(grid), NEW m, NearlyLinked(m), NEW type \in CalmTypes
    PROVE  LET n == Emit(m, type) IN
           /\ On(m) => On(n)
           /\ Spared(m) => Spared(n)
           /\ Steadied(m) => Steadied(n)
  <1> DEFINE n == Emit(m, type)
             no == FALSE
  <1>1. m.center \in Nat /\ m.zoom \in Zooms /\ no \in BOOLEAN
    BY DEF NearlyLinked, MapState
  <1>2. n = FireData(m, type, m.center, m.zoom, no)
    BY DEF Emit
  <1> HIDE DEF n, no
  <1>3. (On(m) => On(n)) /\ (Spared(m) => Spared(n)) /\ (Steadied(m) => Steadied(n))
    BY <1>1, <1>2, FiresOn
  <1>4. QED
    BY <1>3 DEF n

(* The operators of the map, one after the other, spare what is active.    *)
LEMMA StartsOn ==
    ASSUME GridSound(grid), NEW m, Linked(m), NEW changed \in BOOLEAN,
           NEW silent \in BOOLEAN
    PROVE  LET n == MoveStart(m, changed, silent) IN
           (On(m) => On(n)) /\ (Spared(m) => Spared(n))
  <1> DEFINE k == IF changed THEN Emit(m, "zoomstart") ELSE m
             n == MoveStart(m, changed, silent)
  <1>0. /\ "zoomstart" \in CalmTypes /\ "movestart" \in CalmTypes
        /\ NearlyLinked(m) /\ m \in MapState
    BY LinkedParts DEF CalmTypes
  <1>1. Linked(k) /\ (On(m) => On(k)) /\ (Spared(m) => Spared(k))
    <2>1. CASE changed
      BY <1>0, <2>1, EmitsLinked, EmitsOn
    <2>2. CASE ~changed
      BY <2>2
    <2>3. QED
      BY <2>1, <2>2
  <1>2. n = IF silent THEN k ELSE Emit(k, "movestart")
    BY DEF MoveStart
  <1> HIDE DEF k, n
  <1>3. CASE silent
    BY <1>1, <1>2, <1>3 DEF n
  <1>4. CASE ~silent
    <2>1. NearlyLinked(k)
      BY <1>1, LinkedParts
    <2>2. (On(k) => On(n)) /\ (Spared(k) => Spared(n))
      BY <1>0, <1>2, <1>4, <2>1, EmitsOn
    <2>3. QED
      BY <1>1, <2>2 DEF n
  <1>5. QED
    BY <1>3, <1>4

(* Whatever comes after a reset, it has been told.                         *)
LEMMA EmitsAfterReset ==
    ASSUME NEW m \in MapState, NEW type \in EventTypes
    PROVE  LET n == Emit(m, type) IN
           n \in MapState /\ (Reset(m) \/ type = "viewprereset" => Reset(n))
  <1> DEFINE n == Emit(m, type)
             no == FALSE
  <1>1. n = FireData(m, type, m.center, m.zoom, no) /\ no \in BOOLEAN
    BY DEF Emit
  <1>2. m.center \in Nat /\ m.zoom \in Zooms
    BY DEF MapState
  <1> HIDE DEF n, no
  <1>3. n \in MapState /\ (Reset(m) \/ type = "viewprereset" => Reset(n))
    BY <1>1, <1>2, Fires, FiresReset
  <1>4. QED
    BY <1>3 DEF n

LEMMA StartsAfterReset ==
    ASSUME NEW m \in MapState, Reset(m), NEW changed \in BOOLEAN, NEW silent \in BOOLEAN
    PROVE  LET n == MoveStart(m, changed, silent) IN n \in MapState /\ Reset(n)
  <1> DEFINE k == IF changed THEN Emit(m, "zoomstart") ELSE m
  <1>0. "zoomstart" \in EventTypes /\ "movestart" \in EventTypes
    BY DEF EventTypes
  <1>1. k \in MapState /\ Reset(k)
    BY <1>0, EmitsAfterReset
  <1>2. MoveStart(m, changed, silent) = IF silent THEN k ELSE Emit(k, "movestart")
    BY DEF MoveStart
  <1> HIDE DEF k
  <1>3. QED
    BY <1>0, <1>1, <1>2, EmitsAfterReset

LEMMA EndsAfterReset ==
    ASSUME NEW m \in MapState, Reset(m), NEW changed \in BOOLEAN
    PROVE  LET n == MoveEnd(m, changed) IN n \in MapState /\ Reset(n)
  <1> DEFINE k == IF changed THEN Emit(m, "zoomend") ELSE m
  <1>0. "zoomend" \in EventTypes /\ "moveend" \in EventTypes
    BY DEF EventTypes
  <1>1. k \in MapState /\ Reset(k)
    BY <1>0, EmitsAfterReset
  <1>2. MoveEnd(m, changed) = Emit(k, "moveend")
    BY DEF MoveEnd
  <1> HIDE DEF k
  <1>3. QED
    BY <1>0, <1>1, <1>2, EmitsAfterReset

LEMMA MovesAfterReset ==
    ASSUME NEW m \in MapState, Reset(m), NEW center \in Nat, NEW zoom \in Zooms,
           NEW flight \in BOOLEAN
    PROVE  LET n == Move(m, center, zoom, flight) IN n \in MapState /\ Reset(n)
  <1> DEFINE j == [m EXCEPT !.zoom = zoom, !.center = center]
             k == IF zoom # m.zoom THEN FireData(j, "zoom", center, zoom, flight)
                                   ELSE j
  <1>0. "zoom" \in EventTypes /\ "move" \in EventTypes
    BY DEF EventTypes
  <1>1. j \in MapState /\ j.fired = m.fired
    BY DEF MapState
  <1>2. Move(m, center, zoom, flight) = FireData(k, "move", center, zoom, flight)
    BY DEF Move
  <1> HIDE DEF j
  <1>3. Reset(j)
    BY <1>1 DEF Reset
  <1>4. k \in MapState /\ Reset(k)
    BY <1>0, <1>1, <1>3, Fires, FiresReset
  <1> HIDE DEF k
  <1>5. QED
    BY <1>0, <1>2, <1>4, Fires, FiresReset

LEMMA ResetsReset ==
    ASSUME NEW m \in MapState, NEW center \in Nat, NEW zoom \in Zooms
    PROVE  Reset(ResetView(m, center, zoom))
  <1> DEFINE changed == m.zoom # zoom
             no == FALSE
             l == [m EXCEPT !.loaded = TRUE]
             a == Emit(l, "viewprereset")
             b == MoveStart(a, changed, no)
             c == Move(b, center, zoom, no)
             d == MoveEnd(c, changed)
             e == Emit(d, "viewreset")
             f == Emit(e, "load")
             n == ResetView(m, center, zoom)
  <1>0. /\ {"viewprereset", "viewreset", "load"} \subseteq EventTypes
        /\ no \in BOOLEAN /\ changed \in BOOLEAN
    BY DEF EventTypes
  <1>1. n = IF m.loaded THEN e ELSE f
    BY DEF ResetView
  <1>2. l \in MapState
    BY DEF MapState
  <1> HIDE DEF l, changed, n, no
  <1>3. a \in MapState /\ Reset(a)
    BY <1>0, <1>2, EmitsAfterReset
  <1> HIDE DEF a
  <1>4. b \in MapState /\ Reset(b)
    BY <1>0, <1>3, StartsAfterReset
  <1> HIDE DEF b
  <1>5. c \in MapState /\ Reset(c)
    BY <1>0, <1>4, MovesAfterReset
  <1> HIDE DEF c
  <1>6. d \in MapState /\ Reset(d)
    BY <1>0, <1>5, EndsAfterReset
  <1> HIDE DEF d
  <1>7. e \in MapState /\ Reset(e)
    BY <1>0, <1>6, EmitsAfterReset
  <1> HIDE DEF e
  <1>8. Reset(f)
    BY <1>0, <1>7, EmitsAfterReset
  <1>9. QED
    BY <1>1, <1>7, <1>8 DEF n

LEMMA RunsOn ==
    ASSUME GridSound(grid), NEW m, Linked(m), Spared(m), NEW center \in Nat
    PROVE  Spared(RunFrame(m, center))
  <1> DEFINE k == [m EXCEPT !.center = center]
  <1>1. /\ k \in MapState /\ k.zoom = m.zoom /\ k.loaded = m.loaded
        /\ k.anim = m.anim /\ k.fired = m.fired
    BY DEF Linked, MapState
  <1>2. RunFrame(m, center) = Emit(k, "move") /\ "move" \in CalmTypes
    BY DEF RunFrame, CalmTypes
  <1> HIDE DEF k
  <1>3. NearlyLinked(k)
    BY <1>1 DEF NearlyLinked, Linked, Follows, Near, Grid
  <1>4. Spared(k)
    BY <1>1, SameTold
  <1>5. QED
    BY <1>2, <1>3, <1>4, EmitsOn

LEMMA CompletesOn ==
    ASSUME GridSound(grid), NEW m, Linked(m), Spared(m)
    PROVE  Spared(Complete(m))
  <1> DEFINE k == [m EXCEPT !.pan = Nowhere]
  <1>1. m \in MapState /\ NearlyLinked(m)
    BY LinkedParts
  <1>2. k \in MapState /\ SameSeen(m, k) /\ k.fired = m.fired
    BY <1>1 DEF MapState, SameSeen
  <1>3. Complete(m) = Emit(k, "moveend") /\ "moveend" \in CalmTypes
    BY DEF Complete, CalmTypes
  <1> HIDE DEF k
  <1>4. NearlyLinked(k) /\ Spared(k)
    BY <1>1, <1>2, Unheard, SameTold
  <1>5. QED
    BY <1>3, <1>4, EmitsOn

LEMMA StopsPanOn ==
    ASSUME GridSound(grid), NEW m, Linked(m), Spared(m), NEW n \in StopPan(m)
    PROVE  Spared(n)
  <1>0. m \in MapState
    BY DEF Linked
  <1>1. CASE m.pan = Nowhere
    BY <1>1 DEF StopPan
  <1>2. CASE m.pan # Nowhere
    <2>1. m.pan \in Nat /\ m.center \in Nat
      BY <1>0, <1>2 DEF MapState
    <2>2. PICK c \in Nat : LET k == Complete(RunFrame(m, c)) IN
                           n = k \/ n = Complete(k)
      BY <1>2, <2>1 DEF StopPan
    <2> DEFINE j == RunFrame(m, c)
               k == Complete(j)
    <2>3. Linked(j) /\ Spared(j)
      BY RunsLinked, RunsOn
    <2>4. n = k \/ n = Complete(k)
      BY <2>2
    <2> HIDE DEF j
    <2>5. Linked(k) /\ Spared(k)
      BY <2>3, CompletesLinked, CompletesOn
    <2> HIDE DEF k
    <2>6. QED
      BY <2>4, <2>5, CompletesOn
  <1>3. QED
    BY <1>1, <1>2

LEMMA StopsOn ==
    ASSUME GridSound(grid), NEW m, Linked(m), Spared(m), NEW n \in Stop(m)
    PROVE  Spared(n)
  <1> DEFINE cut == m.flightCut \/ m.fly # Nowhere
             k == [m EXCEPT !.fly = Nowhere, !.flightCut = cut]
  <1>0. m \in MapState
    BY DEF Linked
  <1>1. k \in MapState /\ SameSeen(m, k) /\ k.fired = m.fired
    <2>1. cut \in BOOLEAN
      BY <1>0 DEF MapState
    <2> HIDE DEF cut
    <2>2. QED
      BY <1>0, <2>1 DEF MapState, SameSeen
  <1>2. n \in StopPan(k)
    BY DEF Stop
  <1> HIDE DEF k
  <1>3. Linked(k) /\ Spared(k)
    BY <1>0, <1>1, Unheard, SameTold
  <1>4. QED
    BY <1>2, <1>3, StopsPanOn

LEMMA PansOn ==
    ASSUME GridSound(grid), NEW m, Linked(m), Spared(m), NEW center \in Nat,
           NEW n \in PanBy(m, center)
    PROVE  Spared(n)
  <1>0. /\ m \in MapState /\ m.zoom \in Zooms /\ NearlyLinked(m)
        /\ "moveend" \in CalmTypes /\ "movestart" \in CalmTypes
    BY LinkedParts DEF CalmTypes
  <1>1. CASE n = Emit(m, "moveend")
    BY <1>0, <1>1, EmitsOn
  <1>2. CASE n = ResetView(m, center, m.zoom)
    BY <1>0, <1>2, ResetsReset DEF Spared
  <1>3. ASSUME NEW k \in StopPan(Emit(m, "movestart")),
               n = [k EXCEPT !.pan = center]
        PROVE  Spared(n)
    <2> DEFINE j == Emit(m, "movestart")
    <2>1. Linked(j) /\ Spared(j)
      BY <1>0, EmitsLinked, EmitsOn
    <2> HIDE DEF j
    <2>2. Linked(k) /\ Spared(k)
      BY <2>1, StopsPanLinked, StopsPanOn DEF j
    <2>3. n.fired = k.fired
      BY <1>3, <2>2, LinkedParts DEF MapState
    <2>4. QED
      BY <2>2, <2>3, SameTold
  <1>4. \/ n = Emit(m, "moveend")
        \/ n = ResetView(m, center, m.zoom)
        \/ \E k \in StopPan(Emit(m, "movestart")) : n = [k EXCEPT !.pan = center]
    BY DEF PanBy
  <1>5. QED
    BY <1>1, <1>2, <1>3, <1>4

LEMMA SetsViewOn ==
    ASSUME GridSound(grid), NEW m, Linked(m), Spared(m), NEW center \in Nat,
           NEW zoom \in Zooms, NEW reset \in BOOLEAN, NEW r \in SetView(m, center, zoom, reset)
    PROVE  Spared(r)
  <1>2. PICK n \in Stop(m) :
          LET clear == [n EXCEPT !.sizeTimer = FALSE] IN
          \/ r = ResetView(n, center, zoom)
          \/ \E p \in PanBy(n, center) : r = [p EXCEPT !.sizeTimer = FALSE]
          \/ /\ n.loaded /\ zoom # n.zoom
             /\ r = TryAnimatedZoom(clear, center, zoom)
    BY DEF SetView
  <1>3. Linked(n) /\ n \in MapState /\ Spared(n)
    BY StopsLinked, StopsOn DEF Linked
  <1>4. CASE r = ResetView(n, center, zoom)
    BY <1>3, <1>4, ResetsReset DEF Spared
  <1>5. ASSUME NEW p \in PanBy(n, center), r = [p EXCEPT !.sizeTimer = FALSE]
        PROVE  Spared(r)
    <2>1. Linked(p) /\ Spared(p)
      BY <1>3, PansLinked, PansOn
    <2>2. r.fired = p.fired
      BY <1>5, <2>1, LinkedParts DEF MapState
    <2>3. QED
      BY <2>1, <2>2, SameTold
  <1>6. ASSUME r = TryAnimatedZoom([n EXCEPT !.sizeTimer = FALSE], center, zoom)
        PROVE  Spared(r)
    <2>1. r.fired = n.fired
      BY <1>3, <1>6 DEF TryAnimatedZoom, RequestFrame, MapState
    <2>2. QED
      BY <1>3, <2>1, SameTold
  <1>7. QED
    BY <1>2, <1>3, <1>4, <1>5, <1>6

(* The end of a movement comes after what was pruned.                      *)
LEMMA EndsOn ==
    ASSUME GridSound(grid), NEW m, Linked(m), NEW changed \in BOOLEAN
    PROVE  LET n == MoveEnd(m, changed) IN
           (Spared(m) => Spared(n)) /\ (Steadied(m) => Steadied(n))
  <1> DEFINE k == IF changed THEN Emit(m, "zoomend") ELSE m
             n == MoveEnd(m, changed)
  <1>0. /\ m \in MapState /\ NearlyLinked(m)
        /\ "zoomend" \in CalmTypes /\ "moveend" \in CalmTypes
    BY LinkedParts DEF CalmTypes
  <1>1. Linked(k) /\ (Spared(m) => Spared(k)) /\ (Steadied(m) => Steadied(k))
    <2>1. CASE changed
      BY <1>0, <2>1, EmitsLinked, EmitsOn
    <2>2. CASE ~changed
      BY <2>2
    <2>3. QED
      BY <2>1, <2>2
  <1>2. n = Emit(k, "moveend")
    BY DEF MoveEnd
  <1> HIDE DEF k, n
  <1>3. NearlyLinked(k)
    BY <1>1, LinkedParts
  <1>4. (Spared(k) => Spared(n)) /\ (Steadied(k) => Steadied(n))
    BY <1>0, <1>2, <1>3, EmitsOn
  <1>5. QED
    BY <1>1, <1>4 DEF n

(* A move takes nothing away but what it prunes for the view, and in a     *)
(* flight nothing.                                                         *)
LEMMA MovesSteady ==
    ASSUME GridSound(grid), NEW m, LooselyLinked(m), On(m), NEW center \in Nat,
           NEW zoom \in Zooms, NEW flight \in BOOLEAN,
           m.anim = Nowhere \/ FitsZoom(m, zoom)
    PROVE  LET n == Move(m, center, zoom, flight) IN
           Steadied(n) /\ (flight /\ FitsZoom(m, zoom) => On(n))
  <1> DEFINE j == [m EXCEPT !.zoom = zoom, !.center = center]
             k == IF zoom # m.zoom THEN FireData(j, "zoom", center, zoom, flight)
                                   ELSE j
             n == Move(m, center, zoom, flight)
  <1>0. m \in MapState /\ NeedsView(Grid(m), m) /\ "move" \in CalmTypes
    BY DEF LooselyLinked, CalmTypes
  <1>1. /\ j \in MapState /\ j.loaded = m.loaded /\ j.zoom = zoom /\ j.center = center
        /\ j.anim = m.anim /\ j.fired = m.fired /\ j.size = m.size
    BY <1>0 DEF MapState
  <1>2. n = FireData(k, "move", center, zoom, flight)
    BY DEF Move
  <1> HIDE DEF j, n
  <1>3. /\ Grid(j) = Grid(m) /\ NeedsView(Grid(j), j) /\ On(j)
        /\ GridSound(Grid(j))
    BY <1>0, <1>1, SameTold DEF Grid, NeedsView
  <1>4. CASE zoom # m.zoom
    <2>0. k = FireData(j, "zoom", center, zoom, flight) /\ "zoom" \in EventTypes
      BY <1>4 DEF EventTypes
    <2> HIDE DEF k
    <2>1. /\ k \in MapState /\ SameSeen(j, k)
          /\ \E e \in Event : /\ e.type = "zoom" /\ e.flyTo = flight /\ Sees(e, k)
                              /\ Sees(e, j) /\ Grid(k) = Handle(Grid(j), e)
      BY <1>1, <2>0, IsHeard
    <2>2. PICK e \in Event : /\ e.type = "zoom" /\ e.flyTo = flight /\ Sees(e, k)
                             /\ Sees(e, j) /\ Grid(k) = Handle(Grid(j), e)
      BY <2>1
    <2>3. Near(Grid(k), j)
      BY <1>3, <2>2, HearsZoom
    <2>4. NearlyLinked(k)
      BY <2>1, <2>3, SeesTheSame DEF NearlyLinked
    <2>5. /\ Steady(grid, Grid(k), k)
          /\ flight => GoesOn(grid, Grid(k))
      BY <1>3, <2>2, ZoomSteady DEF On
    <2>6. Steadied(k) /\ (flight => On(k))
      BY <2>5 DEF Steadied, On
    <2>7. Steadied(n) /\ (flight => On(n))
      BY <1>0, <1>2, <2>4, <2>6, FiresOn
    <2>8. QED
      BY <2>7 DEF n
  <1>5. CASE zoom = m.zoom
    <2>1. k = j
      BY <1>5
    <2> HIDE DEF k
    <2>2. ASSUME FitsZoom(m, zoom) PROVE On(n)
      <3>1. NearlyLinked(j)
        BY <1>1, <1>3, <1>5, <2>2 DEF NearlyLinked, FitsZoom, Near, NeedsView
      <3>2. QED
        BY <1>0, <1>2, <1>3, <2>1, <3>1, FiresOn
    <2>3. ASSUME m.anim = Nowhere PROVE Steadied(n)
      <3>0. "move" \in EventTypes
        BY DEF EventTypes
      <3>1. /\ n \in MapState /\ SameSeen(j, n)
            /\ \E e \in Event : /\ e.type = "move" /\ e.mapZoom \in Zooms
                                /\ Sees(e, j) /\ Sees(e, n)
                                /\ Grid(n) = Handle(Grid(j), e)
        BY <1>1, <1>2, <2>1, <3>0, IsHeard
      <3>2. PICK e \in Event : /\ e.type = "move" /\ e.mapZoom \in Zooms
                               /\ Sees(e, j) /\ Sees(e, n)
                               /\ Grid(n) = Handle(Grid(j), e)
        BY <3>1
      <3>3. n.anim = Nowhere
        BY <1>1, <2>3, <3>1 DEF SameSeen
      <3>4. Steady(grid, Grid(n), n)
        BY <1>3, <3>2, <3>3, LooseMoveSteady DEF On
      <3>5. QED
        BY <3>4 DEF Steadied
    <2>4. Steadied(n)
      BY <2>2, <2>3, Settles
    <2>5. QED
      BY <2>2, <2>4 DEF n
  <1>6. QED
    BY <1>4, <1>5

(* Frames of flights and pinches.                                          *)
LEMMA FlightSpares ==
    ASSUME GridSound(grid), NEW m, Linked(m), Spared(m), NEW center \in Nat,
           NEW zoom \in Zooms
    PROVE  Spared(Move(m, center, zoom, TRUE))
  <1> DEFINE yes == TRUE
             n == Move(m, center, zoom, yes)
  <1>1. LooselyLinked(m) /\ FitsZoom(m, zoom) /\ m \in MapState /\ yes \in BOOLEAN
    BY LinksWeaken DEF Linked, Follows, Near, FitsZoom
  <1>y. yes
    OBVIOUS
  <1> HIDE DEF yes
  <1>2. CASE Reset(m)
    BY <1>1, <1>2, MovesAfterReset DEF Spared, yes
  <1>3. CASE On(m)
    BY <1>1, <1>y, <1>3, MovesSteady DEF Spared, yes
  <1>4. QED
    BY <1>2, <1>3 DEF Spared

(* The end of a zoom animation.                                            *)
LEMMA TransitionSteady ==
    ASSUME GridSound(grid), NEW m, LooselyLinked(m), On(m), m.anim # Nowhere
    PROVE  Steadied(OnZoomTransitionEnd(m))
  <1> DEFINE j == [m EXCEPT !.anim = Nowhere]
             c == m.anim.center
             z == m.anim.zoom
             no == FALSE
             k == Move(j, c, z, no)
             f == [kind |-> "moveEnd", center |-> 0, zoom |-> 0]
             n == OnZoomTransitionEnd(m)
  <1>0. m \in MapState /\ NeedsView(Grid(m), m)
    BY DEF LooselyLinked
  <1>1. m.anim \in View
    BY <1>0 DEF MapState
  <1>2. c \in Nat /\ z \in Zooms /\ no \in BOOLEAN
    BY <1>1 DEF View
  <1>3. n = RequestFrame(k, f)
    BY DEF OnZoomTransitionEnd
  <1>4. /\ j \in MapState /\ j.anim = Nowhere /\ j.zoom = m.zoom
        /\ j.loaded = m.loaded /\ j.fired = m.fired
    BY <1>0 DEF MapState
  <1> HIDE DEF j, n
  <1>5. LooselyLinked(j) /\ On(j)
    BY <1>0, <1>4, SameTold DEF LooselyLinked, NeedsView, Grid
  <1> HIDE DEF c, z, no
  <1>6. k \in MapState /\ Steadied(k)
    BY <1>2, <1>4, <1>5, MovesLinked, MovesSteady
  <1> HIDE DEF k
  <1>7. SameSeen(k, n) /\ n.fired = k.fired
    BY <1>3, <1>6, MoveEndFrame, RequestUnheard
  <1>8. QED
    BY <1>6, <1>7, SteadyUnheard DEF n

(* Its beginning, at the end of a step.                                    *)
LEMMA AnimatesSettled ==
    ASSUME GridSound(grid), NEW m, Linked(m), On(m), NEW center \in Nat, NEW zoom \in Zooms,
           NEW noUpdate \in BOOLEAN
    PROVE  AllSettled(AnimateZoom(m, center, zoom, noUpdate))
  <1> DEFINE to == [center |-> center, zoom |-> zoom]
             j == [m EXCEPT !.anim = to, !.proxy = to, !.timers = @ + 1]
             k == IF m.proxy = to THEN OnZoomTransitionEnd(j) ELSE j
             n == AnimateZoom(m, center, zoom, noUpdate)
  <1>0. m \in MapState /\ LooselyLinked(m)
    BY LinksWeaken DEF Linked
  <1>1. to \in View /\ to # Nowhere /\ to.center = center /\ to.zoom = zoom
    BY NowhereAssumption DEF View
  <1>2. n = FireData(k, "zoomanim", center, zoom, noUpdate)
    BY DEF AnimateZoom
  <1> HIDE DEF to
  <1>3. /\ j \in MapState /\ j.anim = to /\ j.fired = m.fired /\ j.loaded = m.loaded
    <2> DEFINE i == [m EXCEPT !.anim = to, !.proxy = to]
    <2>1. j = [i EXCEPT !.timers = i.timers + 1]
      BY <1>0 DEF MapState
    <2>2. i \in MapState /\ i.anim = to /\ i.fired = m.fired /\ i.loaded = m.loaded
      BY <1>0, <1>1 DEF MapState
    <2> HIDE DEF i, j
    <2>3. i.timers + 1 \in Nat
      BY <2>2 DEF MapState
    <2>4. QED
      BY <1>1, <2>1, <2>2, <2>3 DEF MapState
  <1> HIDE DEF j, n
  <1>4. LooselyLinked(j) /\ On(j)
    BY <1>0, <1>3, SameTold DEF LooselyLinked, NeedsView, Grid
  <1>5. /\ k \in MapState /\ GridSound(Grid(k))
        /\ \/ On(k)
           \/ Steadied(k) /\ k.anim = Nowhere /\ k.zoom = zoom /\ k.center = center
    <2>1. CASE m.proxy = to
      <3>1. k = OnZoomTransitionEnd(j) /\ j.anim # Nowhere
        BY <1>1, <1>3, <2>1
      <3> HIDE DEF k
      <3>2. /\ LinkedAtZoom(k) /\ k.anim = Nowhere
            /\ k.zoom = j.anim.zoom /\ k.center = j.anim.center
            /\ Steadied(k)
        BY <1>4, <3>1, EndsTransitionLinked, TransitionSteady
      <3>3. QED
        BY <1>1, <1>3, <3>2 DEF LinkedAtZoom, Loosely, NeedsView
    <2>2. CASE m.proxy # to
      <3>1. k = j
        BY <2>2
      <3> HIDE DEF k
      <3>2. QED
        BY <1>3, <1>4, <3>1 DEF LooselyLinked, NeedsView
    <2>3. QED
      BY <2>1, <2>2
  <1> HIDE DEF k
  <1>6. "zoomanim" \in EventTypes
    BY DEF EventTypes
  <1>7. PICK e \in Event :
              /\ e.type = "zoomanim" /\ e.center = center /\ e.zoom = zoom
              /\ Sees(e, k) /\ Grid(n) = Handle(Grid(k), e)
    <2>1. \E e \in Event :
              /\ e.type = "zoomanim" /\ e.center = center /\ e.zoom = zoom
              /\ Sees(e, k) /\ Grid(n) = Handle(Grid(k), e)
      BY <1>2, <1>5, <1>6, IsHeard
    <2>2. QED
      BY <2>1
  <1>8. Kept(grid, Grid(n))
    BY <1>5, <1>7, ZoomAnimKeeps DEF On, Steadied
  <1>9. QED
    BY <1>8 DEF AllSettled, n

(* What has faded in has an image: the rest of the invariant.              *)
HolesInv == GridInv /\ Backed(grid)

(* When a step begins all is there.                                        *)
LEMMA QuietOn ==
    ASSUME HolesInv
    PROVE  LET q == Quiet(map) IN
           /\ Linked(q) /\ On(q) /\ Spared(q) /\ q \in MapState
           /\ NearlyLinked(q) /\ LooselyLinked(q)
           /\ \A m : m.fired = q.fired => On(m) /\ Spared(m)
  <1> DEFINE q == Quiet(map)
  <1>1. /\ map \in MapState /\ GridSound(grid) /\ q \in MapState /\ Linked(q)
        /\ Backed(grid)
    BY QuietLinked DEF HolesInv, GridInv, MapInv, Orderly
  <1>2. q.fired = <<>>
    BY <1>1 DEF Quiet, MapState
  <1> HIDE DEF q
  <1>3. Grid(q) = grid
    BY <1>1, <1>2, HeardNothing DEF Grid
  <1>4. On(q) /\ Spared(q)
    BY <1>1, <1>3, SameTiles DEF On, Spared
  <1>5. QED
    BY <1>1, <1>4, LinkedParts, SameTold DEF q

(* The steps of the map: all but the ends of zooms and flights spare what  *)
(* is active.                                                              *)
LEMMA SetViewSpares ==
    ASSUME HolesInv, NEW v \in Views, NEW reset \in BOOLEAN,
           CallSetView(v[1], v[2], reset)
    PROVE  Spared(map')
  <1>1. map' \in SetView(Quiet(map), v[1], v[2], reset) /\ GridInv /\ GridSound(grid)
    BY DEF CallSetView, HolesInv, GridInv
  <1>2. QED
    BY <1>1, QuietOn, ViewParts, SetsViewOn

LEMMA SetZoomSpares ==
    ASSUME HolesInv, NEW v \in Views, SetZoom(v[2])
    PROVE  Spared(map')
  <1> DEFINE q == Quiet(map)
             no == FALSE
  <1>1. Linked(q) /\ GridSound(grid) /\ q \in MapState /\ Spared(q)
    BY QuietOn DEF HolesInv, GridInv
  <1>2. v[2] \in Zooms /\ map.center \in Nat
    BY ViewParts DEF HolesInv, GridInv, MapInv, Orderly, MapState
  <1>3. CASE map.loaded
    <2>1. map' \in SetView(q, map.center, v[2], no) /\ no \in BOOLEAN
      BY <1>3 DEF SetZoom
    <2> HIDE DEF q, no
    <2>2. QED
      BY <1>1, <1>2, <2>1, SetsViewOn
  <1>4. CASE ~map.loaded
    <2>1. map' = [q EXCEPT !.zoom = v[2]]
      BY <1>4 DEF SetZoom
    <2> HIDE DEF q
    <2>2. map'.fired = q.fired
      BY <1>1, <2>1 DEF MapState
    <2>3. QED
      BY <1>1, <2>2, SameTold
  <1>5. QED
    BY <1>3, <1>4

LEMMA PanBySpares ==
    ASSUME HolesInv, NEW v \in Views, CallPanBy(v[1])
    PROVE  Spared(map')
  <1>1. map' \in PanBy(Quiet(map), v[1]) /\ GridSound(grid)
    BY DEF CallPanBy, HolesInv, GridInv
  <1>2. QED
    BY <1>1, QuietOn, ViewParts, PansOn

LEMMA StopSpares ==
    ASSUME HolesInv, CallStop
    PROVE  Spared(map')
  <1> DEFINE q == Quiet(map)
             no == FALSE
  <1>1. Linked(q) /\ GridSound(grid) /\ Spared(q)
    BY QuietOn DEF HolesInv, GridInv
  <1>2. PICK n \in SetView(q, map.center, map.zoom, no) : map' \in Stop(n)
    BY DEF CallStop
  <1>3. map.zoom \in Zooms /\ map.center \in Nat /\ no \in BOOLEAN
    BY DEF HolesInv, GridInv, MapInv, Orderly, MapState
  <1> HIDE DEF q, no
  <1>4. Linked(n) /\ Spared(n)
    BY <1>1, <1>2, <1>3, SetsViewLinked, SetsViewOn
  <1>5. QED
    BY <1>1, <1>2, <1>4, StopsOn

LEMMA FlyToSpares ==
    ASSUME HolesInv, NEW v \in Views, FlyTo(v[1], v[2])
    PROVE  Spared(map')
  <1> DEFINE to == [center |-> v[1], zoom |-> v[2]]
             yes == TRUE
             no == FALSE
  <1>1. PICK n \in Stop(Quiet(map)) :
          map' = [Move(MoveStart(n, yes, no), n.center, n.zoom, yes) EXCEPT !.fly = to]
    BY DEF FlyTo
  <1>2. yes \in BOOLEAN /\ no \in BOOLEAN
    OBVIOUS
  <1>3. GridSound(grid) /\ Linked(n) /\ Spared(n)
    BY QuietOn, StopsLinked, StopsOn DEF HolesInv, GridInv
  <1>4. n \in MapState /\ n.center \in Nat /\ n.zoom \in Zooms
    BY <1>3, LinkedParts
  <1> HIDE DEF to, no
  <1> DEFINE a == MoveStart(n, yes, no)
             b == Move(a, n.center, n.zoom, yes)
  <1>5. Linked(a) /\ Spared(a)
    <2> HIDE DEF yes
    <2>1. QED
      BY <1>2, <1>3, <1>4, StartsLinked, StartsOn
  <1>6. map' = [b EXCEPT !.fly = to]
    BY <1>1
  <1> HIDE DEF a
  <1>7. Spared(b) /\ b \in MapState
    BY <1>3, <1>4, <1>5, FlightSpares, Moves, LinkedParts
  <1> HIDE DEF b
  <1>8. map'.fired = b.fired
    BY <1>6, <1>7 DEF MapState
  <1>9. QED
    BY <1>7, <1>8, SameTold

LEMMA QuietSteps ==
    ASSUME HolesInv, Resize \/ DragDown \/ SecondPress
    PROVE  Spared(map')
  <1> DEFINE q == Quiet(map)
  <1>1. q \in MapState /\ \A m : m.fired = q.fired => Spared(m)
    BY QuietOn
  <1>2. \/ map' = [q EXCEPT !.resizeRequest = TRUE]
        \/ map' = [q EXCEPT !.drag = "down"]
        \/ map' = [q EXCEPT !.drag = "down", !.hushed = TRUE]
    BY DEF Resize, DragDown, SecondPress
  <1> HIDE DEF q
  <1>3. map'.fired = q.fired
    BY <1>1, <1>2 DEF MapState
  <1>4. QED
    BY <1>1, <1>3

LEMMA DragStartSpares ==
    ASSUME HolesInv, DragStart
    PROVE  Spared(map')
  <1> DEFINE k(n) == Emit(n, "movestart")
  <1>1. PICK n \in Stop(Quiet(map)) : map' = [k(n) EXCEPT !.drag = "moving"]
    BY DEF DragStart
  <1>2. GridSound(grid) /\ Linked(n) /\ Spared(n)
    BY QuietOn, StopsLinked, StopsOn DEF HolesInv, GridInv
  <1>3. Spared(k(n)) /\ k(n) \in MapState
    BY <1>2, LinkedParts, EmitsOn, EmitsLinked DEF CalmTypes
  <1> HIDE DEF k
  <1>4. map'.fired = k(n).fired
    BY <1>1, <1>3 DEF MapState
  <1>5. QED
    BY <1>3, <1>4, SameTold

LEMMA RunFrameSteps ==
    ASSUME HolesInv, NEW center \in Nat,
           map' = RunFrame(Quiet(map), center) \/ map' = Complete(RunFrame(Quiet(map), center))
    PROVE  Spared(map')
  <1> DEFINE n == RunFrame(Quiet(map), center)
  <1>1. GridSound(grid) /\ Linked(n) /\ Spared(n)
    BY QuietOn, RunsLinked, RunsOn DEF HolesInv, GridInv
  <1> HIDE DEF n
  <1>2. map' = n \/ map' = Complete(n)
    BY DEF n
  <1>3. QED
    BY <1>1, <1>2, CompletesOn

LEMMA PanSpares ==
    ASSUME HolesInv, PanStep \/ PanEnd \/ \E v \in Views : DragStep(v[1])
    PROVE  Spared(map')
  <1>1. CASE PanStep
    <2> DEFINE center == (map.center + map.pan) \div 2
    <2>1. center \in Nat
      <3>1. map.center \in Nat /\ map.pan \in Nat
        BY <1>1 DEF HolesInv, GridInv, MapInv, Orderly, PanStep, MapState
      <3>2. QED
        BY <3>1
    <2>2. map' = RunFrame(Quiet(map), center)
      BY <1>1 DEF PanStep
    <2> HIDE DEF center
    <2>3. QED
      BY <2>1, <2>2, RunFrameSteps
  <1>2. CASE PanEnd
    <2>1. map.pan \in Nat
      BY <1>2 DEF HolesInv, GridInv, MapInv, Orderly, PanEnd, MapState
    <2>2. QED
      BY <1>2, <2>1, RunFrameSteps DEF PanEnd
  <1>3. ASSUME NEW v \in Views, DragStep(v[1]) PROVE Spared(map')
    BY <1>3, ViewParts, RunFrameSteps DEF DragStep
  <1>4. QED
    BY <1>1, <1>2, <1>3

LEMMA DragUpSpares ==
    ASSUME HolesInv, DragUp
    PROVE  Spared(map')
  <1> DEFINE q == Quiet(map)
             n == [q EXCEPT !.drag = "no"]
             f == [kind |-> "inertia", center |-> 0, zoom |-> 0]
  <1>1. GridSound(grid) /\ Linked(q) /\ q \in MapState /\ \A m : m.fired = q.fired => Spared(m)
    BY QuietOn DEF HolesInv, GridInv
  <1>2. map' \in OnDragEnd(n) \/ map' = n
    BY Zenon DEF DragUp
  <1> HIDE DEF q
  <1>3. Linked(n) /\ n.fired = q.fired
    BY <1>1, FieldsUnseen, Zenon DEF MapState
  <1> HIDE DEF n
  <1>4. map' \in {n, Emit(n, "moveend"), RequestFrame(n, f)} /\ Spared(n)
    BY <1>1, <1>2, <1>3 DEF OnDragEnd
  <1>5. CASE map' = Emit(n, "moveend")
    BY <1>1, <1>3, <1>4, <1>5, EmitsOn, LinkedParts DEF CalmTypes
  <1>6. CASE map' = RequestFrame(n, f)
    <2>1. n \in MapState
      BY <1>3, LinkedParts
    <2>2. map'.fired = n.fired
      BY <1>6, <2>1 DEF RequestFrame, MapState
    <2>3. QED
      BY <1>4, <2>2, SameTold
  <1>7. QED
    BY <1>4, <1>5, <1>6

LEMMA TouchSpares ==
    ASSUME HolesInv, OnTouchStart \/ OnTouchMove
    PROVE  Spared(map')
  <1> DEFINE q == Quiet(map)
  <1>1. GridSound(grid) /\ Linked(q) /\ q \in MapState /\ Spared(q)
    BY QuietOn DEF HolesInv, GridInv
  <1>2. CASE OnTouchStart
    <2>1. PICK n \in Stop(q) :
            map' = [n EXCEPT !.pinch = "down", !.hushed = @ \/ map.fly # Nowhere]
      BY <1>2 DEF OnTouchStart
    <2> HIDE DEF q
    <2>2. Linked(n) /\ Spared(n)
      BY <1>1, StopsLinked, StopsOn
    <2>3. map'.fired = n.fired
      BY <2>1, <2>2, LinkedParts DEF MapState
    <2>4. QED
      BY <2>2, <2>3, SameTold
  <1>3. CASE OnTouchMove
    <2> DEFINE yes == TRUE
               no == FALSE
               n == MoveStart(q, yes, no)
    <2>1. map' = [n EXCEPT !.pinch = "moving"] /\ yes \in BOOLEAN /\ no \in BOOLEAN
      BY <1>3 DEF OnTouchMove
    <2> HIDE DEF q, yes, no
    <2>2. Spared(n) /\ n \in MapState
      BY <1>1, <2>1, StartsOn, StartsLinked
    <2> HIDE DEF n
    <2>3. map'.fired = n.fired
      BY <2>1, <2>2 DEF MapState
    <2>4. QED
      BY <2>2, <2>3, SameTold
  <1>4. QED
    BY <1>2, <1>3

LEMMA FlightStepsSpare ==
    ASSUME HolesInv, FlyStep \/ \E v \in Views : PinchFrame(v[1], v[2])
    PROVE  Spared(map')
  <1> DEFINE q == Quiet(map)
  <1>1. Linked(q) /\ GridSound(grid) /\ Spared(q) /\ map \in MapState
    BY QuietOn DEF HolesInv, GridInv, MapInv, Orderly
  <1>2. CASE FlyStep
    <2>2. PICK zoom \in Between(map.zoom, map.fly.zoom) :
            map' = Move(q, map.center, zoom, TRUE)
      BY <1>2 DEF FlyStep
    <2>3. map.zoom \in Zooms /\ map.fly.zoom \in Zooms /\ map.center \in Nat
      BY <1>1, <1>2 DEF FlyStep, MapState, View
    <2>4. zoom \in Zooms
      <3>1. Min({map.zoom, map.fly.zoom}) \in Zooms
            /\ Max({map.zoom, map.fly.zoom}) \in Zooms
        BY <2>3, MinMax, ZoomAssumption DEF Zooms
      <3>2. QED
        BY <3>1, ZoomAssumption DEF Between, Zooms
    <2> HIDE DEF q
    <2>5. QED
      BY <1>1, <2>2, <2>3, <2>4, FlightSpares
  <1>3. ASSUME NEW v \in Views, PinchFrame(v[1], v[2]) PROVE Spared(map')
    <2>1. map' = Move(q, v[1], v[2], TRUE)
      BY <1>3 DEF PinchFrame
    <2> HIDE DEF q
    <2>2. QED
      BY <1>1, <2>1, ViewParts, FlightSpares
  <1>4. QED
    BY <1>2, <1>3

(* The ends of flights, pinches and zoom animations.                       *)
LEMMA FlyEndSettles ==
    ASSUME HolesInv, FlyEnd
    PROVE  AllSettled(map')
  <1> DEFINE q == Quiet(map)
             a == [q EXCEPT !.fly = Nowhere]
             no == FALSE
             yes == TRUE
             b == Move(a, map.fly.center, map.fly.zoom, no)
  <1>1. map.fly.center \in Nat /\ map.fly.zoom \in Zooms
    BY DEF HolesInv, GridInv, MapInv, Orderly, FlyEnd, MapState, View
  <1>2. map' = MoveEnd(b, yes) /\ yes \in BOOLEAN /\ no \in BOOLEAN
    BY DEF FlyEnd
  <1>3. /\ Linked(q) /\ GridSound(grid) /\ q \in MapState
        /\ \A m : m.fired = q.fired => On(m)
    BY QuietOn, Zenon DEF HolesInv, GridInv
  <1> HIDE DEF q, no, yes
  <1>4. Linked(a) /\ a.fired = q.fired
    BY <1>3, FieldsUnseen, Zenon DEF MapState
  <1> HIDE DEF a
  <1>5. LooselyLinked(a) /\ FitsZoom(a, map.fly.zoom) /\ On(a)
    BY <1>3, <1>4, LinksWeaken DEF Linked, Follows, Near, FitsZoom
  <1>6. Linked(b) /\ Steadied(b)
    BY <1>1, <1>2, <1>3, <1>4, <1>5, MovesOnLinked, MovesSteady
  <1> HIDE DEF b
  <1>7. Steadied(map')
    BY <1>2, <1>3, <1>6, EndsOn
  <1>8. QED
    BY <1>7, Settles

LEMMA OnTouchEndSettles ==
    ASSUME HolesInv, NEW v \in Views, OnTouchEnd(v[1], v[2])
    PROVE  AllSettled(map')
  <1> DEFINE q == Quiet(map)
             n == [q EXCEPT !.pinch = "no"]
             yes == TRUE
  <1>1. map' = AnimateZoom(n, v[1], v[2], yes) \/ map' = n
    BY Zenon DEF OnTouchEnd
  <1>2. /\ Linked(q) /\ GridSound(grid) /\ q \in MapState /\ yes \in BOOLEAN
        /\ \A m : m.fired = q.fired => On(m)
    BY QuietOn DEF HolesInv, GridInv
  <1> HIDE DEF q, yes
  <1>3. Linked(n) /\ n.fired = q.fired
    BY <1>2, FieldsUnseen, Zenon DEF MapState
  <1> HIDE DEF n
  <1>4. On(n)
    BY <1>2, <1>3
  <1>5. QED
    BY <1>1, <1>2, <1>3, <1>4, ViewParts, AnimatesSettled, Settles

(* The map without the frame that has come.                                *)
LEMMA NextFrameOn ==
    ASSUME HolesInv, map.frames # <<>>
    PROVE  LET m == [Quiet(map) EXCEPT !.frames = Tail(@)] IN
           /\ Linked(m) /\ On(m) /\ Spared(m)
           /\ Head(map.frames) \in Frame /\ GridSound(grid)
  <1> DEFINE q == Quiet(map)
             m == [q EXCEPT !.frames = Tail(@)]
  <1>1. Linked(m) /\ Head(map.frames) \in Frame /\ GridSound(grid)
    BY NextFrameLinked DEF HolesInv
  <1>2. q \in MapState /\ \A n : n.fired = q.fired => On(n) /\ Spared(n)
    BY QuietOn
  <1> HIDE DEF q
  <1>3. m.fired = q.fired
    BY <1>2 DEF MapState
  <1> HIDE DEF m
  <1>4. QED
    BY <1>1, <1>2, <1>3 DEF m, q

LEMMA AnimationFrameSettles ==
    ASSUME HolesInv, AnimationFrame
    PROVE  AllSettled(map')
  <1> DEFINE f == Head(map.frames)
             m == [Quiet(map) EXCEPT !.frames = Tail(@)]
             yes == TRUE
             no == FALSE
             a == MoveStart(m, yes, no)
  <1>1. Linked(m) /\ On(m) /\ Spared(m) /\ f \in Frame /\ GridSound(grid)
    BY NextFrameOn DEF AnimationFrame
  <1>2. f.kind \in {"animate", "moveEnd"} /\ f.center \in Nat /\ f.zoom \in Zooms
    BY <1>1 DEF AnimationFrame, Frame
  <1>3. /\ f.kind = "animate" => map' = AnimateZoom(a, f.center, f.zoom, no)
        /\ f.kind = "moveEnd" => map' = MoveEnd(m, yes)
        /\ yes \in BOOLEAN /\ no \in BOOLEAN
    BY <1>2 DEF AnimationFrame
  <1> HIDE DEF m, f, yes, no
  <1>4. CASE f.kind = "animate"
    <2>1. Linked(a) /\ On(a)
      BY <1>1, <1>3, LinkedParts, StartsLinked, StartsOn
    <2> HIDE DEF a
    <2>2. QED
      BY <1>1, <1>2, <1>3, <1>4, <2>1, AnimatesSettled
  <1>5. CASE f.kind = "moveEnd"
    <2>1. Spared(map')
      BY <1>1, <1>3, <1>5, EndsOn
    <2>2. QED
      BY <2>1, Settles
  <1>6. QED
    BY <1>2, <1>4, <1>5

LEMMA InertiaFrameSpares ==
    ASSUME HolesInv, NEW v \in Views, InertiaFrame(v[1])
    PROVE  Spared(map')
  <1> DEFINE m == [Quiet(map) EXCEPT !.frames = Tail(@)]
  <1>1. Linked(m) /\ Spared(m) /\ GridSound(grid)
    BY NextFrameOn DEF InertiaFrame
  <1>2. PICK n \in StopPan(m) : map' = [n EXCEPT !.pan = v[1]]
    BY DEF InertiaFrame
  <1> HIDE DEF m
  <1>3. Linked(n) /\ Spared(n)
    BY <1>1, <1>2, StopsPanLinked, StopsPanOn
  <1>4. map'.fired = n.fired
    BY <1>2, <1>3, LinkedParts DEF MapState
  <1>5. QED
    BY <1>3, <1>4, SameTold

LEMMA TransitionSettles ==
    ASSUME GridSound(grid), NEW m, Linked(m), On(m)
    PROVE  AllSettled(OnZoomTransitionEnd(m))
  <1>1. CASE m.anim = Nowhere
    BY <1>1, Settles DEF OnZoomTransitionEnd
  <1>2. CASE m.anim # Nowhere
    BY <1>2, LinkedParts, TransitionSteady, Settles
  <1>3. QED
    BY <1>1, <1>2

LEMMA TransitionStepsSettle ==
    ASSUME HolesInv, CatchTransitionEnd \/ ZoomTimeout
    PROVE  AllSettled(map')
  <1> DEFINE q == Quiet(map)
             t == q.timers - 1
             m == [q EXCEPT !.timers = t]
  <1>1. /\ Linked(q) /\ GridSound(grid) /\ q \in MapState /\ On(q)
        /\ \A n : n.fired = q.fired => On(n)
    BY QuietOn DEF HolesInv, GridInv
  <1>2. CASE CatchTransitionEnd
    BY <1>1, <1>2, TransitionSettles DEF CatchTransitionEnd
  <1>3. CASE ZoomTimeout
    <2>1. q.timers = map.timers
      <3>1. map \in MapState
        BY DEF HolesInv, GridInv, MapInv, Orderly
      <3>2. QED
        BY <3>1 DEF Quiet, MapState
    <2>2. map' = OnZoomTransitionEnd(m) /\ map.timers > 0
      BY <1>3 DEF ZoomTimeout
    <2> HIDE DEF q
    <2>3. t \in Nat
      <3>1. q.timers \in Nat
        BY <1>1, LinkedParts, Zenon
      <3>2. QED
        BY <3>1, <2>1, <2>2
    <2> HIDE DEF t
    <2>4. Linked(m) /\ m.fired = q.fired
      BY <1>1, <2>3, FieldsUnseen, Zenon DEF MapState
    <2> HIDE DEF m
    <2>5. QED
      BY <1>1, <2>2, <2>4, TransitionSettles
  <1>4. QED
    BY <1>2, <1>3

LEMMA ResizeFrameSpares ==
    ASSUME HolesInv, ResizeFrame
    PROVE  Spared(map')
  <1> DEFINE q == Quiet(map)
             m == [q EXCEPT !.resizeRequest = FALSE]
             k == [m EXCEPT !.size = width]
             a == Emit(k, "move")
             b == Emit(a, "resize")
  <1>1. /\ Linked(q) /\ GridSound(grid) /\ q \in MapState
        /\ \A n : n.fired = q.fired => Spared(n)
        /\ "move" \in CalmTypes /\ "resize" \in CalmTypes
    BY QuietOn DEF HolesInv, GridInv, CalmTypes
  <1>2. \/ map' = m
        \/ map' = k
        \/ map' = [b EXCEPT !.sizeTimer = TRUE]
    BY DEF ResizeFrame
  <1>3. width \in Sizes
    BY Zenon DEF HolesInv, GridInv, MapInv
  <1> HIDE DEF q
  <1>4. Linked(m) /\ m.fired = q.fired
    BY <1>1, FieldsUnseen, Zenon DEF MapState
  <1> HIDE DEF m
  <1>5. /\ k \in MapState /\ k.fired = m.fired /\ k.loaded = m.loaded
        /\ k.zoom = m.zoom /\ k.anim = m.anim
    BY <1>3, <1>4 DEF Linked, MapState
  <1> HIDE DEF k
  <1>6. NearlyLinked(k) /\ Spared(k) /\ Spared(m)
    BY <1>1, <1>4, <1>5 DEF NearlyLinked, Linked, Follows, Near, Grid
  <1>7. Linked(a) /\ Spared(a)
    BY <1>1, <1>6, EmitsMove, EmitsOn
  <1> HIDE DEF a
  <1>8. Spared(b) /\ b \in MapState
    BY <1>1, <1>7, LinkedParts, EmitsLinked, EmitsOn
  <1> HIDE DEF b
  <1>9. [b EXCEPT !.sizeTimer = TRUE].fired = b.fired
    BY <1>8 DEF MapState
  <1>10. QED
    BY <1>2, <1>6, <1>8, <1>9, SameTold

LEMMA SizeTimeoutSpares ==
    ASSUME HolesInv, SizeTimeout
    PROVE  Spared(map')
  <1> DEFINE q == Quiet(map)
             n == [q EXCEPT !.sizeTimer = FALSE]
  <1>1. /\ Linked(q) /\ GridSound(grid) /\ q \in MapState
        /\ \A m : m.fired = q.fired => Spared(m)
        /\ "moveend" \in CalmTypes
    BY QuietOn, Zenon DEF HolesInv, GridInv, CalmTypes
  <1>2. map' = Emit(n, "moveend")
    BY DEF SizeTimeout
  <1> HIDE DEF q
  <1>3. Linked(n) /\ n.fired = q.fired
    BY <1>1, FieldsUnseen, Zenon DEF MapState
  <1> HIDE DEF n
  <1>4. QED
    BY <1>1, <1>2, <1>3, LinkedParts, EmitsOn

(* Every step of the map.                                                  *)
LEMMA MapNextSettles ==
    ASSUME HolesInv, MapNext
    PROVE  AllSettled(map')
  <1>1. CASE \E v \in Views :
                \/ \E reset \in BOOLEAN : CallSetView(v[1], v[2], reset)
                \/ FlyTo(v[1], v[2])
                \/ CallPanBy(v[1])
                \/ SetZoom(v[2])
    BY <1>1, SetViewSpares, FlyToSpares, PanBySpares, SetZoomSpares, Settles
  <1>2. CASE \E v \in Views : DragStep(v[1]) \/ PinchFrame(v[1], v[2])
                              \/ OnTouchEnd(v[1], v[2])
    BY <1>2, PanSpares, FlightStepsSpare, OnTouchEndSettles, Settles
  <1>3. CASE \/ CallStop \/ Resize
             \/ DragDown \/ DragStart \/ SecondPress \/ DragUp
             \/ OnTouchStart \/ OnTouchMove
    BY <1>3, StopSpares, QuietSteps, DragStartSpares, DragUpSpares, TouchSpares, Settles
  <1>4. CASE Callback
    BY <1>4, FlightStepsSpare, FlyEndSettles, PanSpares, AnimationFrameSettles,
       InertiaFrameSpares, TransitionStepsSettle, ResizeFrameSpares,
       SizeTimeoutSpares, Settles DEF Callback
  <1>5. QED
    BY <1>1, <1>2, <1>3, <1>4 DEF MapNext

LEMMA MapStepHoles ==
    ASSUME HolesInv, MapStep
    PROVE  AllSettled(map') /\ grid' = Grid(map') /\ Backed(grid')
  <1>1. map'.fired \in Seq(Event)
    <2>1. map' \in MapState
      BY MapInvStep DEF HolesInv, GridInv, MapStep, MapInv, Orderly
    <2>2. QED
      BY <2>1 DEF MapState
  <1>2. grid' = Heard(grid, map'.fired)
    BY DEF MapStep, Heard
  <1>3. Backed(grid')
    BY <1>1, <1>2, HeardBacks DEF HolesInv, GridInv
  <1>4. QED
    BY <1>2, <1>3, MapNextSettles DEF MapStep, Grid

(* What a layer does with nothing to show opens no hole.                   *)
LEMMA NothingShown ==
    ASSUME NEW g, NEW n, DOMAIN g.tiles = {} \/ DOMAIN n.tiles = {}
    PROVE  Kept(g, n)
  BY DEF Kept, Unfaded, Over, Active

(* The steps of the layer.                                                 *)
LEMMA AddToHoles ==
    ASSUME HolesInv, AddTo
    PROVE  Kept(grid, grid') /\ Backed(grid')
  <1> DEFINE e == Env(map)
  <1>1. GridSound(grid) /\ e.mapZoom \in Zooms
    BY InvParts DEF HolesInv
  <1>2. Bare(grid)
    BY <1>1, NotOnMap DEF AddTo
  <1>3. DOMAIN grid.tiles = {} /\ grid \in GridState
    BY <1>2 DEF Bare
  <1>4. ASSUME map.loaded PROVE Backed(grid')
    <2>1. grid' = OnAdd(grid, e)
      BY <1>4 DEF AddTo
    <2> HIDE DEF e
    <2>2. QED
      BY <1>1, <1>2, <2>1, ComingBacks
  <1> HIDE DEF e
  <1>5. ASSUME ~map.loaded PROVE Backed(grid')
    <2>1. grid' = [grid EXCEPT !.onMap = "waiting"]
      BY <1>5 DEF AddTo
    <2>2. grid'.tiles = grid.tiles
      BY <1>3, <2>1 DEF GridState
    <2>3. QED
      BY <2>2, SameTiles DEF HolesInv
  <1>6. Backed(grid')
    BY <1>4, <1>5
  <1>7. QED
    BY <1>3, <1>6, NothingShown

LEMMA RemoveHoles ==
    ASSUME HolesInv, RemoveGridLayer
    PROVE  Kept(grid, grid') /\ Backed(grid')
  <1> DEFINE k == RemoveAllTiles(grid)
  <1>1. grid' = [k EXCEPT !.tileZoom = Nowhere, !.onMap = "no"]
    BY DEF RemoveGridLayer, OnRemove
  <1>2. k \in GridState /\ DOMAIN k.tiles = {}
    BY InvParts, Empties DEF HolesInv
  <1> HIDE DEF k
  <1>3. DOMAIN grid'.tiles = {}
    BY <1>1, <1>2 DEF GridState
  <1>4. QED
    BY <1>3, NothingShown DEF Backed

LEMMA RedrawBacks ==
    ASSUME HolesInv, Redraw
    PROVE  Backed(grid')
  <1> DEFINE k == RemoveAllTiles(grid)
  <1>0. /\ grid \in GridState /\ Awaits(grid)
        /\ Env(map).mapZoom \in Zooms /\ GridSound(grid)
    BY InvParts DEF HolesInv
  <1>1. grid' = Update(k, Env(map), map.center) /\ grid.onMap = "yes"
    BY DEF Redraw
  <1>2. /\ k \in GridState /\ SameGrid(grid, k) /\ Awaits(k) /\ Levelled(k)
        /\ DOMAIN k.tiles = {}
    BY <1>0, Empties
  <1> HIDE DEF k
  <1>3. Placed(grid)
    BY <1>0, <1>1, NotOnMap
  <1>4. Placed(k) /\ Backed(k)
    BY <1>2, <1>3 DEF SameGrid, Placed, Backed
  <1>5. QED
    BY <1>0, <1>1, <1>4, UpdatingBacks

LEMMA TileArrivesHoles ==
    ASSUME HolesInv, NEW t \in grid.awaited, TileArrives(t)
    PROVE  Kept(grid, grid') /\ Backed(grid')
  <1> DEFINE g == grid
             a == g.awaited \ {t}
             h == [g EXCEPT !.awaited = a]
             f == [g.tiles EXCEPT ![t].loaded = TRUE]
             n == [g EXCEPT !.awaited = a, !.tiles = f, !.fadeFrame = TRUE]
             p == Min({n.prunes + 1, MaxPrunes})
             l == [n EXCEPT !.loading = FALSE, !.prunes = p]
  <1>0. g \in GridState /\ Awaits(g) /\ GridSound(g) /\ Backed(g)
    BY InvParts DEF HolesInv
  <1>1. t \in DOMAIN g.tiles
    BY <1>0 DEF Awaits
  <1>2. g.onMap = "yes"
    BY <1>0, <1>1, NotOnMap DEF Bare
  <1>3. g.tiles \in TileMaps
    BY <1>0 DEF GridState
  <1>4. grid' = n \/ grid' = l
    <2>1. h.onMap = "yes" /\ h.tiles = g.tiles
      BY <1>0, <1>2 DEF GridState
    <2>2. grid' = TileReady(h, t, FALSE)
      BY DEF TileArrives
    <2>3. [h EXCEPT !.tiles[t].loaded = TRUE, !.fadeFrame = TRUE] = n
      BY <1>0 DEF GridState
    <2>4. QED
      BY <1>1, <2>1, <2>2, <2>3 DEF TileReady
  <1>5. grid'.tiles = f
    BY <1>0, <1>4 DEF GridState
  <1>6. /\ DOMAIN f = DOMAIN g.tiles
        /\ \A u \in DOMAIN f : /\ f[u].active = g.tiles[u].active
                               /\ f[u].loaded <=> u = t \/ g.tiles[u].loaded
    BY <1>1, <1>3, TileLoads
  <1> HIDE DEF f
  <1>7. GoesOn(g, grid')
    BY <1>0, <1>5, <1>6 DEF GoesOn, Backed, Active
  <1>8. QED
    BY <1>7, GoingOnKeeps DEF GoesOn, g

(* Only tiles with an image fade in.                                       *)
LEMMA OpacityKeeps ==
    ASSUME NEW g \in GridState, Backed(g), NEW opaque,
           \A t \in opaque : t \in DOMAIN g.tiles /\ g.tiles[t].loaded
    PROVE  LET u == UpdateOpacity(g, opaque) IN Kept(g, u) /\ Backed(u)
  <1> DEFINE shown == {t \in DOMAIN g.tiles : g.tiles[t].current /\ g.tiles[t].loaded}
             f == [t \in DOMAIN g.tiles |->
                      IF t \in opaque THEN [g.tiles[t] EXCEPT !.active = TRUE]
                                      ELSE g.tiles[t]]
             b == opaque # shown
             n == [g EXCEPT !.tiles = f, !.fadeFrame = b]
             u == UpdateOpacity(g, opaque)
  <1>1. u = n \/ u = PruneTiles(n)
    BY DEF UpdateOpacity, GridState
  <1>2. g.tiles \in TileMaps /\ b \in BOOLEAN
    BY DEF GridState
  <1>3. /\ f \in TileMaps /\ DOMAIN f = DOMAIN g.tiles
        /\ \A t \in DOMAIN g.tiles : /\ f[t].loaded = g.tiles[t].loaded
                                     /\ f[t].active <=> t \in opaque \/ g.tiles[t].active
    BY <1>2, TilesFade
  <1> HIDE DEF f, b
  <1>4. n \in GridState /\ n.tiles = f
    BY <1>2, <1>3 DEF GridState
  <1> HIDE DEF n, u
  <1>5. GoesOn(g, n)
    BY <1>3, <1>4 DEF GoesOn, Backed, Active
  <1>6. CASE u = n
    BY <1>5, <1>6, GoingOnKeeps DEF GoesOn, u
  <1>7. CASE u = PruneTiles(n)
    <2>1. Kept(n, u) /\ Backed(u)
      BY <1>4, <1>5, <1>7, PruningKeeps DEF GoesOn
    <2>2. QED
      BY <1>5, <2>1, GoingOnKeeps DEF u
  <1>8. QED
    BY <1>1, <1>6, <1>7

LEMMA FadeFrameHoles ==
    ASSUME HolesInv, FadeFrame
    PROVE  Kept(grid, grid') /\ Backed(grid')
  <1>1. grid \in GridState /\ Backed(grid)
    BY InvParts DEF HolesInv
  <1>2. CASE grid' = [grid EXCEPT !.fadeFrame = FALSE]
    <2>1. grid'.tiles = grid.tiles
      BY <1>1, <1>2 DEF GridState
    <2>2. QED
      BY <1>1, <2>1, SameTiles, GoingOnKeeps
  <1>3. CASE grid' # [grid EXCEPT !.fadeFrame = FALSE]
    <2> DEFINE fading == {t \in DOMAIN grid.tiles : grid.tiles[t].current
                            /\ grid.tiles[t].loaded /\ ~grid.tiles[t].active}
               opaque == {t \in DOMAIN grid.tiles : grid.tiles[t].current
                            /\ grid.tiles[t].active}
    <2>1. PICK S \in SUBSET fading : grid' = UpdateOpacity(grid, opaque \cup S)
      BY <1>3 DEF FadeFrame
    <2> DEFINE all == opaque \cup S
    <2>2. \A t \in all : t \in DOMAIN grid.tiles /\ grid.tiles[t].loaded
      BY <1>1, <2>1 DEF Backed
    <2>3. grid' = UpdateOpacity(grid, all)
      BY <2>1
    <2> HIDE DEF all
    <2>4. QED
      BY <1>1, <2>2, <2>3, OpacityKeeps
  <1>4. QED
    BY <1>2, <1>3

LEMMA PruneTimeoutHoles ==
    ASSUME HolesInv, PruneTimeout
    PROVE  Kept(grid, grid') /\ Backed(grid')
  <1> DEFINE p == grid.prunes - 1
             n == [grid EXCEPT !.prunes = p]
  <1>1. grid \in GridState /\ Backed(grid)
    BY InvParts DEF HolesInv
  <1>2. grid.prunes \in 0..MaxPrunes /\ grid.prunes > 0
    BY <1>1 DEF PruneTimeout, GridState
  <1>3. p \in 0..MaxPrunes
    BY <1>2 DEF MaxPrunes
  <1>4. grid' = PruneTiles(n)
    BY DEF PruneTimeout
  <1> HIDE DEF p
  <1>5. n \in GridState /\ n.tiles = grid.tiles
    BY <1>1, <1>3 DEF GridState
  <1> HIDE DEF n
  <1>6. GoesOn(grid, n) /\ Backed(n)
    BY <1>1, <1>5, SameTiles
  <1>7. Kept(n, grid') /\ Backed(grid')
    BY <1>4, <1>5, <1>6, PruningKeeps
  <1>8. QED
    BY <1>6, <1>7, GoingOnKeeps

LEMMA ThrottleHoles ==
    ASSUME HolesInv, ThrottleLater
    PROVE  Kept(grid, grid') /\ Backed(grid')
  <1> DEFINE e == Env(map)
             n == [grid EXCEPT !.lock = "free"]
             k == OnMoveEnd(n, e)
  <1>1. /\ Near(grid, map) /\ GridSound(grid) /\ Backed(grid)
        /\ Sees(e, map) /\ e.mapZoom \in Zooms
    BY InvParts DEF HolesInv
  <1>2. /\ GridSound(n) /\ n.onMap = grid.onMap /\ n.tileZoom = grid.tileZoom
        /\ n.lock = "free"
    BY <1>1, LockStays
  <1>3. GoesOn(grid, n) /\ Backed(n)
    BY <1>1, LockHides
  <1>4. grid' = n \/ grid' = [k EXCEPT !.lock = "locked"]
    BY <1>2 DEF ThrottleLater, OnMove
  <1> HIDE DEF n, e
  <1>5. Near(n, map)
    BY <1>1, <1>2 DEF Near
  <1>6. GoesOn(n, k) /\ GridSound(k)
    <2>1. CASE n.onMap = "yes"
      BY <1>1, <1>2, <1>3, <1>5, <2>1, EndOfMoveGoesOn, EndOfMove
    <2>2. CASE n.onMap # "yes"
      <3>1. k = n
        BY <2>2 DEF OnMoveEnd
      <3> HIDE DEF k
      <3>2. QED
        BY <1>2, <1>3, <3>1, SameTiles
    <2>3. QED
      BY <2>1, <2>2
  <1> HIDE DEF k
  <1>7. CASE grid' = n
    BY <1>3, <1>7, GoingOnKeeps
  <1>8. CASE grid' = [k EXCEPT !.lock = "locked"]
    <2>1. GoesOn(k, grid') /\ Backed(grid')
      BY <1>6, <1>8, LockHides DEF GoesOn
    <2>2. GoesOn(grid, grid')
      BY <1>3, <1>6, <2>1, GoingOnKeeps
    <2>3. QED
      BY <2>1, <2>2, GoingOnKeeps
  <1>9. QED
    BY <1>4, <1>7, <1>8

LEMMA LayerStepHoles ==
    ASSUME HolesInv, LayerNext
    PROVE  Backed(grid') /\ (Redraw \/ Kept(grid, grid'))
  <1>1. ASSUME NEW t, LateArrives(t) PROVE Kept(grid, grid') /\ Backed(grid')
    <2>1. grid' = grid
      BY <1>1 DEF LateArrives, TileReady
    <2>2. QED
      BY <2>1, SameTiles, GoingOnKeeps DEF HolesInv
  <1>2. QED
    BY <1>1, AddToHoles, RemoveHoles, RedrawBacks, TileArrivesHoles, FadeFrameHoles,
       PruneTimeoutHoles, ThrottleHoles DEF LayerNext

-----------------------------------------------------------------------------
(* The place of a tile that goes on being current goes on being shown.     *)
LEMMA KeptIsEnough ==
    ASSUME Kept(grid, grid'), NEW t \in DOMAIN grid.tiles \cap DOMAIN grid'.tiles,
           grid'.tiles[t].current, ~grid'.tiles[t].active, Over(grid, t) # {}
    PROVE  Over(grid', t) # {}
  BY DEF Kept, Unfaded

LEMMA HolesInit == GridInit => HolesInv
  <1> SUFFICES ASSUME GridInit PROVE HolesInv
    OBVIOUS
  <1>1. GridInv
    BY GridInvInit
  <1>2. grid.tiles = <<>> /\ DOMAIN <<>> = {}
    BY DEF GridInit
  <1>3. Backed(grid)
    BY <1>2 DEF Backed
  <1>4. QED
    BY <1>1, <1>3 DEF HolesInv

(* A step opens no hole.                                                   *)
LEMMA StepKeeps ==
    ASSUME HolesInv, [GridNext]_gridVars
    PROVE  /\ Backed(grid')
           /\ Redraw \/ Reset(map') \/ Kept(grid, grid')
  <1>1. CASE UNCHANGED gridVars
    <2>1. grid' = grid /\ Backed(grid)
      BY <1>1 DEF gridVars, HolesInv
    <2>2. QED
      BY <2>1, SameTiles, GoingOnKeeps
  <1>2. CASE MapStep
    BY <1>2, MapStepHoles DEF AllSettled
  <1>3. CASE LayerNext
    BY <1>3, LayerStepHoles
  <1>4. QED
    BY <1>1, <1>2, <1>3 DEF GridNext

LEMMA HolesStep == HolesInv /\ [GridNext]_gridVars => HolesInv'
  <1> SUFFICES ASSUME HolesInv, [GridNext]_gridVars PROVE HolesInv'
    OBVIOUS
  <1>1. GridInv'
    BY GridInvStep DEF HolesInv
  <1>2. Backed(grid')
    BY StepKeeps
  <1>3. QED
    BY <1>1, <1>2 DEF HolesInv, Backed

(***************************************************************************)
(* Pruning never opens a hole: as long as the view is not reset nor the    *)
(* layer redrawn, the place of a tile that is current and has not faded in *)
(* goes on being shown by an active parent or child, if it was.            *)
(***************************************************************************)
THEOREM NoHolesOpen == GridSpec => NoHoles
  <1> DEFINE Hole ==
        (/\ grid'.tiles # grid.tiles
         /\ \A i \in DOMAIN map'.fired : map'.fired[i].type # "viewprereset") =>
           \A t \in DOMAIN grid.tiles \cap DOMAIN grid'.tiles :
               /\ grid.tiles[t].current /\ grid'.tiles[t].current
               /\ ~grid'.tiles[t].active
               /\ Over(grid, t) # {}
               => Over(grid', t) # {} \/ Redraw
  <1>1. HolesInv /\ [GridNext]_gridVars => [Hole]_gridVars
    <2> SUFFICES ASSUME HolesInv, [GridNext]_gridVars PROVE Hole
      OBVIOUS
    <2>1. Redraw \/ Reset(map') \/ Kept(grid, grid')
      BY StepKeeps
    <2>2. CASE Redraw
      BY <2>2
    <2>3. CASE Reset(map')
      BY <2>3 DEF Reset
    <2>4. CASE Kept(grid, grid')
      BY <2>4, KeptIsEnough
    <2>5. QED
      BY <2>1, <2>2, <2>3, <2>4
  <1>2. QED
    BY <1>1, HolesInit, HolesStep, PTL DEF GridSpec, NoHoles

-----------------------------------------------------------------------------
(* Confetti *)

(* The sequences put together so far are those before and one more.        *)
LEMMA Flattening ==
    ASSUME NEW S, NEW ss \in Seq(Seq(S)), Len(ss) # 0
    PROVE  \E f : /\ \A i \in 1..Len(ss) : f[i] = IF i = 1 THEN ss[i] ELSE f[i - 1] \o ss[i]
                  /\ FlattenSeq(ss) = f[Len(ss)]
  <1> DEFINE Body(f, n) == [i \in 1..n |-> IF i = 1 THEN ss[i] ELSE f[i - 1] \o ss[i]]
             Long(n) == \E f : f = Body(f, n)
             P == {n \in Nat : Long(n)}
  <1>1. 0 \in P
    <2>1. [i \in 1..0 |-> <<>>] = [i \in 1..0 |-> IF i = 1 THEN ss[i] ELSE [j \in 1..0 |-> <<>>][i - 1] \o ss[i]]
      OBVIOUS
    <2>2. Long(0)
      BY <2>1
    <2>3. QED
      BY <2>2
  <1>2. ASSUME NEW n \in Nat, n \in P
        PROVE  n + 1 \in P
    <2>1. PICK f : f = [i \in 1..n |-> IF i = 1 THEN ss[i] ELSE f[i - 1] \o ss[i]]
      BY <1>2
    <2> DEFINE g == [i \in 1..(n + 1) |-> IF i = n + 1 THEN IF i = 1 THEN ss[i] ELSE f[n] \o ss[i] ELSE f[i]]
    <2>2. ASSUME NEW i \in 1..(n + 1)
          PROVE  g[i] = IF i = 1 THEN ss[i] ELSE g[i - 1] \o ss[i]
      <3>1. CASE i = n + 1
        <4>1. i # 1 => i - 1 \in 1..(n + 1) /\ i - 1 # n + 1 /\ i - 1 = n
          BY <3>1
        <4>2. i # 1 => g[i - 1] = f[n]
          BY <4>1
        <4>3. QED
          BY <3>1, <4>2
      <3>2. CASE i # n + 1
        <4>1. i \in 1..n /\ g[i] = f[i]
          BY <3>2
        <4>2. i # 1 => i - 1 \in 1..(n + 1) /\ i - 1 # n + 1
          BY <4>1
        <4>3. f[i] = IF i = 1 THEN ss[i] ELSE f[i - 1] \o ss[i]
          BY <2>1, <4>1
        <4>4. QED
          BY <4>1, <4>2, <4>3
      <3>3. QED
        BY <3>1, <3>2
    <2>3. g = [i \in 1..(n + 1) |-> IF i = 1 THEN ss[i] ELSE g[i - 1] \o ss[i]]
      <3> HIDE DEF g
      <3>1. DOMAIN g = 1..(n + 1) /\ g = [i \in 1..(n + 1) |-> g[i]]
        BY DEF g
      <3>2. QED
        BY <2>2, <3>1
    <2>4. Long(n + 1)
      <3>1. g = Body(g, n + 1)
        BY <2>3
      <3> HIDE DEF g, Body
      <3>2. QED
        BY <3>1
    <2> HIDE DEF Long
    <2>5. QED
      BY <2>4
  <1>3. Len(ss) \in P
    <2> HIDE DEF P
    <2>1. QED
      BY <1>1, <1>2, AllNumbers, LenProperties
  <1>4. Long(Len(ss))
    BY <1>3, Zenon
  <1> DEFINE flatten == CHOOSE f : f = [i \in 1..Len(ss) |-> IF i = 1 THEN ss[i] ELSE f[i - 1] \o ss[i]]
  <1>5. flatten = [i \in 1..Len(ss) |-> IF i = 1 THEN ss[i] ELSE flatten[i - 1] \o ss[i]]
    BY <1>4, Zenon
  <1>6. FlattenSeq(ss) = flatten[Len(ss)]
    BY DEF FlattenSeq
  <1> HIDE DEF flatten
  <1>7. \A i \in 1..Len(ss) : flatten[i] = IF i = 1 THEN ss[i] ELSE flatten[i - 1] \o ss[i]
    BY <1>5
  <1>8. QED
    BY <1>6, <1>7

In(s, x) == \E k \in DOMAIN s : s[k] = x

LEMMA InConcat ==
    ASSUME NEW S, NEW s \in Seq(S), NEW t \in Seq(S), NEW x
    PROVE  In(s \o t, x) <=> In(s, x) \/ In(t, x)
  <1> DEFINE m == Len(s)
             n == Len(t)
  <1>1. m \in Nat /\ n \in Nat /\ DOMAIN s = 1..m /\ DOMAIN t = 1..n
    BY LenProperties
  <1>2. /\ DOMAIN (s \o t) = 1..(m + n)
        /\ \A i \in 1..(m + n) : (s \o t)[i] = IF i <= m THEN s[i] ELSE t[i - m]
    BY ConcatProperties, LenProperties
  <1> HIDE DEF m, n
  <1>3. ASSUME NEW k \in 1..m PROVE k \in 1..(m + n) /\ (s \o t)[k] = s[k]
    BY <1>1, <1>2
  <1>4. ASSUME NEW k \in 1..n PROVE k + m \in 1..(m + n) /\ (s \o t)[k + m] = t[k]
    <2>1. k + m \in 1..(m + n) /\ ~(k + m <= m) /\ (k + m) - m = k
      BY <1>1
    <2>2. QED
      BY <1>2, <2>1
  <1>5. ASSUME NEW k \in 1..(m + n)
        PROVE  (k \in 1..m /\ (s \o t)[k] = s[k]) \/ (k - m \in 1..n /\ (s \o t)[k] = t[k - m])
    BY <1>1, <1>2
  <1>6. ASSUME In(s, x) \/ In(t, x) PROVE In(s \o t, x)
    <2>1. ASSUME NEW k \in 1..m, s[k] = x PROVE In(s \o t, x)
      BY <1>2, <1>3, <2>1 DEF In
    <2>2. ASSUME NEW k \in 1..n, t[k] = x PROVE In(s \o t, x)
      BY <1>2, <1>4, <2>2 DEF In
    <2>3. QED
      BY <1>1, <1>6, <2>1, <2>2 DEF In
  <1>7. ASSUME In(s \o t, x) PROVE In(s, x) \/ In(t, x)
    <2>1. PICK k \in 1..(m + n) : (s \o t)[k] = x
      BY <1>2, <1>7 DEF In
    <2>2. QED
      BY <1>1, <1>5, <2>1 DEF In
  <1>8. QED
    BY <1>6, <1>7

(* What is put together is what was in one of the sequences.               *)
LEMMA Flattened ==
    ASSUME NEW S, NEW ss \in Seq(Seq(S))
    PROVE  /\ FlattenSeq(ss) \in Seq(S)
           /\ \A x : In(FlattenSeq(ss), x) <=> \E i \in DOMAIN ss : In(ss[i], x)
  <1>1. CASE Len(ss) = 0
    <2>1. ss = <<>>
      BY <1>1, EmptySeq
    <2>2. FlattenSeq(ss) = <<>>
      BY <1>1, <2>1 DEF FlattenSeq
    <2>3. <<>> \in Seq(S) /\ DOMAIN <<>> = {}
      OBVIOUS
    <2>4. QED
      BY <2>1, <2>2, <2>3 DEF In
  <1>2. CASE Len(ss) # 0
    <2>1. PICK f : /\ \A i \in 1..Len(ss) : f[i] = IF i = 1 THEN ss[i] ELSE f[i - 1] \o ss[i]
                   /\ FlattenSeq(ss) = f[Len(ss)]
      BY <1>2, Flattening
    <2> DEFINE Right(n) == /\ f[n] \in Seq(S)
                           /\ \A x : In(f[n], x) <=> \E i \in 1..n : In(ss[i], x)
               P == {n \in Nat : n \in 1..Len(ss) => Right(n)}
    <2>2. ASSUME NEW n \in Nat, n \in P, n + 1 \in 1..Len(ss)
          PROVE  Right(n + 1)
      <3>1. f[n + 1] = IF n + 1 = 1 THEN ss[n + 1] ELSE f[(n + 1) - 1] \o ss[n + 1]
        BY <2>1, <2>2
      <3>2. ss[n + 1] \in Seq(S)
        BY <2>2, ElementOfSeq
      <3>3. CASE n = 0
        <4>1. f[1] = ss[1] /\ 1..1 = {1}
          BY <3>1, <3>3
        <4>2. QED
          BY <3>2, <3>3, <4>1
      <3>4. CASE n # 0
        <4>1. Right(n)
          <5>1. Len(ss) \in Nat
            BY LenProperties
          <5>2. n \in 1..Len(ss)
            BY <2>2, <3>4, <5>1
          <5> HIDE DEF Right
          <5>3. QED
            BY <2>2, <5>2
        <4>2. f[n + 1] = f[n] \o ss[n + 1]
          <5>1. (n + 1) - 1 = n /\ n + 1 # 1
            BY <3>4
          <5>2. QED
            BY <3>1, <5>1
        <4>3. f[n + 1] \in Seq(S)
          BY <3>2, <4>1, <4>2, ConcatProperties
        <4>4. ASSUME NEW x PROVE In(f[n + 1], x) <=> In(f[n], x) \/ In(ss[n + 1], x)
          <5>1. In(f[n] \o ss[n + 1], x) <=> In(f[n], x) \/ In(ss[n + 1], x)
            <6>1. f[n] \in Seq(S)
              BY <4>1
            <6>2. QED
              BY InConcat, <3>2, <6>1
          <5>2. QED
            BY <4>2, <5>1
        <4>5. ASSUME NEW x PROVE In(f[n + 1], x) <=> \E i \in 1..(n + 1) : In(ss[i], x)
          <5>1. 1..(n + 1) = 1..n \cup {n + 1}
            BY <3>4
          <5>2. QED
            BY <4>1, <4>4, <5>1
        <4>6. QED
          BY <4>3, <4>5
      <3>5. QED
        BY <3>3, <3>4
    <2>3. Len(ss) \in Nat /\ Len(ss) \in 1..Len(ss) /\ DOMAIN ss = 1..Len(ss)
      BY <1>2, LenProperties
    <2>4. Nat \subseteq P
      <3> HIDE DEF Right
      <3>1. 0 \in P
        BY <2>3
      <3>2. ASSUME NEW n \in Nat, n \in P PROVE n + 1 \in P
        <4>1. n + 1 \in Nat
          OBVIOUS
        <4>2. n + 1 \in 1..Len(ss) => Right(n + 1)
          BY <2>2, <3>2
        <4>3. QED
          BY <4>1, <4>2
      <3> HIDE DEF P
      <3>3. QED
        BY <3>1, <3>2, AllNumbers
    <2>5. Right(Len(ss))
      BY <2>3, <2>4
    <2>6. QED
      BY <2>1, <2>3, <2>5
  <1>3. QED
    BY <1>1, <1>2, LenProperties

(* What is left on the page has not left it.                               *)
LEMMA MovesOn ==
    ASSUME NEW falls \in Seq(0..Fall)
    PROVE  MoveOn(falls) \in Seq(0..Fall)
  <1> DEFINE T == DOMAIN falls
             V == Seq(0..Fall)
             Step(v, i) == IF falls[i] < Fall THEN Append(v, falls[i] + 1) ELSE v
             f == [z \in T \X V |-> Step(z[2], z[1])]
             c == [s \in SUBSET T |-> Max(s)]
             Iter(g) == [s \in SUBSET T |-> IF s = {} THEN <<>>
                            ELSE LET x == Max(s) IN Step(g[s \ {x}], x)]
  <1>0. Fall \in Nat
    BY ConfettiAssumption
  <1>1. T = 1..Len(falls) /\ Len(falls) \in Nat /\ IsFiniteSet(T)
    BY LenProperties, FS_Interval
  <1>2. \A s \in SUBSET T : s # {} => c[s] = Max(s) /\ c[s] \in s
    BY <1>1, MaxIn
  <1>c. \A s \in SUBSET T : s # {} => c[s] \in s
    BY <1>2
  <1>f. IsFiniteSet(T)
    BY <1>1
  <1>3. ASSUME NEW i \in T, NEW v \in V PROVE Step(v, i) \in V
    <2>1. falls[i] \in 0..Fall
      BY ElementOfSeq, <1>1
    <2>2. falls[i] < Fall => falls[i] + 1 \in 0..Fall
      BY <1>0, <2>1
    <2>3. QED
      BY <2>2, AppendProperties
  <1>4. <<>> \in V
    OBVIOUS
  <1> HIDE DEF V, T, Step
  <1>5. \A i \in T, v \in V : f[<<i, v>>] = Step(v, i)
    OBVIOUS
  <1> HIDE DEF f
  <1>6. PICK g : IsFold(g, f, c, <<>>, T, V)
    <2>1. StaysWithin(f, T, V)
      BY <1>3, <1>5 DEF StaysWithin
    <2>2. Chooses(c, T)
      BY <1>c DEF Chooses
    <2> HIDE DEF c
    <2>3. QED
      BY <1>f, <1>4, <2>1, <2>2, FoldFound
  <1>7. g = Iter(g)
    <2>1. \A s \in SUBSET T : s # {} => g[s] = Step(g[s \ {Max(s)}], Max(s))
      BY <1>2, <1>5, <1>6 DEF IsFold
    <2>2. QED
      BY <1>6, <2>1 DEF IsFold
  <1> DEFINE h == CHOOSE h : h = Iter(h)
  <1>8. MoveOn(falls) = h[T]
    BY DEF MoveOn, FoldLeft, MapThenFoldSet, T, Step
  <1>9. h = Iter(h)
    BY <1>7
  <1> HIDE DEF h
  <1>10. h[{}] = <<>> /\ \A s \in SUBSET T : s # {} => h[s] = Step(h[s \ {c[s]}], c[s])
    BY <1>2, <1>9
  <1>11. \A s \in SUBSET T : s # {} /\ h[s \ {c[s]}] \in V => h[s] \in V
    <2> SUFFICES ASSUME NEW s \in SUBSET T, s # {}, h[s \ {c[s]}] \in V PROVE h[s] \in V
      OBVIOUS
    <2>1. c[s] \in T
      BY <1>c
    <2> HIDE DEF c
    <2>2. QED
      BY <1>3, <1>10, <2>1
  <1>12. \A s \in SUBSET T : h[s] \in V
    <2>1. Chooses(c, T)
      BY <1>c DEF Chooses
    <2>2. StepsStay(h, c, T, V)
      BY <1>11 DEF StepsStay
    <2>3. h[{}] \in V
      BY <1>4, <1>10
    <2> HIDE DEF c
    <2>4. QED
      BY <1>f, <2>1, <2>2, <2>3, FoldStays
  <1>13. QED
    BY <1>8, <1>12 DEF V

(* The last n of the keys are the first n of the code.                     *)
Ends(n, keys) ==
    /\ n \in 0..Len(keys)
    /\ \A i \in 1..n : keys[(Len(keys) - n) + i] = konami[i]

Beginning(n) == SubSeq(konami, 1, n)

LEMMA Code == konami \in Seq(Int) /\ Len(konami) = 10
  BY DEF konami

LEMMA Beginnings ==
    ASSUME NEW n \in 0..10
    PROVE  /\ Beginning(n) \in Seq(Int) /\ Len(Beginning(n)) = n
           /\ \A i \in 1..n : Beginning(n)[i] = konami[i]
  <1> DEFINE k == konami
  <1>1. k \in Seq(Int) /\ Len(k) = 10
    BY Code
  <1> HIDE DEF k
  <1>2. 1 \in Int /\ n \in Int /\ \A i \in 1..n : k[i] \in Int
    <2>1. \A i \in 1..n : i \in 1..Len(k)
      BY <1>1
    <2>2. \A i \in 1..Len(k) : k[i] \in Int
      BY <1>1, ElementOfSeq
    <2>3. QED
      BY <2>1, <2>2
  <1>3. /\ SubSeq(k, 1, n) \in Seq(Int) /\ Len(SubSeq(k, 1, n)) = n
        /\ \A i \in 1..n : SubSeq(k, 1, n)[i] = k[i]
    <2>1. /\ SubSeq(k, 1, n) \in Seq(Int)
          /\ Len(SubSeq(k, 1, n)) = IF 1 <= n THEN (n - 1) + 1 ELSE 0
          /\ \A i \in 1..((n - 1) + 1) : SubSeq(k, 1, n)[i] = k[(1 + i) - 1]
      BY <1>2, SubSeqProperties
    <2>2. QED
      BY <2>1
  <1>4. QED
    BY <1>3 DEF k, Beginning

LEMMA SuffixIs ==
    ASSUME NEW n \in 0..10, NEW keys \in Seq(Int)
    PROVE  IsSuffix(Beginning(n), keys) <=> Ends(n, keys)
  <1> DEFINE b == Beginning(n)
             m == Len(keys)
             rb == Reverse(b)
             rk == Reverse(keys)
  <1>1. b \in Seq(Int) /\ Len(b) = n /\ (\A i \in 1..n : b[i] = konami[i])
    BY Beginnings
  <1>2. m \in Nat /\ DOMAIN keys = 1..m
    BY LenProperties
  <1> HIDE DEF b, m
  <1>3. /\ rb \in Seq(Int) /\ Len(rb) = n
        /\ \A i \in 1..n : rb[i] = b[(n - i) + 1]
    BY <1>1 DEF Reverse
  <1>4. /\ rk \in Seq(Int) /\ Len(rk) = m
        /\ \A i \in 1..m : rk[i] = keys[(m - i) + 1]
    BY <1>2 DEF Reverse, m
  <1> HIDE DEF rb, rk
  <1>5. IsSuffix(b, keys) <=> n <= m /\ SubSeq(rb, 1, n) = SubSeq(rk, 1, n)
    BY <1>3, <1>4 DEF IsSuffix, IsPrefix, rb, rk
  <1>6. ASSUME n <= m
        PROVE  SubSeq(rb, 1, n) = SubSeq(rk, 1, n) <=> \A i \in 1..n : rb[i] = rk[i]
    <2>1. 1 \in 1..(Len(rb) + 1) /\ n \in 0..Len(rb) /\ 1 \in 1..(Len(rk) + 1) /\ n \in 0..Len(rk)
      BY <1>2, <1>3, <1>4, <1>6
    <2>2. /\ SubSeq(rb, 1, n) \in Seq(Int) /\ Len(SubSeq(rb, 1, n)) = n
          /\ \A i \in 1..n : SubSeq(rb, 1, n)[i] = rb[i]
      BY <1>3, <2>1, SubSeqProperties
    <2>3. /\ SubSeq(rk, 1, n) \in Seq(Int) /\ Len(SubSeq(rk, 1, n)) = n
          /\ \A i \in 1..n : SubSeq(rk, 1, n)[i] = rk[i]
      BY <1>4, <2>1, SubSeqProperties
    <2>4. QED
      BY <2>2, <2>3, SeqEqual
  <1>7. ASSUME n <= m
        PROVE  (\A i \in 1..n : rb[i] = rk[i]) <=> \A i \in 1..n : keys[(m - n) + i] = konami[i]
    <2>1. ASSUME NEW i \in 1..n
          PROVE  /\ (n - i) + 1 \in 1..n /\ (n - ((n - i) + 1)) + 1 = i
                 /\ rb[i] = konami[(n - i) + 1] /\ rk[i] = keys[(m - n) + ((n - i) + 1)]
      <3>1. (n - i) + 1 \in 1..n /\ (n - ((n - i) + 1)) + 1 = i
        OBVIOUS
      <3>2. i \in 1..m /\ (m - n) + ((n - i) + 1) = (m - i) + 1
        BY <1>2, <1>7
      <3>3. QED
        BY <1>1, <1>3, <1>4, <3>1, <3>2
    <2>2. ASSUME \A i \in 1..n : rb[i] = rk[i], NEW j \in 1..n
          PROVE  keys[(m - n) + j] = konami[j]
      <3> DEFINE i == (n - j) + 1
      <3>1. i \in 1..n /\ (n - i) + 1 = j
        BY <2>1
      <3> HIDE DEF i
      <3>2. QED
        BY <2>1, <2>2, <3>1
    <2>3. ASSUME \A j \in 1..n : keys[(m - n) + j] = konami[j], NEW i \in 1..n
          PROVE  rb[i] = rk[i]
      BY <2>1, <2>3
    <2>4. QED
      BY <2>2, <2>3
  <1>8. IsSuffix(b, keys) <=>
          n <= m /\ \A i \in 1..n : keys[(m - n) + i] = konami[i]
    BY <1>5, <1>6, <1>7
  <1>9. QED
    BY <1>8 DEF Ends, b, m

(* The code has been typed at least as far as the keys end with it.        *)
LEMMA TypedIsMost ==
    ASSUME NEW n \in 0..10, NEW key \in Int
    PROVE  LET keys == Append(Beginning(n), key)
           IN  /\ Typed(n, key) \in 0..10
               /\ Ends(Typed(n, key), keys)
               /\ \A l \in 0..10 : Ends(l, keys) => l <= Typed(n, key)
  <1> DEFINE keys == Append(Beginning(n), key)
             fits == {k \in 0..10 : IsSuffix(Beginning(k), keys)}
  <1>1. keys \in Seq(Int)
    BY Beginnings, AppendProperties
  <1>2. fits = {k \in 0..10 : Ends(k, keys)}
    <2> HIDE DEF keys
    <2>1. QED
      BY <1>1, SuffixIs
  <1>3. 0 \in fits
    <2>1. Len(keys) \in Nat
      BY <1>1, LenProperties
    <2> HIDE DEF keys
    <2>2. QED
      BY <1>2, <2>1 DEF Ends
  <1>4. \E k \in fits : \A l \in fits : l <= k
    <2> HIDE DEF keys
    <2>1. fits \in SUBSET (0..10) /\ fits # {} /\ 10 \in Nat
      BY <1>3
    <2> HIDE DEF fits
    <2>2. QED
      BY <2>1, MaxOf
  <1>5. Typed(n, key) = CHOOSE k \in fits : \A l \in fits : l <= k
    BY Code DEF Typed, Beginning
  <1> HIDE DEF fits, keys
  <1>6. Typed(n, key) \in fits /\ \A l \in fits : l <= Typed(n, key)
    BY <1>4, <1>5
  <1>7. QED
    BY <1>2, <1>6 DEF keys

(* Where the pointer is the code has been typed to, and perhaps further.   *)
Matches(pointer, typed) ==
    /\ pointer \in 0..typed
    /\ \A i \in 1..pointer : konami[(typed - pointer) + i] = konami[i]

LEMMA PointerFollows ==
    ASSUME NEW p \in 0..9, NEW t \in 0..10, Matches(p, t), NEW key \in Int
    PROVE  /\ Pointer(p, key) \in 0..10
           /\ Matches(Pointer(p, key), Typed(t, key))
  <1> DEFINE q == Pointer(p, key)
             u == Typed(t, key)
             keys == Append(Beginning(t), key)
  <1>1. /\ Len(keys) = t + 1 /\ keys[t + 1] = key
        /\ \A i \in 1..t : keys[i] = konami[i]
    <2> DEFINE b == Beginning(t)
    <2>1. b \in Seq(Int) /\ Len(b) = t /\ \A i \in 1..t : b[i] = konami[i]
      BY Beginnings
    <2> HIDE DEF b
    <2>2. /\ Len(Append(b, key)) = t + 1 /\ Append(b, key)[t + 1] = key
          /\ \A i \in 1..t : Append(b, key)[i] = b[i]
      BY <2>1, AppendProperties
    <2>3. QED
      BY <2>1, <2>2 DEF b
  <1>2. /\ u \in 0..10 /\ Ends(u, keys)
        /\ \A l \in 0..10 : Ends(l, keys) => l <= u
    BY TypedIsMost
  <1> HIDE DEF u, keys
  <1>3. q \in 0..10 /\ Ends(q, keys)
    <2>1. CASE konami[p + 1] = key
      <3>1. q = p + 1 /\ q \in 0..10 /\ q \in 0..Len(keys)
        BY <1>1, <2>1 DEF Pointer, Matches
      <3>2. ASSUME NEW i \in 1..(p + 1) PROVE keys[((t + 1) - (p + 1)) + i] = konami[i]
        <4>1. CASE i = p + 1
          <5>1. ((t + 1) - (p + 1)) + i = t + 1
            BY <4>1
          <5>2. QED
            BY <1>1, <2>1, <4>1, <5>1
        <4>2. CASE i # p + 1
          <5>1. i \in 1..p /\ ((t + 1) - (p + 1)) + i = (t - p) + i /\ (t - p) + i \in 1..t
            BY <4>2 DEF Matches
          <5>2. konami[(t - p) + i] = konami[i]
            BY <5>1 DEF Matches
          <5>3. QED
            BY <1>1, <5>1, <5>2
        <4>3. QED
          BY <4>1, <4>2
      <3> HIDE DEF q
      <3>3. QED
        BY <1>1, <3>1, <3>2 DEF Ends
    <2>2. CASE konami[p + 1] # key /\ key = konami[1]
      <3>1. q = 1
        BY <2>2 DEF Pointer
      <3> HIDE DEF q
      <3>2. ((t + 1) - 1) + 1 = t + 1 /\ 1 \in 0..(t + 1) /\ 1..1 = {1}
        OBVIOUS
      <3>3. QED
        BY <1>1, <2>2, <3>1, <3>2 DEF Ends
    <2>3. CASE konami[p + 1] # key /\ key # konami[1]
      <3>1. q = 0
        BY <2>3 DEF Pointer
      <3> HIDE DEF q
      <3>2. QED
        BY <1>1, <3>1 DEF Ends
    <2>4. QED
      BY <2>1, <2>2, <2>3
  <1> HIDE DEF q
  <1>4. q \in 0..u
    BY <1>2, <1>3
  <1>5. ASSUME NEW i \in 1..q PROVE konami[(u - q) + i] = konami[i]
    <2>1. (u - q) + i \in 1..u /\ ((t + 1) - u) + ((u - q) + i) = ((t + 1) - q) + i
      BY <1>2, <1>4
    <2>2. keys[((t + 1) - q) + i] = konami[i]
      BY <1>1, <1>3 DEF Ends
    <2>3. keys[((t + 1) - u) + ((u - q) + i)] = konami[(u - q) + i]
      BY <1>1, <1>2, <2>1 DEF Ends
    <2>4. QED
      BY <2>1, <2>2, <2>3
  <1>6. QED
    BY <1>3, <1>4, <1>5 DEF Matches, q, u

-----------------------------------------------------------------------------
(* The page: keys and frames.                                              *)

Party == [pointer : 0..9, typed : 0..10, due : BOOLEAN, frame : BOOLEAN,
          loops : Nat, timers : Nat, early : BOOLEAN, falls : Seq(0..Fall)]

PartySound(p) ==
    /\ p \in Party
    /\ Matches(p.pointer, p.typed)
    /\ p.due => p.typed = 10
    /\ p.loops = 1 \/ p.early
    /\ p.loops = p.timers

LEMMA KonamiKeys == ToSet(konami) \cup {OtherKey} \subseteq Int
  BY DEF ToSet, konami, OtherKey

LEMMA ZeroFalls == 0 \in 0..Fall
  BY ConfettiAssumption

LEMMA PoofIsSound ==
    ASSUME NEW p, PartySound(p)
    PROVE  PartySound(Poof(p))
  <1>1. CASE p.frame
    BY <1>1 DEF Poof
  <1>2. CASE ~p.frame
    <2> DEFINE s == Append(p.falls, 0)
               n == p.loops + 1
               m == p.timers + 1
    <2>1. s \in Seq(0..Fall) /\ n \in Nat /\ m \in Nat /\ n = m
      BY ZeroFalls, AppendProperties DEF PartySound, Party
    <2>2. Poof(p) = [p EXCEPT !.loops = n, !.timers = m, !.falls = s, !.early = TRUE]
      BY <1>2 DEF Poof
    <2> HIDE DEF s, n, m
    <2>3. QED
      BY <2>1, <2>2 DEF PartySound, Party
  <1>3. QED
    BY <1>1, <1>2 DEF PartySound, Party

LEMMA PressIsSound ==
    ASSUME PartySound(party), NEW key \in Int, PressKey(key)
    PROVE  PartySound(party')
  <1> DEFINE q == Pointer(party.pointer, key)
             u == Typed(party.typed, key)
             full == q = Len(konami)
             r == IF full THEN 0 ELSE q
             p == [party EXCEPT !.pointer = r, !.typed = u, !.due = full]
  <1>1. /\ party.pointer \in 0..9 /\ party.typed \in 0..10
        /\ Matches(party.pointer, party.typed)
    BY DEF PartySound, Party
  <1>2. q \in 0..10 /\ Matches(q, u)
    BY <1>1, PointerFollows
  <1>3. u \in 0..10
    BY <1>1, TypedIsMost
  <1>4. full <=> q = 10
    BY Code
  <1>5. party' = IF full THEN Poof(p) ELSE p
    BY DEF PressKey
  <1> HIDE DEF q, u
  <1>6. r \in 0..9 /\ Matches(r, u) /\ (full => u = 10)
    BY <1>2, <1>3, <1>4 DEF Matches
  <1>7. full \in BOOLEAN
    OBVIOUS
  <1> HIDE DEF full, r
  <1>8. PartySound(p)
    BY <1>3, <1>6, <1>7 DEF PartySound, Party
  <1> HIDE DEF p
  <1>9. QED
    BY <1>5, <1>8, PoofIsSound

LEMMA PartyStaysSound ==
    ASSUME PartySound(party), PartyNext
    PROVE  PartySound(party')
  <1>1. CASE \E key \in ToSet(konami) \cup {OtherKey} : PressKey(key)
    BY <1>1, KonamiKeys, PressIsSound
  <1>2. CASE TimerFires
    <2> DEFINE s == Append(party.falls, 0)
    <2>1. s \in Seq(0..Fall)
      BY ZeroFalls, AppendProperties DEF PartySound, Party
    <2>2. party' = [party EXCEPT !.falls = s, !.due = FALSE]
      BY <1>2 DEF TimerFires
    <2> HIDE DEF s
    <2>3. QED
      BY <2>1, <2>2 DEF PartySound, Party
  <1>3. CASE PartyFrame
    <2> DEFINE s == MoveOn(party.falls)
    <2>1. s \in Seq(0..Fall)
      BY MovesOn DEF PartySound, Party
    <2>2. party' = [party EXCEPT !.falls = s, !.frame = TRUE, !.due = FALSE]
      <3>1. PICK loop \in 1..party.loops :
               party' = [party EXCEPT !.falls = s, !.frame = TRUE, !.due = FALSE]
        BY <1>3 DEF PartyFrame
      <3>2. QED
        BY <3>1
    <2> HIDE DEF s
    <2>3. QED
      BY <2>1, <2>2 DEF PartySound, Party
  <1>4. QED
    BY <1>1, <1>2, <1>3 DEF PartyNext

LEMMA PartyBegins ==
    ASSUME PartyInit
    PROVE  PartySound(party)
  <1>1. <<0>> \in Seq(0..Fall)
    BY ZeroFalls
  <1>2. QED
    BY <1>1 DEF PartyInit, PartySound, Party, Matches

LEMMA PartyTells ==
    ASSUME PartySound(party)
    PROVE  /\ OneLoop
           /\ party.due => party.typed = Len(konami)
  <1>1. \A i \in DOMAIN party.falls : party.falls[i] \in 0..Fall
    BY ElementOfSeq, LenProperties DEF PartySound, Party
  <1>2. \A i \in DOMAIN party.falls : party.falls[i] <= Fall
    BY <1>1, ConfettiAssumption
  <1>3. QED
    BY <1>2, Code DEF OneLoop, PartySound, Party

-----------------------------------------------------------------------------
(* The line: darts that cut what is left of the domain.                    *)

Inside(x, v) == v[1] <= x /\ x < v[2]

(* The whole numbers of an interval that a dart does not take stay in what *)
(* is left of it, and no other.                                            *)
LEMMA Cuts ==
    ASSUME NEW a \in Int, NEW b \in Int, NEW c \in Int, NEW d \in Int, c < d
    PROVE  /\ CutInterval(a, b, c, d) \in Seq(Int \X Int)
           /\ \A x \in Int :
                 (\E v \in Int \X Int : In(CutInterval(a, b, c, d), v) /\ Inside(x, v))
                   <=> a <= x /\ x < b /\ ~(c <= x /\ x < d)
  <1> DEFINE s == CutInterval(a, b, c, d)
             Right(t) == /\ t \in Seq(Int \X Int)
                         /\ \A x \in Int :
                               (\E v \in Int \X Int : In(t, v) /\ Inside(x, v))
                                 <=> a <= x /\ x < b /\ ~(c <= x /\ x < d)
  <1>0. /\ ~ \E v : In(<<>>, v)
        /\ \A u, v : In(<<u>>, v) <=> v = u
        /\ \A u, w, v : In(<<u, w>>, v) <=> v = u \/ v = w
    BY DEF In
  <1>a. \A p, q, x \in Int : Inside(x, <<p, q>>) <=> p <= x /\ x < q
    BY DEF Inside
  <1>1. CASE a >= c /\ a < d /\ b > d
    <2>1. s = <<<<d, b>>>>
      BY <1>1 DEF CutInterval
    <2>2. \A x \in Int : d <= x /\ x < b <=> a <= x /\ x < b /\ ~(c <= x /\ x < d)
      BY <1>1
    <2>3. s \in Seq(Int \X Int)
      BY <2>1
    <2>4. ASSUME NEW x \in Int
          PROVE  (\E v \in Int \X Int : In(s, v) /\ Inside(x, v)) <=> d <= x /\ x < b
      BY <1>0, <1>a, <2>1
    <2> HIDE DEF s
    <2>5. QED
      BY <2>2, <2>3, <2>4 DEF s
  <1>2. CASE a >= c /\ a < d /\ ~(b > d)
    <2>1. s = <<>>
      BY <1>2 DEF CutInterval
    <2>2. \A x \in Int : ~(a <= x /\ x < b /\ ~(c <= x /\ x < d))
      BY <1>2
    <2>3. QED
      BY <1>0, <2>1, <2>2
  <1>3. CASE ~(a >= c /\ a < d) /\ a < c /\ b > c /\ b <= d
    <2>1. s = <<<<a, c>>>>
      BY <1>3 DEF CutInterval
    <2>2. \A x \in Int : a <= x /\ x < c <=> a <= x /\ x < b /\ ~(c <= x /\ x < d)
      BY <1>3
    <2>3. s \in Seq(Int \X Int)
      BY <2>1
    <2>4. ASSUME NEW x \in Int
          PROVE  (\E v \in Int \X Int : In(s, v) /\ Inside(x, v)) <=> a <= x /\ x < c
      BY <1>0, <1>a, <2>1
    <2> HIDE DEF s
    <2>5. QED
      BY <2>2, <2>3, <2>4 DEF s
  <1>4. CASE ~(a >= c /\ a < d) /\ a < c /\ b > c /\ ~(b <= d)
    <2>1. s = <<<<a, c>>, <<d, b>>>>
      BY <1>4 DEF CutInterval
    <2>2. \A x \in Int : (a <= x /\ x < c) \/ (d <= x /\ x < b)
                           <=> a <= x /\ x < b /\ ~(c <= x /\ x < d)
      BY <1>4
    <2>3. s \in Seq(Int \X Int)
      BY <2>1
    <2>4. ASSUME NEW x \in Int
          PROVE  (\E v \in Int \X Int : In(s, v) /\ Inside(x, v))
                   <=> (a <= x /\ x < c) \/ (d <= x /\ x < b)
      BY <1>0, <1>a, <2>1
    <2> HIDE DEF s
    <2>5. QED
      BY <2>2, <2>3, <2>4 DEF s
  <1>5. CASE ~(a >= c /\ a < d) /\ ~(a < c /\ b > c)
    <2>1. s = <<<<a, b>>>>
      BY <1>5 DEF CutInterval
    <2>2. \A x \in Int : a <= x /\ x < b <=> a <= x /\ x < b /\ ~(c <= x /\ x < d)
      BY <1>5
    <2>3. s \in Seq(Int \X Int)
      BY <2>1
    <2>4. ASSUME NEW x \in Int
          PROVE  (\E v \in Int \X Int : In(s, v) /\ Inside(x, v)) <=> a <= x /\ x < b
      BY <1>0, <1>a, <2>1
    <2> HIDE DEF s
    <2>5. QED
      BY <2>2, <2>3, <2>4 DEF s
  <1>6. QED
    BY <1>1, <1>2, <1>3, <1>4, <1>5

(* A place that the next dart may hit, and two places that keep their      *)
(* distance.                                                               *)
Free(d, x) == \E v \in Int \X Int : In(d.domain, v) /\ Inside(x, v)

FarApart(p, q) == p >= q + Radius \/ q >= p + Radius

Covers(q, x) == q - Radius <= x /\ x < q + Radius

Discs == [domain : Seq(Int \X Int), spline : SUBSET (0..Unit)]

(* The points keep their distance from each other, and so does all that is *)
(* left of the domain; what is not left has a point nearby.                *)
DiscSound(d) ==
    /\ d \in Discs
    /\ {0, Unit} \subseteq d.spline
    /\ \A p, q \in d.spline : p # q => FarApart(p, q)
    /\ \A x \in Int : Free(d, x) =>
          /\ Radius <= x /\ x < Unit - Radius
          /\ \A q \in d.spline : FarApart(x, q)
    /\ \A x \in Int : Radius <= x /\ x < Unit - Radius =>
          Free(d, x) \/ \E q \in d.spline : Covers(q, x)

LEMMA LineSizes ==
    Unit \in Nat /\ Radius \in Nat /\ Radius > 0 /\ Unit > 2 * Radius
  BY ConfettiAssumption

LEMMA NewLine ==
    DiscSound([domain |-> <<<<Radius, Unit - Radius>>>>, spline |-> {0, Unit}])
  <1> DEFINE d == [domain |-> <<<<Radius, Unit - Radius>>>>, spline |-> {0, Unit}]
  <1>1. d \in Discs
    <2>1. <<<<Radius, Unit - Radius>>>> \in Seq(Int \X Int)
      BY LineSizes
    <2>2. {0, Unit} \in SUBSET (0..Unit)
      BY LineSizes
    <2>3. QED
      BY <2>1, <2>2 DEF Discs
  <1>2. ASSUME NEW x \in Int
        PROVE  Free(d, x) <=> Radius <= x /\ x < Unit - Radius
    <2>1. \A v : In(<<<<Radius, Unit - Radius>>>>, v) <=> v = <<Radius, Unit - Radius>>
      BY DEF In
    <2>2. Inside(x, <<Radius, Unit - Radius>>) <=> Radius <= x /\ x < Unit - Radius
      BY DEF Inside
    <2>3. <<Radius, Unit - Radius>> \in Int \X Int
      BY LineSizes
    <2>4. QED
      BY <2>1, <2>2, <2>3 DEF Free
  <1>3. d.spline = {0, Unit}
    OBVIOUS
  <1> HIDE DEF d
  <1>4. \A p, q \in d.spline : p # q => FarApart(p, q)
    BY <1>3, LineSizes DEF FarApart
  <1>5. ASSUME NEW x \in Int, Free(d, x)
        PROVE  \A q \in d.spline : FarApart(x, q)
    BY <1>2, <1>3, <1>5, LineSizes DEF FarApart
  <1>6. QED
    BY <1>1, <1>2, <1>3, <1>4, <1>5 DEF DiscSound, d

(* What a dart leaves of an interval, in terms of the numbers inside.      *)
CutWell(a, b, c, d) ==
    /\ CutInterval(a, b, c, d) \in Seq(Int \X Int)
    /\ \A x \in Int :
          (\E v \in Int \X Int : In(CutInterval(a, b, c, d), v) /\ Inside(x, v))
            <=> a <= x /\ x < b /\ ~(c <= x /\ x < d)

LEMMA CutsWell == \A a, b, c, d \in Int : c < d => CutWell(a, b, c, d)
  BY Cuts DEF CutWell

LEMMA DartIsSound ==
    ASSUME DiscSound(disc), ThrowDart
    PROVE  DiscSound(disc')
  <1>0. PICK i \in DOMAIN disc.domain :
          \E dart \in disc.domain[i][1]..(disc.domain[i][2] - 1) :
            disc' = [domain |-> FlattenSeq(
                        [j \in DOMAIN disc.domain |->
                            CutInterval(disc.domain[j][1], disc.domain[j][2],
                                        dart - Radius, dart + Radius)]),
                     spline |-> disc.spline \cup {dart}]
    BY DEF ThrowDart
  <1>1. PICK dart \in disc.domain[i][1]..(disc.domain[i][2] - 1) :
          disc' = [domain |-> FlattenSeq(
                      [j \in DOMAIN disc.domain |->
                          CutInterval(disc.domain[j][1], disc.domain[j][2],
                                      dart - Radius, dart + Radius)]),
                   spline |-> disc.spline \cup {dart}]
    BY <1>0
  <1> DEFINE s == disc.domain
             Cut(j) == CutInterval(s[j][1], s[j][2], dart - Radius, dart + Radius)
             ss == [j \in DOMAIN s |-> Cut(j)]
  <1>2. s \in Seq(Int \X Int) /\ disc.spline \subseteq 0..Unit
    BY DEF DiscSound, Discs
  <1>3. \A j \in DOMAIN s : s[j] \in Int \X Int /\ s[j][1] \in Int /\ s[j][2] \in Int
    <2>1. \A j \in DOMAIN s : s[j] \in Int \X Int
      BY <1>2, ElementOfSeq, LenProperties
    <2>2. QED
      BY <2>1
  <1>4. dart \in Int /\ Inside(dart, s[i])
    BY <1>3 DEF Inside
  <1>5. Free(disc, dart)
    BY <1>3, <1>4 DEF Free, In
  <1>6. /\ dart \in Int /\ Radius <= dart /\ dart < Unit - Radius
        /\ \A q \in disc.spline : FarApart(dart, q)
    BY <1>4, <1>5 DEF DiscSound
  <1>c. dart - Radius \in Int /\ dart + Radius \in Int /\ dart - Radius < dart + Radius
    BY <1>4, LineSizes
  <1>7. \A j \in DOMAIN s :
          /\ Cut(j) \in Seq(Int \X Int)
          /\ \A x \in Int : (\E v \in Int \X Int : In(Cut(j), v) /\ Inside(x, v))
                <=> s[j][1] <= x /\ x < s[j][2] /\ ~(dart - Radius <= x /\ x < dart + Radius)
    <2> SUFFICES ASSUME NEW j \in DOMAIN s
                 PROVE  /\ Cut(j) \in Seq(Int \X Int)
                        /\ \A x \in Int : (\E v \in Int \X Int : In(Cut(j), v) /\ Inside(x, v))
                              <=> s[j][1] <= x /\ x < s[j][2]
                                    /\ ~(dart - Radius <= x /\ x < dart + Radius)
      OBVIOUS
    <2> DEFINE a == s[j][1]
               b == s[j][2]
               c == dart - Radius
               d == dart + Radius
    <2>1. a \in Int /\ b \in Int
      BY <1>3
    <2>2. c \in Int /\ d \in Int /\ c < d
      BY <1>c
    <2>3. Cut(j) = CutInterval(a, b, c, d)
      OBVIOUS
    <2> HIDE DEF a, b, c, d, Cut
    <2>4. /\ Cut(j) \in Seq(Int \X Int)
          /\ \A x \in Int : (\E v \in Int \X Int : In(Cut(j), v) /\ Inside(x, v))
                <=> a <= x /\ x < b /\ ~(c <= x /\ x < d)
      <3>1. CutWell(a, b, c, d)
        BY <2>1, <2>2, CutsWell
      <3>2. QED
        BY <2>3, <3>1 DEF CutWell
    <2> USE DEF a, b, c, d
    <2>5. QED
      BY <2>4
  <1>8. ss \in Seq(Seq(Int \X Int)) /\ DOMAIN ss = DOMAIN s
    <2>1. DOMAIN s = 1..Len(s) /\ Len(s) \in Nat
      BY <1>2, LenProperties
    <2>2. \A j \in 1..Len(s) : Cut(j) \in Seq(Int \X Int)
      BY <1>7, <2>1
    <2> HIDE DEF Cut
    <2>3. QED
      BY <2>1, <2>2
  <1>9. /\ disc'.domain = FlattenSeq(ss)
        /\ disc'.spline = disc.spline \cup {dart}
        /\ disc' = [domain |-> FlattenSeq(ss), spline |-> disc.spline \cup {dart}]
    BY <1>1
  <1>10. /\ FlattenSeq(ss) \in Seq(Int \X Int)
         /\ \A v : In(FlattenSeq(ss), v) <=> \E j \in DOMAIN ss : In(ss[j], v)
    BY <1>8, Flattened
  <1>11. ASSUME NEW x \in Int
         PROVE  Free(disc', x) <=> Free(disc, x) /\ ~Covers(dart, x)
    <2>1. Free(disc', x) <=> \E v \in Int \X Int, j \in DOMAIN s : In(Cut(j), v) /\ Inside(x, v)
      <3> HIDE DEF Cut
      <3>1. \A j \in DOMAIN s : ss[j] = Cut(j)
        OBVIOUS
      <3> HIDE DEF ss
      <3>2. QED
        BY <1>8, <1>9, <1>10, <3>1 DEF Free
    <2>2. Free(disc, x) <=> \E j \in DOMAIN s : s[j][1] <= x /\ x < s[j][2]
      <3>1. Free(disc, x) <=> \E j \in DOMAIN s : Inside(x, s[j])
        BY <1>3 DEF Free, In
      <3>2. QED
        BY <3>1 DEF Inside
    <2>3. Covers(dart, x) <=> dart - Radius <= x /\ x < dart + Radius
      BY DEF Covers
    <2> HIDE DEF Cut
    <2>4. QED
      BY <1>7, <2>1, <2>2, <2>3
  <1> HIDE DEF ss
  <1>12. disc' \in Discs /\ {0, Unit} \subseteq disc'.spline
    <2>1. disc.spline \cup {dart} \in SUBSET (0..Unit)
      BY <1>2, <1>6, LineSizes
    <2>2. {0, Unit} \subseteq disc.spline
      BY DEF DiscSound
    <2>3. QED
      BY <1>9, <1>10, <2>1, <2>2 DEF Discs
  <1>13. ASSUME NEW p \in disc'.spline, NEW q \in disc'.spline, p # q
         PROVE  FarApart(p, q)
    <2>1. \A a, b \in disc.spline : a # b => FarApart(a, b)
      BY DEF DiscSound
    <2>2. \A b \in disc.spline : FarApart(b, dart)
      BY <1>6 DEF FarApart
    <2>3. QED
      BY <1>6, <1>9, <1>13, <2>1, <2>2
  <1>14. ASSUME NEW x \in Int, Free(disc', x)
         PROVE  /\ Radius <= x /\ x < Unit - Radius
                /\ \A q \in disc'.spline : FarApart(x, q)
    <2>1. Free(disc, x) /\ ~Covers(dart, x)
      BY <1>11, <1>14
    <2>2. FarApart(x, dart)
      BY <1>4, <2>1, LineSizes DEF Covers, FarApart
    <2>3. QED
      BY <1>9, <2>1, <2>2 DEF DiscSound
  <1>15. ASSUME NEW x \in Int, Radius <= x /\ x < Unit - Radius
         PROVE  Free(disc', x) \/ \E q \in disc'.spline : Covers(q, x)
    <2>1. Free(disc, x) \/ \E q \in disc.spline : Covers(q, x)
      BY <1>15 DEF DiscSound
    <2>2. QED
      BY <1>9, <1>11, <2>1
  <1>16. QED
    BY <1>12, <1>13, <1>14, <1>15 DEF DiscSound

LEMMA DiscTells ==
    ASSUME DiscSound(disc)
    PROVE  LineIsFull
  <1>1. /\ disc.domain \in Seq(Int \X Int) /\ disc.spline \subseteq 0..Unit
        /\ Unit \in disc.spline
    BY DEF DiscSound, Discs
  <1>2. \A p, q \in disc.spline : p # q => FarApart(p, q)
    BY DEF DiscSound
  <1>3. ASSUME NEW i \in DOMAIN disc.domain,
               NEW x \in disc.domain[i][1]..(disc.domain[i][2] - 1),
               NEW q \in disc.spline
        PROVE  FarApart(x, q)
    <2>1. disc.domain[i] \in Int \X Int
      BY <1>1, ElementOfSeq, LenProperties
    <2>2. x \in Int /\ Inside(x, disc.domain[i])
      BY <2>1 DEF Inside
    <2>3. Free(disc, x)
      BY <2>1, <2>2 DEF Free, In
    <2>4. QED
      BY <2>2, <2>3 DEF DiscSound
  <1>4. ASSUME disc.domain = <<>>, NEW p \in disc.spline \ {Unit}
        PROVE  \E q \in disc.spline : q > p /\ q <= p + 2 * Radius
    <2>1. p \in 0..Unit /\ FarApart(p, Unit)
      BY <1>1, <1>2
    <2>2. p + Radius <= Unit
      BY <2>1, LineSizes DEF FarApart
    <2>3. CASE p + Radius >= Unit - Radius
      <3>1. Unit > p /\ Unit <= p + 2 * Radius
        BY <2>1, <2>2, <2>3, LineSizes
      <3>2. QED
        BY <1>1, <3>1
    <2>4. CASE p + Radius < Unit - Radius
      <3>1. p + Radius \in Int /\ Radius <= p + Radius
        BY <2>1, LineSizes
      <3>2. ~ Free(disc, p + Radius)
        BY <1>4 DEF Free, In
      <3>3. PICK q \in disc.spline : Covers(q, p + Radius)
        BY <2>4, <3>1, <3>2 DEF DiscSound
      <3>4. q \in 0..Unit
        BY <1>1
      <3>5. q > p /\ q <= p + 2 * Radius
        BY <2>1, <3>3, <3>4, LineSizes DEF Covers
      <3>6. QED
        BY <3>5
    <2>5. QED
      BY <2>1, <2>3, <2>4, LineSizes
  <1>5. QED
    BY <1>2, <1>3, <1>4 DEF LineIsFull, FarApart

ConfettiSound == DiscSound(disc) /\ PartySound(party)

(***************************************************************************)
(* Whatever darts are thrown and keys are pressed, what is left of a       *)
(* line's domain is out of reach of every point of its spline and all      *)
(* else is near one; the keys before Konami's pointer are the last ones    *)
(* that were typed; and one loop runs for one timer.                       *)
(***************************************************************************)
THEOREM ConfettiStaysSound == ConfettiSpec => []ConfettiSound
  <1>1. DiscInit /\ PartyInit => ConfettiSound
    BY NewLine, PartyBegins DEF DiscInit, ConfettiSound
  <1>2. ASSUME ConfettiSound, [ConfettiNext]_<<disc, party>>
        PROVE  ConfettiSound'
    <2>1. CASE DiscNext /\ UNCHANGED party
      <3>1. DiscSound(disc')
        BY <1>2, <2>1, NewLine, DartIsSound DEF DiscNext, NextDisc, ConfettiSound
      <3>2. QED
        BY <1>2, <2>1, <3>1 DEF ConfettiSound
    <2>2. CASE PartyNext /\ UNCHANGED disc
      BY <1>2, <2>2, PartyStaysSound DEF ConfettiSound
    <2>3. CASE UNCHANGED <<disc, party>>
      BY <1>2, <2>3 DEF ConfettiSound
    <2>4. QED
      BY <1>2, <2>1, <2>2, <2>3 DEF ConfettiNext
  <1>3. QED
    BY <1>1, <1>2, PTL DEF ConfettiSpec

(***************************************************************************)
(* createPoisson and the party: no two points of a spline come closer than *)
(* the radius and a finished line has no room left; no second loop runs    *)
(* unless the code is typed before the first frame; and only the whole     *)
(* code starts a party.                                                    *)
(***************************************************************************)
THEOREM ConfettiKeepOrder == ConfettiSpec => PartyInOrder
  <1> DEFINE WholeCode == party.due => party.typed = Len(konami)
             Right == LineIsFull /\ OneLoop /\ WholeCode
  <1>1. ConfettiSound => Right
    BY DiscTells, PartyTells DEF ConfettiSound
  <1>2. Right' => /\ disc' # disc => LineIsFull'
                  /\ party' # party => OneLoop' /\ CodeStartsParty
    BY DEF CodeStartsParty
  <1> HIDE DEF Right
  <1>3. QED
    BY <1>1, <1>2, ConfettiStaysSound, PTL DEF PartyInOrder

=============================================================================
