------------------------------ MODULE GridLayer ------------------------------
(***************************************************************************)
(* The tiles of a map: L.GridLayer and L.TileLayer of                      *)
(* app/assets/javascripts/leaflet.js, driven by the events of a moving     *)
(* map, the images that arrive when they like, fading, pruning and the     *)
(* throttle of `move`.                                                     *)
(*                                                                         *)
(* A tile is a pair <<x, z>>; the rows of a level are left out.            *)
(***************************************************************************)
EXTENDS MapMovement, Functions

CONSTANTS
    TileSize,     \* in pixels
    KeepBuffer    \* tiles kept around the visible ones when panning

ASSUME TileAssumption == TileSize \in Nat \ {0} /\ KeepBuffer \in Nat

VARIABLE grid     \* the fields of the layer

gridVars == <<map, width, calls, grid>>

Tile == [current : BOOLEAN, loaded : BOOLEAN, active : BOOLEAN]

TileCoords == (Int \X Zooms)

MaxPrunes == 2    \* bound: timeouts of _pruneTiles told apart

GridInit ==
    /\ MapInit
    /\ grid = [onMap |-> "no",        \* "waiting" for the map's first view, "yes"
               tileZoom |-> Nowhere, levels |-> {}, tiles |-> <<>>,
               noPrune |-> FALSE, loading |-> FALSE,
               fadeFrame |-> FALSE, prunes |-> 0,
               lock |-> "free",       \* of throttle(): "again" if called meanwhile
               awaited |-> {},        \* tiles whose image is on its way
               late |-> FALSE]        \* an emptied image may still be on its way

(* What the layer reads from the map when it handles an event.             *)
Env(m) == [mapZoom |-> m.zoom, mapCenter |-> m.center, anim |-> m.anim,
           size |-> m.size]

-----------------------------------------------------------------------------
(* Which tiles                                                             *)

(* _getTiledPixelBounds and _pxBoundsToTileRange, in eighths of a pixel.   *)
TileRange(e, center, z) ==
    LET mapZoom == IF e.anim = Nowhere THEN e.mapZoom ELSE Max({e.anim.zoom, e.mapZoom})
        at == 8 * ((center * 2^z) \div 2^MaxZoom)
        half == (4 * e.size * 2^z) \div 2^mapZoom
        unit == 8 * TileSize IN
    ((at - half) \div unit)..(-((-(at + half)) \div unit) - 1)

Margin(range) == {x + d : x \in range, d \in -KeepBuffer..KeepBuffer}

Parent(t, k) == <<t[1] \div 2^k, t[2] - k>>

Children(t) == {<<2 * t[1], t[2] + 1>>, <<2 * t[1] + 1, t[2] + 1>>}

-----------------------------------------------------------------------------
(* Removing tiles                                                          *)

(* The image of a removed tile is replaced by an empty one, whose load     *)
(* event is still to come; of which tiles is not remembered.               *)
RemoveTiles(g, S) ==
    [g EXCEPT !.tiles = Restrict(@, DOMAIN @ \ S),
              !.awaited = @ \ S,
              !.late = @ \/ S # {}]

RemoveAllTiles(g) == RemoveTiles(g, DOMAIN g.tiles)

InvalidateAll(g) ==
    [RemoveAllTiles([g EXCEPT !.levels = {}]) EXCEPT !.tileZoom = Nowhere]

Loaded(g, t) == t \in DOMAIN g.tiles /\ g.tiles[t].loaded

Active(g, t) == t \in DOMAIN g.tiles /\ g.tiles[t].active

(* The loaded parents up to the first active one, five levels at most.     *)
RetainedParents(g, t) ==
    {Parent(t, k) : k \in {i \in 1..5 :
        /\ Loaded(g, Parent(t, i))
        /\ \A j \in 1..(i - 1) : ~Active(g, Parent(t, j))}}

HasActiveParent(g, t) == \E k \in 1..5 : Active(g, Parent(t, k))

(* Loaded tiles up to two levels below, not below an active one.           *)
RetainedChildren(g, t) ==
    LET near == Children(t)
        far == UNION {Children(c) : c \in {d \in near : ~Active(g, d)}} IN
    {c \in near \cup far : Loaded(g, c)}

(* Mutant: the children are forgotten. *)
Retained_ParentsOnly(g) ==
    LET current == {t \in DOMAIN g.tiles : g.tiles[t].current} IN
    current \cup UNION {RetainedParents(g, t) :
                           t \in {u \in current : ~g.tiles[u].active}}

Retained(g) ==
    LET current == {t \in DOMAIN g.tiles : g.tiles[t].current}
        bare == {t \in current : ~g.tiles[t].active} IN
    current \cup UNION {RetainedParents(g, t)
                          \cup (IF HasActiveParent(g, t) THEN {}
                                ELSE RetainedChildren(g, t)) : t \in bare}

PruneTiles(g) ==
    IF g.onMap = "yes" THEN RemoveTiles(g, DOMAIN g.tiles \ Retained(g)) ELSE g

(* Images of other zooms that are not complete are dropped.                *)
AbortLoading(g) ==
    RemoveTiles(g, {t \in DOMAIN g.tiles : t[2] # g.tileZoom /\ t \in g.awaited})

-----------------------------------------------------------------------------
(* Adding tiles                                                            *)

(* A level without tiles is removed, the one of tileZoom is made anew.     *)
UpdateLevels(g) ==
    [g EXCEPT !.levels = {z \in @ : \E t \in DOMAIN g.tiles : t[2] = z}
                           \cup {g.tileZoom}]

MarkOutside(g, e, center) ==
    LET keep == Margin(TileRange(e, center, g.tileZoom)) IN
    [g EXCEPT !.tiles = [t \in DOMAIN @ |->
        IF t[2] # g.tileZoom \/ t[1] \notin keep
          THEN [@[t] EXCEPT !.current = FALSE] ELSE @[t]]]

AddTiles(g, e, center) ==
    LET visible == {<<x, g.tileZoom>> : x \in TileRange(e, center, g.tileZoom)}
        queue == visible \ DOMAIN g.tiles IN
    [g EXCEPT
        !.tiles = [t \in DOMAIN @ \cup queue |->
            IF t \in queue
              THEN [current |-> TRUE, loaded |-> FALSE, active |-> FALSE]
              ELSE IF t \in visible THEN [@[t] EXCEPT !.current = TRUE]
              ELSE @[t]],
        !.awaited = @ \cup queue,
        !.loading = @ \/ queue # {}]

(* _setView without the detour through _update.                            *)
SetViewAt(g, e, center, zoom) ==
    LET n == UpdateLevels(AbortLoading([g EXCEPT !.tileZoom = zoom])) IN
    AddTiles(MarkOutside(n, e, center), e, center)

(* If the map's zoom is more than one away, the tiles are those of the     *)
(* map's zoom after all.                                                   *)
Update(g, e, center) ==
    IF g.tileZoom = Nowhere THEN g
    ELSE LET n == MarkOutside(g, e, center) IN
         IF Distance(e.mapZoom, g.tileZoom) > 1
           THEN [PruneTiles(SetViewAt(n, e, center, e.mapZoom))
                   EXCEPT !.noPrune = FALSE]
           ELSE AddTiles(n, e, center)

GridSetView(g, e, center, zoom, noPrune, noUpdate) ==
    IF noUpdate /\ zoom = g.tileZoom THEN g
    ELSE LET n == Update(UpdateLevels(AbortLoading([g EXCEPT !.tileZoom = zoom])),
                         e, center) IN
         [IF noPrune THEN n ELSE PruneTiles(n) EXCEPT !.noPrune = noPrune]

GridResetView(g, e, flight) ==
    GridSetView(g, e, e.mapCenter, e.mapZoom, flight, flight)

(* Mutant: tiles are not updated when a movement has ended. *)
OnMoveEnd_Idle(g, e) == g

OnMoveEnd(g, e) ==
    IF g.onMap # "yes" \/ e.anim # Nowhere THEN g ELSE Update(g, e, e.mapCenter)

(* throttle(_onMoveEnd, updateInterval)                                    *)
OnMove(g, e) ==
    IF g.lock = "free" THEN [OnMoveEnd(g, e) EXCEPT !.lock = "locked"]
                       ELSE [g EXCEPT !.lock = "again"]

OnAdd(g, e) ==
    LET n == [g EXCEPT !.onMap = "yes", !.levels = {}, !.tiles = <<>>] IN
    Update(GridResetView(n, e, FALSE), e, e.mapCenter)

(* getEvents(), and `load` for a layer that was added before.              *)
Handle(g, e) ==
    IF g.onMap # "yes"
      THEN IF g.onMap = "waiting" /\ e.type = "load" THEN OnAdd(g, e) ELSE g
      ELSE CASE e.type = "viewprereset" -> InvalidateAll(g)
             [] e.type = "viewreset" -> GridResetView(g, e, FALSE)
             [] e.type = "zoom" -> GridResetView(g, e, e.flyTo)
             [] e.type = "move" -> OnMove(g, e)
             [] e.type = "moveend" -> OnMoveEnd(g, e)
             [] e.type = "zoomanim" ->
                  GridSetView(g, e, e.center, e.zoom, TRUE, e.flyTo)
             [] OTHER -> g

MapStep == MapNext /\ grid' = FoldLeft(Handle, grid, map'.fired)

-----------------------------------------------------------------------------
(* Calls and callbacks of the layer                                        *)

LayerStep == map' = Quiet(map) /\ UNCHANGED <<width, calls>>

LayerCall == Call /\ map' = Quiet(map) /\ UNCHANGED width

AddTo ==
    /\ grid.onMap = "no"
    /\ grid' = IF map.loaded THEN OnAdd(grid, Env(map))
                             ELSE [grid EXCEPT !.onMap = "waiting"]
    /\ LayerCall

(* Mutant: the tiles stay. *)
OnRemove_KeepTiles(g) == [g EXCEPT !.tileZoom = Nowhere, !.onMap = "no"]

OnRemove(g) == [RemoveAllTiles(g) EXCEPT !.tileZoom = Nowhere, !.onMap = "no"]

RemoveGridLayer ==
    /\ grid.onMap # "no"
    /\ grid' = OnRemove(grid)
    /\ LayerCall

Redraw ==
    /\ grid.onMap = "yes"
    /\ grid' = Update(RemoveAllTiles(grid), Env(map), map.center)
    /\ LayerCall

(* Mutant: any image of the tile's address will do. *)
TileReady_AnyImage(g, t, empty) ==
    IF t \notin DOMAIN g.tiles THEN g
    ELSE [g EXCEPT !.tiles[t].loaded = TRUE, !.fadeFrame = TRUE]

(* An emptied image is not a tile's, though one with the same coordinates  *)
(* may be there again.                                                     *)
TileReady(g, t, empty) ==
    IF g.onMap # "yes" \/ empty \/ t \notin DOMAIN g.tiles THEN g
    ELSE LET n == [g EXCEPT !.tiles[t].loaded = TRUE, !.fadeFrame = TRUE] IN
         IF \A u \in DOMAIN n.tiles : n.tiles[u].loaded
           THEN [n EXCEPT !.loading = FALSE, !.prunes = Min({@ + 1, MaxPrunes})]
           ELSE n

(* The image, or the news that there is none.                              *)
TileArrives(t) ==
    /\ t \in grid.awaited
    /\ grid' = TileReady([grid EXCEPT !.awaited = @ \ {t}], t, FALSE)
    /\ LayerStep

LateArrives(t) ==
    /\ grid.late
    /\ grid' = TileReady(grid, t, TRUE)
    /\ LayerStep

(* _updateOpacity: tiles that have faded in become active; when one was    *)
(* active before, the others are pruned, unless a zoom is under way.       *)
UpdateOpacity(g, opaque) ==
    LET shown == {t \in DOMAIN g.tiles : g.tiles[t].current /\ g.tiles[t].loaded}
        n == [g EXCEPT !.tiles = [t \in DOMAIN @ |->
                 IF t \in opaque THEN [@[t] EXCEPT !.active = TRUE] ELSE @[t]],
                       !.fadeFrame = opaque # shown] IN
    IF ~g.noPrune /\ \E t \in opaque : g.tiles[t].active THEN PruneTiles(n) ELSE n

FadeFrame ==
    /\ grid.fadeFrame
    /\ IF grid.onMap # "yes"
         THEN grid' = [grid EXCEPT !.fadeFrame = FALSE]
         ELSE LET fading == {t \in DOMAIN grid.tiles : grid.tiles[t].current
                                /\ grid.tiles[t].loaded /\ ~grid.tiles[t].active}
                  opaque == {t \in DOMAIN grid.tiles : grid.tiles[t].current
                                /\ grid.tiles[t].active} IN
              \E S \in SUBSET fading : grid' = UpdateOpacity(grid, opaque \cup S)
    /\ LayerStep

PruneTimeout ==
    /\ grid.prunes > 0
    /\ grid' = PruneTiles([grid EXCEPT !.prunes = @ - 1])
    /\ LayerStep

ThrottleLater ==
    /\ grid.lock # "free"
    /\ grid' = LET n == [grid EXCEPT !.lock = "free"] IN
               IF grid.lock = "again" THEN OnMove(n, Env(map)) ELSE n
    /\ LayerStep

LayerNext ==
    \/ AddTo \/ RemoveGridLayer \/ Redraw
    \/ \E t \in grid.awaited : TileArrives(t)
    \/ \E t \in DOMAIN grid.tiles : LateArrives(t)
    \/ FadeFrame \/ PruneTimeout \/ ThrottleLater

GridNext == MapStep \/ LayerNext

GridSpec == GridInit /\ [][GridNext]_gridVars

-----------------------------------------------------------------------------
GridTypeOK ==
    /\ MapTypeOK
    /\ grid.onMap \in {"no", "waiting", "yes"}
    /\ grid.tileZoom \in Zooms \cup {Nowhere}
    /\ grid.levels \subseteq Zooms
    /\ DOMAIN grid.tiles \subseteq TileCoords
    /\ \A t \in DOMAIN grid.tiles : grid.tiles[t] \in Tile
    /\ {grid.noPrune, grid.loading, grid.fadeFrame, grid.late} \subseteq BOOLEAN
    /\ grid.prunes \in 0..MaxPrunes
    /\ grid.lock \in {"free", "locked", "again"}
    /\ grid.awaited \subseteq TileCoords

(* Every tile stands on a level of the layer, and a layer that is not on   *)
(* the map has none, whichever callbacks come after its removal.           *)
TilesHaveLevels ==
    /\ \A t \in DOMAIN grid.tiles : t[2] \in grid.levels
    /\ grid.onMap # "yes" => grid.tiles = <<>>

(* A tile counts as loaded exactly when its own image has arrived: an      *)
(* image that was dropped never makes a later tile with the same           *)
(* coordinates visible, and no tile waits for an image nobody requested.   *)
LoadedByOwnImage ==
    grid.awaited = {t \in DOMAIN grid.tiles : ~grid.tiles[t].loaded}

(* Once the map is at rest and nothing is throttled, every visible tile is *)
(* there and kept.                                                         *)
ViewIsCovered ==
    AtRest /\ grid.lock = "free" /\ ~map.sizeTimer /\ grid.onMap = "yes" =>
        \A x \in TileRange(Env(map), map.center, map.zoom) :
            /\ <<x, map.zoom>> \in DOMAIN grid.tiles
            /\ grid.tiles[<<x, map.zoom>>].current

(* The active tiles that show the place of a tile: parents, or children    *)
(* two levels down.                                                        *)
Over(g, t) ==
    {u \in {Parent(t, k) : k \in 1..5} \cup Children(t)
            \cup UNION {Children(c) : c \in Children(t)} : Active(g, u)}

(* Pruning never opens a hole: unless the whole view is reset, the layer   *)
(* redrawn or removed, the place of a current tile that has not faded in   *)
(* goes on being shown by an active tile of another zoom, if it was.       *)
NoHoles ==
    [][(/\ grid'.tiles # grid.tiles
        /\ \A i \in DOMAIN map'.fired : map'.fired[i].type # "viewprereset") =>
        \A t \in DOMAIN grid.tiles \cap DOMAIN grid'.tiles :
            /\ grid.tiles[t].current /\ grid'.tiles[t].current
            /\ ~grid'.tiles[t].active
            /\ Over(grid, t) # {}
            => Over(grid', t) # {} \/ Redraw]_gridVars

(* Whatever callbacks cross each other, the tiles follow the map.          *)
TilesFollowMap ==
    GridTypeOK /\ TilesHaveLevels /\ LoadedByOwnImage /\ ViewIsCovered

=============================================================================
