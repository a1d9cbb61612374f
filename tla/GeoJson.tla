------------------------------ MODULE GeoJson ------------------------------
(***************************************************************************)
(* L.GeoJSON of app/assets/javascripts/leaflet.js: layers made of GeoJSON  *)
(* data, and data made of layers. A position of the data is a pair of a    *)
(* longitude and a latitude, a LatLng the same the other way round. Data   *)
(* without a geometry, or without features, is a record without the field; *)
(* an array of data has the type "array". Filters, styles and altitudes    *)
(* are left out, and every number has few enough decimals.                 *)
(***************************************************************************)
EXTENDS Clipping

CONSTANTS
    GeoData,     \* what addData is called with
    Whereabouts,      \* where a marker is dragged
    MaxAdded     \* bound: features that are on the layer

VARIABLE geo     \* sequence of a layer and what the data said of it

GeoInit == geo = <<>>

-----------------------------------------------------------------------------
(* Layers of data                                                          *)

CoordsToLatLng(c) == <<c[2], c[1]>>

(* levels is the depth of the lists above the lists of positions.          *)
RECURSIVE CoordsToLatLngs(_, _)
CoordsToLatLngs(coords, levels) ==
    [i \in DOMAIN coords |->
        IF levels > 0 THEN CoordsToLatLngs(coords[i], levels - 1)
        ELSE CoordsToLatLng(coords[i])]

Levels == [LineString |-> 0, MultiLineString |-> 1, Polygon |-> 1, MultiPolygon |-> 2]

Marker(latlng) == [kind |-> "marker", latlng |-> latlng]

(* A list is flat when it is empty, or holds positions.                    *)
IsFlat(levels, list) == levels = 0 \/ list = <<>>

RECURSIVE OpenRings(_, _)
OpenRings(list, levels) ==
    IF IsFlat(levels, list) THEN OpenRing(list)
    ELSE [i \in DOMAIN list |-> OpenRings(list[i], levels - 1)]

(* A polygon without rings gets one that is empty.                         *)
PolygonLatLngs(list, levels) ==
    LET open == OpenRings(list, levels) IN IF open = <<>> THEN <<<<>>>> ELSE open

(* geometryToLayer                                                         *)
RECURSIVE GeometryToLayer(_)
GeometryToLayer(g) ==
    CASE g.type = "Point" -> Marker(CoordsToLatLng(g.coordinates))
      [] g.type = "MultiPoint" ->
            [kind |-> "group",
             layers |-> [i \in DOMAIN g.coordinates |->
                            Marker(CoordsToLatLng(g.coordinates[i]))]]
      [] g.type \in {"LineString", "MultiLineString"} ->
            [kind |-> "line", levels |-> Levels[g.type],
             latlngs |-> CoordsToLatLngs(g.coordinates, Levels[g.type])]
      [] g.type \in {"Polygon", "MultiPolygon"} ->
            [kind |-> "polygon", levels |-> Levels[g.type],
             latlngs |-> PolygonLatLngs(CoordsToLatLngs(g.coordinates, Levels[g.type]),
                                        Levels[g.type])]
      [] g.type = "GeometryCollection" ->
            [kind |-> "group",
             layers |-> [i \in DOMAIN g.geometries |-> GeometryToLayer(g.geometries[i])]]

AsFeature(json) ==
    IF json.type \in {"Feature", "FeatureCollection"} THEN json
    ELSE [type |-> "Feature", properties |-> "none", geometry |-> json]

Has(json, field) == field \in DOMAIN json

(* The features of data that addData makes layers of, in their order.      *)
RECURSIVE FeaturesIn(_)
FeaturesIn(json) ==
    IF Has(json, "features")
    THEN LET filled == SelectSeq(json.features, LAMBDA f :
                 \E field \in {"geometries", "geometry", "features", "coordinates"} :
                     Has(f, field))
         IN  FlattenSeq([i \in DOMAIN filled |-> FeaturesIn(filled[i])])
    ELSE IF Has(AsFeature(json), "geometry") THEN <<AsFeature(json)>>
    ELSE <<>>

-----------------------------------------------------------------------------
(* Data of layers                                                          *)

LatLngToCoords(latlng) == <<latlng[2], latlng[1]>>

Undefined == "undefined"

(* A list that is closed gets its first member once more.                  *)
RECURSIVE LatLngsToCoords(_, _, _)
LatLngsToCoords(list, levels, closed) ==
    LET coords == [i \in DOMAIN list |->
            IF levels > 0 THEN LatLngsToCoords(list[i], levels - 1, closed)
            ELSE LatLngToCoords(list[i])]
    IN  IF levels = 0 /\ closed
        THEN Append(coords, IF coords = <<>> THEN Undefined ELSE coords[1])
        ELSE coords

(* Mutant: several lines are told apart from one by their number. *)
LineGeometry_Many(l) ==
    LET multi == Len(l.latlngs) > 1 /\ l.levels = 1 IN
    [type |-> IF multi THEN "MultiLineString" ELSE "LineString",
     coordinates |-> LatLngsToCoords(l.latlngs, IF multi THEN 1 ELSE 0, FALSE)]

LineGeometry(l) ==
    LET multi == ~IsFlat(l.levels, l.latlngs) IN
    [type |-> IF multi THEN "MultiLineString" ELSE "LineString",
     coordinates |-> LatLngsToCoords(l.latlngs, IF multi THEN 1 ELSE 0, FALSE)]

(* Whether there are several polygons is told from the first of them. One  *)
(* without rings makes them rings of one, and what was a ring a position.  *)
PolygonGeometry(l) ==
    LET multi == l.levels = 2 /\ ~IsFlat(1, l.latlngs[1])
        shallow == l.levels = 2 /\ ~multi
    IN  [type |-> IF multi THEN "MultiPolygon" ELSE "Polygon",
         coordinates |->
            IF shallow THEN [i \in DOMAIN l.latlngs |-> <<Undefined>>]
            ELSE LatLngsToCoords(l.latlngs, IF multi THEN 2 ELSE 1, TRUE)]

(* toGeoJSON of a layer, its geometry; a group without a feature of its    *)
(* own says a FeatureCollection, which has none.                           *)
RECURSIVE GeometryOf(_, _)
GeometryOf(layer, type) ==
    CASE layer.kind = "marker" ->
            [type |-> "Point", coordinates |-> LatLngToCoords(layer.latlng)]
      [] layer.kind = "line" -> LineGeometry(layer)
      [] layer.kind = "polygon" -> PolygonGeometry(layer)
      [] layer.kind = "group" /\ type = "MultiPoint" ->
            [type |-> "MultiPoint",
             coordinates |-> [i \in DOMAIN layer.layers |->
                                 GeometryOf(layer.layers[i], "none").coordinates]]
      [] layer.kind = "group" /\ type = "GeometryCollection" ->
            [type |-> "GeometryCollection",
             geometries |-> [i \in DOMAIN layer.layers |->
                                GeometryOf(layer.layers[i], "none")]]
      [] layer.kind = "group" /\ type = "none" -> Undefined

(* getFeature: the feature that the data said, with the geometry of now.   *)
FeatureOf(e) ==
    [e.feature EXCEPT !.geometry = GeometryOf(e.layer, e.feature.geometry.type)]

ToGeoJSON(entries) ==
    [type |-> "FeatureCollection",
     features |-> [i \in DOMAIN entries |-> FeatureOf(entries[i])]]

-----------------------------------------------------------------------------
(* What is expected to come back: rings that end where they begin.         *)
Close(r) == Append(OpenRing(r), r[1])

RECURSIVE Normal(_)
Normal(g) ==
    CASE g.type = "Polygon" ->
            [g EXCEPT !.coordinates = [i \in DOMAIN @ |-> Close(@[i])]]
      [] g.type = "MultiPolygon" ->
            [g EXCEPT !.coordinates =
                [i \in DOMAIN @ |-> [j \in DOMAIN @[i] |-> Close(@[i][j])]]]
      [] g.type = "GeometryCollection" ->
            [g EXCEPT !.geometries = [i \in DOMAIN @ |-> Normal(@[i])]]
      [] g.type \notin {"Polygon", "MultiPolygon", "GeometryCollection"} -> g

(* Geometries that cannot come back as they were: lists without members,   *)
(* and groups within a collection.                                         *)
RECURSIVE AllWhole(_, _)
AllWhole(list, levels) ==
    /\ list # <<>>
    /\ levels > 0 => \A i \in DOMAIN list : AllWhole(list[i], levels - 1)

Whole(g) ==
    CASE g.type = "Point" -> TRUE
      [] g.type = "MultiPoint" -> TRUE
      [] g.type \in DOMAIN Levels -> AllWhole(g.coordinates, Levels[g.type])
      [] g.type = "GeometryCollection" ->
            \A i \in DOMAIN g.geometries :
                LET h == g.geometries[i] IN
                /\ h.type \notin {"MultiPoint", "GeometryCollection"}
                /\ h.type \in DOMAIN Levels => AllWhole(h.coordinates, Levels[h.type])

Entry(f) ==
    [layer |-> GeometryToLayer(f.geometry), feature |-> f, whole |-> Whole(f.geometry),
     said |-> IF Whole(f.geometry) THEN Normal(f.geometry) ELSE f.geometry]

Entries(json) ==
    LET features == FeaturesIn(json) IN [i \in DOMAIN features |-> Entry(features[i])]

-----------------------------------------------------------------------------
(* Calls                                                                   *)

AddData(json) ==
    /\ Len(geo) + Len(FeaturesIn(json)) <= MaxAdded
    /\ geo' = geo \o Entries(json)

(* setLatLng of a marker, as dragging it ends.                             *)
DragMarker(i, p) ==
    /\ geo[i].layer.kind = "marker"
    /\ geo' = [geo EXCEPT ![i].layer.latlng = CoordsToLatLng(p),
                          ![i].said.coordinates = p]

DragMember(i, j, p) ==
    /\ geo[i].layer.kind = "group"
    /\ geo[i].feature.geometry.type = "MultiPoint"
    /\ geo' = [geo EXCEPT ![i].layer.layers[j].latlng = CoordsToLatLng(p),
                          ![i].said.coordinates[j] = p]

ClearData ==
    /\ geo # <<>>
    /\ geo' = <<>>

(* A page gives what toGeoJSON says to a new layer.                        *)
CopyData ==
    /\ \A i \in DOMAIN geo : geo[i].whole
    /\ LET copies == Entries(ToGeoJSON(geo)) IN
       geo' = [i \in DOMAIN copies |-> [copies[i] EXCEPT !.said = geo[i].said]]

GeoNext ==
    \/ \E json \in GeoData : AddData(json)
    \/ \E i \in DOMAIN geo, p \in Whereabouts :
          \/ DragMarker(i, p)
          \/ geo[i].layer.kind = "group"
             /\ \E j \in DOMAIN geo[i].layer.layers : DragMember(i, j, p)
    \/ ClearData \/ CopyData

GeoSpec == GeoInit /\ [][GeoNext]_geo

-----------------------------------------------------------------------------
(* What toGeoJSON says of a layer is what the data said of it, with its    *)
(* rings closed and its markers where they were dragged; a copy says the   *)
(* same again.                                                             *)
DataComesBack ==
    \A i \in DOMAIN geo :
        geo[i].whole =>
            ToGeoJSON(geo).features[i] = [geo[i].feature EXCEPT !.geometry = geo[i].said]

=============================================================================
