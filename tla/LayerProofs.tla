----------------------------- MODULE LayerProofs ------------------------------
(***************************************************************************)
(* What is on the map. Bounds hold exactly what they were given, and their *)
(* relations are those of the points inside, whatever the coordinates are. *)
(* The invariant keeps the corners of valid bounds in order and among the  *)
(* coordinates.                                                            *)
(*                                                                         *)
(* The draw list of a renderer, which is patched by hand, is the sequence  *)
(* that DrawOrder promises, for any number of paths. The invariant is that *)
(* some sequence is linked by the next and prev pointers; every operation  *)
(* is shown to link the sequence that DrawOrder asks for.                  *)
(*                                                                         *)
(* A tooltip comes, stays and goes with its layer: beyond what the         *)
(* property says, the invariant knows what the layer listens for, and that *)
(* no tooltip on the map is still about to be taken out of the page by an  *)
(* old timeout. And drags of a marker stay orderly for ever: that          *)
(* invariant knows how moved, moving and the announcement of a drag go     *)
(* together, and that the draggable is enabled while its marker is shown.  *)
(*                                                                         *)
(* For any layers, groups and popups: the registers of the map agree after *)
(* every call. Between the steps of a call some layers are still to be     *)
(* shown; the invariant says of each set of them what holds meanwhile.     *)
(*                                                                         *)
(* For any base layers and overlays: the list of layers and the map agree, *)
(* also when the page hides overlays in the middle of a click.             *)
(*                                                                         *)
(* For any paths, shapes, styles, views and width: a path is cut as it is  *)
(* where the map is, if the renderer was told of the view, and a cell of   *)
(* the canvas that no redraw waits for shows the paths that cover it. The  *)
(* invariant keeps what was cut of a path inside the bounds remembered of  *)
(* it, so that a redraw of bounds leaves out no path that reaches into     *)
(* them; it says of each mark what is not so while it is there.            *)
(*                                                                         *)
(* Handlers that go through a set or a sequence are folds; the lemmas in   *)
(* front say what holds of a fold when each of its steps keeps it.         *)
(***************************************************************************)
EXTENDS Boxes, DrawList, Tooltips, Draggables, MapLayers, LayersControl, CanvasRenderer,
        SequenceTheorems, FiniteSetTheorems, WellFoundedInduction, TLAPS

-----------------------------------------------------------------------------
(* Folds *)

LEMMA AllNumbers ==
    ASSUME NEW P, 0 \in P, \A n \in Nat : n \in P => n + 1 \in P
    PROVE  Nat \subseteq P
  <1> DEFINE Q == Nat \ P
  <1>1. SUFFICES ASSUME Q # {} PROVE FALSE
    OBVIOUS
  <1>2. PICK n \in Q : \A m \in Q : ~(<<m, n>> \in OpToRel(<, Nat))
    <2>1. IsWellFoundedOn(OpToRel(<, Nat), Nat)
      BY NatLessThanWellFounded
    <2>2. Q \in SUBSET Nat
      OBVIOUS
    <2>3. QED
      BY <1>1, <2>1, <2>2, WFMin
  <1>3. n \in Nat /\ n \notin P /\ n # 0
    BY <1>2
  <1>4. n - 1 \in Nat /\ n - 1 < n /\ (n - 1) + 1 = n
    BY <1>3
  <1>5. <<n - 1, n>> \in OpToRel(<, Nat)
    BY <1>3, <1>4 DEF OpToRel
  <1>6. n - 1 \in P
    BY <1>2, <1>4, <1>5
  <1>7. QED
    BY <1>3, <1>4, <1>6

(* A set with one element less is smaller.                                 *)
LEMMA OneLess ==
    ASSUME NEW T, IsFiniteSet(T), NEW s \in SUBSET T, NEW x \in s
    PROVE  /\ s \ {x} \in SUBSET T
           /\ Cardinality(s) \in Nat /\ Cardinality(s) # 0
           /\ Cardinality(s \ {x}) = Cardinality(s) - 1
  <1>1. IsFiniteSet(s)
    BY FS_Subset
  <1>2. Cardinality(s) \in Nat /\ Cardinality(s \ {x}) = Cardinality(s) - 1
    BY <1>1, FS_CardinalityType, FS_RemoveElement
  <1>3. Cardinality(s) # 0
    BY <1>1, FS_EmptySet
  <1>4. QED
    BY <1>2, <1>3

Chooses(c, T) == \A s \in SUBSET T : s # {} => c[s] \in s

StaysWithin(f, T, V) == \A x \in T, v \in V : f[<<x, v>>] \in V

StepsStay(g, c, T, V) ==
    \A s \in SUBSET T : s # {} /\ g[s \ {c[s]}] \in V => g[s] \in V

IsFold(g, f, c, b, T, V) ==
    /\ g = [s \in SUBSET T |-> g[s]]
    /\ \A s \in SUBSET T : g[s] \in V
    /\ g[{}] = b
    /\ \A s \in SUBSET T : s # {} => g[s] = f[<<c[s], g[s \ {c[s]}]>>]

(* What holds of the fold over nothing, and with one element more if it    *)
(* did without, holds of the fold over any set.                            *)
LEMMA FoldStays ==
    ASSUME NEW T, NEW V, NEW g, NEW c, IsFiniteSet(T), Chooses(c, T),
           g[{}] \in V, StepsStay(g, c, T, V)
    PROVE  \A s \in SUBSET T : g[s] \in V
  <1> DEFINE P == {n \in Nat : \A s \in SUBSET T : Cardinality(s) = n => g[s] \in V}
  <1>1. 0 \in P
    <2>1. ASSUME NEW s \in SUBSET T, Cardinality(s) = 0 PROVE s = {}
      <3>1. IsFiniteSet(s)
        BY FS_Subset
      <3>2. QED
        BY <2>1, <3>1, FS_EmptySet
    <2>2. QED
      BY <2>1
  <1>2. ASSUME NEW n \in Nat, n \in P PROVE n + 1 \in P
    <2>1. ASSUME NEW s \in SUBSET T, Cardinality(s) = n + 1 PROVE g[s] \in V
      <3>1. s # {}
        <4>1. Cardinality({}) = 0 /\ n + 1 # 0
          BY FS_EmptySet
        <4>2. QED
          BY <2>1, <4>1
      <3>2. c[s] \in s
        BY <3>1 DEF Chooses
      <3>3. s \ {c[s]} \in SUBSET T /\ Cardinality(s \ {c[s]}) = n
        BY <2>1, <3>2, OneLess
      <3>4. QED
        BY <1>2, <3>1, <3>3 DEF StepsStay
    <2>2. n + 1 \in Nat
      OBVIOUS
    <2>3. QED
      BY <2>1, <2>2
  <1>3. Nat \subseteq P
    <2> HIDE DEF P
    <2>1. QED
      BY <1>1, <1>2, AllNumbers
  <1>4. ASSUME NEW s \in SUBSET T PROVE Cardinality(s) \in Nat
    BY FS_Subset, FS_CardinalityType
  <1>5. QED
    BY <1>3, <1>4

(* A fold whose steps stay within a set is defined.                        *)
LEMMA FoldFound ==
    ASSUME NEW T, NEW V, NEW b, NEW f, NEW c, IsFiniteSet(T), Chooses(c, T),
           b \in V, StaysWithin(f, T, V)
    PROVE  \E g : IsFold(g, f, c, b, T, V)
  <1> DEFINE Small(n) == {s \in SUBSET T : Cardinality(s) <= n}
             Fold(g, n) == /\ g \in [Small(n) -> V]
                           /\ g[{}] = b
                           /\ \A s \in Small(n) : s # {} => g[s] = f[<<c[s], g[s \ {c[s]}]>>]
             Found(n) == \E g : Fold(g, n)
             P == {n \in Nat : Found(n)}
  <1>0. ASSUME NEW s \in SUBSET T
        PROVE  /\ Cardinality(s) \in Nat /\ Cardinality(s) <= Cardinality(T)
               /\ Cardinality(s) = 0 <=> s = {}
    BY FS_Subset, FS_CardinalityType, FS_EmptySet
  <1>1. 0 \in P
    <2>1. Small(0) = {{}}
      BY <1>0
    <2> DEFINE g == [s \in Small(0) |-> b]
    <2>2. Fold(g, 0)
      BY <2>1
    <2> HIDE DEF Fold, g
    <2>3. QED
      BY <2>2
  <1>2. ASSUME NEW n \in Nat, n \in P PROVE n + 1 \in P
    <2>1. PICK h : Fold(h, n)
      BY <1>2
    <2> DEFINE g == [s \in Small(n + 1) |-> IF s = {} THEN b ELSE f[<<c[s], h[s \ {c[s]}]>>]]
    <2>2. ASSUME NEW s \in Small(n + 1), s # {}
          PROVE  c[s] \in T /\ s \ {c[s]} \in Small(n)
      <3>1. c[s] \in s
        BY <2>2 DEF Chooses
      <3>2. /\ s \ {c[s]} \in SUBSET T /\ Cardinality(s) \in Nat
            /\ Cardinality(s \ {c[s]}) = Cardinality(s) - 1
        BY <3>1, OneLess
      <3>3. QED
        BY <3>1, <3>2
    <2>3. Small(n) \subseteq Small(n + 1) /\ {} \in Small(n + 1) /\ {} \in Small(n)
      BY <1>0
    <2>4. \A s \in Small(n) : h[s] = g[s]
      <3> SUFFICES ASSUME NEW s \in Small(n) PROVE h[s] = g[s]
        OBVIOUS
      <3>1. s \in Small(n + 1) /\ g[s] = IF s = {} THEN b ELSE f[<<c[s], h[s \ {c[s]}]>>]
        BY <2>3
      <3>2. h[s] = IF s = {} THEN b ELSE f[<<c[s], h[s \ {c[s]}]>>]
        BY <2>1
      <3>3. QED
        BY <3>1, <3>2
    <2>5. g \in [Small(n + 1) -> V]
      <3>1. ASSUME NEW s \in Small(n + 1), s # {} PROVE f[<<c[s], h[s \ {c[s]}]>>] \in V
        <4>1. h[s \ {c[s]}] \in V
          BY <2>1, <2>2, <3>1
        <4>2. QED
          BY <2>2, <3>1, <4>1 DEF StaysWithin
      <3>2. QED
        BY <3>1
    <2>6. Fold(g, n + 1)
      <3>1. g[{}] = b
        BY <2>3
      <3>2. ASSUME NEW s \in Small(n + 1), s # {} PROVE g[s] = f[<<c[s], g[s \ {c[s]}]>>]
        <4>1. g[s] = f[<<c[s], h[s \ {c[s]}]>>]
          BY <3>2
        <4>2. h[s \ {c[s]}] = g[s \ {c[s]}]
          BY <2>2, <2>4, <3>2
        <4>3. QED
          BY <4>1, <4>2
      <3> HIDE DEF g
      <3>3. QED
        BY <2>5, <3>1, <3>2
    <2> HIDE DEF Fold, g
    <2>7. QED
      BY <2>6
  <1>3. Nat \subseteq P
    <2> HIDE DEF P
    <2>1. QED
      BY <1>1, <1>2, AllNumbers
  <1>4. Cardinality(T) \in Nat /\ Small(Cardinality(T)) = SUBSET T
    BY <1>0
  <1>5. PICK g : Fold(g, Cardinality(T))
    BY <1>3, <1>4
  <1>6. g \in [SUBSET T -> V]
    BY <1>4, <1>5
  <1>7. IsFold(g, f, c, b, T, V)
    BY <1>4, <1>5, <1>6 DEF IsFold
  <1>8. QED
    BY <1>7

LEMMA MaxOf ==
    ASSUME NEW n \in Nat, NEW s \in SUBSET (0..n), s # {}
    PROVE  \E m \in s : \A y \in s : y <= m
  <1> DEFINE P == {k \in Nat : \A r \in SUBSET (0..k) : r # {} => \E m \in r : \A y \in r : y <= m}
  <1>1. 0 \in P
    <2>1. 0..0 = {0} /\ 0 <= 0
      OBVIOUS
    <2>2. QED
      BY <2>1
  <1>2. ASSUME NEW k \in Nat, k \in P PROVE k + 1 \in P
    <2>1. ASSUME NEW r \in SUBSET (0..(k + 1)), r # {} PROVE \E m \in r : \A y \in r : y <= m
      <3>1. CASE k + 1 \in r
        BY <3>1
      <3>2. CASE k + 1 \notin r
        <4>1. r \in SUBSET (0..k)
          BY <3>2
        <4>2. QED
          BY <1>2, <2>1, <4>1
      <3>3. QED
        BY <3>1, <3>2
    <2>2. k + 1 \in Nat
      OBVIOUS
    <2>3. QED
      BY <2>1, <2>2
  <1>3. Nat \subseteq P
    <2> HIDE DEF P
    <2>1. QED
      BY <1>1, <1>2, AllNumbers
  <1>4. QED
    BY <1>3

LEMMA MaxIn ==
    ASSUME NEW n \in Nat, NEW s \in SUBSET (1..n), s # {}
    PROVE  Max(s) \in s /\ \A y \in s : y <= Max(s)
  <1>1. s \in SUBSET (0..n)
    OBVIOUS
  <1>2. PICK m \in s : \A y \in s : y <= m
    BY <1>1, MaxOf
  <1>3. \A y \in s : m >= y
    BY <1>1, <1>2
  <1>4. Max(s) \in s /\ \A y \in s : Max(s) >= y
    BY <1>3 DEF Max
  <1>5. QED
    BY <1>1, <1>4

LEMMA LastOf ==
    ASSUME NEW i \in Nat, i > 0
    PROVE  Max(1..i) = i /\ (1..i) \ {i} = 1..(i - 1) /\ 1..i # {}
  <1>1. i \in 1..i /\ 1..i \in SUBSET (1..i)
    OBVIOUS
  <1>2. Max(1..i) \in 1..i /\ i <= Max(1..i)
    BY <1>1, MaxIn
  <1>3. QED
    BY <1>1, <1>2

(* A set of natural numbers that is not empty has a least one. *)
LEMMA LeastStep ==
  ASSUME NEW S \in SUBSET Nat, S # {}
  PROVE  \E x \in S : \A y \in S : x <= y
  <1>1. IsWellFoundedOn(OpToRel(<, Nat), Nat)
    BY NatLessThanWellFounded
  <1>2. PICK x \in S : \A y \in S : ~(<<y, x>> \in OpToRel(<, Nat))
    BY <1>1, WFMin
  <1>3. ASSUME NEW y \in S
        PROVE  x <= y
    <2>1. x \in Nat /\ y \in Nat
      OBVIOUS
    <2>2. ~(y < x)
      BY <1>2, <2>1 DEF OpToRel
    <2>3. QED
      BY <2>1, <2>2
  <1>4. QED
    BY <1>3

LEMMA MinIn ==
    ASSUME NEW n \in Nat, NEW s \in SUBSET (1..n), s # {}
    PROVE  Min(s) \in s
  <1>1. s \in SUBSET Nat
    OBVIOUS
  <1>2. QED
    BY <1>1, LeastStep DEF Min

(* What holds of the base and is kept by each step holds of the fold, and  *)
(* so does what one of the steps brings about and all others keep.         *)
LEMMA FoldKeeps ==
    ASSUME NEW T, NEW V, NEW W, NEW b, NEW f, NEW c, NEW g,
           IsFiniteSet(T), Chooses(c, T), IsFold(g, f, c, b, T, V),
           b \in W, \A y \in T, v \in V : v \in W => f[<<y, v>>] \in W
    PROVE  g[T] \in V /\ g[T] \in W
  <1>1. StepsStay(g, c, T, W)
    <2> SUFFICES ASSUME NEW s \in SUBSET T, s # {}, g[s \ {c[s]}] \in W
                 PROVE  g[s] \in W
      BY DEF StepsStay
    <2>1. c[s] \in T /\ s \ {c[s]} \in SUBSET T
      BY DEF Chooses
    <2>2. g[s] = f[<<c[s], g[s \ {c[s]}]>>] /\ g[s \ {c[s]}] \in V
      BY <2>1 DEF IsFold
    <2>3. QED
      BY <2>1, <2>2
  <1>2. g[{}] \in W
    BY DEF IsFold
  <1>3. \A s \in SUBSET T : g[s] \in W
    BY <1>1, <1>2, FoldStays
  <1>4. QED
    BY <1>3 DEF IsFold

LEMMA FoldReaches ==
    ASSUME NEW T, NEW V, NEW W, NEW b, NEW f, NEW c, NEW g, NEW x \in T,
           IsFiniteSet(T), Chooses(c, T), IsFold(g, f, c, b, T, V),
           \A v \in V : f[<<x, v>>] \in W,
           \A y \in T, v \in V : v \in W => f[<<y, v>>] \in W
    PROVE  g[T] \in V /\ g[T] \in W
  <1> DEFINE h == [s \in SUBSET T |-> x \in s => g[s] \in W]
  <1>1. StepsStay(h, c, T, {TRUE})
    <2> SUFFICES ASSUME NEW s \in SUBSET T, s # {}, h[s \ {c[s]}] = TRUE
                 PROVE  x \in s => g[s] \in W
      BY DEF StepsStay
    <2>1. c[s] \in T /\ c[s] \in s /\ s \ {c[s]} \in SUBSET T
      BY DEF Chooses
    <2>2. g[s] = f[<<c[s], g[s \ {c[s]}]>>] /\ g[s \ {c[s]}] \in V
      BY <2>1 DEF IsFold
    <2>3. x \in s \ {c[s]} => g[s \ {c[s]}] \in W
      BY <2>1
    <2>4. QED
      BY <2>1, <2>2, <2>3
  <1>2. h[{}] = TRUE
    OBVIOUS
  <1>3. \A s \in SUBSET T : h[s] \in {TRUE}
    <2> HIDE DEF h
    <2>1. h[{}] \in {TRUE}
      BY <1>2
    <2>2. QED
      BY <1>1, <2>1, FoldStays
  <1>4. g[T] \in W
    <2>1. T \in SUBSET T
      OBVIOUS
    <2>2. h[T]
      BY <1>3, <2>1
    <2>3. QED
      BY <2>1, <2>2
  <1>5. QED
    BY <1>4 DEF IsFold

-----------------------------------------------------------------------------
(* Bounds *)

InOrder(b) == b.min[1] <= b.max[1] /\ b.min[2] <= b.max[2]

(* What one bounds has to do with the points it was given.                 *)
Tight(b, given_) ==
    /\ b \in Box \cup {NoBox} /\ given_ \in SUBSET Points
    /\ IsValid(b) <=> given_ # {}
    /\ \A p \in given_ : HasPoint(b, p)
    /\ IsValid(b) =>
           /\ \E p \in given_ : p[1] = b.min[1]
           /\ \E p \in given_ : p[2] = b.min[2]
           /\ \E p \in given_ : p[1] = b.max[1]
           /\ \E p \in given_ : p[2] = b.max[2]

BoxInv ==
    /\ BoxTypeOK
    /\ \A n \in {"a", "b"} : Tight(bounds[n], given[n])

-----------------------------------------------------------------------------
(* A point has two coordinates, which are integers.                        *)
LEMMA PointIsPair ==
    ASSUME NEW p \in Points
    PROVE  /\ p[1] \in Coords /\ p[2] \in Coords
           /\ p[1] \in Int /\ p[2] \in Int
<1>1. Coords \subseteq Int
  BY BoxesAssumption DEF BoxesAssumption
<1>2. p[1] \in Coords /\ p[2] \in Coords
  BY DEF Points
<1> QED
  BY <1>1, <1>2

(* Tight bounds with corners have them in order.                           *)
LEMMA TightInOrder ==
    ASSUME NEW b, NEW S, Tight(b, S), IsValid(b)
    PROVE  b \in Box /\ InOrder(b)
<1>1. b \in Box /\ S \in SUBSET Points
  BY DEF Tight, IsValid
<1>2. PICK p \in S : p[1] = b.min[1]
  BY DEF Tight
<1>3. HasPoint(b, p)
  BY DEF Tight
<1>4. p \in Points /\ b.min \in Points /\ b.max \in Points
  BY <1>1 DEF Box
<1>5. p[1] \in Int /\ p[2] \in Int /\ b.min[2] \in Int /\ b.max[2] \in Int
  BY <1>4, PointIsPair
<1> QED
  BY <1>1, <1>2, <1>3, <1>4, <1>5, PointIsPair DEF HasPoint, InOrder

(* Extending tight bounds by a point keeps them tight.                     *)
LEMMA ExtendKeepsTight ==
    ASSUME NEW b, NEW S, Tight(b, S), NEW p \in Points
    PROVE  Tight(ExtendBox(b, p), S \cup {p})
<1> DEFINE e == ExtendBox(b, p)
<1>1. p[1] \in Coords /\ p[2] \in Coords /\ p[1] \in Int /\ p[2] \in Int
  BY PointIsPair
<1>2. CASE ~IsValid(b)
  <2>1. S = {} /\ e = [min |-> p, max |-> p]
    BY <1>2 DEF Tight, IsValid, ExtendBox
  <2>2. e \in Box /\ IsValid(e)
    BY <2>1, BoxesAssumption DEF BoxesAssumption, Box, IsValid
  <2> QED
    BY <1>1, <2>1, <2>2 DEF Tight, HasPoint
<1>3. CASE IsValid(b)
  <2>1. b \in Box /\ S \in SUBSET Points
    BY <1>3 DEF Tight, IsValid
  <2>2. /\ b.min[1] \in Coords /\ b.min[2] \in Coords
        /\ b.max[1] \in Coords /\ b.max[2] \in Coords
        /\ b.min[1] \in Int /\ b.min[2] \in Int
        /\ b.max[1] \in Int /\ b.max[2] \in Int
    BY <2>1, PointIsPair DEF Box
  <2>3. e = [min |-> <<Least(p[1], b.min[1]), Least(p[2], b.min[2])>>,
             max |-> <<Greatest(p[1], b.max[1]), Greatest(p[2], b.max[2])>>]
    BY <1>3 DEF ExtendBox, IsValid
  <2>4. /\ e.min[1] = Least(p[1], b.min[1]) /\ e.min[2] = Least(p[2], b.min[2])
        /\ e.max[1] = Greatest(p[1], b.max[1]) /\ e.max[2] = Greatest(p[2], b.max[2])
    BY <2>3
  <2>5. e \in Box /\ IsValid(e)
    <3>1. /\ Least(p[1], b.min[1]) \in Coords /\ Least(p[2], b.min[2]) \in Coords
          /\ Greatest(p[1], b.max[1]) \in Coords /\ Greatest(p[2], b.max[2]) \in Coords
      BY <1>1, <2>2 DEF Least, Greatest
    <3> QED
      BY <2>3, <3>1, BoxesAssumption DEF BoxesAssumption, Box, Points, IsValid
  <2>6. ASSUME NEW q \in S \cup {p} PROVE HasPoint(e, q)
    <3>1. q[1] \in Int /\ q[2] \in Int
      BY <2>1, PointIsPair
    <3>2. CASE q = p
      BY <1>1, <2>2, <2>4, <3>2, BoxesAssumption DEF BoxesAssumption, HasPoint, Least, Greatest
    <3>3. CASE q \in S
      <4>1. HasPoint(b, q)
        BY <3>3 DEF Tight
      <4> QED
        BY <1>1, <2>2, <2>4, <3>1, <4>1, BoxesAssumption DEF BoxesAssumption, HasPoint, Least, Greatest
    <3> QED
      BY <3>2, <3>3
  <2>7. /\ \E q \in S \cup {p} : q[1] = e.min[1]
        /\ \E q \in S \cup {p} : q[2] = e.min[2]
        /\ \E q \in S \cup {p} : q[1] = e.max[1]
        /\ \E q \in S \cup {p} : q[2] = e.max[2]
    <3>1. /\ \E q \in S : q[1] = b.min[1]
          /\ \E q \in S : q[2] = b.min[2]
          /\ \E q \in S : q[1] = b.max[1]
          /\ \E q \in S : q[2] = b.max[2]
      BY <1>3 DEF Tight
    <3>2. \/ e.min[1] = p[1] \/ e.min[1] = b.min[1]
      BY <2>4 DEF Least
    <3>3. \/ e.min[2] = p[2] \/ e.min[2] = b.min[2]
      BY <2>4 DEF Least
    <3>4. \/ e.max[1] = p[1] \/ e.max[1] = b.max[1]
      BY <2>4 DEF Greatest
    <3>5. \/ e.max[2] = p[2] \/ e.max[2] = b.max[2]
      BY <2>4 DEF Greatest
    <3> QED
      BY <3>1, <3>2, <3>3, <3>4, <3>5
  <2> QED
    BY <2>1, <2>5, <2>6, <2>7 DEF Tight
<1> QED
  BY <1>2, <1>3

(* So does extending them by tight bounds, and the points of both count.   *)
LEMMA ExtendByKeepsTight ==
    ASSUME NEW b, NEW S, Tight(b, S), NEW other, NEW T, Tight(other, T)
    PROVE  Tight(ExtendByBox(b, other), S \cup T)
<1>1. CASE ~IsValid(other)
  <2>1. T = {} /\ ExtendByBox(b, other) = b
    BY <1>1 DEF Tight, IsValid, ExtendByBox
  <2>2. S \cup T = S
    BY <2>1
  <2> QED
    BY <2>1, <2>2
<1>2. CASE IsValid(other)
  <2> DEFINE e1 == ExtendBox(b, other.min)
             e == ExtendBox(e1, other.max)
             U == (S \cup {other.min}) \cup {other.max}
  <2>1. other \in Box /\ InOrder(other)
    BY <1>2, TightInOrder
  <2>2. other.min \in Points /\ other.max \in Points
    BY <2>1 DEF Box
  <2>3. Tight(e1, S \cup {other.min})
    BY <2>2, ExtendKeepsTight
  <2>4. Tight(e, U)
    BY <2>2, <2>3, ExtendKeepsTight
  <2>5. ExtendByBox(b, other) = e
    BY <1>2 DEF ExtendByBox, IsValid
  <2>6. S \in SUBSET Points /\ T \in SUBSET Points
    BY DEF Tight
  <2>7. IsValid(e) /\ e \in Box
    BY <2>4 DEF Tight, IsValid
  <2>8. HasPoint(e, other.min) /\ HasPoint(e, other.max)
    BY <2>4 DEF Tight
  <2>9. ASSUME NEW q \in S \cup T PROVE HasPoint(e, q)
    <3>1. CASE q \in S
      BY <2>4, <3>1 DEF Tight
    <3>2. CASE q \in T
      <4>1. HasPoint(other, q)
        BY <3>2 DEF Tight
      <4>2. /\ q[1] \in Int /\ q[2] \in Int
            /\ other.min[1] \in Int /\ other.min[2] \in Int
            /\ other.max[1] \in Int /\ other.max[2] \in Int
        BY <2>2, <2>6, <3>2, PointIsPair
      <4>3. e.min \in Points /\ e.max \in Points
        BY <2>7 DEF Box
      <4>4. /\ e.min[1] \in Int /\ e.min[2] \in Int
            /\ e.max[1] \in Int /\ e.max[2] \in Int
        BY <4>3, PointIsPair
      <4> QED
        BY <2>8, <4>1, <4>2, <4>4 DEF HasPoint
    <3> QED
      BY <3>1, <3>2
  <2>10. /\ \E q \in T : q[1] = other.min[1]
         /\ \E q \in T : q[2] = other.min[2]
         /\ \E q \in T : q[1] = other.max[1]
         /\ \E q \in T : q[2] = other.max[2]
    BY <1>2 DEF Tight
  <2>11. /\ \E q \in U : q[1] = e.min[1]
         /\ \E q \in U : q[2] = e.min[2]
         /\ \E q \in U : q[1] = e.max[1]
         /\ \E q \in U : q[2] = e.max[2]
    BY <2>4, <2>7 DEF Tight
  <2>12. /\ \E q \in S \cup T : q[1] = e.min[1]
         /\ \E q \in S \cup T : q[2] = e.min[2]
         /\ \E q \in S \cup T : q[1] = e.max[1]
         /\ \E q \in S \cup T : q[2] = e.max[2]
    BY <2>10, <2>11
  <2>13. S \cup T # {}
    BY <2>12
  <2> QED
    BY <2>5, <2>6, <2>7, <2>9, <2>12, <2>13 DEF Tight
<1> QED
  BY <1>1, <1>2

-----------------------------------------------------------------------------
(* The two bounds are tight in every state.                                *)
LEMMA BoxInvariance == BoundsSpec => []BoxInv
<1>1. BoundsInit => BoxInv
  BY DEF BoundsInit, BoxInv, BoxTypeOK, Tight, IsValid
<1>2. BoxInv /\ [BoundsNext]_boundsVars => BoxInv'
  <2> SUFFICES ASSUME BoxInv, [BoundsNext]_boundsVars
               PROVE  BoxInv'
    OBVIOUS
  <2>1. ASSUME NEW n \in {"a", "b"}, NEW p \in Points, ExtendPoint(n, p)
        PROVE  BoxInv'
    <3>1. /\ bounds' = [bounds EXCEPT ![n] = ExtendBox(bounds[n], p)]
          /\ given' = [given EXCEPT ![n] = given[n] \cup {p}]
      BY <2>1 DEF ExtendPoint
    <3>2. Tight(ExtendBox(bounds[n], p), given[n] \cup {p})
      BY ExtendKeepsTight DEF BoxInv
    <3> QED
      BY <3>1, <3>2 DEF BoxInv, BoxTypeOK, Tight
  <2>2. ASSUME NEW n \in {"a", "b"}, NEW m \in {"a", "b"}, ExtendBounds(n, m)
        PROVE  BoxInv'
    <3>1. /\ bounds' = [bounds EXCEPT ![n] = ExtendByBox(bounds[n], bounds[m])]
          /\ given' = [given EXCEPT ![n] = given[n] \cup given[m]]
      BY <2>2 DEF ExtendBounds
    <3>2. Tight(ExtendByBox(bounds[n], bounds[m]), given[n] \cup given[m])
      BY ExtendByKeepsTight DEF BoxInv
    <3> QED
      BY <3>1, <3>2 DEF BoxInv, BoxTypeOK, Tight
  <2>3. ASSUME NEW n \in {"a", "b"}, NewBounds(n)
        PROVE  BoxInv'
    <3>1. Tight(NoBox, {})
      BY DEF Tight, IsValid
    <3> QED
      BY <2>3, <3>1 DEF NewBounds, BoxInv, BoxTypeOK, Tight
  <2>4. CASE UNCHANGED boundsVars
    BY <2>4 DEF boundsVars, BoxInv, BoxTypeOK
  <2> QED
    BY <2>1, <2>2, <2>3, <2>4 DEF BoundsNext
<1> QED
  BY <1>1, <1>2, PTL DEF BoundsSpec

(* Bounds and the points they were given keep their types.                 *)
THEOREM BoxTypeCorrect == BoundsSpec => []BoxTypeOK
<1>1. BoxInv => BoxTypeOK
  BY DEF BoxInv
<1> QED
  BY <1>1, BoxInvariance, PTL

(* Bounds hold every point they were given, whatever the order of the      *)
(* calls, and are no larger than they have to be.                          *)
THEOREM TightBounds == BoundsSpec => []BoundsAreTight
<1>1. BoxInv => BoundsAreTight
  BY DEF BoxInv, BoundsAreTight, Tight
<1> QED
  BY <1>1, BoxInvariance, PTL

-----------------------------------------------------------------------------
(* The point at two coordinates.                                           *)
LEMMA PointAt ==
    ASSUME NEW x \in Coords, NEW y \in Coords
    PROVE  <<x, y>> \in Points /\ <<x, y>>[1] = x /\ <<x, y>>[2] = y
  BY DEF Points

(* Bounds that intersect share the corner at the greater of their least    *)
(* coordinates; those that overlap, and have areas, also that at the least *)
(* of the greatest, and the two differ on both axes. A bounds is within       *)
(* another when both its corners are.                                      *)
LEMMA Relations ==
    ASSUME NEW a \in Box, NEW b \in Box, InOrder(a), InOrder(b)
    PROVE  /\ Intersects(a, b) <=> Within(a) \cap Within(b) # {}
           /\ HasBox(a, b) <=> Within(b) \subseteq Within(a)
           /\ HasArea(a) /\ HasArea(b) =>
                 (Overlaps(a, b) <=>
                    \E p, q \in Within(a) \cap Within(b) : p[1] # q[1] /\ p[2] # q[2])
<1> DEFINE x1 == Greatest(a.min[1], b.min[1])
           y1 == Greatest(a.min[2], b.min[2])
           x2 == Least(a.max[1], b.max[1])
           y2 == Least(a.max[2], b.max[2])
<1>1. /\ a.min \in Points /\ a.max \in Points
      /\ b.min \in Points /\ b.max \in Points
  BY DEF Box
<1>2. /\ a.min[1] \in Int /\ a.min[2] \in Int /\ a.max[1] \in Int /\ a.max[2] \in Int
      /\ b.min[1] \in Int /\ b.min[2] \in Int /\ b.max[1] \in Int /\ b.max[2] \in Int
  BY <1>1, PointIsPair
<1>3. /\ a.min[1] \in Coords /\ a.min[2] \in Coords
      /\ a.max[1] \in Coords /\ a.max[2] \in Coords
      /\ b.min[1] \in Coords /\ b.min[2] \in Coords
      /\ b.max[1] \in Coords /\ b.max[2] \in Coords
  BY <1>1, PointIsPair
<1>4. x1 \in Coords /\ y1 \in Coords /\ x2 \in Coords /\ y2 \in Coords
  BY <1>3 DEF Greatest, Least
<1>5. ASSUME Intersects(a, b)
      PROVE  <<x1, y1>> \in Within(a) \cap Within(b)
  <2>1. HasPoint(a, <<x1, y1>>) /\ HasPoint(b, <<x1, y1>>)
    BY <1>2, <1>5 DEF HasPoint, Intersects, InOrder, Greatest
  <2> QED
    BY <1>4, <2>1, PointAt DEF Within
<1>6. ASSUME NEW p \in Within(a) \cap Within(b)
      PROVE  /\ p[1] \in Int /\ p[2] \in Int
             /\ HasPoint(a, p) /\ HasPoint(b, p)
  BY PointIsPair DEF Within
<1>7. Intersects(a, b) <=> Within(a) \cap Within(b) # {}
  <2>1. ASSUME NEW p \in Within(a) \cap Within(b) PROVE Intersects(a, b)
    BY <1>2, <1>6 DEF HasPoint, Intersects
  <2> QED
    BY <1>5, <2>1
<1>8. HasBox(a, b) <=> Within(b) \subseteq Within(a)
  <2>1. ASSUME HasBox(a, b), NEW p \in Within(b) PROVE p \in Within(a)
    <3>1. p \in Points /\ HasPoint(b, p) /\ p[1] \in Int /\ p[2] \in Int
      BY PointIsPair DEF Within
    <3>2. HasPoint(a, p)
      BY <1>2, <2>1, <3>1 DEF HasPoint, HasBox
    <3> QED
      BY <3>1, <3>2 DEF Within
  <2>2. ASSUME Within(b) \subseteq Within(a) PROVE HasBox(a, b)
    <3>1. HasPoint(b, b.min) /\ HasPoint(b, b.max)
      BY <1>2 DEF HasPoint, InOrder
    <3>2. HasPoint(a, b.min) /\ HasPoint(a, b.max)
      BY <1>1, <2>2, <3>1 DEF Within
    <3> QED
      BY <3>2 DEF HasPoint, HasBox
  <2> QED
    BY <2>1, <2>2
<1>9. ASSUME HasArea(a), HasArea(b), Overlaps(a, b)
      PROVE  \E p, q \in Within(a) \cap Within(b) : p[1] # q[1] /\ p[2] # q[2]
  <2>1. /\ HasPoint(a, <<x1, y1>>) /\ HasPoint(b, <<x1, y1>>)
        /\ HasPoint(a, <<x2, y2>>) /\ HasPoint(b, <<x2, y2>>)
    BY <1>2, <1>9 DEF HasPoint, Overlaps, InOrder, Greatest, Least
  <2>2. x1 # x2 /\ y1 # y2
    BY <1>2, <1>9 DEF Overlaps, HasArea, Greatest, Least
  <2>3. /\ <<x1, y1>> \in Within(a) \cap Within(b)
        /\ <<x2, y2>> \in Within(a) \cap Within(b)
    BY <1>4, <2>1, PointAt DEF Within
  <2>4. <<x1, y1>>[1] # <<x2, y2>>[1] /\ <<x1, y1>>[2] # <<x2, y2>>[2]
    BY <2>2
  <2> HIDE DEF x1, y1, x2, y2
  <2> QED
    BY <2>3, <2>4
<1>10. ASSUME NEW p \in Within(a) \cap Within(b), NEW q \in Within(a) \cap Within(b),
              p[1] # q[1], p[2] # q[2]
       PROVE  Overlaps(a, b)
  <2>1. /\ p[1] \in Int /\ p[2] \in Int /\ q[1] \in Int /\ q[2] \in Int
        /\ HasPoint(a, p) /\ HasPoint(b, p) /\ HasPoint(a, q) /\ HasPoint(b, q)
    BY <1>6
  <2> QED
    BY <1>2, <1>10, <2>1 DEF HasPoint, Overlaps
<1> QED
  BY <1>7, <1>8, <1>9, <1>10

(* intersects, contains and overlaps, computed from the corners, say what  *)
(* the points inside say.                                                  *)
THEOREM CornersTell == BoundsSpec => []RelationsAreOfPoints
<1>1. ASSUME BoxInv, IsValid(bounds["a"]), IsValid(bounds["b"])
      PROVE  /\ bounds["a"] \in Box /\ InOrder(bounds["a"])
             /\ bounds["b"] \in Box /\ InOrder(bounds["b"])
  BY <1>1, TightInOrder DEF BoxInv
<1>2. BoxInv => RelationsAreOfPoints
  BY <1>1, Relations DEF RelationsAreOfPoints
<1> QED
  BY <1>2, BoxInvariance, PTL

(* Together: what the run checks on a small grid of points holds on all.   *)
THEOREM BoundsCorrect == BoundsSpec => []BoundsAreRight
<1>1. BoxTypeOK /\ BoundsAreTight /\ RelationsAreOfPoints => BoundsAreRight
  BY DEF BoundsAreRight
<1> QED
  BY <1>1, BoxTypeCorrect, TightBounds, CornersTell, PTL

-----------------------------------------------------------------------------
(* The draw list *)

Refs == DrawPaths \cup {NoPath}

ListState == [paths : SUBSET DrawPaths, first : Refs, last : Refs,
              next : [DrawPaths -> Refs], prev : [DrawPaths -> Refs]]

Injective(s) == \A i, j \in 1..Len(s) : s[i] = s[j] => i = j

(* The pointers lead along s and the same way back.                        *)
Links(r, s) ==
    /\ r \in ListState /\ s \in Seq(DrawPaths) /\ Injective(s)
    /\ Len(s) = 0 => r.first = NoPath /\ r.last = NoPath
    /\ Len(s) # 0 => r.first = s[1] /\ r.last = s[Len(s)]
    /\ \A i \in 1..Len(s) :
           /\ i = Len(s) => r.next[s[i]] = NoPath
           /\ i # Len(s) => r.next[s[i]] = s[i + 1]
           /\ i = 1 => r.prev[s[i]] = NoPath
           /\ i # 1 => r.prev[s[i]] = s[i - 1]

ListInv == \E s \in Seq(DrawPaths) : Links(list, s) /\ list.paths = ToSet(s)

-----------------------------------------------------------------------------
(* Following the pointers *)

LEMMA LenBound ==
  ASSUME NEW s \in Seq(DrawPaths), Injective(s)
  PROVE  /\ Len(s) \in Nat /\ Cardinality(DrawPaths) \in Nat
         /\ Len(s) <= Cardinality(DrawPaths)
  <1>1. Len(s) \in Nat /\ s \in [1..Len(s) -> DrawPaths]
    BY LenProperties
  <1>2. s \in Injection(1..Len(s), DrawPaths)
    BY <1>1 DEF Injective, Injection, IsInjective
  <1>3. Cardinality(1..Len(s)) <= Cardinality(DrawPaths)
    BY <1>2, FS_Injection, DrawPathsAssumption
  <1>4. Cardinality(1..Len(s)) = Len(s)
    BY <1>1, FS_Interval
  <1>5. Cardinality(DrawPaths) \in Nat
    BY DrawPathsAssumption, FS_CardinalityType
  <1>6. QED
    BY <1>1, <1>3, <1>4, <1>5

(* The first n paths.                                                      *)
Upto(s, n) == SubSeq(s, 1, IF n <= Len(s) THEN n ELSE Len(s))

LEMMA UptoProperties ==
  ASSUME NEW s \in Seq(DrawPaths), NEW n \in Nat
  PROVE  /\ Upto(s, n) \in Seq(DrawPaths)
         /\ Len(Upto(s, n)) = IF n <= Len(s) THEN n ELSE Len(s)
         /\ \A i \in 1..Len(Upto(s, n)) : Upto(s, n)[i] = s[i]
  <1> DEFINE k == IF n <= Len(s) THEN n ELSE Len(s)
  <1>1. Len(s) \in Nat /\ k \in Nat /\ k <= Len(s)
    BY LenProperties
  <1>2. Upto(s, n) = SubSeq(s, 1, k)
    BY DEF Upto
  <1>3. \A i \in 1..k : s[i] \in DrawPaths
    BY <1>1, ElementOfSeq
  <1> HIDE DEF k
  <1>4. /\ SubSeq(s, 1, k) \in Seq(DrawPaths)
        /\ Len(SubSeq(s, 1, k)) = IF 1 <= k THEN k - 1 + 1 ELSE 0
        /\ \A i \in 1..(k - 1 + 1) : SubSeq(s, 1, k)[i] = s[1 + i - 1]
    BY <1>1, <1>3, SubSeqProperties
  <1>5. Len(SubSeq(s, 1, k)) = k /\ k - 1 + 1 = k
    BY <1>1, <1>4
  <1>6. \A i \in 1..k : SubSeq(s, 1, k)[i] = s[i]
    BY <1>1, <1>4, <1>5
  <1>7. QED
    BY <1>2, <1>4, <1>5, <1>6 DEF k

(* One more step follows one more pointer.                                 *)
LEMMA FollowsOne ==
  ASSUME NEW r, NEW s, Links(r, s), NEW n \in Nat \ {0}
  PROVE  Follow(r, Upto(s, n - 1), n) = Upto(s, n)
  <1> DEFINE before == Upto(s, n - 1)
             after == Upto(s, n)
             p == IF before = <<>> THEN r.first ELSE r.next[Last(before)]
  <1>1. s \in Seq(DrawPaths) /\ Len(s) \in Nat /\ n - 1 \in Nat
    BY LenProperties DEF Links
  <1>2. /\ before \in Seq(DrawPaths)
        /\ Len(before) = IF n - 1 <= Len(s) THEN n - 1 ELSE Len(s)
        /\ \A i \in 1..Len(before) : before[i] = s[i]
    BY <1>1, UptoProperties
  <1>3. /\ after \in Seq(DrawPaths)
        /\ Len(after) = IF n <= Len(s) THEN n ELSE Len(s)
        /\ \A i \in 1..Len(after) : after[i] = s[i]
    BY <1>1, UptoProperties
  <1>4. Follow(r, before, n) = IF Len(before) < n - 1 \/ p = NoPath
                                 THEN before ELSE Append(before, p)
    BY DEF Follow
  <1> HIDE DEF before, after
  <1>5. before = <<>> <=> Len(before) = 0
    BY <1>2, EmptySeq
  <1>6. CASE n - 1 > Len(s)
    <2>1. before = after
      BY <1>1, <1>2, <1>3, <1>6, SeqEqual
    <2>2. QED
      BY <1>1, <1>2, <1>4, <1>6, <2>1 DEF before, after
  <1>7. CASE n - 1 = Len(s)
    <2>1. before = after
      BY <1>1, <1>2, <1>3, <1>7, SeqEqual
    <2>2. p = NoPath
      <3>1. CASE Len(s) = 0
        BY <1>2, <1>5, <1>7, <3>1 DEF Links
      <3>2. CASE Len(s) # 0
        <4>1. Last(before) = s[Len(s)] /\ before # <<>>
          BY <1>1, <1>2, <1>5, <1>7, <3>2 DEF Last
        <4>2. r.next[s[Len(s)]] = NoPath
          BY <1>1, <3>2 DEF Links
        <4>3. QED
          BY <4>1, <4>2
      <3>3. QED
        BY <3>1, <3>2
    <2>3. QED
      BY <1>4, <2>1, <2>2 DEF before, after
  <1>8. CASE n - 1 < Len(s)
    <2>1. n \in 1..Len(s) /\ s[n] \in DrawPaths
      BY <1>1, <1>8, ElementOfSeq
    <2>2. p = s[n]
      <3>1. CASE n = 1
        BY <1>1, <1>2, <1>5, <1>8, <3>1 DEF Links
      <3>2. CASE n # 1
        <4>1. Last(before) = s[n - 1] /\ before # <<>> /\ n - 1 \in 1..Len(s)
          BY <1>1, <1>2, <1>5, <1>8, <3>2 DEF Last
        <4>2. r.next[s[n - 1]] = s[(n - 1) + 1]
          BY <1>1, <1>8, <4>1 DEF Links
        <4>3. QED
          BY <1>1, <4>1, <4>2
      <3>3. QED
        BY <3>1, <3>2
    <2>3. ~(Len(before) < n - 1 \/ p = NoPath)
      BY <1>1, <1>2, <1>8, <2>1, <2>2, DrawPathsAssumption
    <2>4. Append(before, s[n]) = after
      <3> DEFINE t == Append(before, s[n])
      <3>1. /\ t \in Seq(DrawPaths) /\ Len(t) = Len(before) + 1
            /\ \A i \in 1..Len(before) : t[i] = before[i]
            /\ t[Len(before) + 1] = s[n]
        BY <1>2, <2>1, AppendProperties
      <3> HIDE DEF t
      <3>2. Len(before) = n - 1 /\ Len(t) = n /\ Len(after) = n
        BY <1>1, <1>2, <1>3, <1>8, <3>1
      <3>3. \A i \in 1..Len(t) : t[i] = after[i]
        BY <1>1, <1>2, <1>3, <3>1, <3>2
      <3>4. t = after
        BY <1>3, <3>1, <3>2, <3>3, SeqEqual
      <3>5. QED
        BY <3>4 DEF t
    <2>5. QED
      BY <1>4, <2>2, <2>3, <2>4 DEF before, after
  <1>9. QED
    BY <1>1, <1>6, <1>7, <1>8

(* Walking from the first path along the pointers visits s.                *)
LEMMA Walks ==
  ASSUME NEW r, NEW s, Links(r, s)
  PROVE  Walk(r) = s
  <1> DEFINE N == Cardinality(DrawPaths)
             Body(f) == [n \in 0..N |->
                           IF n = 0 THEN <<>> ELSE Follow(r, f[n - 1], n)]
             g == [n \in 0..N |-> Upto(s, n)]
  <1>1. s \in Seq(DrawPaths) /\ Len(s) \in Nat /\ N \in Nat /\ Len(s) <= N
    BY LenBound DEF Links
  <1>2. Steps(r) = CHOOSE f : f = Body(f)
    BY DEF Steps
  <1> HIDE DEF N
  <1>3. g = Body(g)
    <2>1. ASSUME NEW n \in 0..N, n = 0
          PROVE  g[n] = <<>>
      <3>1. Upto(s, 0) \in Seq(DrawPaths) /\ Len(Upto(s, 0)) = 0
        BY <1>1, UptoProperties
      <3>2. QED
        BY <2>1, <3>1, EmptySeq
    <2>2. ASSUME NEW n \in 0..N, n # 0
          PROVE  g[n] = Follow(r, g[n - 1], n)
      <3>1. n \in Nat \ {0} /\ n - 1 \in 0..N
        BY <1>1, <2>2
      <3>2. g[n] = Upto(s, n) /\ g[n - 1] = Upto(s, n - 1)
        BY <3>1
      <3>3. QED
        BY <3>1, <3>2, FollowsOne
    <2>3. \A n \in 0..N : g[n] = Body(g)[n]
      BY <2>1, <2>2
    <2>4. QED
      BY <2>3
  <1> DEFINE h == Steps(r)
  <1>4. h = Body(h)
    BY <1>2, <1>3
  <1> HIDE DEF h
  <1>5. /\ h[0] = <<>> /\ g[0] = <<>>
        /\ \A n \in 1..N : /\ h[n] = Follow(r, h[n - 1], n)
                           /\ g[n] = Follow(r, g[n - 1], n)
    <2>1. \A f : f = Body(f) => /\ f[0] = <<>>
                                /\ \A n \in 1..N : f[n] = Follow(r, f[n - 1], n)
      BY <1>1
    <2> HIDE DEF g, Body
    <2>2. QED
      BY <1>3, <1>4, <2>1
  <1>6. h[N] = g[N]
    <2> DEFINE S == {n \in 0..N : h[n] # g[n]}
    <2> SUFFICES ASSUME h[N] # g[N] PROVE FALSE
      OBVIOUS
    <2> HIDE DEF g
    <2>1. S \in SUBSET Nat /\ N \in S
      BY <1>1
    <2>2. PICK x \in S : \A y \in S : x <= y
      BY <2>1, LeastStep
    <2>3. x \in 1..N /\ x - 1 \in 0..N /\ x - 1 < x
      BY <1>1, <1>5, <2>2
    <2>4. x - 1 \notin S
      BY <1>1, <2>2, <2>3
    <2>5. h[x - 1] = g[x - 1]
      BY <2>3, <2>4
    <2>6. h[x] = g[x]
      BY <1>5, <2>3, <2>5
    <2>7. QED
      BY <2>2, <2>6
  <1>7. g[N] = s
    <2>1. g[N] = Upto(s, N)
      BY <1>1
    <2>2. /\ Upto(s, N) \in Seq(DrawPaths) /\ Len(Upto(s, N)) = Len(s)
          /\ \A i \in 1..Len(Upto(s, N)) : Upto(s, N)[i] = s[i]
      <3>1. /\ Upto(s, N) \in Seq(DrawPaths)
            /\ Len(Upto(s, N)) = IF N <= Len(s) THEN N ELSE Len(s)
            /\ \A i \in 1..Len(Upto(s, N)) : Upto(s, N)[i] = s[i]
        BY <1>1, UptoProperties
      <3>2. (IF N <= Len(s) THEN N ELSE Len(s)) = Len(s)
        BY <1>1
      <3>3. QED
        BY <3>1, <3>2
    <2>3. QED
      BY <1>1, <2>1, <2>2, SeqEqual
  <1>8. QED
    BY <1>6, <1>7 DEF Walk, h, N

-----------------------------------------------------------------------------
(* Patching the pointers *)

LEMMA SetsNext ==
  ASSUME NEW r \in ListState, NEW p \in Refs, NEW q \in Refs
  PROVE  LET n == SetNext(r, p, q) IN
         /\ n \in ListState
         /\ n.paths = r.paths /\ n.last = r.last /\ n.prev = r.prev
         /\ n.first = IF p = NoPath THEN q ELSE r.first
         /\ \A x \in DrawPaths : n.next[x] = IF x = p THEN q ELSE r.next[x]
  <1>1. CASE p = NoPath
    BY <1>1, DrawPathsAssumption DEF SetNext, ListState
  <1>2. CASE p # NoPath
    BY <1>2 DEF SetNext, ListState, Refs
  <1>3. QED
    BY <1>1, <1>2

LEMMA SetsPrev ==
  ASSUME NEW r \in ListState, NEW p \in Refs, NEW q \in Refs
  PROVE  LET n == SetPrev(r, p, q) IN
         /\ n \in ListState
         /\ n.paths = r.paths /\ n.first = r.first /\ n.next = r.next
         /\ n.last = IF p = NoPath THEN q ELSE r.last
         /\ \A x \in DrawPaths : n.prev[x] = IF x = p THEN q ELSE r.prev[x]
  <1>1. CASE p = NoPath
    BY <1>1, DrawPathsAssumption DEF SetPrev, ListState
  <1>2. CASE p # NoPath
    BY <1>2 DEF SetPrev, ListState, Refs
  <1>3. QED
    BY <1>1, <1>2

(* A sequence without its i-th path.                                       *)
LEMMA Removes ==
  ASSUME NEW D, NEW s \in Seq(D), Injective(s), NEW i \in 1..Len(s)
  PROVE  LET t == RemoveAt(s, i) IN
         /\ t \in Seq(D) /\ Len(t) = Len(s) - 1
         /\ \A j \in 1..Len(t) : t[j] = IF j < i THEN s[j] ELSE s[j + 1]
         /\ Injective(t) /\ ToSet(t) = ToSet(s) \ {s[i]}
  <1> DEFINE a == SubSeq(s, 1, i - 1)
             b == SubSeq(s, i + 1, Len(s))
             t == RemoveAt(s, i)
  <1>1. Len(s) \in Nat /\ i \in Nat /\ \A j \in 1..Len(s) : s[j] \in D
    BY LenProperties, ElementOfSeq
  <1>2. /\ a \in Seq(D) /\ Len(a) = i - 1
        /\ \A j \in 1..(i - 1) : a[j] = s[j]
    <2>1. \A j \in 1..(i - 1) : s[j] \in D
      BY <1>1
    <2>2. /\ a \in Seq(D)
          /\ Len(a) = IF 1 <= i - 1 THEN (i - 1) - 1 + 1 ELSE 0
          /\ \A j \in 1..((i - 1) - 1 + 1) : a[j] = s[1 + j - 1]
      BY <1>1, <2>1, SubSeqProperties
    <2> HIDE DEF a
    <2>3. Len(a) = i - 1 /\ (i - 1) - 1 + 1 = i - 1
      BY <1>1, <2>2
    <2>4. \A j \in 1..(i - 1) : a[j] = s[j]
      BY <1>1, <2>2, <2>3
    <2>5. QED
      BY <2>2, <2>3, <2>4
  <1>3. /\ b \in Seq(D) /\ Len(b) = Len(s) - i
        /\ \A j \in 1..(Len(s) - i) : b[j] = s[i + j]
    <2>1. \A j \in (i + 1)..Len(s) : s[j] \in D
      BY <1>1
    <2>2. /\ b \in Seq(D)
          /\ Len(b) = IF i + 1 <= Len(s) THEN Len(s) - (i + 1) + 1 ELSE 0
          /\ \A j \in 1..(Len(s) - (i + 1) + 1) : b[j] = s[(i + 1) + j - 1]
      BY <1>1, <2>1, SubSeqProperties
    <2> HIDE DEF b
    <2>3. Len(b) = Len(s) - i /\ Len(s) - (i + 1) + 1 = Len(s) - i
      BY <1>1, <2>2
    <2>4. \A j \in 1..(Len(s) - i) : b[j] = s[i + j]
      BY <1>1, <2>2, <2>3
    <2>5. QED
      BY <2>2, <2>3, <2>4
  <1>4. t = a \o b
    BY DEF RemoveAt
  <1> HIDE DEF a, b, t
  <1>5. /\ t \in Seq(D) /\ Len(t) = Len(a) + Len(b)
        /\ \A j \in 1..(Len(a) + Len(b)) :
               t[j] = IF j <= Len(a) THEN a[j] ELSE b[j - Len(a)]
    BY <1>2, <1>3, <1>4, ConcatProperties
  <1>6. Len(t) = Len(s) - 1
    BY <1>1, <1>2, <1>3, <1>5
  <1>7. ASSUME NEW j \in 1..Len(t)
        PROVE  t[j] = IF j < i THEN s[j] ELSE s[j + 1]
    <2>1. j \in Nat /\ j \in 1..(Len(a) + Len(b)) /\ j <= Len(s) - 1
      BY <1>1, <1>5, <1>6
    <2>2. CASE j < i
      <3>1. j <= Len(a) /\ j \in 1..(i - 1)
        BY <1>1, <1>2, <2>1, <2>2
      <3>2. QED
        BY <1>2, <1>5, <2>1, <2>2, <3>1
    <2>3. CASE ~(j < i)
      <3>1. /\ ~(j <= Len(a)) /\ j - (i - 1) \in 1..(Len(s) - i)
            /\ i + (j - (i - 1)) = j + 1
        BY <1>1, <1>2, <2>1, <2>3
      <3>2. t[j] = b[j - (i - 1)]
        BY <1>2, <1>5, <2>1, <3>1
      <3>3. b[j - (i - 1)] = s[i + (j - (i - 1))]
        BY <1>3, <3>1
      <3>4. QED
        BY <2>3, <3>1, <3>2, <3>3
    <2>4. QED
      BY <2>2, <2>3
  <1>8. Injective(t)
    <2> SUFFICES ASSUME NEW j \in 1..Len(t), NEW k \in 1..Len(t), t[j] = t[k]
                 PROVE  j = k
      BY DEF Injective
    <2> DEFINE at(x) == IF x < i THEN x ELSE x + 1
    <2>1. at(j) \in 1..Len(s) /\ at(k) \in 1..Len(s)
      BY <1>1, <1>6
    <2>2. t[j] = s[at(j)] /\ t[k] = s[at(k)]
      BY <1>7
    <2>3. at(j) = at(k)
      BY <2>1, <2>2 DEF Injective
    <2>4. QED
      BY <1>1, <1>6, <2>3
  <1>9. ToSet(t) = ToSet(s) \ {s[i]}
    <2>1. DOMAIN t = 1..Len(t) /\ DOMAIN s = 1..Len(s)
      BY <1>5, LenProperties
    <2>2. ASSUME NEW j \in 1..Len(t)
          PROVE  t[j] \in ToSet(s) /\ t[j] # s[i]
      <3> DEFINE k == IF j < i THEN j ELSE j + 1
      <3>1. k \in 1..Len(s) /\ k # i
        BY <1>1, <1>6
      <3>2. t[j] = s[k]
        BY <1>7
      <3> HIDE DEF k
      <3>3. QED
        BY <2>1, <3>1, <3>2 DEF Injective, ToSet
    <2>3. ASSUME NEW k \in 1..Len(s), s[k] # s[i]
          PROVE  s[k] \in ToSet(t)
      <3> DEFINE j == IF k < i THEN k ELSE k - 1
      <3>1. k # i
        BY <2>3
      <3>2. j \in 1..Len(t) /\ (IF j < i THEN j ELSE j + 1) = k
        BY <1>1, <1>6, <3>1
      <3>3. t[j] = s[k]
        BY <1>7, <3>2
      <3> HIDE DEF j
      <3>4. QED
        BY <2>1, <3>2, <3>3 DEF ToSet
    <2>4. QED
      BY <2>1, <2>2, <2>3 DEF ToSet
  <1>10. QED
    BY <1>5, <1>6, <1>7, <1>8, <1>9 DEF t

(* Its neighbours now point at each other.                                 *)
LEMMA Unlinks ==
  ASSUME NEW r, NEW s, Links(r, s), NEW i \in 1..Len(s)
  PROVE  LET n == Unlink(r, s[i]) IN
         Links(n, RemoveAt(s, i)) /\ n.paths = r.paths
  <1> DEFINE t == RemoveAt(s, i)
             p == s[i]
             q == r.next[p]
             b == r.prev[p]
             m == SetPrev(r, q, b)
             n == SetNext(m, b, q)
             L == Len(s)
  <1>1. /\ r \in ListState /\ s \in Seq(DrawPaths) /\ Injective(s)
        /\ L \in Nat /\ i \in Nat /\ i \in 1..L
        /\ \A j \in 1..L : s[j] \in DrawPaths
    BY LenProperties, ElementOfSeq DEF Links
  <1>2. n = Unlink(r, p)
    BY DEF Unlink
  <1>3. p \in DrawPaths /\ q \in Refs /\ b \in Refs
    BY <1>1 DEF ListState
  <1>4. /\ t \in Seq(DrawPaths) /\ Len(t) = L - 1 /\ Injective(t)
        /\ \A j \in 1..Len(t) : t[j] = IF j < i THEN s[j] ELSE s[j + 1]
    BY <1>1, Removes
  <1>5. /\ i = L => q = NoPath
        /\ i # L => q = s[i + 1] /\ i + 1 \in 1..L
        /\ i = 1 => b = NoPath
        /\ i # 1 => b = s[i - 1] /\ i - 1 \in 1..L
    <2>1. /\ i = L => q = NoPath
          /\ i # L => q = s[i + 1]
          /\ i = 1 => b = NoPath
          /\ i # 1 => b = s[i - 1]
      BY DEF Links
    <2>2. (i # L => i + 1 \in 1..L) /\ (i # 1 => i - 1 \in 1..L)
      BY <1>1
    <2>3. QED
      BY <2>1, <2>2
  <1> HIDE DEF t, p, q, b
  <1>6. /\ m \in ListState
        /\ m.paths = r.paths /\ m.first = r.first /\ m.next = r.next
        /\ m.last = IF q = NoPath THEN b ELSE r.last
        /\ \A x \in DrawPaths : m.prev[x] = IF x = q THEN b ELSE r.prev[x]
    BY <1>1, <1>3, SetsPrev
  <1> HIDE DEF m
  <1>7. /\ n \in ListState
        /\ n.paths = m.paths /\ n.last = m.last /\ n.prev = m.prev
        /\ n.first = IF b = NoPath THEN q ELSE m.first
        /\ \A x \in DrawPaths : n.next[x] = IF x = b THEN q ELSE m.next[x]
    BY <1>3, <1>6, SetsNext
  <1> HIDE DEF n
  <1>8. /\ n.first = IF b = NoPath THEN q ELSE r.first
        /\ n.last = IF q = NoPath THEN b ELSE r.last
        /\ \A j \in 1..L :
               /\ n.next[s[j]] = IF s[j] = b THEN q ELSE r.next[s[j]]
               /\ n.prev[s[j]] = IF s[j] = q THEN b ELSE r.prev[s[j]]
    BY <1>1, <1>6, <1>7
  <1>9. \A j \in 1..L : /\ s[j] = b <=> j = i - 1
                        /\ s[j] = q <=> j = i + 1
    <2>1. \A j \in 1..L : s[j] # NoPath
      BY <1>1, DrawPathsAssumption
    <2>2. \A j, k \in 1..L : s[j] = s[k] => j = k
      BY <1>1 DEF Injective
    <2> SUFFICES ASSUME NEW j \in 1..L
                 PROVE  (s[j] = b <=> j = i - 1) /\ (s[j] = q <=> j = i + 1)
      OBVIOUS
    <2>3. s[j] = b <=> j = i - 1
      BY <1>1, <1>5, <2>1, <2>2
    <2>4. s[j] = q <=> j = i + 1
      BY <1>1, <1>5, <2>1, <2>2
    <2>5. QED
      BY <2>3, <2>4
  <1>10. /\ \A j \in 1..L : j = L => r.next[s[j]] = NoPath
         /\ \A j \in 1..L : j # L => r.next[s[j]] = s[j + 1]
         /\ \A j \in 1..L : j = 1 => r.prev[s[j]] = NoPath
         /\ \A j \in 1..L : j # 1 => r.prev[s[j]] = s[j - 1]
         /\ r.first = s[1] /\ r.last = s[L]
    BY <1>1 DEF Links
  <1>11. q # NoPath <=> i # L
    BY <1>1, <1>5, DrawPathsAssumption
  <1>12. b # NoPath <=> i # 1
    BY <1>1, <1>5, DrawPathsAssumption
  <1>13. Len(t) = 0 => n.first = NoPath /\ n.last = NoPath
    <2> SUFFICES ASSUME Len(t) = 0
                 PROVE  n.first = NoPath /\ n.last = NoPath
      OBVIOUS
    <2> HIDE DEF L
    <2>1. L = 1 /\ i = 1
      <3>1. L - 1 = 0
        BY <1>4
      <3>2. L = 1
        BY <1>1, <3>1
      <3>3. QED
        BY <1>1, <3>2
    <2>2. q = NoPath /\ b = NoPath
      BY <1>5, <2>1
    <2>3. QED
      BY <1>8, <2>2
  <1>14. Len(t) # 0 => n.first = t[1] /\ n.last = t[Len(t)]
    <2> SUFFICES ASSUME Len(t) # 0 PROVE n.first = t[1] /\ n.last = t[Len(t)]
      OBVIOUS
    <2>1. L > 1 /\ 1 \in 1..Len(t) /\ Len(t) \in 1..Len(t)
      BY <1>1, <1>4
    <2>2. n.first = t[1]
      <3>1. CASE i = 1
        BY <1>1, <1>4, <1>5, <1>8, <1>12, <2>1, <3>1
      <3>2. CASE i # 1
        BY <1>1, <1>4, <1>8, <1>10, <1>12, <2>1, <3>2
      <3>3. QED
        BY <3>1, <3>2
    <2>3. n.last = t[Len(t)]
      <3>1. CASE i = L
        BY <1>1, <1>4, <1>5, <1>8, <1>11, <2>1, <3>1
      <3>2. CASE i # L
        BY <1>1, <1>4, <1>8, <1>10, <1>11, <2>1, <3>2
      <3>3. QED
        BY <3>1, <3>2
    <2>4. QED
      BY <2>2, <2>3
  <1>15. ASSUME NEW j \in 1..Len(t)
         PROVE  /\ j = Len(t) => n.next[t[j]] = NoPath
                /\ j # Len(t) => n.next[t[j]] = t[j + 1]
    <2>1. j \in Nat /\ j >= 1 /\ j <= L - 1
      BY <1>1, <1>4
    <2>2. CASE j < i - 1
      <3>1. /\ t[j] = s[j] /\ j \in 1..L /\ j # L /\ j # Len(t)
            /\ j + 1 \in 1..Len(t) /\ t[j + 1] = s[j + 1]
        BY <1>1, <1>4, <2>1, <2>2
      <3>2. n.next[s[j]] = r.next[s[j]]
        BY <1>1, <1>8, <1>9, <2>2, <3>1
      <3>3. QED
        BY <1>10, <3>1, <3>2
    <2>3. CASE j = i - 1
      <3>1. t[j] = s[j] /\ j \in 1..L
        BY <1>1, <1>4, <2>1, <2>3
      <3>2. n.next[s[j]] = q
        BY <1>8, <1>9, <2>3, <3>1
      <3>3. j = Len(t) <=> i = L
        BY <1>1, <1>4, <2>3
      <3>4. ASSUME j # Len(t)
            PROVE  t[j + 1] = s[i + 1]
        <4>1. j + 1 \in 1..Len(t) /\ ~(j + 1 < i) /\ (j + 1) + 1 = i + 1
          BY <1>1, <1>4, <2>1, <2>3, <3>4
        <4>2. QED
          BY <1>4, <4>1
      <3>5. QED
        BY <1>5, <3>1, <3>2, <3>3, <3>4
    <2>4. CASE j > i - 1
      <3>1. /\ ~(j < i) /\ j + 1 \in 1..L /\ j + 1 # i - 1
            /\ (j = Len(t) <=> j + 1 = L)
        BY <1>1, <1>4, <2>1, <2>4
      <3>2. t[j] = s[j + 1]
        BY <1>4, <3>1
      <3>3. n.next[s[j + 1]] = r.next[s[j + 1]]
        BY <1>8, <1>9, <3>1
      <3>4. ASSUME j # Len(t)
            PROVE  t[j + 1] = s[(j + 1) + 1]
        <4>1. j + 1 \in 1..Len(t) /\ ~(j + 1 < i)
          BY <1>1, <1>4, <2>1, <2>4, <3>4
        <4>2. QED
          BY <1>4, <4>1
      <3>5. QED
        BY <1>10, <3>1, <3>2, <3>3, <3>4
    <2>5. QED
      BY <1>1, <2>1, <2>2, <2>3, <2>4
  <1>16. ASSUME NEW j \in 1..Len(t)
         PROVE  /\ j = 1 => n.prev[t[j]] = NoPath
                /\ j # 1 => n.prev[t[j]] = t[j - 1]
    <2>1. j \in Nat /\ j >= 1 /\ j <= L - 1
      BY <1>1, <1>4
    <2>2. CASE j < i
      <3>1. /\ t[j] = s[j] /\ j \in 1..L /\ j # i + 1
        BY <1>1, <1>4, <2>1, <2>2
      <3>2. n.prev[s[j]] = r.prev[s[j]]
        BY <1>8, <1>9, <3>1
      <3>3. ASSUME j # 1
            PROVE  t[j - 1] = s[j - 1]
        <4>1. j - 1 \in 1..Len(t) /\ j - 1 < i
          BY <1>1, <1>4, <2>1, <2>2, <3>3
        <4>2. QED
          BY <1>4, <4>1
      <3>4. QED
        BY <1>10, <3>1, <3>2, <3>3
    <2>3. CASE j = i
      <3>1. t[j] = s[j + 1] /\ j + 1 \in 1..L /\ j + 1 = i + 1
        BY <1>1, <1>4, <2>1, <2>3
      <3>2. n.prev[s[j + 1]] = b
        BY <1>8, <1>9, <3>1
      <3>3. ASSUME j # 1
            PROVE  t[j - 1] = s[i - 1]
        <4>1. j - 1 \in 1..Len(t) /\ j - 1 < i
          BY <1>1, <1>4, <2>1, <2>3, <3>3
        <4>2. QED
          BY <1>4, <2>3, <4>1
      <3>4. QED
        BY <1>5, <2>3, <3>1, <3>2, <3>3
    <2>4. CASE j > i
      <3>1. /\ ~(j < i) /\ j + 1 \in 1..L /\ j + 1 # i + 1 /\ j # 1 /\ j + 1 # 1
            /\ (j + 1) - 1 = j
        BY <1>1, <1>4, <2>1, <2>4
      <3>2. t[j] = s[j + 1]
        BY <1>4, <3>1
      <3>3. n.prev[s[j + 1]] = s[j]
        <4>1. n.prev[s[j + 1]] = r.prev[s[j + 1]]
          BY <1>8, <1>9, <3>1
        <4>2. r.prev[s[j + 1]] = s[(j + 1) - 1]
          BY <1>10, <3>1
        <4>3. QED
          BY <3>1, <4>1, <4>2
      <3>4. t[j - 1] = s[j]
        <4>1. j - 1 \in 1..Len(t) /\ ~(j - 1 < i) /\ (j - 1) + 1 = j
          BY <1>1, <1>4, <2>1, <2>4
        <4>2. QED
          BY <1>4, <4>1
      <3>5. QED
        BY <3>1, <3>2, <3>3, <3>4
    <2>5. QED
      BY <1>1, <2>1, <2>2, <2>3, <2>4
  <1>17. Links(n, t)
    BY <1>4, <1>7, <1>13, <1>14, <1>15, <1>16 DEF Links
  <1>18. QED
    BY <1>2, <1>6, <1>7, <1>17 DEF t, p

(* A path that is not there is put behind or before a sequence.            *)
LEMMA Appends ==
  ASSUME NEW D, NEW t \in Seq(D), Injective(t),
         NEW p \in D, p \notin ToSet(t)
  PROVE  LET u == Append(t, p) IN
         /\ u \in Seq(D) /\ Len(u) = Len(t) + 1
         /\ \A j \in 1..Len(t) : u[j] = t[j] /\ t[j] # p
         /\ u[Len(t) + 1] = p
         /\ Injective(u) /\ ToSet(u) = ToSet(t) \cup {p}
  <1> DEFINE u == Append(t, p)
  <1>1. Len(t) \in Nat /\ DOMAIN t = 1..Len(t)
    BY LenProperties
  <1>2. \A j \in 1..Len(t) : t[j] # p
    BY <1>1 DEF ToSet
  <1>3. /\ u \in Seq(D) /\ Len(u) = Len(t) + 1
        /\ \A j \in 1..Len(t) : u[j] = t[j]
        /\ u[Len(t) + 1] = p
    BY AppendProperties
  <1> HIDE DEF u
  <1>4. DOMAIN u = 1..Len(u)
    BY <1>3, LenProperties
  <1>5. \A j \in 1..Len(u) : j = Len(t) + 1 \/ j \in 1..Len(t)
    BY <1>1, <1>3
  <1>6. Injective(u)
    <2> SUFFICES ASSUME NEW j \in 1..Len(u), NEW k \in 1..Len(u), u[j] = u[k]
                 PROVE  j = k
      BY DEF Injective
    <2>1. CASE j \in 1..Len(t) /\ k \in 1..Len(t)
      BY <1>3, <2>1 DEF Injective
    <2>2. CASE j = Len(t) + 1 \/ k = Len(t) + 1
      BY <1>2, <1>3, <1>5, <2>2
    <2>3. QED
      BY <1>5, <2>1, <2>2
  <1>7. ToSet(u) = ToSet(t) \cup {p}
    <2>1. ASSUME NEW j \in 1..Len(u)
          PROVE  u[j] \in ToSet(t) \cup {p}
      BY <1>1, <1>3, <1>5 DEF ToSet
    <2>2. \A j \in 1..Len(t) : t[j] \in ToSet(u)
      BY <1>1, <1>3, <1>4 DEF ToSet
    <2>3. p \in ToSet(u)
      <3>1. Len(t) + 1 \in DOMAIN u
        BY <1>1, <1>3, <1>4
      <3>2. QED
        BY <1>3, <3>1 DEF ToSet
    <2>4. QED
      BY <1>1, <1>4, <2>1, <2>2, <2>3 DEF ToSet
  <1>8. QED
    BY <1>2, <1>3, <1>6, <1>7 DEF u

LEMMA Prepends ==
  ASSUME NEW D, NEW t \in Seq(D), Injective(t),
         NEW p \in D, p \notin ToSet(t)
  PROVE  LET u == <<p>> \o t IN
         /\ u \in Seq(D) /\ Len(u) = Len(t) + 1
         /\ u[1] = p
         /\ \A j \in 1..Len(t) : u[j + 1] = t[j] /\ t[j] # p
         /\ Injective(u) /\ ToSet(u) = ToSet(t) \cup {p}
  <1> DEFINE u == <<p>> \o t
  <1>1. Len(t) \in Nat /\ DOMAIN t = 1..Len(t)
    BY LenProperties
  <1>2. \A j \in 1..Len(t) : t[j] # p
    BY <1>1 DEF ToSet
  <1>3. <<p>> \in Seq(D) /\ Len(<<p>>) = 1 /\ <<p>>[1] = p
    OBVIOUS
  <1>4. /\ u \in Seq(D) /\ Len(u) = Len(<<p>>) + Len(t)
        /\ \A j \in 1..(Len(<<p>>) + Len(t)) :
               u[j] = IF j <= Len(<<p>>) THEN <<p>>[j] ELSE t[j - Len(<<p>>)]
    BY <1>3, ConcatProperties
  <1> HIDE DEF u
  <1>5. /\ Len(u) = Len(t) + 1 /\ u[1] = p
        /\ \A j \in 1..Len(u) : j # 1 => u[j] = t[j - 1] /\ j - 1 \in 1..Len(t)
    BY <1>1, <1>3, <1>4
  <1>6. \A j \in 1..Len(t) : u[j + 1] = t[j]
    BY <1>1, <1>5
  <1>7. DOMAIN u = 1..Len(u) /\ 1 \in 1..Len(u)
    BY <1>1, <1>4, <1>5, LenProperties
  <1>8. Injective(u)
    <2> SUFFICES ASSUME NEW j \in 1..Len(u), NEW k \in 1..Len(u), u[j] = u[k]
                 PROVE  j = k
      BY DEF Injective
    <2>1. CASE j = 1 \/ k = 1
      BY <1>2, <1>5, <2>1
    <2>2. CASE j # 1 /\ k # 1
      <3>1. j - 1 = k - 1
        BY <1>5, <2>2 DEF Injective
      <3>2. QED
        BY <1>1, <1>5, <3>1
    <2>3. QED
      BY <2>1, <2>2
  <1>9. ToSet(u) = ToSet(t) \cup {p}
    <2>1. \A j \in 1..Len(u) : u[j] \in ToSet(t) \cup {p}
      BY <1>1, <1>5 DEF ToSet
    <2>2. ASSUME NEW j \in 1..Len(t)
          PROVE  t[j] \in ToSet(u)
      <3>1. j + 1 \in DOMAIN u
        BY <1>1, <1>5, <1>7
      <3>2. QED
        BY <1>6, <3>1 DEF ToSet
    <2>3. p \in ToSet(u)
      BY <1>5, <1>7 DEF ToSet
    <2>4. QED
      BY <1>1, <1>7, <2>1, <2>2, <2>3 DEF ToSet
  <1>10. QED
    BY <1>2, <1>4, <1>5, <1>6, <1>8, <1>9 DEF u

(* Linking a path behind the last one.                                     *)
LEMMA LinksBehind ==
  ASSUME NEW r, NEW t, Links(r, t),
         NEW p \in DrawPaths, p \notin ToSet(t), NEW n \in ListState,
         n.first = SetNext(r, r.last, p).first, n.last = p,
         \A x \in DrawPaths :
             /\ n.next[x] = IF x = p THEN NoPath ELSE SetNext(r, r.last, p).next[x]
             /\ n.prev[x] = IF x = p THEN r.last ELSE r.prev[x]
  PROVE  Links(n, Append(t, p))
  <1> DEFINE u == Append(t, p)
             c == SetNext(r, r.last, p)
             L == Len(t)
  <1>1. /\ r \in ListState /\ t \in Seq(DrawPaths) /\ Injective(t) /\ L \in Nat
        /\ \A j \in 1..L : t[j] \in DrawPaths
        /\ r.last \in Refs /\ p \in Refs
    BY LenProperties, ElementOfSeq DEF Links, ListState, Refs
  <1>2. /\ u \in Seq(DrawPaths) /\ Len(u) = L + 1 /\ Injective(u)
        /\ \A j \in 1..L : u[j] = t[j] /\ t[j] # p
        /\ u[L + 1] = p
    BY <1>1, Appends
  <1>3. /\ c.first = IF r.last = NoPath THEN p ELSE r.first
        /\ \A x \in DrawPaths : c.next[x] = IF x = r.last THEN p ELSE r.next[x]
    BY <1>1, SetsNext
  <1>4. /\ n.first = IF r.last = NoPath THEN p ELSE r.first
        /\ n.next[p] = NoPath /\ n.prev[p] = r.last
        /\ \A j \in 1..L :
               /\ n.next[t[j]] = IF t[j] = r.last THEN p ELSE r.next[t[j]]
               /\ n.prev[t[j]] = r.prev[t[j]]
    BY <1>1, <1>2, <1>3
  <1> HIDE DEF u, c
  <1>5. CASE L = 0
    <2>1. r.last = NoPath
      BY <1>5 DEF Links
    <2>2. Len(u) = 1 /\ u[1] = p /\ \A j \in 1..Len(u) : j = 1
      BY <1>2, <1>5
    <2>3. QED
      BY <1>2, <1>4, <2>1, <2>2 DEF Links, u
  <1>6. CASE L # 0
    <2>1. /\ r.first = t[1] /\ r.last = t[L] /\ 1 \in 1..L /\ L \in 1..L
          /\ r.last # NoPath
      BY <1>1, <1>6, DrawPathsAssumption DEF Links
    <2>2. n.first = u[1] /\ n.last = u[Len(u)] /\ Len(u) # 0
      BY <1>1, <1>2, <1>4, <2>1
    <2>3. ASSUME NEW j \in 1..L
          PROVE  /\ n.next[u[j]] = u[j + 1]
                 /\ j = 1 => n.prev[u[j]] = NoPath
                 /\ j # 1 => n.prev[u[j]] = u[j - 1]
      <3>1. t[j] = t[L] <=> j = L
        BY <1>1, <2>1 DEF Injective
      <3>2. /\ j # L => r.next[t[j]] = t[j + 1]
            /\ j = 1 => r.prev[t[j]] = NoPath
            /\ j # 1 => r.prev[t[j]] = t[j - 1]
        BY DEF Links
      <3>3. u[j] = t[j] /\ (j = L => u[j + 1] = p)
        BY <1>2
      <3>4. j # L => u[j + 1] = t[j + 1]
        BY <1>1, <1>2
      <3>5. j # 1 => u[j - 1] = t[j - 1]
        BY <1>1, <1>2
      <3>6. QED
        BY <1>4, <2>1, <3>1, <3>2, <3>3, <3>4, <3>5
    <2>4. n.next[u[L + 1]] = NoPath /\ n.prev[u[L + 1]] = u[L] /\ L + 1 # 1
      BY <1>1, <1>2, <1>4, <2>1
    <2>5. ASSUME NEW j \in 1..Len(u)
          PROVE  /\ j = Len(u) => n.next[u[j]] = NoPath
                 /\ j # Len(u) => n.next[u[j]] = u[j + 1]
                 /\ j = 1 => n.prev[u[j]] = NoPath
                 /\ j # 1 => n.prev[u[j]] = u[j - 1]
      <3>1. CASE j = L + 1
        <4>1. j - 1 = L /\ j = Len(u) /\ j # 1
          BY <1>1, <1>2, <1>6, <3>1
        <4>2. QED
          BY <2>4, <3>1, <4>1
      <3>2. CASE j # L + 1
        <4>1. j \in 1..L /\ j # Len(u)
          BY <1>1, <1>2, <3>2
        <4>2. QED
          BY <2>3, <4>1
      <3>3. QED
        BY <3>1, <3>2
    <2>6. QED
      BY <1>2, <2>2, <2>5 DEF Links, u
  <1>7. QED
    BY <1>5, <1>6

(* Linking a path before the first one.                                    *)
LEMMA LinksBefore ==
  ASSUME NEW r, NEW t, Links(r, t),
         NEW p \in DrawPaths, p \notin ToSet(t), NEW n \in ListState,
         n.first = p, n.last = SetPrev(r, r.first, p).last,
         \A x \in DrawPaths :
             /\ n.next[x] = IF x = p THEN r.first ELSE r.next[x]
             /\ n.prev[x] = IF x = p THEN NoPath ELSE SetPrev(r, r.first, p).prev[x]
  PROVE  Links(n, <<p>> \o t)
  <1> DEFINE u == <<p>> \o t
             c == SetPrev(r, r.first, p)
             L == Len(t)
  <1>1. /\ r \in ListState /\ t \in Seq(DrawPaths) /\ Injective(t) /\ L \in Nat
        /\ \A j \in 1..L : t[j] \in DrawPaths
        /\ r.first \in Refs /\ p \in Refs
    BY LenProperties, ElementOfSeq DEF Links, ListState, Refs
  <1>2. /\ u \in Seq(DrawPaths) /\ Len(u) = L + 1 /\ Injective(u)
        /\ u[1] = p
        /\ \A j \in 1..L : u[j + 1] = t[j] /\ t[j] # p
    BY <1>1, Prepends
  <1>3. /\ c.last = IF r.first = NoPath THEN p ELSE r.last
        /\ \A x \in DrawPaths : c.prev[x] = IF x = r.first THEN p ELSE r.prev[x]
    BY <1>1, SetsPrev
  <1>4. /\ n.last = IF r.first = NoPath THEN p ELSE r.last
        /\ n.next[p] = r.first /\ n.prev[p] = NoPath
        /\ \A j \in 1..L :
               /\ n.next[t[j]] = r.next[t[j]]
               /\ n.prev[t[j]] = IF t[j] = r.first THEN p ELSE r.prev[t[j]]
    BY <1>1, <1>2, <1>3
  <1> HIDE DEF u, c
  <1>5. CASE L = 0
    <2>1. r.first = NoPath
      BY <1>5 DEF Links
    <2>2. Len(u) = 1 /\ u[1] = p /\ \A j \in 1..Len(u) : j = 1
      BY <1>2, <1>5
    <2>3. QED
      BY <1>2, <1>4, <2>1, <2>2 DEF Links, u
  <1>6. CASE L # 0
    <2>1. /\ r.first = t[1] /\ r.last = t[L] /\ 1 \in 1..L /\ L \in 1..L
          /\ r.first # NoPath
      BY <1>1, <1>6, DrawPathsAssumption DEF Links
    <2>2. n.first = u[1] /\ n.last = u[Len(u)] /\ Len(u) # 0
      BY <1>1, <1>2, <1>4, <2>1
    <2>3. ASSUME NEW j \in 1..L
          PROVE  /\ j = L => n.next[u[j + 1]] = NoPath
                 /\ j # L => n.next[u[j + 1]] = u[(j + 1) + 1]
                 /\ n.prev[u[j + 1]] = u[j]
      <3>1. t[j] = t[1] <=> j = 1
        BY <1>1, <2>1 DEF Injective
      <3>2. /\ j = L => r.next[t[j]] = NoPath
            /\ j # L => r.next[t[j]] = t[j + 1]
            /\ j # 1 => r.prev[t[j]] = t[j - 1]
        BY DEF Links
      <3>3. u[j + 1] = t[j] /\ (j = 1 => u[j] = p)
        BY <1>2
      <3>4. j # L => u[(j + 1) + 1] = t[j + 1]
        BY <1>1, <1>2
      <3>5. ASSUME j # 1
            PROVE  u[j] = t[j - 1]
        <4>1. j - 1 \in 1..L /\ (j - 1) + 1 = j
          BY <1>1, <3>5
        <4>2. QED
          BY <1>2, <4>1
      <3>6. QED
        BY <1>4, <2>1, <3>1, <3>2, <3>3, <3>4, <3>5
    <2>4. n.next[u[1]] = u[2] /\ n.prev[u[1]] = NoPath /\ 1 # L + 1
      <3>1. u[1 + 1] = t[1] /\ 1 + 1 = 2
        BY <1>2, <2>1
      <3>2. QED
        BY <1>1, <1>2, <1>4, <1>6, <2>1, <3>1
    <2>5. ASSUME NEW j \in 1..Len(u)
          PROVE  /\ j = Len(u) => n.next[u[j]] = NoPath
                 /\ j # Len(u) => n.next[u[j]] = u[j + 1]
                 /\ j = 1 => n.prev[u[j]] = NoPath
                 /\ j # 1 => n.prev[u[j]] = u[j - 1]
      <3>1. CASE j = 1
        <4>1. j + 1 = 2 /\ j # Len(u)
          BY <1>1, <1>2, <1>6, <3>1
        <4>2. QED
          BY <2>4, <3>1, <4>1
      <3>2. CASE j # 1
        <4> DEFINE k == j - 1
        <4>1. k \in 1..L /\ k + 1 = j /\ (k = L <=> j = Len(u))
          BY <1>1, <1>2, <3>2
        <4> HIDE DEF k
        <4>2. j - 1 = k
          BY <4>1
        <4>3. QED
          BY <2>3, <3>2, <4>1, <4>2
      <3>3. QED
        BY <3>1, <3>2
    <2>6. QED
      BY <1>2, <2>2, <2>5 DEF Links, u
  <1>7. QED
    BY <1>5, <1>6

(* The pointers of a path that is not there do not matter.                 *)
LEMMA LinksOfOthers ==
  ASSUME NEW r, NEW t, Links(r, t),
         NEW p \in DrawPaths, p \notin ToSet(t), NEW n \in ListState,
         n.first = r.first, n.last = r.last,
         \A x \in DrawPaths \ {p} : n.next[x] = r.next[x] /\ n.prev[x] = r.prev[x]
  PROVE  Links(n, t)
  <1>1. t \in Seq(DrawPaths) /\ DOMAIN t = 1..Len(t)
    BY LenProperties DEF Links
  <1>2. \A j \in 1..Len(t) : t[j] \in DrawPaths \ {p}
    BY <1>1, ElementOfSeq DEF ToSet
  <1>3. \A j \in 1..Len(t) : /\ n.next[t[j]] = r.next[t[j]]
                            /\ n.prev[t[j]] = r.prev[t[j]]
    BY <1>2
  <1>4. QED
    BY <1>3 DEF Links

-----------------------------------------------------------------------------
(* The operations *)

(* What an operation on path p does to the sequence s: t comes out of it.  *)
MovesPath(s, t, p) ==
    \/ ~Contains(s, p) /\ t = Append(s, p)
    \/ \E i \in DOMAIN s :
          /\ s[i] = p
          /\ \/ t = RemoveAt(s, i)
             \/ t = Append(RemoveAt(s, i), p)
             \/ t = <<p>> \o RemoveAt(s, i)

LEMMA Inits ==
  ASSUME NEW s, Links(list, s), list.paths = ToSet(s),
         NEW p \in DrawPaths, InitPath(p)
  PROVE  \E t \in Seq(DrawPaths) :
             Links(list', t) /\ list'.paths = ToSet(t) /\ MovesPath(s, t, p)
  <1> DEFINE c == SetNext(list, list.last, p)
             u == Append(s, p)
  <1>1. list \in ListState /\ list.last \in Refs /\ p \in Refs
    BY DEF Links, ListState, Refs
  <1>2. /\ c \in ListState
        /\ c.paths = list.paths /\ c.last = list.last /\ c.prev = list.prev
    BY <1>1, SetsNext
  <1>3. list' = [c EXCEPT !.paths = @ \cup {p}, !.last = p,
                          !.next[p] = NoPath, !.prev[p] = list.last]
    BY DEF InitPath
  <1>4. s \in Seq(DrawPaths) /\ Injective(s) /\ p \notin ToSet(s)
    BY DEF Links, InitPath
  <1>5. /\ u \in Seq(DrawPaths) /\ ToSet(u) = ToSet(s) \cup {p}
    BY <1>4, Appends
  <1> DEFINE d == [c EXCEPT !.paths = @ \cup {p}, !.last = p]
  <1>6. list' = [d EXCEPT !.next[p] = NoPath, !.prev[p] = list.last]
    BY <1>3
  <1> HIDE DEF c, u
  <1>7. /\ d \in ListState /\ d.paths = c.paths \cup {p} /\ d.last = p
        /\ d.first = c.first /\ d.next = c.next /\ d.prev = c.prev
    BY <1>1, <1>2 DEF ListState
  <1> HIDE DEF d
  <1>8. list' \in ListState
    BY <1>1, <1>6, <1>7 DEF ListState, Refs
  <1>9. /\ list'.paths = d.paths /\ list'.last = p /\ list'.first = c.first
        /\ \A x \in DrawPaths :
               /\ list'.next[x] = IF x = p THEN NoPath ELSE d.next[x]
               /\ list'.prev[x] = IF x = p THEN list.last ELSE d.prev[x]
    BY <1>6, <1>7 DEF ListState
  <1>10. \A x \in DrawPaths :
             /\ list'.next[x] = IF x = p THEN NoPath ELSE c.next[x]
             /\ list'.prev[x] = IF x = p THEN list.last ELSE list.prev[x]
    BY <1>2, <1>7, <1>9
  <1>11. Links(list', u)
    BY <1>4, <1>8, <1>9, <1>10, LinksBehind DEF c, u
  <1>12. ~Contains(s, p)
    <2>1. DOMAIN s = 1..Len(s)
      BY <1>4, LenProperties
    <2>2. QED
      BY <1>4, <2>1 DEF Contains, ToSet
  <1>13. list'.paths = ToSet(u)
    BY <1>2, <1>5, <1>7, <1>9
  <1>14. QED
    BY <1>5, <1>11, <1>12, <1>13 DEF MovesPath, u

(* The three others take a path out of the sequence first.                 *)
LEMMA Takes ==
  ASSUME NEW s, Links(list, s), list.paths = ToSet(s), NEW p \in list.paths
  PROVE  \E i \in DOMAIN s :
             LET t == RemoveAt(s, i)
                 n == Unlink(list, p) IN
             /\ s[i] = p /\ p \in DrawPaths
             /\ Links(n, t) /\ n \in ListState /\ n.paths = list.paths
             /\ t \in Seq(DrawPaths) /\ Injective(t)
             /\ ToSet(t) = ToSet(s) \ {p}
  <1>1. s \in Seq(DrawPaths) /\ Injective(s) /\ DOMAIN s = 1..Len(s)
    BY LenProperties DEF Links
  <1>2. PICK i \in 1..Len(s) : s[i] = p
    BY <1>1 DEF ToSet
  <1>3. p \in DrawPaths
    BY <1>1, <1>2, ElementOfSeq
  <1>4. /\ Links(Unlink(list, p), RemoveAt(s, i))
        /\ Unlink(list, p).paths = list.paths
    BY <1>2, Unlinks
  <1>5. /\ RemoveAt(s, i) \in Seq(DrawPaths) /\ Injective(RemoveAt(s, i))
        /\ ToSet(RemoveAt(s, i)) = ToSet(s) \ {p}
    BY <1>1, <1>2, Removes
  <1>6. Unlink(list, p) \in ListState
    BY <1>4 DEF Links
  <1>7. QED
    BY <1>1, <1>2, <1>3, <1>4, <1>5, <1>6

LEMMA RemovesPath ==
  ASSUME NEW s, Links(list, s), list.paths = ToSet(s),
         NEW p \in DrawPaths, RemovePath(p)
  PROVE  \E t \in Seq(DrawPaths) :
             Links(list', t) /\ list'.paths = ToSet(t) /\ MovesPath(s, t, p)
  <1> DEFINE n == Unlink(list, p)
  <1>1. p \in list.paths
    BY DEF RemovePath
  <1>2. PICK i \in DOMAIN s :
          LET t == RemoveAt(s, i) IN
          /\ s[i] = p /\ p \in DrawPaths
          /\ Links(n, t) /\ n \in ListState /\ n.paths = list.paths
          /\ t \in Seq(DrawPaths) /\ Injective(t)
          /\ ToSet(t) = ToSet(s) \ {p}
    BY <1>1, Takes
  <1> DEFINE t == RemoveAt(s, i)
  <1>3. list' = [n EXCEPT !.paths = @ \ {p}, !.next[p] = NoPath, !.prev[p] = NoPath]
    BY DEF RemovePath
  <1> HIDE DEF n
  <1>4. list' \in ListState
    BY <1>2, <1>3 DEF ListState, Refs
  <1>5. /\ list'.paths = n.paths \ {p}
        /\ list'.first = n.first /\ list'.last = n.last
        /\ \A x \in DrawPaths \ {p} :
               list'.next[x] = n.next[x] /\ list'.prev[x] = n.prev[x]
    BY <1>2, <1>3 DEF ListState
  <1>6. Links(n, t) /\ p \notin ToSet(t) /\ ToSet(t) = ToSet(s) \ {p}
    BY <1>2
  <1>7. Links(list', t)
    BY <1>4, <1>5, <1>6, LinksOfOthers
  <1>8. MovesPath(s, t, p)
    BY <1>2 DEF MovesPath
  <1>9. list'.paths = ToSet(t)
    BY <1>2, <1>5, <1>6
  <1>10. QED
    BY <1>2, <1>7, <1>8, <1>9

LEMMA BringsToFront ==
  ASSUME NEW s, Links(list, s), list.paths = ToSet(s),
         NEW p \in DrawPaths, BringToFront(p)
  PROVE  \E t \in Seq(DrawPaths) :
             Links(list', t) /\ list'.paths = ToSet(t) /\ MovesPath(s, t, p)
  <1> DEFINE n == Unlink(list, p)
             c == SetNext(n, n.last, p)
  <1>1. p \in list.paths
    BY DEF BringToFront
  <1>2. PICK i \in DOMAIN s :
          LET t == RemoveAt(s, i) IN
          /\ s[i] = p /\ p \in DrawPaths
          /\ Links(n, t) /\ n \in ListState /\ n.paths = list.paths
          /\ t \in Seq(DrawPaths) /\ Injective(t)
          /\ ToSet(t) = ToSet(s) \ {p}
    BY <1>1, Takes
  <1> DEFINE t == RemoveAt(s, i)
             u == Append(t, p)
  <1>3. list' = [c EXCEPT !.prev[p] = n.last, !.next[p] = NoPath, !.last = p]
    BY DEF BringToFront
  <1> HIDE DEF n
  <1>4. n.last \in Refs /\ p \in Refs
    BY <1>2 DEF ListState, Refs
  <1>5. /\ c \in ListState
        /\ c.paths = n.paths /\ c.last = n.last /\ c.prev = n.prev
    BY <1>2, <1>4, SetsNext
  <1>6. /\ t \in Seq(DrawPaths) /\ Injective(t) /\ p \notin ToSet(t)
        /\ ToSet(t) \cup {p} = list.paths /\ Links(n, t)
    BY <1>1, <1>2
  <1>7. u \in Seq(DrawPaths) /\ ToSet(u) = ToSet(t) \cup {p}
    BY <1>6, Appends
  <1> HIDE DEF c, u, t
  <1>8. list' \in ListState
    BY <1>3, <1>4, <1>5 DEF ListState, Refs
  <1>9. /\ list'.paths = c.paths /\ list'.last = p /\ list'.first = c.first
        /\ \A x \in DrawPaths :
               /\ list'.next[x] = IF x = p THEN NoPath ELSE c.next[x]
               /\ list'.prev[x] = IF x = p THEN n.last ELSE c.prev[x]
    BY <1>3, <1>5 DEF ListState
  <1>10. \A x \in DrawPaths :
             /\ list'.next[x] = IF x = p THEN NoPath ELSE c.next[x]
             /\ list'.prev[x] = IF x = p THEN n.last ELSE n.prev[x]
    BY <1>5, <1>9
  <1>11. Links(list', u)
    BY <1>6, <1>8, <1>9, <1>10, LinksBehind DEF c, u
  <1>12. MovesPath(s, u, p)
    BY <1>2 DEF MovesPath, u, t
  <1>13. list'.paths = ToSet(u)
    BY <1>2, <1>5, <1>6, <1>7, <1>9
  <1>14. QED
    BY <1>7, <1>11, <1>12, <1>13

LEMMA BringsToBack ==
  ASSUME NEW s, Links(list, s), list.paths = ToSet(s),
         NEW p \in DrawPaths, BringToBack(p)
  PROVE  \E t \in Seq(DrawPaths) :
             Links(list', t) /\ list'.paths = ToSet(t) /\ MovesPath(s, t, p)
  <1> DEFINE n == Unlink(list, p)
             c == SetPrev(n, n.first, p)
  <1>1. p \in list.paths
    BY DEF BringToBack
  <1>2. PICK i \in DOMAIN s :
          LET t == RemoveAt(s, i) IN
          /\ s[i] = p /\ p \in DrawPaths
          /\ Links(n, t) /\ n \in ListState /\ n.paths = list.paths
          /\ t \in Seq(DrawPaths) /\ Injective(t)
          /\ ToSet(t) = ToSet(s) \ {p}
    BY <1>1, Takes
  <1> DEFINE t == RemoveAt(s, i)
             u == <<p>> \o t
  <1>3. list' = [c EXCEPT !.next[p] = n.first, !.prev[p] = NoPath, !.first = p]
    BY DEF BringToBack
  <1> HIDE DEF n
  <1>4. n.first \in Refs /\ p \in Refs
    BY <1>2 DEF ListState, Refs
  <1>5. /\ c \in ListState
        /\ c.paths = n.paths /\ c.first = n.first /\ c.next = n.next
    BY <1>2, <1>4, SetsPrev
  <1>6. /\ t \in Seq(DrawPaths) /\ Injective(t) /\ p \notin ToSet(t)
        /\ ToSet(t) \cup {p} = list.paths /\ Links(n, t)
    BY <1>1, <1>2
  <1>7. u \in Seq(DrawPaths) /\ ToSet(u) = ToSet(t) \cup {p}
    BY <1>6, Prepends
  <1> HIDE DEF c, u, t
  <1>8. list' \in ListState
    BY <1>3, <1>4, <1>5 DEF ListState, Refs
  <1>9. /\ list'.paths = c.paths /\ list'.first = p /\ list'.last = c.last
        /\ \A x \in DrawPaths :
               /\ list'.next[x] = IF x = p THEN n.first ELSE c.next[x]
               /\ list'.prev[x] = IF x = p THEN NoPath ELSE c.prev[x]
    BY <1>3, <1>5 DEF ListState
  <1>10. \A x \in DrawPaths :
             /\ list'.next[x] = IF x = p THEN n.first ELSE n.next[x]
             /\ list'.prev[x] = IF x = p THEN NoPath ELSE c.prev[x]
    BY <1>5, <1>9
  <1>11. Links(list', u)
    BY <1>6, <1>8, <1>9, <1>10, LinksBefore DEF c, u
  <1>12. MovesPath(s, u, p)
    BY <1>2 DEF MovesPath, u, t
  <1>13. list'.paths = ToSet(u)
    BY <1>2, <1>5, <1>6, <1>7, <1>9
  <1>14. QED
    BY <1>7, <1>11, <1>12, <1>13

LEMMA ListStarts == ListInit => Links(list, <<>>) /\ list.paths = ToSet(<<>>)
  <1> SUFFICES ASSUME ListInit
               PROVE  Links(list, <<>>) /\ list.paths = ToSet(<<>>)
    OBVIOUS
  <1>1. <<>> \in Seq(DrawPaths) /\ Len(<<>>) = 0 /\ 1..0 = {}
    OBVIOUS
  <1>2. list \in ListState
    BY DEF ListInit, ListState, Refs
  <1>3. list.first = NoPath /\ list.last = NoPath /\ list.paths = {}
    BY DEF ListInit
  <1>4. ToSet(<<>>) = {}
    BY DEF ToSet
  <1>5. QED
    BY <1>1, <1>2, <1>3, <1>4 DEF Links, Injective

LEMMA ListSteps ==
  ASSUME NEW s, Links(list, s), list.paths = ToSet(s), [ListNext]_list
  PROVE  \E t \in Seq(DrawPaths) :
             /\ Links(list', t) /\ list'.paths = ToSet(t)
             /\ t # s => \E p \in DrawPaths : MovesPath(s, t, p)
  <1>1. CASE UNCHANGED list
    BY <1>1 DEF Links
  <1>2. ASSUME NEW p \in DrawPaths,
               InitPath(p) \/ RemovePath(p) \/ BringToFront(p) \/ BringToBack(p)
        PROVE  \E t \in Seq(DrawPaths) :
                   Links(list', t) /\ list'.paths = ToSet(t) /\ MovesPath(s, t, p)
    BY <1>2, Inits, RemovesPath, BringsToFront, BringsToBack
  <1>3. QED
    BY <1>1, <1>2 DEF ListNext

(* The draw list of the renderer behaves as the sequence of DrawOrder.     *)
THEOREM ListImplementsOrder == ListSpec => ImplementsOrder
  <1>1. ListInit => ListInv /\ Order!OrderInit
    <2> SUFFICES ASSUME ListInit PROVE ListInv /\ Order!OrderInit
      OBVIOUS
    <2>1. Links(list, <<>>) /\ list.paths = ToSet(<<>>) /\ <<>> \in Seq(DrawPaths)
      BY ListStarts
    <2>2. Walk(list) = <<>>
      BY <2>1, Walks
    <2>3. QED
      BY <2>1, <2>2 DEF ListInv, Order!OrderInit
  <1>2. ListInv /\ [ListNext]_list => ListInv' /\ [Order!OrderNext]_(Walk(list))
    <2> SUFFICES ASSUME ListInv, [ListNext]_list
                 PROVE  ListInv' /\ [Order!OrderNext]_(Walk(list))
      OBVIOUS
    <2>1. PICK s \in Seq(DrawPaths) : Links(list, s) /\ list.paths = ToSet(s)
      BY DEF ListInv
    <2>2. PICK t \in Seq(DrawPaths) :
            /\ Links(list', t) /\ list'.paths = ToSet(t)
            /\ t # s => \E p \in DrawPaths : MovesPath(s, t, p)
      BY <2>1, ListSteps
    <2>3. Walk(list) = s /\ Walk(list') = t
      BY <2>1, <2>2, Walks
    <2>4. ListInv'
      BY <2>2 DEF ListInv
    <2>5. ASSUME t # s
          PROVE  Order!OrderNext
      <3>1. PICK p \in DrawPaths : MovesPath(s, t, p)
        BY <2>2, <2>5
      <3>2. Walk(list)' = t
        BY <2>3
      <3>3. \/ Order!AddAtEnd(p) \/ Order!TakeOut(p)
            \/ Order!ToEnd(p) \/ Order!ToStart(p)
        <4>1. \A i : Order!RemoveAt(s, i) = RemoveAt(s, i)
          BY DEF RemoveAt, Order!RemoveAt
        <4>2. Order!Contains(s, p) <=> Contains(s, p)
          BY DEF Contains, Order!Contains
        <4>3. QED
          BY <2>3, <3>1, <3>2, <4>1, <4>2
             DEF MovesPath, Order!AddAtEnd, Order!TakeOut, Order!ToEnd, Order!ToStart
      <3>4. QED
        BY <2>3, <2>5, <3>2, <3>3 DEF Order!OrderNext
    <2>6. QED
      BY <2>3, <2>4, <2>5
  <1>3. QED
    BY <1>1, <1>2, PTL DEF ListSpec, ImplementsOrder, Order!OrderSpec

(* Whatever was added, removed and moved, the walk along the next pointers *)
(* meets every path of the renderer once, and the prev pointers lead back. *)
THEOREM TheListIsWhole == ListSpec => []ListIsWhole
  <1>1. ListInit => ListInv
    <2>1. <<>> \in Seq(DrawPaths)
      OBVIOUS
    <2>2. QED
      BY <2>1, ListStarts DEF ListInv
  <1>2. ListInv /\ [ListNext]_list => ListInv'
    BY ListSteps DEF ListInv
  <1>3. ListInv => ListIsWhole
    <2> SUFFICES ASSUME ListInv PROVE ListIsWhole
      OBVIOUS
    <2>1. PICK s \in Seq(DrawPaths) : Links(list, s) /\ list.paths = ToSet(s)
      BY DEF ListInv
    <2>2. Walk(list) = s
      BY <2>1, Walks
    <2>3. Len(s) \in Nat /\ DOMAIN s = 1..Len(s) /\ Injective(s)
      BY <2>1, LenProperties DEF Links
    <2>4. Len(s) = Cardinality(ToSet(s))
      <3>1. s \in Bijection(1..Len(s), ToSet(s))
        <4>1. s \in [1..Len(s) -> ToSet(s)]
          BY <2>3 DEF ToSet
        <4>2. \A x \in ToSet(s) : \E i \in 1..Len(s) : s[i] = x
          BY <2>3 DEF ToSet
        <4>3. QED
          BY <2>3, <4>1, <4>2
             DEF Bijection, Injection, Surjection, IsInjective, Injective
      <3>2. IsFiniteSet(1..Len(s)) /\ Cardinality(1..Len(s)) = Len(s)
        BY <2>3, FS_Interval, SMTT(40)
      <3>3. Cardinality(1..Len(s)) = Cardinality(ToSet(s))
        <4>1. ExistsBijection(1..Len(s), ToSet(s))
          BY <3>1 DEF ExistsBijection
        <4>2. QED
          BY <3>2, <4>1, FS_Bijection
      <3>4. QED
        BY <3>2, <3>3
    <2>5. list.last = IF s = <<>> THEN NoPath ELSE Last(s)
      <3>1. s = <<>> <=> Len(s) = 0
        BY EmptySeq
      <3>2. QED
        BY <2>1, <3>1 DEF Links, Last
    <2>6. \A i \in DOMAIN s :
              list.prev[s[i]] = IF i = 1 THEN NoPath ELSE s[i - 1]
      BY <2>1, <2>3 DEF Links
    <2>7. QED
      BY <2>1, <2>2, <2>4, <2>5, <2>6 DEF ListIsWhole
  <1>4. QED
    BY <1>1, <1>2, <1>3, PTL DEF ListSpec

-----------------------------------------------------------------------------
(* Tooltips *)

Events == {"remove", "move", "mouseover", "mouseout", "mousemove", "click", "add"}

Owner == [onMap : BOOLEAN, tip : Tips \cup {NoTip}, touch : BOOLEAN,
          handlersAdded : BOOLEAN, listens : SUBSET Events,
          mixed : BOOLEAN, closed : BOOLEAN]

Tip == [onMap : BOOLEAN, inPane : BOOLEAN, fading : BOOLEAN, left : BOOLEAN]

TipState == [owner : Owner, tips : [Tips -> Tip]]

(* Of the tooltips of a state s.                                           *)
InPlace(s) ==
    \A t \in Tips : s.tips[t].onMap =>
        /\ s.tips[t].inPane /\ ~s.tips[t].fading
        /\ ~s.tips[t].left => s.owner.onMap /\ s.owner.tip = t

(* Of what its layer listens for.                                          *)
Listening(s) ==
    /\ s.owner.tip # NoTip => s.owner.handlersAdded /\ "remove" \in s.owner.listens
    /\ s.owner.tip = NoTip => ~s.owner.handlersAdded
    /\ ~s.owner.mixed /\ s.owner.tip # NoTip => s.owner.listens = TipEvents(s.owner.tip)
    /\ ~s.owner.mixed /\ s.owner.tip = NoTip => s.owner.listens = {}

Stays(s) ==
    /\ s.owner.onMap /\ s.owner.tip \in PermanentTips
    /\ ~s.owner.mixed /\ ~s.owner.closed
    => s.tips[s.owner.tip].onMap

TipsGood(s) == s \in TipState /\ InPlace(s) /\ Listening(s) /\ Stays(s)

TipInv == TipsGood(All)

-----------------------------------------------------------------------------
(* The property follows from the invariant.                                *)
LEMMA TipInvGivesProperty == TipInv => TipsFollowLayer
  <1> SUFFICES ASSUME TipInv PROVE TipsFollowLayer
    OBVIOUS
  <1>1. /\ owner \in Owner /\ tips \in [Tips -> Tip]
        /\ All.owner = owner /\ All.tips = tips
    BY DEF TipInv, TipsGood, TipState, All
  <1>2. TipTypeOK
    BY <1>1 DEF TipTypeOK, Owner, Tip, Events
  <1>3. OpenTipIsThere /\ TipsGoWithOwner
    BY <1>1 DEF TipInv, TipsGood, InPlace, OpenTipIsThere, TipsGoWithOwner
  <1>4. PermanentTipStays
    BY <1>1 DEF TipInv, TipsGood, Stays, PermanentTipStays
  <1>5. QED
    BY <1>2, <1>3, <1>4 DEF TipsFollowLayer

(* A step to a good state, by the device the layer has, keeps it.          *)
LEMMA TurnKeeps ==
  ASSUME NEW n, TipsGood(n), Turn(n), n.owner.touch = owner.touch
  PROVE  TipInv'
  <1>1. All' = n
    BY DEF All, Turn, TipsGood, TipState
  <1>2. \A t : TipEvents(t)' = TipEvents(t)
    BY DEF TipEvents, Turn
  <1>3. QED
    BY <1>1, <1>2 DEF TipInv, TipsGood, InPlace, Listening, Stays

(* The events a tooltip makes its layer listen for.                        *)
LEMMA EventsOfTip ==
  ASSUME NEW t \in Tips
  PROVE  /\ TipEvents(t) \subseteq Events /\ "remove" \in TipEvents(t)
         /\ t \in PermanentTips =>
              "add" \in TipEvents(t) /\ "mouseout" \notin TipEvents(t)
  BY DEF TipEvents, Events

-----------------------------------------------------------------------------
(* Opening and closing change one tooltip, and no more of the layer than   *)
(* what is remembered of calls.                                            *)
LEMMA Opening ==
  ASSUME NEW s \in TipState, InPlace(s), NEW n, n = LayerOpenTip(s)
  PROVE  /\ n \in TipState /\ InPlace(n)
         /\ \E c \in BOOLEAN : /\ n.owner = [s.owner EXCEPT !.closed = c]
                               /\ s.owner.tip = NoTip \/ ~s.owner.onMap
                                    => c = s.owner.closed
         /\ s.owner.tip # NoTip /\ s.owner.onMap => n.tips[s.owner.tip].onMap
  <1>1. CASE s.owner.tip = NoTip \/ ~s.owner.onMap
    BY <1>1 DEF LayerOpenTip, TipState, Owner
  <1>2. CASE s.owner.tip # NoTip /\ s.owner.onMap
    <2> DEFINE t == s.owner.tip
               m == MapOpenTooltip(s, t)
    <2>1. t \in Tips /\ s.tips[t] \in Tip
      BY <1>2 DEF TipState, Owner
    <2>2. /\ m \in TipState /\ m.owner = s.owner
          /\ m.tips[t].onMap /\ m.tips[t].inPane /\ ~m.tips[t].fading
          /\ \A u \in Tips \ {t} : m.tips[u] = s.tips[u]
      <3>1. CASE s.tips[t].onMap
        BY <2>1, <3>1 DEF InPlace, MapOpenTooltip
      <3>2. CASE ~s.tips[t].onMap
        BY <2>1, <3>2 DEF MapOpenTooltip, OverlayOnAdd, TipState, Tip
      <3>3. QED
        BY <3>1, <3>2
    <2>3. n = [m EXCEPT !.owner.closed = FALSE]
      BY <1>2 DEF LayerOpenTip
    <2> HIDE DEF m
    <2>4. /\ n \in TipState /\ n.tips = m.tips
          /\ n.owner = [s.owner EXCEPT !.closed = FALSE]
      <3>1. m \in TipState /\ m.owner = s.owner
        BY <2>2
      <3>2. /\ n.tips = m.tips /\ n.owner = [m.owner EXCEPT !.closed = FALSE]
            /\ n = [owner |-> n.owner, tips |-> n.tips]
        BY <2>3, <3>1 DEF TipState
      <3>3. n.owner \in Owner /\ n.tips \in [Tips -> Tip]
        BY <3>1, <3>2 DEF TipState, Owner
      <3>4. QED
        BY <3>1, <3>2, <3>3 DEF TipState
    <2>5. InPlace(n)
      BY <1>2, <2>1, <2>2, <2>4 DEF InPlace, TipState, Owner
    <2>6. QED
      BY <1>2, <2>2, <2>4, <2>5
  <1>3. QED
    BY <1>1, <1>2

LEMMA Closing ==
  ASSUME NEW s \in TipState, InPlace(s), NEW t \in Tips,
         NEW n, n = MapCloseTooltip(s, t)
  PROVE  /\ n \in TipState /\ InPlace(n) /\ n.owner = s.owner
         /\ ~n.tips[t].onMap
         /\ \A u \in Tips \ {t} : n.tips[u] = s.tips[u]
  <1>1. CASE ~s.tips[t].onMap
    BY <1>1 DEF MapCloseTooltip
  <1>2. CASE s.tips[t].onMap
    <2>1. s.tips[t] \in Tip
      BY DEF TipState
    <2>2. /\ n \in TipState /\ n.owner = s.owner /\ ~n.tips[t].onMap
          /\ \A u \in Tips \ {t} : n.tips[u] = s.tips[u]
      BY <1>2, <2>1 DEF MapCloseTooltip, OverlayOnRemove, TipState, Tip
    <2>3. InPlace(n)
      <3>1. n.owner = s.owner /\ ~n.tips[t].onMap
        BY <2>2
      <3>2. \A u \in Tips : u = t \/ n.tips[u] = s.tips[u]
        BY <2>2
      <3>3. QED
        BY <3>1, <3>2 DEF InPlace
    <2>4. QED
      BY <2>2, <2>3
  <1>3. QED
    BY <1>1, <1>2

LEMMA ClosingOwn ==
  ASSUME NEW s \in TipState, InPlace(s), NEW n, n = LayerCloseTip(s)
  PROVE  /\ n \in TipState /\ InPlace(n) /\ n.owner = s.owner
         /\ \A u \in Tips : ~(n.tips[u].onMap /\ ~n.tips[u].left)
         /\ \A u \in Tips \ {s.owner.tip} : n.tips[u] = s.tips[u]
  <1>1. CASE s.owner.tip = NoTip
    BY <1>1, TipsAssumption DEF LayerCloseTip, InPlace
  <1>2. CASE s.owner.tip # NoTip
    <2>1. s.owner.tip \in Tips
      BY <1>2 DEF TipState, Owner
    <2>2. /\ n \in TipState /\ InPlace(n) /\ n.owner = s.owner
          /\ ~n.tips[s.owner.tip].onMap
          /\ \A u \in Tips \ {s.owner.tip} : n.tips[u] = s.tips[u]
      BY <1>2, <2>1, Closing DEF LayerCloseTip
    <2>3. QED
      BY <2>1, <2>2 DEF InPlace
  <1>3. QED
    BY <1>1, <1>2

-----------------------------------------------------------------------------
(* The steps                                                               *)

LEMMA BindKeeps ==
  ASSUME TipInv, NEW t \in Tips, BindTooltip(t)
  PROVE  TipInv'
  <1> DEFINE old == owner.tip
             n == AddTipInteractions([All EXCEPT !.owner.tip = t, !.owner.closed = FALSE])
             m == [n EXCEPT
                     !.owner.mixed = @ \/ n.owner.listens # TipEvents(t),
                     !.tips = [u \in Tips |->
                         [tips[u] EXCEPT !.left = @ \/ (u = old /\ tips[u].onMap)]]]
  <1>1. /\ All \in TipState /\ All.owner = owner /\ All.tips = tips
        /\ owner \in Owner /\ tips \in [Tips -> Tip] /\ InPlace(All) /\ Listening(All)
    BY DEF TipInv, TipsGood, All, TipState
  <1>2. t # NoTip
    BY TipsAssumption
  <1>3. /\ n \in TipState /\ n.tips = tips
        /\ n.owner.tip = t /\ n.owner.onMap = owner.onMap
        /\ n.owner.touch = owner.touch /\ n.owner.handlersAdded
        /\ "remove" \in n.owner.listens
    <2> DEFINE s == [All EXCEPT !.owner.tip = t, !.owner.closed = FALSE]
    <2>1. /\ s \in TipState /\ s.tips = tips
          /\ s.owner.tip = t /\ s.owner.onMap = owner.onMap
          /\ s.owner.touch = owner.touch
          /\ s.owner.handlersAdded = owner.handlersAdded
          /\ s.owner.listens = owner.listens
      BY <1>1 DEF TipState, Owner
    <2> HIDE DEF s
    <2>2. CASE owner.handlersAdded
      <3>1. "remove" \in owner.listens
        BY <1>1, <2>2 DEF Listening
      <3>2. QED
        BY <2>1, <2>2, <3>1 DEF AddTipInteractions, s
    <2>3. CASE ~owner.handlersAdded
      <3>1. TipEvents(t) \subseteq Events /\ "remove" \in TipEvents(t)
        BY EventsOfTip
      <3>2. n = [s EXCEPT !.owner.listens = @ \cup TipEvents(t),
                          !.owner.handlersAdded = TRUE]
        BY <2>1, <2>3 DEF AddTipInteractions, s
      <3> HIDE DEF n
      <3>3. QED
        BY <2>1, <3>1, <3>2 DEF TipState, Owner
    <2>4. QED
      BY <2>2, <2>3
  <1> DEFINE L == n.owner.listens
             mixed == n.owner.mixed \/ n.owner.listens # TipEvents(t)
             left == [u \in Tips |->
                        [tips[u] EXCEPT !.left = @ \/ (u = old /\ tips[u].onMap)]]
  <1> HIDE DEF n
  <1>4. /\ mixed \in BOOLEAN
        /\ ~mixed => L = TipEvents(t)
        /\ left \in [Tips -> Tip]
        /\ \A u \in Tips :
              left[u] = [tips[u] EXCEPT !.left = @ \/ (u = old /\ tips[u].onMap)]
    <2>1. \A u \in Tips :
             [tips[u] EXCEPT !.left = @ \/ (u = old /\ tips[u].onMap)] \in Tip
      BY <1>1 DEF Tip
    <2>2. mixed \in BOOLEAN /\ (~mixed => L = TipEvents(t))
      BY <1>3 DEF TipState, Owner
    <2>3. QED
      BY <2>1, <2>2
  <1>5. m = [n EXCEPT !.owner.mixed = mixed, !.tips = left]
    OBVIOUS
  <1> HIDE DEF mixed, left, m
  <1>6. /\ m \in TipState /\ m.tips = left
        /\ m.owner \in Owner /\ m.owner.tip = t /\ m.owner.onMap = owner.onMap
        /\ m.owner.touch = owner.touch /\ m.owner.handlersAdded
        /\ m.owner.listens = L
        /\ ~m.owner.mixed => L = TipEvents(t)
    BY <1>3, <1>4, <1>5 DEF TipState, Owner
  <1>8. InPlace(m)
    <2> SUFFICES ASSUME NEW u \in Tips, m.tips[u].onMap
                 PROVE  m.tips[u].inPane /\ ~m.tips[u].fading /\ m.tips[u].left
      BY DEF InPlace
    <2>1. /\ m.tips[u].onMap = tips[u].onMap /\ m.tips[u].inPane = tips[u].inPane
          /\ m.tips[u].fading = tips[u].fading
          /\ m.tips[u].left = (tips[u].left \/ (u = old /\ tips[u].onMap))
      <3>1. /\ tips[u] \in Tip
            /\ m.tips[u]
                 = [tips[u] EXCEPT !.left = @ \/ (u = old /\ tips[u].onMap)]
        BY <1>1, <1>4, <1>6
      <3>2. QED
        BY <3>1 DEF Tip
    <2>2. QED
      BY <1>1, <2>1 DEF InPlace
  <1>9. Turn(IF t \in PermanentTips THEN LayerOpenTip(m) ELSE m)
    BY DEF BindTooltip, m, n
  <1>10. Listening(m)
    BY <1>2, <1>3, <1>6 DEF Listening
  <1>11. CASE t \notin PermanentTips
    BY <1>6, <1>8, <1>9, <1>10, <1>11, TurnKeeps DEF TipsGood, Stays
  <1>12. CASE t \in PermanentTips
    <2> DEFINE o == LayerOpenTip(m)
    <2>1. /\ o \in TipState /\ InPlace(o)
          /\ \E c \in BOOLEAN : o.owner = [m.owner EXCEPT !.closed = c]
          /\ m.owner.onMap => o.tips[t].onMap
      BY <1>2, <1>6, <1>8, Opening
    <2>2. /\ o.owner.tip = t /\ o.owner.onMap = m.owner.onMap
          /\ o.owner.touch = owner.touch
      BY <1>6, <2>1 DEF Owner
    <2>3. Listening(o)
      BY <1>6, <1>10, <2>1 DEF Listening, Owner
    <2>4. TipsGood(o)
      BY <2>1, <2>2, <2>3 DEF TipsGood, Stays
    <2>5. QED
      BY <1>9, <1>12, <2>2, <2>4, TurnKeeps
  <1>13. QED
    BY <1>11, <1>12

(* In a good state the parts are those of the variables.                   *)
LEMMA Parts ==
  ASSUME TipInv
  PROVE  /\ All \in TipState /\ All.owner = owner /\ All.tips = tips
         /\ owner \in Owner /\ tips \in [Tips -> Tip]
         /\ InPlace(All) /\ Listening(All) /\ Stays(All)
  BY DEF TipInv, TipsGood, All, TipState

(* Whatever makes a layer open its tooltip, its own call or an event.      *)
LEMMA OpenKeeps ==
  ASSUME TipInv, Turn(LayerOpenTip(All))
  PROVE  TipInv'
  <1> DEFINE n == LayerOpenTip(All)
  <1> DEFINE o == All
  <1>0. o \in TipState /\ InPlace(o) /\ o.owner = owner
    BY Parts
  <1> HIDE DEF o
  <1>a. ASSUME NEW m, m = LayerOpenTip(o)
        PROVE  /\ m \in TipState /\ InPlace(m)
               /\ \E c \in BOOLEAN :
                     /\ m.owner = [owner EXCEPT !.closed = c]
                     /\ owner.tip = NoTip \/ ~owner.onMap => c = owner.closed
               /\ owner.tip # NoTip /\ owner.onMap => m.tips[owner.tip].onMap
    BY <1>0, <1>a, Opening
  <1>1. /\ n \in TipState /\ InPlace(n)
        /\ \E c \in BOOLEAN : /\ n.owner = [owner EXCEPT !.closed = c]
                              /\ owner.tip = NoTip \/ ~owner.onMap => c = owner.closed
        /\ owner.tip # NoTip /\ owner.onMap => n.tips[owner.tip].onMap
    BY <1>a DEF o
  <1>2. /\ n.owner.tip = owner.tip /\ n.owner.onMap = owner.onMap
        /\ n.owner.touch = owner.touch /\ n.owner.mixed = owner.mixed
        /\ n.owner.handlersAdded = owner.handlersAdded
        /\ n.owner.listens = owner.listens
    BY <1>1, Parts DEF Owner
  <1>3. Listening(n)
    BY <1>2, Parts DEF Listening
  <1>4. Stays(n)
    BY <1>1, <1>2, TipsAssumption DEF Stays, Tips
  <1>5. QED
    BY <1>1, <1>2, <1>3, <1>4, TurnKeeps DEF TipsGood

LEMMA UnbindKeeps ==
  ASSUME TipInv, UnbindTooltip
  PROVE  TipInv'
  <1> DEFINE t == owner.tip
             s == RemoveTipInteractions(All)
             c == LayerCloseTip(s)
             n == [c EXCEPT !.owner.tip = NoTip]
  <1>1. /\ s \in TipState /\ s.tips = tips /\ s.owner.tip = t
        /\ s.owner.onMap = owner.onMap /\ s.owner.touch = owner.touch
        /\ ~s.owner.handlersAdded /\ s.owner.mixed = owner.mixed
        /\ s.owner.listens = owner.listens \ TipEvents(t)
    BY Parts DEF RemoveTipInteractions, TipState, Owner
  <1>2. InPlace(s)
    BY <1>1, Parts DEF InPlace
  <1> HIDE DEF s
  <1>3. /\ c \in TipState /\ InPlace(c) /\ c.owner = s.owner
        /\ \A u \in Tips : ~(c.tips[u].onMap /\ ~c.tips[u].left)
    BY <1>1, <1>2, ClosingOwn
  <1> HIDE DEF c
  <1>4. /\ n \in TipState /\ n.tips = c.tips /\ n.owner.tip = NoTip
        /\ n.owner.touch = owner.touch /\ ~n.owner.handlersAdded
        /\ n.owner.mixed = owner.mixed
        /\ n.owner.listens = owner.listens \ TipEvents(t)
    BY <1>1, <1>3 DEF TipState, Owner
  <1>5. InPlace(n)
    BY <1>3, <1>4 DEF InPlace
  <1>6. Listening(n)
    <2>1. t # NoTip
      BY DEF UnbindTooltip
    <2>2. ~owner.mixed => owner.listens = TipEvents(t)
      BY <2>1, Parts DEF Listening
    <2>3. QED
      BY <1>4, <2>2 DEF Listening
  <1>7. Stays(n)
    BY <1>4, TipsAssumption DEF Stays, Tips
  <1>8. Turn(n)
    BY DEF UnbindTooltip, c, s
  <1>9. QED
    BY <1>4, <1>5, <1>6, <1>7, <1>8, TurnKeeps DEF TipsGood

LEMMA AddOwnerKeeps ==
  ASSUME TipInv, AddOwner
  PROVE  TipInv'
  <1> DEFINE s == [All EXCEPT !.owner.onMap = TRUE]
             n == LayerOpenTip(s)
  <1>1. /\ s \in TipState /\ s.tips = tips /\ s.owner.onMap
        /\ s.owner.tip = owner.tip /\ s.owner.touch = owner.touch
        /\ s.owner.handlersAdded = owner.handlersAdded
        /\ s.owner.mixed = owner.mixed /\ s.owner.listens = owner.listens
    BY Parts DEF TipState, Owner
  <1>2. Turn(IF "add" \in owner.listens THEN n ELSE s)
    BY DEF AddOwner
  <1> HIDE DEF s
  <1>3. InPlace(s)
    BY <1>1, Parts DEF InPlace
  <1>4. Listening(s)
    BY <1>1, Parts DEF Listening
  <1>5. CASE "add" \notin owner.listens
    <2>1. owner.tip \in PermanentTips => owner.mixed
      <3>1. PermanentTips \subseteq Tips
        BY DEF Tips
      <3>2. QED
        BY <1>5, <3>1, EventsOfTip, Parts, TipsAssumption DEF Listening
    <2>2. Stays(s)
      BY <1>1, <2>1 DEF Stays
    <2>3. QED
      BY <1>1, <1>2, <1>3, <1>4, <1>5, <2>2, TurnKeeps DEF TipsGood
  <1>6. CASE "add" \in owner.listens
    <2>1. /\ n \in TipState /\ InPlace(n)
          /\ \E c \in BOOLEAN : n.owner = [s.owner EXCEPT !.closed = c]
          /\ s.owner.tip # NoTip => n.tips[s.owner.tip].onMap
      BY <1>1, <1>3, Opening
    <2> HIDE DEF n
    <2>2. /\ n.owner.tip = s.owner.tip /\ n.owner.touch = owner.touch
          /\ n.owner.handlersAdded = s.owner.handlersAdded
          /\ n.owner.mixed = s.owner.mixed /\ n.owner.listens = s.owner.listens
      BY <1>1, <2>1 DEF TipState, Owner
    <2>3. Listening(n) /\ Stays(n)
      BY <1>4, <2>1, <2>2, TipsAssumption DEF Listening, Stays, Tips
    <2>4. QED
      BY <1>2, <1>6, <2>1, <2>2, <2>3, TurnKeeps DEF TipsGood
  <1>7. QED
    BY <1>5, <1>6

LEMMA RemoveOwnerKeeps ==
  ASSUME TipInv, RemoveOwner
  PROVE  TipInv'
  <1> DEFINE s == IF "remove" \in owner.listens THEN LayerCloseTip(All) ELSE All
             n == [s EXCEPT !.owner.onMap = FALSE, !.owner.closed = FALSE]
  <1>1. /\ s \in TipState /\ InPlace(s) /\ s.owner = owner
        /\ \A u \in Tips : ~(s.tips[u].onMap /\ ~s.tips[u].left)
    <2>1. CASE "remove" \in owner.listens
      BY <2>1, Parts, ClosingOwn
    <2>2. CASE "remove" \notin owner.listens
      <3>1. owner.tip = NoTip
        BY <2>2, Parts DEF Listening
      <3>2. \A u \in Tips : ~(tips[u].onMap /\ ~tips[u].left)
        BY <3>1, Parts, TipsAssumption DEF InPlace
      <3>3. QED
        BY <2>2, <3>2, Parts
    <2>3. QED
      BY <2>1, <2>2
  <1>2. Turn(n)
    BY DEF RemoveOwner
  <1> HIDE DEF s
  <1>3. /\ n \in TipState /\ n.tips = s.tips /\ ~n.owner.onMap
        /\ n.owner.tip = owner.tip /\ n.owner.touch = owner.touch
        /\ n.owner.handlersAdded = owner.handlersAdded
        /\ n.owner.mixed = owner.mixed /\ n.owner.listens = owner.listens
    BY <1>1, Parts DEF TipState, Owner
  <1> HIDE DEF n
  <1>4. InPlace(n)
    BY <1>1, <1>3 DEF InPlace
  <1>5. Listening(n) /\ Stays(n)
    BY <1>3, Parts DEF Listening, Stays
  <1>6. QED
    BY <1>2, <1>3, <1>4, <1>5, TurnKeeps DEF TipsGood

(* A state that differs at most by a call to close.                        *)
AfterCall(s) ==
    /\ s \in TipState /\ s.tips = tips
    /\ s.owner.onMap = owner.onMap /\ s.owner.tip = owner.tip
    /\ s.owner.touch = owner.touch /\ s.owner.handlersAdded = owner.handlersAdded
    /\ s.owner.mixed = owner.mixed /\ s.owner.listens = owner.listens
    /\ owner.closed => s.owner.closed

LEMMA AfterCallGood ==
  ASSUME TipInv, NEW s, AfterCall(s)
  PROVE  TipsGood(s)
  BY Parts DEF AfterCall, TipsGood, InPlace, Listening, Stays

LEMMA TipCalled ==
  ASSUME TipInv
  PROVE  /\ AfterCall(All)
         /\ AfterCall([All EXCEPT !.owner.closed = TRUE])
         /\ [All EXCEPT !.owner.closed = TRUE].owner.closed
  BY Parts DEF AfterCall, TipState, Owner

(* A permanent tooltip is closed by calls, which are remembered, or by an  *)
(* event its layer hears for the sake of another tooltip.                  *)
LEMMA CloseKeeps ==
  ASSUME TipInv, NEW s, AfterCall(s), NEW t \in Tips,
         t \notin PermanentTips \/ s.owner.closed \/ owner.mixed,
         Turn(MapCloseTooltip(s, t))
  PROVE  TipInv'
  <1> DEFINE n == MapCloseTooltip(s, t)
  <1>1. s \in TipState /\ InPlace(s) /\ Listening(s) /\ Stays(s)
    BY AfterCallGood DEF TipsGood
  <1>2. /\ n \in TipState /\ InPlace(n) /\ n.owner = s.owner
        /\ \A u \in Tips \ {t} : n.tips[u] = s.tips[u]
    BY <1>1, Closing
  <1> HIDE DEF n
  <1>3. Listening(n)
    BY <1>1, <1>2 DEF Listening
  <1>4. Stays(n)
    <2>1. CASE s.owner.closed \/ owner.mixed
      BY <1>2, <2>1 DEF Stays, AfterCall
    <2>2. CASE t \notin PermanentTips
      <3>1. \A u \in PermanentTips : n.tips[u] = s.tips[u]
        BY <1>2, <2>2 DEF Tips
      <3>2. QED
        BY <1>1, <1>2, <3>1 DEF Stays
    <2>3. QED
      BY <2>1, <2>2
  <1>5. Turn(n) /\ n.owner.touch = owner.touch
    BY <1>2 DEF AfterCall, n
  <1>6. QED
    BY <1>2, <1>3, <1>4, <1>5, TurnKeeps DEF TipsGood

LEMMA CloseOwnKeeps ==
  ASSUME TipInv, NEW s, AfterCall(s),
         owner.tip \notin PermanentTips \/ s.owner.closed \/ owner.mixed,
         Turn(LayerCloseTip(s))
  PROVE  TipInv'
  <1>1. CASE owner.tip = NoTip
    <2>1. Turn(s) /\ s.owner.touch = owner.touch
      BY <1>1 DEF LayerCloseTip, AfterCall
    <2>2. QED
      BY <2>1, AfterCallGood, TurnKeeps
  <1>2. CASE owner.tip # NoTip
    <2>1. owner.tip \in Tips
      BY <1>2, Parts DEF Owner
    <2>2. Turn(MapCloseTooltip(s, owner.tip))
      BY <1>2 DEF LayerCloseTip, AfterCall
    <2>3. QED
      BY <2>1, <2>2, CloseKeeps
  <1>3. QED
    BY <1>1, <1>2

LEMMA MouseKeeps ==
  ASSUME TipInv, NEW type \in {"mouseover", "mouseout", "click"}, TipMouse(type)
  PROVE  TipInv'
  <1>1. CASE type = "mouseout"
    <2>1. owner.tip \in PermanentTips => owner.mixed
      <3>1. "mouseout" \in owner.listens
        BY <1>1 DEF TipMouse
      <3>2. \A t \in PermanentTips : "mouseout" \notin TipEvents(t) /\ t # NoTip
        BY EventsOfTip, TipsAssumption DEF Tips
      <3>3. QED
        BY <3>1, <3>2, Parts DEF Listening
    <2>2. Turn(LayerCloseTip(All))
      BY <1>1 DEF TipMouse
    <2>3. QED
      BY <2>1, <2>2, TipCalled, CloseOwnKeeps
  <1>2. CASE type # "mouseout"
    BY <1>2, OpenKeeps DEF TipMouse
  <1>3. QED
    BY <1>1, <1>2

LEMMA CallCloseKeeps ==
  ASSUME TipInv, CallCloseTooltip
  PROVE  TipInv'
  BY TipCalled, CloseOwnKeeps DEF CallCloseTooltip

(* A click on the map closes what is open, except permanent tooltips.      *)
LEMMA PreclickKeeps ==
  ASSUME TipInv, TipPreclick
  PROVE  TipInv'
  <1> DEFINE n == [owner |-> owner, tips |-> tips']
  <1>1. ASSUME NEW t \in Tips
        PROVE  /\ tips'[t] \in Tip
               /\ tips'[t] = tips[t] \/ (~tips'[t].onMap /\ t \notin PermanentTips)
    <2>1. CASE t \in PermanentTips \/ ~tips[t].onMap
      BY <2>1, Parts DEF TipPreclick
    <2>2. CASE t \notin PermanentTips /\ tips[t].onMap
      <3>1. tips'[t] = OverlayOnRemove(All, t).tips[t]
        BY <2>2 DEF TipPreclick
      <3>2. All \in TipState /\ All.tips[t] \in Tip
        BY Parts DEF TipState
      <3>3. OverlayOnRemove(All, t).tips[t] \in Tip
            /\ ~OverlayOnRemove(All, t).tips[t].onMap
        BY <3>2 DEF OverlayOnRemove, TipState, Tip
      <3>4. QED
        BY <2>2, <3>1, <3>3
    <2>3. QED
      BY <2>1, <2>2
  <1>2. tips' \in [Tips -> Tip]
    BY <1>1 DEF TipPreclick
  <1>3. n \in TipState
    BY <1>2, Parts DEF TipState
  <1>4. InPlace(n)
    BY <1>1, Parts DEF InPlace
  <1>5. Listening(n)
    BY Parts DEF Listening
  <1>6. Stays(n)
    BY <1>1, Parts DEF Stays, Tips
  <1>7. Turn(n) /\ n.owner.touch = owner.touch
    BY DEF TipPreclick, Turn
  <1>8. QED
    BY <1>3, <1>4, <1>5, <1>6, <1>7, TurnKeeps DEF TipsGood

(* The timeout of a tooltip finds it closed: opening would have ended it.  *)
LEMMA FadeKeeps ==
  ASSUME TipInv, NEW t \in Tips, FadeTimeout(t)
  PROVE  TipInv'
  <1> DEFINE n == [owner |-> owner, tips |-> tips']
  <1>1. ~tips[t].onMap
    BY Parts DEF FadeTimeout, InPlace
  <1>2. /\ tips' \in [Tips -> Tip] /\ ~tips'[t].onMap
        /\ \A u \in Tips \ {t} : tips'[u] = tips[u]
    <2>1. /\ tips \in [Tips -> Tip] /\ tips[t] \in Tip
          /\ tips' = [tips EXCEPT ![t].fading = FALSE, ![t].inPane = FALSE]
      BY Parts DEF FadeTimeout
    <2>2. QED
      BY <1>1, <2>1 DEF Tip
  <1>3. n \in TipState
    BY <1>2, Parts DEF TipState
  <1>4. InPlace(n)
    BY <1>2, Parts DEF InPlace
  <1>5. Listening(n)
    BY Parts DEF Listening
  <1>6. Stays(n)
    BY <1>1, <1>2, Parts DEF Stays, Tips
  <1>7. Turn(n) /\ n.owner.touch = owner.touch
    BY DEF FadeTimeout, Turn
  <1>8. QED
    BY <1>3, <1>4, <1>5, <1>6, <1>7, TurnKeeps DEF TipsGood

-----------------------------------------------------------------------------
(***************************************************************************)
(* Tooltips come, stay and go with their layer, whatever the mouse, the    *)
(* calls and the timeouts of closed ones do in between.                    *)
(***************************************************************************)
THEOREM TipsFollow == TipSpec => []TipsFollowLayer
  <1>1. TipInit => TipInv
    <2> SUFFICES ASSUME TipInit PROVE TipInv
      OBVIOUS
    <2>1. PICK touch \in BOOLEAN :
             owner = [onMap |-> FALSE, tip |-> NoTip, touch |-> touch,
                      handlersAdded |-> FALSE, listens |-> {},
                      mixed |-> FALSE, closed |-> FALSE]
      BY DEF TipInit
    <2>2. owner \in Owner
      BY <2>1 DEF Owner
    <2>3. /\ tips \in [Tips -> Tip]
          /\ \A t \in Tips : ~tips[t].onMap
      BY DEF TipInit, Tip
    <2>4. QED
      BY <2>1, <2>2, <2>3 DEF TipInv, TipsGood, TipState, All, InPlace, Listening, Stays
  <1>2. TipInv /\ [TipNext]_tipVars => TipInv'
    <2> SUFFICES ASSUME TipInv, [TipNext]_tipVars PROVE TipInv'
      OBVIOUS
    <2>1. ASSUME NEW t \in Tips, CallMapCloseTooltip(t) PROVE TipInv'
      BY <2>1, TipCalled, CloseKeeps DEF CallMapCloseTooltip
    <2>2. CASE CallOpenTooltip
      BY <2>2, OpenKeeps DEF CallOpenTooltip
    <2>3. CASE ToggleTooltip
      BY <2>3, OpenKeeps, CallCloseKeeps DEF ToggleTooltip, CallOpenTooltip
    <2>4. CASE UNCHANGED tipVars
      <3>1. All' = All /\ \A t : TipEvents(t)' = TipEvents(t)
        BY <2>4 DEF tipVars, All, TipEvents
      <3>2. QED
        BY <3>1 DEF TipInv, TipsGood, InPlace, Listening, Stays
    <2>5. QED
      BY <2>1, <2>2, <2>3, <2>4, BindKeeps, FadeKeeps, UnbindKeeps,
         AddOwnerKeeps, RemoveOwnerKeeps, MouseKeeps, PreclickKeeps,
         CallCloseKeeps
         DEF TipNext
  <1>3. QED
    BY <1>1, <1>2, TipInvGivesProperty, PTL DEF TipSpec

-----------------------------------------------------------------------------
(* Drags *)

Drag == [enabled : BOOLEAN, listening : BOOLEAN, moved : BOOLEAN,
         moving : BOOLEAN, frame : BOOLEAN, open : BOOLEAN, spoilt : BOOLEAN]

DragState == [drags : [Kinds -> Drag], dragging : Kinds \cup {Nobody},
          panFrame : BOOLEAN]

(* Of one draggable.                                                       *)
Consistent(x) ==
    /\ x.moving => x.listening
    /\ ~x.spoilt => /\ x.open <=> x.moving
                    /\ x.open => x.moved
                    /\ x.frame => x.open
                    /\ x.listening /\ x.moved => x.open

(* Of a state of all the fields.                                           *)
DragSound(s) ==
    /\ s \in DragState
    /\ \A d \in Kinds : /\ Consistent(s.drags[d])
                        /\ s.drags[d].listening <=> s.dragging = d
    /\ s.panFrame /\ ~s.drags["marker"].spoilt => s.drags["marker"].open

DragInv ==
    /\ hand \in [device : Devices, pressed : 0..2]
    /\ marker \in [shown : BOOLEAN, panFrame : BOOLEAN, stray : BOOLEAN]
    /\ DragSound(Now)
    /\ drags["marker"].enabled = marker.shown

LEMMA DragInvGivesProperty == DragInv => DragsAreOrderly
  <1> SUFFICES ASSUME DragInv PROVE DragsAreOrderly
    OBVIOUS
  <1>1. /\ drags \in [Kinds -> Drag] /\ dragging \in Kinds \cup {Nobody}
        /\ \A d \in Kinds : /\ Consistent(drags[d])
                            /\ drags[d].listening <=> dragging = d
        /\ marker.panFrame /\ ~drags["marker"].spoilt => drags["marker"].open
    BY DEF DragInv, DragSound, DragState, Now
  <1>2. DragTypeOK
    BY <1>1 DEF DragTypeOK, DragInv, Drag
  <1>3. OneDragAtATime
    BY <1>1 DEF OneDragAtATime
  <1>4. DragsEnd
    BY <1>1 DEF DragsEnd, Consistent
  <1>5. QED
    BY <1>2, <1>3, <1>4 DEF DragsAreOrderly

-----------------------------------------------------------------------------
(* What happens to one draggable keeps a state sound, and whether          *)
(* draggables are enabled.                                                 *)
SameEnabled(s, n) == \A d \in Kinds : n.drags[d].enabled = s.drags[d].enabled

LEMMA OneChanges ==
  ASSUME NEW s, DragSound(s), NEW n \in DragState, NEW d \in Kinds,
         \A e \in Kinds \ {d} : /\ n.drags[e] = s.drags[e]
                                /\ n.dragging = e <=> s.dragging = e,
         n.drags[d].enabled = s.drags[d].enabled,
         Consistent(n.drags[d]),
         n.drags[d].listening <=> n.dragging = d,
         n.panFrame => s.panFrame,
         d = "marker" /\ n.panFrame /\ ~n.drags[d].spoilt => n.drags[d].open
  PROVE  DragSound(n) /\ SameEnabled(s, n)
  <1>1. ASSUME NEW e \in Kinds
        PROVE  /\ Consistent(n.drags[e])
               /\ n.drags[e].listening <=> n.dragging = e
               /\ n.drags[e].enabled = s.drags[e].enabled
    <2>1. CASE e = d
      BY <2>1
    <2>2. CASE e # d
      <3>1. /\ n.drags[e] = s.drags[e]
            /\ n.dragging = e <=> s.dragging = e
        BY <1>1, <2>2
      <3>2. /\ Consistent(s.drags[e])
            /\ s.drags[e].listening <=> s.dragging = e
        BY <1>1 DEF DragSound
      <3>3. QED
        BY <3>1, <3>2
    <2>3. QED
      BY <2>1, <2>2
  <1>2. n.panFrame /\ ~n.drags["marker"].spoilt => n.drags["marker"].open
    <2>1. CASE d = "marker"
      BY <2>1
    <2>2. CASE d # "marker"
      <3>1. "marker" \in Kinds \ {d}
        BY <2>2 DEF Kinds
      <3>2. n.drags["marker"] = s.drags["marker"]
        BY <3>1
      <3>3. QED
        BY <3>2 DEF DragSound
    <2>3. QED
      BY <2>1, <2>2
  <1>3. QED
    BY <1>1, <1>2 DEF DragSound, SameEnabled

LEMMA OnDownSound ==
  ASSUME NEW s, DragSound(s), NEW d \in Kinds, NEW first \in BOOLEAN,
         NEW n, n = OnDown(s, d, first)
  PROVE  DragSound(n) /\ SameEnabled(s, n)
  <1>1. s \in DragState /\ s.drags[d] \in Drag
    BY DEF DragSound, DragState
  <1> DEFINE m == [s EXCEPT !.drags[d].moved = FALSE,
                            !.drags[d].spoilt = @ \/ s.drags[d].moving]
  <1>2. DragSound(m) /\ SameEnabled(s, m) /\ m.dragging = s.dragging
    <2>1. /\ m \in DragState /\ m.dragging = s.dragging /\ m.panFrame = s.panFrame
          /\ m.drags[d].enabled = s.drags[d].enabled
          /\ ~m.drags[d].moved
          /\ m.drags[d].listening = s.drags[d].listening
          /\ m.drags[d].moving = s.drags[d].moving
          /\ m.drags[d].open = s.drags[d].open
          /\ m.drags[d].frame = s.drags[d].frame
          /\ m.drags[d].spoilt = (s.drags[d].spoilt \/ s.drags[d].moving)
          /\ \A e \in Kinds \ {d} : m.drags[e] = s.drags[e]
      BY <1>1 DEF DragState, Drag
    <2> HIDE DEF m
    <2>2. Consistent(m.drags[d])
      <3>1. Consistent(s.drags[d])
        BY DEF DragSound
      <3>2. QED
        BY <2>1, <3>1 DEF Consistent
    <2>3. ASSUME NEW e \in Kinds
          PROVE  /\ Consistent(m.drags[e])
                 /\ m.drags[e].listening <=> m.dragging = e
      <3>1. Consistent(s.drags[e]) /\ (s.drags[e].listening <=> s.dragging = e)
        BY DEF DragSound
      <3>2. CASE e = d
        BY <2>1, <2>2, <3>1, <3>2
      <3>3. CASE e # d
        <4>1. m.drags[e] = s.drags[e] /\ m.dragging = s.dragging
          BY <2>1, <3>3
        <4>2. QED
          BY <3>1, <4>1
      <3>4. QED
        BY <3>2, <3>3
    <2>4. m.panFrame /\ ~m.drags["marker"].spoilt => m.drags["marker"].open
      BY <2>1 DEF DragSound, Kinds
    <2>5. QED
      BY <2>1, <2>3, <2>4 DEF DragSound, SameEnabled
  <1>3. CASE ~s.drags[d].enabled
    BY <1>3 DEF OnDown, SameEnabled
  <1>4. CASE s.drags[d].enabled /\ (s.dragging # Nobody \/ ~first)
    BY <1>2, <1>4 DEF OnDown
  <1>5. CASE s.drags[d].enabled /\ s.dragging = Nobody /\ first
    <2>1. ~s.drags[d].listening /\ ~s.drags[d].moving
      BY <1>5, DragsAssumption DEF DragSound, Consistent, Kinds
    <2> DEFINE q == [m EXCEPT !.dragging = d,
                              !.drags[d].listening = ~s.drags[d].moving]
    <2>2. n = q
      BY <1>5 DEF OnDown
    <2>3. \A e \in Kinds : ~m.drags[e].listening
      BY <1>2, <1>5, DragsAssumption DEF DragSound, Kinds
    <2>4. m \in DragState /\ m.drags[d] \in Drag /\ ~m.drags[d].moved
      <3>1. m \in DragState /\ m.drags[d] \in Drag
        BY <1>2 DEF DragSound, DragState
      <3>2. ~m.drags[d].moved
        BY <1>1 DEF DragState, Drag
      <3>3. QED
        BY <3>1, <3>2
    <2> HIDE DEF m
    <2>5. /\ q \in DragState /\ q.dragging = d /\ q.panFrame = m.panFrame
          /\ q.drags[d].enabled = m.drags[d].enabled
          /\ q.drags[d].listening
          /\ q.drags[d].moved = m.drags[d].moved
          /\ q.drags[d].moving = m.drags[d].moving
          /\ q.drags[d].open = m.drags[d].open
          /\ q.drags[d].frame = m.drags[d].frame
          /\ q.drags[d].spoilt = m.drags[d].spoilt
          /\ \A e \in Kinds \ {d} : q.drags[e] = m.drags[e]
      BY <2>1, <2>4 DEF DragState, Drag
    <2> HIDE DEF q
    <2>6. Consistent(q.drags[d])
      <3>1. Consistent(m.drags[d]) /\ ~m.drags[d].moved
        BY <1>2, <2>4 DEF DragSound
      <3>2. QED
        BY <2>5, <3>1 DEF Consistent
    <2>7. QED
      BY <1>2, <2>2, <2>3, <2>5, <2>6 DEF DragSound, SameEnabled, Kinds
  <1>6. QED
    BY <1>3, <1>4, <1>5

LEMMA OnMovedSound ==
  ASSUME NEW s, DragSound(s), NEW d \in Kinds, NEW n, n = OnMoved(s, d)
  PROVE  DragSound(n) /\ SameEnabled(s, n)
  <1> DEFINE pinched == [s EXCEPT !.drags[d].moved = TRUE,
                                  !.drags[d].spoilt = @ \/ ~s.drags[d].open]
             moved == [s EXCEPT !.drags[d].open = @ \/ ~s.drags[d].moved,
                                !.drags[d].moved = TRUE, !.drags[d].moving = TRUE,
                                !.drags[d].frame = TRUE]
  <1>1. s \in DragState /\ s.drags[d] \in Drag
    BY DEF DragSound, DragState
  <1>2. CASE ~s.drags[d].listening \/ ~s.drags[d].enabled
    <2>1. n = s
      BY <1>2 DEF OnMoved
    <2>2. QED
      BY <2>1 DEF SameEnabled
  <1>3. CASE /\ s.drags[d].listening /\ s.drags[d].enabled
             /\ hand.device = "touch" /\ hand.pressed > 1
    <2>1. n = pinched
      BY <1>3 DEF OnMoved
    <2>2. /\ pinched \in DragState /\ pinched.dragging = s.dragging
          /\ pinched.panFrame = s.panFrame
          /\ pinched.drags[d].enabled = s.drags[d].enabled
          /\ pinched.drags[d].listening = s.drags[d].listening
          /\ pinched.drags[d].moved
          /\ pinched.drags[d].moving = s.drags[d].moving
          /\ pinched.drags[d].open = s.drags[d].open
          /\ pinched.drags[d].frame = s.drags[d].frame
          /\ pinched.drags[d].spoilt = (s.drags[d].spoilt \/ ~s.drags[d].open)
          /\ \A e \in Kinds \ {d} : pinched.drags[e] = s.drags[e]
      BY <1>1 DEF DragState, Drag
    <2> HIDE DEF pinched
    <2>3. Consistent(pinched.drags[d])
      BY <1>1, <2>2 DEF DragSound, Consistent
    <2>4. /\ pinched.drags[d].listening <=> pinched.dragging = d
          /\ d = "marker" /\ pinched.panFrame /\ ~pinched.drags[d].spoilt
               => pinched.drags[d].open
      BY <2>2 DEF DragSound
    <2>5. QED
      BY <2>1, <2>2, <2>3, <2>4, OneChanges
  <1>4. CASE /\ s.drags[d].listening /\ s.drags[d].enabled
             /\ ~(hand.device = "touch" /\ hand.pressed > 1)
    <2>1. n = moved
      BY <1>4 DEF OnMoved
    <2>2. /\ moved \in DragState /\ moved.dragging = s.dragging
          /\ moved.panFrame = s.panFrame
          /\ moved.drags[d].enabled = s.drags[d].enabled
          /\ moved.drags[d].listening = s.drags[d].listening
          /\ moved.drags[d].moved /\ moved.drags[d].moving
          /\ moved.drags[d].open = (s.drags[d].open \/ ~s.drags[d].moved)
          /\ moved.drags[d].spoilt = s.drags[d].spoilt
          /\ \A e \in Kinds \ {d} : moved.drags[e] = s.drags[e]
      <3> DEFINE a == [s EXCEPT !.drags[d].open = @ \/ ~s.drags[d].moved,
                                !.drags[d].moved = TRUE]
      <3>1. /\ a \in DragState /\ a.dragging = s.dragging
            /\ a.panFrame = s.panFrame
            /\ a.drags[d] \in Drag
            /\ a.drags[d].enabled = s.drags[d].enabled
            /\ a.drags[d].listening = s.drags[d].listening
            /\ a.drags[d].moved
            /\ a.drags[d].open = (s.drags[d].open \/ ~s.drags[d].moved)
            /\ a.drags[d].spoilt = s.drags[d].spoilt
            /\ \A e \in Kinds \ {d} : a.drags[e] = s.drags[e]
        BY <1>1 DEF DragState, Drag
      <3> HIDE DEF a
      <3>2. moved = [a EXCEPT !.drags[d].moving = TRUE, !.drags[d].frame = TRUE]
        BY DEF a
      <3>3. /\ moved \in DragState /\ moved.dragging = a.dragging
            /\ moved.panFrame = a.panFrame
            /\ moved.drags[d].enabled = a.drags[d].enabled
            /\ moved.drags[d].listening = a.drags[d].listening
            /\ moved.drags[d].moved /\ moved.drags[d].moving
            /\ moved.drags[d].open = a.drags[d].open
            /\ moved.drags[d].spoilt = a.drags[d].spoilt
            /\ \A e \in Kinds \ {d} : moved.drags[e] = a.drags[e]
        <4> HIDE DEF moved
        <4>1. QED
          BY <3>1, <3>2 DEF DragState, Drag
      <3> HIDE DEF moved
      <3>4. QED
        BY <3>1, <3>3
    <2> HIDE DEF moved
    <2>3. Consistent(moved.drags[d])
      BY <1>1, <1>4, <2>2 DEF DragSound, Consistent
    <2>4. /\ moved.drags[d].listening <=> moved.dragging = d
          /\ d = "marker" /\ moved.panFrame /\ ~moved.drags[d].spoilt
               => moved.drags[d].open
      BY <2>2 DEF DragSound, Consistent
    <2>5. QED
      BY <2>1, <2>2, <2>3, <2>4, OneChanges
  <1>5. QED
    BY <1>2, <1>3, <1>4

(* The end of a drag, told to whoever listens: nothing of the drag goes    *)
(* on.                                                                     *)
LEMMA FinishDragSound ==
  ASSUME NEW s, DragSound(s), NEW d \in Kinds, NEW heard,
         s.dragging = d, NEW n, n = FinishDrag(s, d, heard)
  PROVE  /\ DragSound(n) /\ SameEnabled(s, n) /\ n.dragging = Nobody
         /\ ~n.drags[d].spoilt => ~n.drags[d].open
  <1> DEFINE m == [s EXCEPT !.drags[d].listening = FALSE, !.drags[d].moving = FALSE,
                            !.dragging = Nobody]
             f == [m EXCEPT !.drags[d].frame = FALSE]
             untold == [f EXCEPT !.drags[d].spoilt = TRUE]
             told == [f EXCEPT !.drags[d].open = FALSE, !.drags[d].spoilt = FALSE,
                               !.panFrame = @ /\ d # "marker"]
  <1>1. s \in DragState /\ s.drags[d] \in Drag
    BY DEF DragSound, DragState
  <1>2. /\ m \in DragState /\ m.dragging = Nobody /\ m.panFrame = s.panFrame
        /\ m.drags[d] \in Drag
        /\ m.drags[d].enabled = s.drags[d].enabled
        /\ ~m.drags[d].listening /\ ~m.drags[d].moving
        /\ m.drags[d].moved = s.drags[d].moved
        /\ m.drags[d].open = s.drags[d].open
        /\ m.drags[d].frame = s.drags[d].frame
        /\ m.drags[d].spoilt = s.drags[d].spoilt
        /\ \A e \in Kinds \ {d} : m.drags[e] = s.drags[e]
    BY <1>1 DEF DragState, Drag
  <1>3. /\ \A e \in Kinds : s.drags[e].listening <=> s.dragging = e
        /\ \A e \in Kinds : Consistent(s.drags[e])
        /\ s.panFrame /\ ~s.drags["marker"].spoilt => s.drags["marker"].open
        /\ \A e \in Kinds : e # Nobody
    BY DragsAssumption DEF DragSound, Kinds
  <1>4. CASE ~(s.drags[d].moved /\ s.drags[d].moving)
    <2>1. n = m
      BY <1>4 DEF FinishDrag
    <2> HIDE DEF m
    <2>2. Consistent(m.drags[d]) /\ (~m.drags[d].spoilt => ~m.drags[d].open)
      BY <1>2, <1>3, <1>4 DEF Consistent
    <2>3. d = "marker" /\ m.panFrame /\ ~m.drags[d].spoilt => m.drags[d].open
      BY <1>2, <1>3
    <2>4. \A e \in Kinds \ {d} : m.dragging = e <=> s.dragging = e
      BY <1>2, <1>3
    <2>5. QED
      BY <1>2, <1>3, <2>1, <2>2, <2>3, <2>4, OneChanges
  <1>5. CASE s.drags[d].moved /\ s.drags[d].moving
    <2>1. n = IF heard THEN told ELSE untold
      BY <1>5 DEF FinishDrag, DragEnded
    <2> HIDE DEF m
    <2>2. /\ f \in DragState /\ f.dragging = Nobody /\ f.panFrame = s.panFrame
          /\ f.drags[d] \in Drag
          /\ f.drags[d].enabled = s.drags[d].enabled
          /\ ~f.drags[d].listening /\ ~f.drags[d].moving /\ ~f.drags[d].frame
          /\ \A e \in Kinds \ {d} : f.drags[e] = s.drags[e]
      BY <1>2 DEF DragState, Drag
    <2> HIDE DEF f
    <2>3. /\ untold \in DragState /\ untold.dragging = Nobody
          /\ untold.panFrame = s.panFrame
          /\ untold.drags[d].enabled = s.drags[d].enabled
          /\ ~untold.drags[d].listening /\ ~untold.drags[d].moving
          /\ untold.drags[d].spoilt
          /\ \A e \in Kinds \ {d} : untold.drags[e] = s.drags[e]
      BY <2>2 DEF DragState, Drag
    <2>4. /\ told \in DragState /\ told.dragging = Nobody
          /\ told.panFrame = (s.panFrame /\ d # "marker")
          /\ told.drags[d].enabled = s.drags[d].enabled
          /\ ~told.drags[d].listening /\ ~told.drags[d].moving
          /\ ~told.drags[d].frame /\ ~told.drags[d].open
          /\ \A e \in Kinds \ {d} : told.drags[e] = s.drags[e]
      BY <2>2 DEF DragState, Drag
    <2> HIDE DEF told, untold
    <2>5. CASE heard
      <3>1. Consistent(told.drags[d])
        BY <2>4 DEF Consistent
      <3>2. \A e \in Kinds \ {d} : told.dragging = e <=> s.dragging = e
        BY <1>3, <2>4
      <3>3. told.panFrame => s.panFrame /\ d # "marker"
        BY <2>4
      <3>4. QED
        BY <1>3, <2>1, <2>4, <2>5, <3>1, <3>2, <3>3, OneChanges
    <2>6. CASE ~heard
      <3>1. Consistent(untold.drags[d])
        BY <2>3 DEF Consistent
      <3>2. \A e \in Kinds \ {d} : untold.dragging = e <=> s.dragging = e
        BY <1>3, <2>3
      <3>3. QED
        BY <1>3, <2>1, <2>3, <2>6, <3>1, <3>2, OneChanges
    <2>7. QED
      BY <2>5, <2>6
  <1>6. QED
    BY <1>4, <1>5

LEMMA OnUpSound ==
  ASSUME NEW s, DragSound(s), NEW d \in Kinds, NEW n, n = OnUp(s, d)
  PROVE  DragSound(n) /\ SameEnabled(s, n)
  <1>1. CASE s.drags[d].listening /\ s.drags[d].enabled
    <2>1. s.dragging = d
      BY <1>1 DEF DragSound
    <2>2. QED
      BY <1>1, <2>1, FinishDragSound DEF OnUp
  <1>2. CASE ~(s.drags[d].listening /\ s.drags[d].enabled)
    BY <1>2 DEF OnUp, SameEnabled
  <1>3. QED
    BY <1>1, <1>2

LEMMA DisableSound ==
  ASSUME NEW s, DragSound(s), NEW d \in Kinds, s.drags[d].enabled,
         NEW heard, NEW n, n = Disable(s, d, heard)
  PROVE  /\ DragSound(n) /\ ~n.drags[d].enabled /\ n.dragging # d
         /\ ~n.drags[d].spoilt => ~n.drags[d].open
         /\ \A e \in Kinds \ {d} : n.drags[e].enabled = s.drags[e].enabled
  <1> DEFINE m == IF s.dragging = d THEN FinishDrag(s, d, heard) ELSE s
             q == [m EXCEPT !.drags[d].enabled = FALSE, !.drags[d].moved = FALSE]
  <1>1. n = q
    BY DEF Disable
  <1>2. /\ DragSound(m) /\ SameEnabled(s, m) /\ m.dragging # d
        /\ ~m.drags[d].spoilt => ~m.drags[d].open
    <2>1. CASE s.dragging = d
      <3>1. d # Nobody
        BY DragsAssumption DEF Kinds
      <3>2. QED
        BY <2>1, <3>1, FinishDragSound
    <2>2. CASE s.dragging # d
      BY <2>2 DEF DragSound, Consistent, SameEnabled
    <2>3. QED
      BY <2>1, <2>2
  <1> HIDE DEF m
  <1>3. m \in DragState /\ m.drags[d] \in Drag
    BY <1>2 DEF DragSound, DragState
  <1>4. /\ q \in DragState /\ q.dragging = m.dragging /\ q.panFrame = m.panFrame
        /\ ~q.drags[d].enabled
        /\ q.drags[d].listening = m.drags[d].listening
        /\ q.drags[d].moving = m.drags[d].moving
        /\ q.drags[d].frame = m.drags[d].frame
        /\ q.drags[d].open = m.drags[d].open
        /\ q.drags[d].spoilt = m.drags[d].spoilt
        /\ \A e \in Kinds \ {d} : q.drags[e] = m.drags[e]
    BY <1>3 DEF DragState, Drag
  <1> HIDE DEF q
  <1>5. Consistent(q.drags[d])
    BY <1>2, <1>4 DEF DragSound, Consistent
  <1>6. \A e \in Kinds : /\ Consistent(q.drags[e])
                         /\ q.drags[e].listening <=> q.dragging = e
    BY <1>2, <1>4, <1>5 DEF DragSound
  <1>7. q.panFrame /\ ~q.drags["marker"].spoilt => q.drags["marker"].open
    BY <1>2, <1>4 DEF DragSound, Kinds
  <1>8. DragSound(q)
    BY <1>4, <1>6, <1>7 DEF DragSound
  <1>9. QED
    BY <1>1, <1>2, <1>4, <1>8 DEF SameEnabled

LEMMA EnableSound ==
  ASSUME NEW s, DragSound(s), NEW d \in Kinds, NEW n, n = Enable(s, d)
  PROVE  /\ DragSound(n)
         /\ \A e \in Kinds \ {d} : n.drags[e].enabled = s.drags[e].enabled
  <1> DEFINE q == [s EXCEPT !.drags[d].enabled = TRUE]
  <1>1. n = q
    BY DEF Enable
  <1>2. s \in DragState /\ s.drags[d] \in Drag
    BY DEF DragSound, DragState
  <1>3. /\ q \in DragState /\ q.dragging = s.dragging /\ q.panFrame = s.panFrame
        /\ q.drags[d].listening = s.drags[d].listening
        /\ q.drags[d].moved = s.drags[d].moved
        /\ q.drags[d].moving = s.drags[d].moving
        /\ q.drags[d].frame = s.drags[d].frame
        /\ q.drags[d].open = s.drags[d].open
        /\ q.drags[d].spoilt = s.drags[d].spoilt
        /\ \A e \in Kinds \ {d} : q.drags[e] = s.drags[e]
    BY <1>2 DEF DragState, Drag
  <1> HIDE DEF q
  <1>4. Consistent(q.drags[d])
    BY <1>3 DEF DragSound, Consistent
  <1>5. \A e \in Kinds : /\ Consistent(q.drags[e])
                         /\ q.drags[e].listening <=> q.dragging = e
    BY <1>3, <1>4 DEF DragSound
  <1>6. q.panFrame /\ ~q.drags["marker"].spoilt => q.drags["marker"].open
    BY <1>3 DEF DragSound, Kinds
  <1>7. QED
    BY <1>1, <1>3, <1>5, <1>6 DEF DragSound

-----------------------------------------------------------------------------
(* The steps                                                               *)

Marker == [shown : BOOLEAN, panFrame : BOOLEAN, stray : BOOLEAN]

LEMMA NowSound ==
  ASSUME DragInv
  PROVE  /\ DragSound(Now) /\ Now.drags = drags /\ Now.dragging = dragging
         /\ Now.panFrame = marker.panFrame
         /\ drags \in [Kinds -> Drag] /\ dragging \in Kinds \cup {Nobody}
         /\ marker \in Marker
  BY DEF DragInv, DragSound, DragState, Now, Marker

LEMMA BecomeKeeps ==
  ASSUME DragInv, NEW n, DragSound(n), Become(n),
         n.drags["marker"].enabled = drags["marker"].enabled,
         hand' \in [device : Devices, pressed : 0..2]
  PROVE  DragInv'
  <1>1. n.panFrame \in BOOLEAN
    BY DEF DragSound, DragState
  <1>2. /\ marker' \in Marker /\ marker'.shown = marker.shown
        /\ marker'.panFrame = n.panFrame
    BY <1>1, NowSound DEF Become, Marker
  <1>3. Now' = n
    BY <1>2 DEF Now, Become, DragSound, DragState
  <1>4. QED
    BY <1>2, <1>3 DEF DragInv, Become, Marker, DragSound, DragState

(* Both hear the hand.                                                     *)
LEMMA HandKeeps ==
  ASSUME DragInv, hand' \in [device : Devices, pressed : 0..2],
         \/ \E on \in Kinds, first \in BOOLEAN : Press(on, first)
         \/ MoveHand \/ Release
  PROVE  DragInv'
  <1>1. "map" \in Kinds /\ "marker" \in Kinds
    BY DEF Kinds
  <1>2. ASSUME NEW on \in Kinds, NEW first \in BOOLEAN, Press(on, first)
        PROVE  DragInv'
    <2> DEFINE a == OnDown(Now, "marker", first)
               b == OnDown(a, "map", first)
               c == OnDown(Now, "map", first)
    <2>1. DragSound(a) /\ SameEnabled(Now, a) /\ DragSound(c) /\ SameEnabled(Now, c)
      BY <1>1, NowSound, OnDownSound
    <2>2. DragSound(b) /\ SameEnabled(a, b)
      BY <1>1, <2>1, OnDownSound
    <2>3. Become(b) \/ Become(c)
      BY <1>2 DEF Press
    <2> HIDE DEF a, b, c
    <2>4. QED
      BY <1>1, <2>1, <2>2, <2>3, NowSound, BecomeKeeps DEF SameEnabled
  <1>3. CASE MoveHand
    <2> DEFINE a == OnMoved(Now, "marker")
               b == OnMoved(a, "map")
    <2>1. DragSound(a) /\ SameEnabled(Now, a)
      BY <1>1, NowSound, OnMovedSound
    <2>2. DragSound(b) /\ SameEnabled(a, b)
      BY <1>1, <2>1, OnMovedSound
    <2>3. Become(b)
      BY <1>3 DEF MoveHand
    <2> HIDE DEF a, b
    <2>4. QED
      BY <1>1, <2>1, <2>2, <2>3, NowSound, BecomeKeeps DEF SameEnabled
  <1>4. CASE Release
    <2> DEFINE a == OnUp(Now, "marker")
               b == OnUp(a, "map")
    <2>1. DragSound(a) /\ SameEnabled(Now, a)
      BY <1>1, NowSound, OnUpSound
    <2>2. DragSound(b) /\ SameEnabled(a, b)
      BY <1>1, <2>1, OnUpSound
    <2>3. Become(b)
      BY <1>4 DEF Release
    <2> HIDE DEF a, b
    <2>4. QED
      BY <1>1, <2>1, <2>2, <2>3, NowSound, BecomeKeeps DEF SameEnabled
  <1>5. QED
    BY <1>2, <1>3, <1>4

LEMMA MarkerUpdates ==
  ASSUME DragInv, NEW d \in Kinds, UpdatePosition(d)
  PROVE  DragInv'
  <1> DEFINE n == [drags |-> drags', dragging |-> dragging,
                   panFrame |-> marker'.panFrame]
  <1>1. /\ drags' \in [Kinds -> Drag]
        /\ drags'[d] = [drags[d] EXCEPT !.frame = FALSE]
        /\ \A e \in Kinds \ {d} : drags'[e] = drags[e]
    <2>1. drags \in [Kinds -> Drag] /\ drags[d] \in Drag
      BY NowSound
    <2>2. drags' = [drags EXCEPT ![d].frame = FALSE]
      BY DEF UpdatePosition
    <2>3. QED
      BY <2>1, <2>2 DEF Drag
  <1>2. /\ drags'[d].enabled = drags[d].enabled
        /\ drags'[d].listening = drags[d].listening
        /\ drags'[d].moved = drags[d].moved
        /\ drags'[d].moving = drags[d].moving
        /\ drags'[d].open = drags[d].open
        /\ drags'[d].spoilt = drags[d].spoilt
        /\ ~drags'[d].frame
    BY <1>1, NowSound DEF Drag
  <1>3. /\ marker' \in Marker /\ marker'.shown = marker.shown
        /\ marker'.panFrame => marker.panFrame \/ d = "marker"
    BY NowSound DEF UpdatePosition, Marker, Drag
  <1>4. /\ \A e \in Kinds : /\ Consistent(drags[e])
                            /\ drags[e].listening <=> dragging = e
        /\ marker.panFrame /\ ~drags["marker"].spoilt => drags["marker"].open
    BY NowSound DEF DragSound
  <1>5. n \in DragState
    BY <1>1, <1>3, NowSound DEF DragState, Marker
  <1>6. \A e \in Kinds : /\ Consistent(drags'[e])
                         /\ drags'[e].listening <=> dragging = e
                         /\ drags'[e].enabled = drags[e].enabled
    BY <1>1, <1>2, <1>4 DEF Consistent
  <1>7. marker'.panFrame /\ ~drags'["marker"].spoilt => drags'["marker"].open
    <2>1. CASE d = "marker"
      BY <1>2, <1>4, <2>1 DEF Consistent, UpdatePosition
    <2>2. CASE d # "marker"
      BY <1>1, <1>3, <1>4, <2>2 DEF Kinds
    <2>3. QED
      BY <2>1, <2>2
  <1>8. DragSound(n)
    BY <1>5, <1>6, <1>7 DEF DragSound
  <1>9. Now' = n
    BY DEF Now, UpdatePosition
  <1>10. QED
    BY <1>3, <1>6, <1>8, <1>9 DEF DragInv, UpdatePosition, Marker, Kinds

(* Of the frames of the map's panning.                                     *)
LEMMA PanKeeps ==
  ASSUME DragInv, NEW again \in BOOLEAN,
         AdjustPan(again) \/ AdjustPanOfRemoved(again)
  PROVE  DragInv'
  <1> DEFINE n == [drags |-> drags, dragging |-> dragging,
                   panFrame |-> marker'.panFrame]
  <1>1. /\ marker' \in Marker /\ marker'.shown = marker.shown
        /\ marker'.panFrame => marker.panFrame
    BY NowSound DEF AdjustPan, AdjustPanOfRemoved, Marker
  <1>2. DragSound(n)
    <2>1. n \in DragState
      BY <1>1, NowSound DEF DragState, Marker
    <2>2. QED
      BY <1>1, <2>1, NowSound DEF DragSound
  <1>3. Now' = n
    BY DEF Now, AdjustPan, AdjustPanOfRemoved
  <1>4. QED
    BY <1>1, <1>2, <1>3 DEF DragInv, AdjustPan, AdjustPanOfRemoved, Marker

LEMMA MapCallKeeps ==
  ASSUME DragInv, DisableMapDrag \/ EnableMapDrag
  PROVE  DragInv'
  <1>1. "map" \in Kinds /\ "marker" \in Kinds \ {"map"} /\ TRUE \in BOOLEAN
    BY DEF Kinds
  <1>2. hand' \in [device : Devices, pressed : 0..2]
    BY DEF DragInv, DisableMapDrag, EnableMapDrag
  <1>3. CASE DisableMapDrag
    <2> DEFINE n == Disable(Now, "map", TRUE)
    <2>1. Now.drags["map"].enabled /\ Become(n)
      BY <1>3, NowSound DEF DisableMapDrag
    <2>2. /\ DragSound(n)
          /\ \A e \in Kinds \ {"map"} : n.drags[e].enabled = Now.drags[e].enabled
      <3>1. DragSound(Now)
        BY NowSound
      <3> HIDE DEF n
      <3>2. \A heard, m : m = Disable(Now, "map", heard) =>
               /\ DragSound(m)
               /\ \A e \in Kinds \ {"map"} : m.drags[e].enabled = Now.drags[e].enabled
        BY <1>1, <2>1, <3>1, DisableSound
      <3>3. QED
        BY <3>2 DEF n
    <2>3. n.drags["marker"].enabled = drags["marker"].enabled
      BY <1>1, <2>2, NowSound
    <2>4. QED
      BY <1>2, <2>1, <2>2, <2>3, BecomeKeeps
  <1>4. CASE EnableMapDrag
    <2> DEFINE n == Enable(Now, "map")
    <2>1. Become(n)
      BY <1>4 DEF EnableMapDrag
    <2>2. DragSound(n) /\ n.drags["marker"].enabled = drags["marker"].enabled
      BY <1>1, NowSound, EnableSound
    <2>3. QED
      BY <1>2, <2>1, <2>2, BecomeKeeps
  <1>5. QED
    BY <1>3, <1>4

LEMMA RemoveKeeps ==
  ASSUME DragInv, RemoveMarker
  PROVE  DragInv'
  <1> DEFINE s == Disable(Now, "marker", FALSE)
             x == [Fresh(FALSE) EXCEPT !.frame = s.drags["marker"].frame,
                                       !.open = s.drags["marker"].open,
                                       !.spoilt = s.drags["marker"].spoilt]
  <1>1. /\ "marker" \in Kinds /\ FALSE \in BOOLEAN
        /\ Now.drags["marker"].enabled
    BY NowSound DEF Kinds, DragInv, RemoveMarker
  <1>2. /\ DragSound(s) /\ s.dragging # "marker"
        /\ ~s.drags["marker"].spoilt => ~s.drags["marker"].open
    <2>1. DragSound(Now)
      BY NowSound
    <2> HIDE DEF s
    <2>2. \A heard, m : m = Disable(Now, "marker", heard) =>
             /\ DragSound(m) /\ m.dragging # "marker"
             /\ ~m.drags["marker"].spoilt => ~m.drags["marker"].open
      BY <1>1, <2>1, DisableSound
    <2>3. QED
      BY <2>2 DEF s
  <1>3. /\ drags' = [s.drags EXCEPT !["marker"] = x] /\ dragging' = s.dragging
        /\ marker' = [shown |-> FALSE, panFrame |-> FALSE, stray |-> LeaveMarker(s)]
        /\ hand' = hand
    BY DEF RemoveMarker
  <1> HIDE DEF s
  <1>4. /\ s \in DragState /\ s.drags["marker"] \in Drag
        /\ Consistent(s.drags["marker"])
    BY <1>1, <1>2 DEF DragSound, DragState
  <1>5. /\ x \in Drag /\ ~x.enabled /\ ~x.listening /\ ~x.moving
        /\ x.frame = s.drags["marker"].frame
        /\ x.open = s.drags["marker"].open
        /\ x.spoilt = s.drags["marker"].spoilt
    BY <1>4 DEF Fresh, Drag
  <1> HIDE DEF x
  <1>6. Consistent(x)
    BY <1>2, <1>4, <1>5 DEF Consistent
  <1>7. /\ drags' \in [Kinds -> Drag] /\ drags'["marker"] = x
        /\ \A e \in Kinds \ {"marker"} : drags'[e] = s.drags[e]
    BY <1>1, <1>3, <1>4, <1>5 DEF DragState
  <1>8. LeaveMarker(s) \in BOOLEAN
    BY <1>4, NowSound DEF LeaveMarker, Marker, DragState
  <1>9. Now' = [drags |-> drags', dragging |-> s.dragging, panFrame |-> FALSE]
    BY <1>3 DEF Now
  <1> DEFINE n == [drags |-> drags', dragging |-> s.dragging, panFrame |-> FALSE]
  <1>10. DragSound(n)
    <2>1. n \in DragState
      BY <1>4, <1>7 DEF DragState
    <2>2. \A e \in Kinds : /\ Consistent(drags'[e])
                           /\ drags'[e].listening <=> s.dragging = e
      BY <1>2, <1>5, <1>6, <1>7 DEF DragSound
    <2>3. QED
      BY <2>1, <2>2 DEF DragSound
  <1>11. DragSound(Now') /\ drags'["marker"].enabled = marker'.shown
    <2>1. DragSound(Now')
      BY <1>3, <1>9, <1>10
    <2>2. x.enabled = FALSE /\ marker'.shown = FALSE
      BY <1>3, <1>5 DEF Drag
    <2>3. QED
      BY <1>7, <2>1, <2>2
  <1>12. DragSound(Now)'
    BY <1>11 DEF DragSound, Consistent
  <1>13. QED
    BY <1>3, <1>8, <1>11, <1>12 DEF DragInv

LEMMA AddKeeps ==
  ASSUME DragInv, AddMarker
  PROVE  DragInv'
  <1> DEFINE n == Enable(Now, "marker")
  <1>1. "marker" \in Kinds
    BY DEF Kinds
  <1>2. DragSound(n)
    BY <1>1, NowSound, EnableSound
  <1>3. n = [drags |-> drags', dragging |-> dragging, panFrame |-> marker.panFrame]
    <2>1. /\ n.drags = drags' /\ n.dragging = dragging
          /\ n.panFrame = marker.panFrame
      BY <1>1, NowSound DEF Enable, Now, AddMarker
    <2>2. n = [drags |-> n.drags, dragging |-> n.dragging, panFrame |-> n.panFrame]
      BY <1>2 DEF DragSound, DragState
    <2>3. QED
      BY <2>1, <2>2
  <1>4. marker' \in Marker /\ marker'.shown /\ marker'.panFrame = marker.panFrame
    BY NowSound DEF AddMarker, Marker
  <1>5. Now' = n
    BY <1>3, <1>4 DEF Now, AddMarker
  <1>6. drags'["marker"].enabled = TRUE
    BY <1>1, NowSound DEF AddMarker, Drag
  <1>7. QED
    BY <1>2, <1>4, <1>5, <1>6 DEF DragInv, AddMarker, Marker

(* At most two buttons or fingers are down.                                *)
LEMMA HandType ==
  ASSUME DragInv, [DragNext]_dragVars
  PROVE  hand' \in [device : Devices, pressed : 0..2]
  <1>1. hand.pressed \in 0..2 /\ hand \in [device : Devices, pressed : 0..2]
    BY DEF DragInv
  <1>2. CASE hand' = [hand EXCEPT !.pressed = @ + 1] /\ hand.pressed < 2
    BY <1>1, <1>2
  <1>3. CASE hand' = [hand EXCEPT !.pressed = @ - 1] /\ hand.pressed > 0
    BY <1>1, <1>3
  <1>4. CASE hand' = hand
    BY <1>1, <1>4
  <1>5. QED
    BY <1>2, <1>3, <1>4
       DEF DragNext, dragVars, Press, MoveHand, Release, ReleaseUnseen,
           UpdatePosition, AdjustPan, AdjustPanOfRemoved, DisableMapDrag,
           EnableMapDrag, RemoveMarker, AddMarker

-----------------------------------------------------------------------------
(***************************************************************************)
(* Of the map and its marker at most one is dragged at a time, and a drag  *)
(* that nothing disturbed is over when its draggable stops to listen,      *)
(* however many presses, calls and frames there were.                      *)
(***************************************************************************)
THEOREM DragsOrderly == DragSpec => []DragsAreOrderly
  <1>1. DragInit => DragInv
    <2> SUFFICES ASSUME DragInit PROVE DragInv
      OBVIOUS
    <2>1. /\ Fresh(TRUE) \in Drag /\ Consistent(Fresh(TRUE))
          /\ Fresh(TRUE).enabled /\ ~Fresh(TRUE).listening
      BY DEF Fresh, Drag, Consistent
    <2>2. /\ drags \in [Kinds -> Drag]
          /\ \A d \in Kinds : drags[d] = Fresh(TRUE)
      BY <2>1 DEF DragInit
    <2>3. /\ marker \in Marker /\ marker.shown /\ ~marker.panFrame
          /\ dragging = Nobody /\ Nobody \notin Kinds
          /\ hand \in [device : Devices, pressed : 0..2]
      BY DragsAssumption DEF DragInit, Marker, Kinds
    <2>4. Now \in DragState
      BY <2>2, <2>3 DEF Now, DragState, Marker
    <2>5. DragSound(Now)
      BY <2>1, <2>2, <2>3, <2>4 DEF DragSound, Now
    <2>6. drags["marker"].enabled = marker.shown
      BY <2>1, <2>2, <2>3 DEF Kinds, DragInit, Fresh
    <2>7. QED
      BY <2>3, <2>5, <2>6 DEF DragInv, Marker
  <1>2. DragInv /\ [DragNext]_dragVars => DragInv'
    <2> SUFFICES ASSUME DragInv, [DragNext]_dragVars PROVE DragInv'
      OBVIOUS
    <2>1. CASE ReleaseUnseen \/ UNCHANGED dragVars
      <3>1. UNCHANGED <<dragging, drags, marker>>
        BY <2>1 DEF ReleaseUnseen, dragVars
      <3>2. Now' = Now
        BY <3>1 DEF Now
      <3>3. QED
        BY <3>1, <3>2, HandType DEF DragInv
    <2>2. QED
      BY <2>1, HandType, HandKeeps, MarkerUpdates, PanKeeps, MapCallKeeps,
         RemoveKeeps, AddKeeps
         DEF DragNext
  <1>3. QED
    BY <1>1, <1>2, DragInvGivesProperty, PTL DEF DragSpec

-----------------------------------------------------------------------------
(* Layers of the map *)

(* What a popup can be bound to.                                           *)
Hosts == Leaves \cup Groups

Reg == [loaded : BOOLEAN, layers : SUBSET Layers, waiting : Seq(Hosts),
        mapped : SUBSET Layers, shows : [Layers -> Nat],
        members : [Groups -> SUBSET Leaves],
        popupOf : [Hosts -> Popups \cup {NoPopup}],
        handlersAdded : SUBSET Hosts, listening : SUBSET Hosts,
        source : [Popups -> Layers \cup {NoSource}],
        current : Popups \cup {NoPopup}, guards : SUBSET Layers,
        credits : Nat, control : BOOLEAN, controls : 0..MaxControls,
        early : SUBSET Layers, strayed : BOOLEAN]

(* A layer of the map is shown, and once unless it was removed early.      *)
Showing(r) ==
    \A l \in Layers :
        /\ l \notin r.mapped => r.shows[l] = 0
        /\ l \in r.mapped => r.shows[l] >= 1
        /\ l \notin r.early => r.shows[l] <= 1

(* What the map has and does not show is still to come, and so is whatever *)
(* is to come, unless it was removed early.                                *)
ToCome(r, rest) ==
    /\ r.mapped \subseteq r.layers
    /\ r.layers \subseteq r.mapped \cup rest
    /\ rest \ r.early \subseteq r.layers \ r.mapped

(* A layer listens while it has a popup.                                   *)
Listens(r) ==
    /\ r.handlersAdded = r.listening
    /\ \A l \in Hosts : l \in r.listening <=> r.popupOf[l] # NoPopup

OnePopupAtMost(r) == \A p, q \in r.layers \cap Popups : p = q

KnowsOpen(r) == r.layers \cap Popups \subseteq {r.current}

Guarding(r) ==
    ~r.strayed =>
        r.guards = {r.source[p] : p \in r.mapped \cap Popups} \ {NoSource}

Crediting(r) == r.control => r.credits >= Cardinality(Credited \cap r.mapped)

(* The invariant while a call, or `load`, is on its way: `rest` are the    *)
(* layers that _layerAdd is still to show.                                 *)
RegSound(r, rest) ==
    /\ r \in Reg
    /\ Showing(r) /\ ToCome(r, rest) /\ Listens(r)
    /\ OnePopupAtMost(r) /\ Guarding(r) /\ Crediting(r)

Waits(r) == IF r.loaded THEN {} ELSE ToSet(r.waiting)

Unseen(r) == ~r.loaded => r.mapped = {}

-----------------------------------------------------------------------------
LEMMA HostsAndPopups ==
    /\ Leaves \subseteq Hosts /\ Groups \subseteq Hosts
    /\ Hosts \subseteq Layers /\ Popups \subseteq Layers
    /\ \A l \in Layers : l \in Hosts <=> l \notin Popups
    /\ \A l \in Leaves : l \notin Groups /\ l \notin Popups
    /\ Credited \subseteq Leaves
    /\ NoPopup \notin Layers /\ NoSource \notin Layers
  BY LayersAssumption DEF Hosts, Layers

LEMMA MoreCredits ==
    ASSUME NEW M, NEW l
    PROVE  /\ Cardinality(Credited \cap M) \in Nat
           /\ Cardinality(Credited \cap (M \cup {l})) \in Nat
           /\ Cardinality(Credited \cap (M \cup {l})) <= Cardinality(Credited \cap M) + 1
           /\ l \notin Credited => Cardinality(Credited \cap (M \cup {l})) = Cardinality(Credited \cap M)
  <1> DEFINE A == Credited \cap M
  <1>1. IsFiniteSet(A)
    <2>1. A \subseteq Layers
      BY HostsAndPopups
    <2>2. QED
      BY <2>1, LayersAssumption, FS_Subset
  <1>2. CASE l \notin Credited
    <2>1. Credited \cap (M \cup {l}) = A
      BY <1>2
    <2>2. Cardinality(A) \in Nat
      BY <1>1, FS_CardinalityType
    <2> HIDE DEF A
    <2>3. QED
      BY <1>2, <2>1, <2>2 DEF A
  <1>3. CASE l \in Credited
    <2>1. Credited \cap (M \cup {l}) = A \cup {l}
      BY <1>3
    <2>2. /\ IsFiniteSet(A \cup {l})
          /\ Cardinality(A \cup {l}) = IF l \in A THEN Cardinality(A) ELSE Cardinality(A) + 1
      BY <1>1, FS_AddElement
    <2>3. Cardinality(A) \in Nat
      BY <1>1, FS_CardinalityType
    <2> HIDE DEF A
    <2>4. QED
      BY <1>3, <2>1, <2>2, <2>3 DEF A
  <1>4. QED
    BY <1>2, <1>3

LEMMA LessCredits ==
    ASSUME NEW M, NEW l
    PROVE  /\ Cardinality(Credited \cap M) \in Nat
           /\ Cardinality(Credited \cap (M \ {l})) \in Nat
           /\ Cardinality(Credited \cap (M \ {l})) <= Cardinality(Credited \cap M)
           /\ l \in M /\ l \in Credited =>
                 Cardinality(Credited \cap (M \ {l})) = Cardinality(Credited \cap M) - 1
  <1> DEFINE A == Credited \cap M
  <1>1. IsFiniteSet(A)
    <2>1. A \subseteq Layers
      BY HostsAndPopups
    <2>2. QED
      BY <2>1, LayersAssumption, FS_Subset
  <1>2. Cardinality(A) \in Nat
    BY <1>1, FS_CardinalityType
  <1>3. Credited \cap (M \ {l}) = A \ {l}
    OBVIOUS
  <1>4. CASE l \notin A
    <2>1. A \ {l} = A
      BY <1>4
    <2>2. QED
      BY <1>2, <1>3, <1>4, <2>1
  <1>5. CASE l \in A
    <2>1. Cardinality(A \ {l}) = Cardinality(A) - 1 /\ IsFiniteSet(A \ {l})
      BY <1>1, <1>5, FS_RemoveElement
    <2>2. Cardinality(A \ {l}) \in Nat
      BY <2>1, FS_CardinalityType
    <2> HIDE DEF A
    <2>3. QED
      BY <1>2, <1>3, <2>1, <2>2 DEF A
  <1>6. QED
    BY <1>4, <1>5

(* Records with equal fields are equal.                                    *)
LEMMA RegFields ==
    ASSUME NEW r \in Reg
    PROVE  r = [loaded |-> r.loaded, layers |-> r.layers, waiting |-> r.waiting,
                mapped |-> r.mapped, shows |-> r.shows, members |-> r.members,
                popupOf |-> r.popupOf, handlersAdded |-> r.handlersAdded,
                listening |-> r.listening, source |-> r.source,
                current |-> r.current, guards |-> r.guards, credits |-> r.credits,
                control |-> r.control, controls |-> r.controls,
                early |-> r.early, strayed |-> r.strayed]
  BY DEF Reg

LEMMA EqualRegs ==
    ASSUME NEW r \in Reg, NEW n \in Reg,
           n.loaded = r.loaded, n.layers = r.layers, n.waiting = r.waiting,
           n.mapped = r.mapped, n.shows = r.shows, n.members = r.members,
           n.popupOf = r.popupOf, n.handlersAdded = r.handlersAdded,
           n.listening = r.listening, n.source = r.source,
           n.current = r.current, n.guards = r.guards,
           n.credits = r.credits, n.control = r.control,
           n.controls = r.controls, n.early = r.early, n.strayed = r.strayed
    PROVE  n = r
  <1>1. n = [loaded |-> n.loaded, layers |-> n.layers, waiting |-> n.waiting,
                mapped |-> n.mapped, shows |-> n.shows, members |-> n.members,
                popupOf |-> n.popupOf, handlersAdded |-> n.handlersAdded,
                listening |-> n.listening, source |-> n.source,
                current |-> n.current, guards |-> n.guards, credits |-> n.credits,
                control |-> n.control, controls |-> n.controls,
                early |-> n.early, strayed |-> n.strayed]
    BY RegFields
  <1>2. QED
    BY <1>1, RegFields

-----------------------------------------------------------------------------
(* What the calls do not touch.                                            *)
SameHosts(r, n) ==
    /\ n.loaded = r.loaded /\ n.members = r.members /\ n.popupOf = r.popupOf
    /\ n.handlersAdded = r.handlersAdded /\ n.listening = r.listening

(* Each step of a call is told by its fields.                              *)
LEMMA LayerAddLeafIs ==
    ASSUME NEW r \in Reg, NEW l \in r.layers
    PROVE  LET n == LayerAddLeaf(r, l) IN
           /\ n \in Reg /\ SameHosts(r, n)
           /\ n.layers = r.layers /\ n.waiting = r.waiting
           /\ n.mapped = r.mapped \cup {l}
           /\ n.shows = [r.shows EXCEPT ![l] = @ + 1]
           /\ n.guards = IF l \in Popups /\ r.source[l] # NoSource
                           THEN r.guards \cup {r.source[l]} ELSE r.guards
           /\ n.credits = r.credits + Credits(r, l)
           /\ n.source = r.source /\ n.current = r.current
           /\ n.control = r.control /\ n.early = r.early
           /\ n.strayed = r.strayed
  <1> DEFINE M == r.mapped \cup {l}
             s == [r.shows EXCEPT ![l] = @ + 1]
             c == r.credits + Credits(r, l)
             G == IF l \in Popups /\ r.source[l] # NoSource
                    THEN r.guards \cup {r.source[l]} ELSE r.guards
             n == [r EXCEPT !.mapped = M, !.shows = s, !.credits = c, !.guards = G]
  <1>0. l \in Layers
    BY DEF Reg
  <1>1. M \in SUBSET Layers
    BY <1>0 DEF Reg
  <1>2. s \in [Layers -> Nat]
    <2>1. r.shows \in [Layers -> Nat]
      BY DEF Reg
    <2>2. QED
      BY <1>0, <2>1
  <1>3. c \in Nat
    BY DEF Reg, Credits
  <1>4. G \in SUBSET Layers
    <2>1. r.guards \in SUBSET Layers /\ r.source \in [Popups -> Layers \cup {NoSource}]
      BY DEF Reg
    <2>2. QED
      BY <2>1
  <1>5. LayerAddLeaf(r, l) = n
    BY DEF LayerAddLeaf
  <1> HIDE DEF M, s, c, G
  <1>6. n \in Reg
    BY <1>1, <1>2, <1>3, <1>4 DEF Reg
  <1>7. SameHosts(r, n) /\ n.layers = r.layers /\ n.waiting = r.waiting
    BY DEF Reg, SameHosts
  <1>8. n.mapped = M /\ n.shows = s /\ n.credits = c /\ n.guards = G
    BY DEF Reg
  <1>9. /\ n.source = r.source /\ n.current = r.current
        /\ n.control = r.control /\ n.early = r.early /\ n.strayed = r.strayed
    BY DEF Reg
  <1> HIDE DEF n
  <1>10. QED
    BY <1>5, <1>6, <1>7, <1>8, <1>9 DEF M, s, c, G

(* What is still to be shown, and l.                                       *)
LEMMA Shown1 ==
    ASSUME NEW r, NEW rest, RegSound(r, rest), NEW l \in r.layers,
           l \in r.mapped => l \in r.early /\ l \notin Popups,
           NEW left, left = rest \ {l} \/ (left = rest /\ (l \notin rest \/ l \in r.early))
    PROVE  RegSound(LayerAddLeaf(r, l), left)
  <1> DEFINE n == LayerAddLeaf(r, l)
  <1>0. r \in Reg /\ l \in Layers /\ r.shows \in [Layers -> Nat]
    BY DEF RegSound, Reg
  <1>1. /\ n \in Reg /\ SameHosts(r, n) /\ n.layers = r.layers
        /\ n.mapped = r.mapped \cup {l}
        /\ n.shows = [r.shows EXCEPT ![l] = @ + 1]
        /\ n.guards = IF l \in Popups /\ r.source[l] # NoSource
                        THEN r.guards \cup {r.source[l]} ELSE r.guards
        /\ n.credits = r.credits + Credits(r, l)
        /\ n.source = r.source /\ n.control = r.control
        /\ n.early = r.early /\ n.strayed = r.strayed
    BY <1>0, LayerAddLeafIs
  <1> HIDE DEF n
  <1>2. Showing(n)
    <2>1. Showing(r)
      BY DEF RegSound
    <2>2. SUFFICES ASSUME NEW k \in Layers
                   PROVE  /\ k \notin n.mapped => n.shows[k] = 0
                          /\ k \in n.mapped => n.shows[k] >= 1
                          /\ k \notin n.early => n.shows[k] <= 1
      BY DEF Showing
    <2>3. /\ k \notin r.mapped => r.shows[k] = 0
          /\ k \in r.mapped => r.shows[k] >= 1
          /\ k \notin r.early => r.shows[k] <= 1
      BY <2>1 DEF Showing
    <2>4. n.shows[k] = IF k = l THEN r.shows[k] + 1 ELSE r.shows[k]
      BY <1>0, <1>1
    <2>5. r.shows[k] \in Nat
      BY <1>0
    <2>6. QED
      BY <1>1, <2>3, <2>4, <2>5
  <1>3. ToCome(n, left)
    <2>1. ToCome(r, rest)
      BY DEF RegSound
    <2>2. QED
      BY <1>1, <2>1 DEF ToCome
  <1>4. Listens(n)
    BY <1>1 DEF RegSound, Listens, SameHosts
  <1>5. OnePopupAtMost(n)
    BY <1>1 DEF RegSound, OnePopupAtMost
  <1>6. Guarding(n)
    <2>1. SUFFICES ASSUME ~n.strayed
                   PROVE  n.guards = {n.source[p] : p \in n.mapped \cap Popups} \ {NoSource}
      BY DEF Guarding
    <2>2. r.guards = {r.source[p] : p \in r.mapped \cap Popups} \ {NoSource}
      BY <1>1, <2>1 DEF RegSound, Guarding
    <2>3. CASE l \notin Popups
      <3>1. n.mapped \cap Popups = r.mapped \cap Popups
        BY <1>1, <2>3
      <3>2. QED
        BY <1>1, <2>2, <2>3, <3>1
    <2>4. CASE l \in Popups
      <3>1. r.mapped \cap Popups = {}
        <4>1. r.mapped \subseteq r.layers /\ OnePopupAtMost(r)
          BY DEF RegSound, ToCome
        <4>2. QED
          BY <2>4, <4>1 DEF OnePopupAtMost
      <3>2. n.mapped \cap Popups = {l}
        BY <1>1, <2>4, <3>1
      <3>3. r.guards = {}
        BY <2>2, <3>1
      <3>4. QED
        BY <1>1, <2>4, <3>2, <3>3
    <2>5. QED
      BY <2>3, <2>4
  <1>7. Crediting(n)
    <2>1. SUFFICES ASSUME n.control
                   PROVE  n.credits >= Cardinality(Credited \cap n.mapped)
      BY DEF Crediting
    <2>2. r.control /\ r.credits \in Nat /\ r.credits >= Cardinality(Credited \cap r.mapped)
      BY <1>1, <2>1 DEF RegSound, Crediting, Reg
    <2>3. n.credits = r.credits + (IF l \in Credited THEN 1 ELSE 0)
      BY <1>1, <2>2 DEF Credits
    <2>4. n.mapped = r.mapped \cup {l}
      BY <1>1
    <2> DEFINE a == Cardinality(Credited \cap r.mapped)
               b == Cardinality(Credited \cap (r.mapped \cup {l}))
    <2>5. /\ a \in Nat /\ b \in Nat /\ b <= a + 1
          /\ l \notin Credited => b = a
      BY MoreCredits
    <2>6. r.credits >= a /\ Cardinality(Credited \cap n.mapped) = b
      BY <2>2, <2>4
    <2> HIDE DEF a, b
    <2>7. QED
      BY <2>2, <2>3, <2>5, <2>6
  <1>8. QED
    BY <1>1, <1>2, <1>3, <1>4, <1>5, <1>6, <1>7 DEF RegSound, n

LEMMA RegisterIs ==
    ASSUME NEW r \in Reg, NEW l \in Layers, r.loaded \/ l \in Hosts
    PROVE  LET n == Register(r, l) IN
           /\ n \in Reg /\ SameHosts(r, n)
           /\ n.layers = r.layers \cup {l}
           /\ n.waiting = IF r.loaded \/ Contains(r.waiting, l) THEN r.waiting
                                                            ELSE Append(r.waiting, l)
           /\ n.mapped = r.mapped /\ n.shows = r.shows /\ n.guards = r.guards
           /\ n.credits = r.credits /\ n.source = r.source
           /\ n.current = r.current /\ n.control = r.control
           /\ n.early = r.early /\ n.strayed = r.strayed
  <1> DEFINE L == r.layers \cup {l}
             w == IF r.loaded \/ Contains(r.waiting, l) THEN r.waiting
                                                        ELSE Append(r.waiting, l)
             n == [r EXCEPT !.layers = L, !.waiting = w]
  <1>1. L \in SUBSET Layers
    BY DEF Reg
  <1>2. w \in Seq(Hosts)
    <2>1. r.waiting \in Seq(Hosts)
      BY DEF Reg
    <2>2. CASE r.loaded
      BY <2>1, <2>2
    <2>3. CASE l \in Hosts
      BY <2>1, <2>3, AppendProperties
    <2>4. QED
      BY <2>2, <2>3
  <1>3. Register(r, l) = n
    BY DEF Register
  <1> HIDE DEF L, w
  <1>4. n \in Reg
    BY <1>1, <1>2 DEF Reg
  <1>5. SameHosts(r, n) /\ n.layers = L /\ n.waiting = w
    BY DEF Reg, SameHosts
  <1>6. /\ n.mapped = r.mapped /\ n.shows = r.shows /\ n.guards = r.guards
        /\ n.credits = r.credits /\ n.source = r.source
    BY DEF Reg
  <1>7. /\ n.current = r.current /\ n.control = r.control
        /\ n.early = r.early /\ n.strayed = r.strayed
    BY DEF Reg
  <1> HIDE DEF n
  <1>8. QED
    BY <1>3, <1>4, <1>5, <1>6, <1>7 DEF L, w

(* A layer that the map has got is one to come.                            *)
LEMMA Registers ==
    ASSUME NEW r, NEW rest, RegSound(r, rest), NEW l \in Layers \ r.layers,
           r.loaded \/ l \in Hosts, l \in Popups => r.layers \cap Popups = {}
    PROVE  RegSound(Register(r, l), rest \cup {l})
  <1> DEFINE n == Register(r, l)
  <1>0. r \in Reg /\ l \in Layers
    BY DEF RegSound
  <1>1. /\ n \in Reg /\ SameHosts(r, n) /\ n.layers = r.layers \cup {l}
        /\ n.mapped = r.mapped /\ n.shows = r.shows /\ n.guards = r.guards
        /\ n.credits = r.credits /\ n.source = r.source
        /\ n.control = r.control /\ n.early = r.early /\ n.strayed = r.strayed
    BY <1>0, RegisterIs
  <1> HIDE DEF n
  <1>2. Showing(n) /\ Listens(n) /\ Guarding(n) /\ Crediting(n)
    BY <1>1 DEF RegSound, Showing, Listens, Guarding, Crediting, SameHosts
  <1>3. ToCome(n, rest \cup {l})
    BY <1>1 DEF RegSound, ToCome
  <1>4. OnePopupAtMost(n)
    BY <1>1 DEF RegSound, OnePopupAtMost
  <1>5. QED
    BY <1>1, <1>2, <1>3, <1>4 DEF RegSound, n

LEMMA UnregisterIs ==
    ASSUME NEW r \in Reg, NEW l \in Layers
    PROVE  LET n == Unregister(r, l) IN
           /\ n \in Reg /\ SameHosts(r, n) /\ n.waiting = r.waiting
           /\ n.layers = r.layers \ {l} /\ n.mapped = r.mapped
           /\ n.shows = [r.shows EXCEPT ![l] = IF r.loaded THEN 0 ELSE @]
           /\ n.guards = IF r.loaded /\ l \in Popups
                           THEN r.guards \ {r.source[l]} ELSE r.guards
           /\ n.credits = IF r.credits > 0 THEN r.credits - Credits(r, l)
                                           ELSE r.credits
           /\ n.early = IF r.loaded THEN r.early \ {l} ELSE r.early \cup {l}
           /\ n.source = r.source /\ n.current = r.current
           /\ n.control = r.control /\ n.controls = r.controls
           /\ n.strayed = r.strayed
  <1> DEFINE L == r.layers \ {l}
             s == [r.shows EXCEPT ![l] = IF r.loaded THEN 0 ELSE @]
             G == IF r.loaded /\ l \in Popups THEN r.guards \ {r.source[l]} ELSE r.guards
             c == IF r.credits > 0 THEN r.credits - Credits(r, l) ELSE r.credits
             E == IF r.loaded THEN r.early \ {l} ELSE r.early \cup {l}
             n == [r EXCEPT !.layers = L, !.shows = s, !.guards = G,
                            !.credits = c, !.early = E]
  <1>1. L \in SUBSET Layers
    BY DEF Reg
  <1>2. s \in [Layers -> Nat]
    <2>1. r.shows \in [Layers -> Nat]
      BY DEF Reg
    <2>2. QED
      BY <2>1
  <1>3. c \in Nat
    <2>1. r.credits \in Nat /\ Credits(r, l) \in {0, 1}
      BY DEF Reg, Credits
    <2>2. QED
      BY <2>1
  <1>4. G \in SUBSET Layers
    BY DEF Reg
  <1>5. E \in SUBSET Layers
    BY DEF Reg
  <1>6. Unregister(r, l) = n
    BY DEF Unregister
  <1> HIDE DEF L, s, c, G, E
  <1>7. n \in Reg
    BY <1>1, <1>2, <1>3, <1>4, <1>5 DEF Reg
  <1>8. SameHosts(r, n) /\ n.waiting = r.waiting /\ n.mapped = r.mapped
    BY DEF Reg, SameHosts
  <1>9. n.layers = L /\ n.shows = s /\ n.credits = c /\ n.guards = G /\ n.early = E
    BY DEF Reg
  <1>10. /\ n.source = r.source /\ n.current = r.current
         /\ n.control = r.control /\ n.controls = r.controls
         /\ n.strayed = r.strayed
    BY DEF Reg
  <1> HIDE DEF n
  <1>11. QED
    BY <1>6, <1>7, <1>8, <1>9, <1>10 DEF L, s, c, G, E

(* A layer is taken off the map.                                           *)
Unmap(r, l) == [r EXCEPT !.mapped = @ \ {l}]

LEMMA UnmapIs ==
    ASSUME NEW r \in Reg, NEW l
    PROVE  LET n == Unmap(r, l) IN
           /\ n \in Reg /\ SameHosts(r, n) /\ n.waiting = r.waiting
           /\ n.layers = r.layers /\ n.mapped = r.mapped \ {l}
           /\ n.shows = r.shows /\ n.guards = r.guards
           /\ n.credits = r.credits /\ n.early = r.early
           /\ n.source = r.source /\ n.current = r.current
           /\ n.control = r.control /\ n.controls = r.controls
           /\ n.strayed = r.strayed
  <1> DEFINE M == r.mapped \ {l}
             n == [r EXCEPT !.mapped = M]
  <1>1. M \in SUBSET Layers
    BY DEF Reg
  <1>2. Unmap(r, l) = n
    BY DEF Unmap
  <1> HIDE DEF M
  <1>3. n \in Reg
    BY <1>1 DEF Reg
  <1>4. SameHosts(r, n) /\ n.waiting = r.waiting /\ n.mapped = M
    BY DEF Reg, SameHosts
  <1>5. /\ n.layers = r.layers /\ n.shows = r.shows /\ n.credits = r.credits
        /\ n.guards = r.guards /\ n.early = r.early
    BY DEF Reg
  <1>6. /\ n.source = r.source /\ n.current = r.current
        /\ n.control = r.control /\ n.controls = r.controls
        /\ n.strayed = r.strayed
    BY DEF Reg
  <1> HIDE DEF n
  <1>7. QED
    BY <1>2, <1>3, <1>4, <1>5, <1>6 DEF M

(* All of removeLayer() but what the layer itself does.                    *)
Drop(r, l) == Unmap(Unregister(r, l), l)

LEMMA DropIs ==
    ASSUME NEW r \in Reg, NEW l \in Layers
    PROVE  LET n == Drop(r, l) IN
           /\ n \in Reg /\ SameHosts(r, n) /\ n.waiting = r.waiting
           /\ n.layers = r.layers \ {l} /\ n.mapped = r.mapped \ {l}
           /\ n.shows = [r.shows EXCEPT ![l] = IF r.loaded THEN 0 ELSE @]
           /\ n.guards = IF r.loaded /\ l \in Popups
                           THEN r.guards \ {r.source[l]} ELSE r.guards
           /\ n.credits = IF r.credits > 0 THEN r.credits - Credits(r, l)
                                           ELSE r.credits
           /\ n.early = IF r.loaded THEN r.early \ {l} ELSE r.early \cup {l}
           /\ n.source = r.source /\ n.current = r.current
           /\ n.control = r.control /\ n.controls = r.controls
           /\ n.strayed = r.strayed
  <1> DEFINE k == Unregister(r, l)
             n == Unmap(k, l)
  <1>1. /\ k \in Reg /\ SameHosts(r, k) /\ k.waiting = r.waiting
        /\ k.layers = r.layers \ {l} /\ k.mapped = r.mapped
        /\ k.shows = [r.shows EXCEPT ![l] = IF r.loaded THEN 0 ELSE @]
        /\ k.guards = IF r.loaded /\ l \in Popups
                        THEN r.guards \ {r.source[l]} ELSE r.guards
        /\ k.credits = IF r.credits > 0 THEN r.credits - Credits(r, l)
                                        ELSE r.credits
        /\ k.early = IF r.loaded THEN r.early \ {l} ELSE r.early \cup {l}
        /\ k.source = r.source /\ k.current = r.current
        /\ k.control = r.control /\ k.controls = r.controls
        /\ k.strayed = r.strayed
    BY UnregisterIs
  <1> HIDE DEF k
  <1>2. /\ n \in Reg /\ SameHosts(k, n) /\ n.waiting = k.waiting
        /\ n.layers = k.layers /\ n.mapped = k.mapped \ {l}
        /\ n.shows = k.shows /\ n.guards = k.guards
        /\ n.credits = k.credits /\ n.early = k.early
        /\ n.source = k.source /\ n.current = k.current
        /\ n.control = k.control /\ n.controls = k.controls
        /\ n.strayed = k.strayed
    BY <1>1, UnmapIs
  <1>3. Drop(r, l) = n
    BY DEF Drop, k
  <1> HIDE DEF n
  <1>4. SameHosts(r, n)
    BY <1>1, <1>2 DEF SameHosts
  <1>5. QED
    BY <1>1, <1>2, <1>3, <1>4

(* A layer off the map and out of its registers leaves them right; a popup *)
(* takes its guard along.                                                  *)
LEMMA Drops ==
    ASSUME NEW r, RegSound(r, Waits(r)), Unseen(r), NEW l \in r.layers
    PROVE  LET n == Drop(r, l) IN RegSound(n, Waits(n)) /\ Unseen(n)
  <1> DEFINE n == Drop(r, l)
  <1>0. r \in Reg /\ l \in Layers /\ r.shows \in [Layers -> Nat]
    BY DEF RegSound, Reg
  <1>1. /\ n \in Reg /\ SameHosts(r, n) /\ n.waiting = r.waiting
        /\ n.layers = r.layers \ {l} /\ n.mapped = r.mapped \ {l}
        /\ n.shows = [r.shows EXCEPT ![l] = IF r.loaded THEN 0 ELSE @]
        /\ n.guards = IF r.loaded /\ l \in Popups
                        THEN r.guards \ {r.source[l]} ELSE r.guards
        /\ n.credits = IF r.credits > 0 THEN r.credits - Credits(r, l)
                                        ELSE r.credits
        /\ n.early = IF r.loaded THEN r.early \ {l} ELSE r.early \cup {l}
        /\ n.source = r.source /\ n.control = r.control
        /\ n.strayed = r.strayed
    BY <1>0, DropIs
  <1> HIDE DEF n
  <1>2. n.loaded = r.loaded /\ Waits(n) = Waits(r)
    BY <1>1 DEF SameHosts, Waits
  <1>a. /\ r.loaded => r.mapped = r.layers /\ Waits(r) = {}
        /\ ~r.loaded => r.mapped = {} /\ r.layers \subseteq Waits(r)
    BY DEF RegSound, ToCome, Waits, Unseen
  <1>3. Unseen(n)
    BY <1>1, <1>2, <1>a DEF Unseen
  <1>4. Showing(n)
    <2>1. Showing(r)
      BY DEF RegSound
    <2>2. SUFFICES ASSUME NEW k \in Layers
                   PROVE  /\ k \notin n.mapped => n.shows[k] = 0
                          /\ k \in n.mapped => n.shows[k] >= 1
                          /\ k \notin n.early => n.shows[k] <= 1
      BY DEF Showing
    <2>3. /\ k \notin r.mapped => r.shows[k] = 0
          /\ k \in r.mapped => r.shows[k] >= 1
          /\ k \notin r.early => r.shows[k] <= 1
      BY <2>1 DEF Showing
    <2>4. n.shows[k] = IF k = l /\ r.loaded THEN 0 ELSE r.shows[k]
      BY <1>0, <1>1
    <2>5. r.shows[k] \in Nat
      BY <1>0
    <2>6. QED
      BY <1>1, <1>a, <2>3, <2>4, <2>5
  <1>5. ToCome(n, Waits(n))
    <2>1. ToCome(r, Waits(r))
      BY DEF RegSound
    <2>2. QED
      BY <1>1, <1>2, <1>a, <2>1 DEF ToCome
  <1>6. Listens(n)
    BY <1>1 DEF RegSound, Listens, SameHosts
  <1>7. OnePopupAtMost(n)
    BY <1>1 DEF RegSound, OnePopupAtMost
  <1>8. Guarding(n)
    <2>1. SUFFICES ASSUME ~n.strayed
                   PROVE  n.guards = {n.source[p] : p \in n.mapped \cap Popups} \ {NoSource}
      BY DEF Guarding
    <2>2. r.guards = {r.source[p] : p \in r.mapped \cap Popups} \ {NoSource}
      BY <1>1, <2>1 DEF RegSound, Guarding
    <2>3. CASE l \notin Popups
      <3>1. n.mapped \cap Popups = r.mapped \cap Popups
        BY <1>1, <2>3
      <3>2. QED
        BY <1>1, <2>2, <2>3, <3>1
    <2>4. CASE l \in Popups /\ ~r.loaded
      <3>1. n.mapped = {} /\ r.mapped = {}
        BY <1>1, <1>a, <2>4
      <3>2. n.guards = {}
        BY <1>1, <2>2, <2>4, <3>1
      <3>3. QED
        BY <3>1, <3>2
    <2>5. CASE l \in Popups /\ r.loaded
      <3>1. r.mapped \cap Popups = {l}
        <4>1. OnePopupAtMost(r)
          BY DEF RegSound
        <4>2. QED
          BY <1>a, <2>5, <4>1 DEF OnePopupAtMost
      <3>2. n.mapped \cap Popups = {}
        BY <1>1, <3>1
      <3>3. r.guards = {r.source[l]} \ {NoSource}
        BY <2>2, <3>1
      <3>4. n.guards = {}
        BY <1>1, <2>5, <3>3
      <3>5. QED
        BY <3>2, <3>4
    <2>6. QED
      BY <2>3, <2>4, <2>5
  <1>9. Crediting(n)
    <2>1. SUFFICES ASSUME n.control
                   PROVE  n.credits >= Cardinality(Credited \cap n.mapped)
      BY DEF Crediting
    <2>2. r.control /\ r.credits \in Nat /\ r.credits >= Cardinality(Credited \cap r.mapped)
      BY <1>1, <2>1 DEF RegSound, Crediting, Reg
    <2>3. n.credits = IF r.credits > 0 /\ l \in Credited THEN r.credits - 1 ELSE r.credits
      BY <1>1, <2>2 DEF Credits
    <2> DEFINE a == Cardinality(Credited \cap r.mapped)
               b == Cardinality(Credited \cap (r.mapped \ {l}))
    <2>4. /\ a \in Nat /\ b \in Nat /\ b <= a
          /\ l \in r.mapped /\ l \in Credited => b = a - 1
      BY LessCredits
    <2>5. r.credits >= a /\ Cardinality(Credited \cap n.mapped) = b
      BY <1>1, <2>2
    <2>6. CASE l \in r.mapped
      <3> HIDE DEF a, b
      <3>1. QED
        BY <2>2, <2>3, <2>4, <2>5, <2>6
    <2>7. CASE l \notin r.mapped
      <3>1. r.mapped = {}
        BY <1>a, <2>7
      <3>2. Credited \cap (r.mapped \ {l}) = {}
        BY <3>1
      <3>3. b = 0
        BY <3>2, FS_EmptySet
      <3> HIDE DEF a, b
      <3>4. QED
        BY <2>2, <2>3, <2>5, <3>3
    <2>8. QED
      BY <2>6, <2>7
  <1>10. RegSound(n, Waits(n))
    BY <1>1, <1>4, <1>5, <1>6, <1>7, <1>8, <1>9 DEF RegSound
  <1>11. QED
    BY <1>3, <1>10 DEF n

Once(w) == \A i, j \in 1..Len(w) : w[i] = w[j] => i = j

(* Between the calls, and between what a call does.                        *)
RegWhole(r) == RegSound(r, Waits(r)) /\ Unseen(r) /\ Once(r.waiting)

RegInv(r) == RegWhole(r) /\ KnowsOpen(r)

LEMMA ViewTells ==
    ASSUME NEW r, RegWhole(r)
    PROVE  /\ r \in Reg /\ r.mapped \subseteq r.layers /\ r.layers \subseteq Layers
           /\ r.loaded => r.mapped = r.layers /\ Waits(r) = {}
           /\ ~r.loaded => r.mapped = {} /\ r.layers \subseteq Hosts
  <1>1. r \in Reg /\ ToCome(r, Waits(r)) /\ Unseen(r)
    BY DEF RegWhole, RegSound
  <1>2. ToSet(r.waiting) \subseteq Hosts
    <2>1. r.waiting \in Seq(Hosts)
      BY <1>1 DEF Reg
    <2>2. QED
      BY <2>1 DEF ToSet
  <1>3. r.layers \subseteq Layers
    BY <1>1 DEF Reg
  <1>4. QED
    BY <1>1, <1>2, <1>3 DEF ToCome, Waits, Unseen

(* The map takes note of another popup, or of none.                        *)
Note(r, p) == [r EXCEPT !.current = p]

LEMMA NoteIs ==
    ASSUME NEW r \in Reg, NEW p \in Popups \cup {NoPopup}
    PROVE  LET n == Note(r, p) IN
           /\ n \in Reg /\ SameHosts(r, n) /\ n.waiting = r.waiting
           /\ n.layers = r.layers /\ n.mapped = r.mapped
           /\ n.shows = r.shows /\ n.guards = r.guards
           /\ n.credits = r.credits /\ n.early = r.early
           /\ n.source = r.source /\ n.current = p
           /\ n.control = r.control /\ n.controls = r.controls
           /\ n.strayed = r.strayed
  <1> DEFINE n == [r EXCEPT !.current = p]
  <1>1. Note(r, p) = n
    BY DEF Note
  <1>2. n \in Reg
    BY DEF Reg
  <1>3. SameHosts(r, n) /\ n.waiting = r.waiting /\ n.mapped = r.mapped
    BY DEF Reg, SameHosts
  <1>4. /\ n.layers = r.layers /\ n.shows = r.shows /\ n.credits = r.credits
        /\ n.guards = r.guards /\ n.early = r.early
    BY DEF Reg
  <1>5. /\ n.source = r.source /\ n.current = p
        /\ n.control = r.control /\ n.controls = r.controls
        /\ n.strayed = r.strayed
    BY DEF Reg
  <1> HIDE DEF n
  <1>6. QED
    BY <1>1, <1>2, <1>3, <1>4, <1>5

LEMMA NoteSound ==
    ASSUME NEW r, NEW rest, RegSound(r, rest), NEW p \in Popups \cup {NoPopup}
    PROVE  RegSound(Note(r, p), rest)
  <1> DEFINE n == Note(r, p)
  <1>1. /\ n \in Reg /\ SameHosts(r, n)
        /\ n.layers = r.layers /\ n.mapped = r.mapped
        /\ n.shows = r.shows /\ n.guards = r.guards
        /\ n.credits = r.credits /\ n.early = r.early
        /\ n.source = r.source /\ n.control = r.control
        /\ n.strayed = r.strayed
    BY NoteIs DEF RegSound
  <1> HIDE DEF n
  <1>2. Showing(n) /\ ToCome(n, rest) /\ Listens(n)
    BY <1>1 DEF RegSound, Showing, ToCome, Listens, SameHosts
  <1>3. OnePopupAtMost(n) /\ Guarding(n) /\ Crediting(n)
    BY <1>1 DEF RegSound, OnePopupAtMost, Guarding, Crediting
  <1>4. QED
    BY <1>1, <1>2, <1>3 DEF RegSound, n

LEMMA NoteWhole ==
    ASSUME NEW r, RegWhole(r), NEW p \in Popups \cup {NoPopup}
    PROVE  RegWhole(Note(r, p))
  <1> DEFINE n == Note(r, p)
  <1>1. /\ n \in Reg /\ SameHosts(r, n) /\ n.waiting = r.waiting /\ n.mapped = r.mapped
    BY NoteIs DEF RegWhole, RegSound
  <1>2. RegSound(n, Waits(r))
    BY NoteSound DEF RegWhole
  <1> HIDE DEF n
  <1>3. Waits(n) = Waits(r) /\ Unseen(n) /\ Once(n.waiting)
    BY <1>1 DEF Waits, Unseen, SameHosts, RegWhole
  <1>4. QED
    BY <1>2, <1>3 DEF RegWhole, n

LEMMA DropsWhole ==
    ASSUME NEW r, RegWhole(r), NEW l \in r.layers
    PROVE  RegWhole(Drop(r, l))
  <1>1. r \in Reg /\ l \in Layers /\ RegSound(r, Waits(r)) /\ Unseen(r)
    BY ViewTells DEF RegWhole
  <1>2. RegSound(Drop(r, l), Waits(Drop(r, l))) /\ Unseen(Drop(r, l))
    BY <1>1, Drops
  <1>3. Drop(r, l).waiting = r.waiting
    BY <1>1, DropIs
  <1>4. QED
    BY <1>2, <1>3 DEF RegWhole

(* The popup closes, without regard to what the map knows of others.       *)
LEMMA ClosePopupIs ==
    ASSUME NEW r \in Reg, NEW p \in Popups
    PROVE  LET k == IF p = r.current THEN Note(r, NoPopup) ELSE r IN
           /\ ClosePopup(r, p) = IF p \in r.layers THEN Drop(k, p) ELSE k
           /\ k \in Reg /\ SameHosts(r, k) /\ k.waiting = r.waiting
           /\ k.layers = r.layers /\ k.mapped = r.mapped
           /\ k.shows = r.shows /\ k.guards = r.guards
           /\ k.credits = r.credits /\ k.early = r.early
           /\ k.source = r.source
           /\ k.current = IF p = r.current THEN NoPopup ELSE r.current
           /\ k.control = r.control /\ k.controls = r.controls
           /\ k.strayed = r.strayed
  <1> DEFINE k == IF p = r.current THEN Note(r, NoPopup) ELSE r
  <1>1. k = r \/ (p = r.current /\ k = Note(r, NoPopup))
    OBVIOUS
  <1>2. /\ k \in Reg /\ SameHosts(r, k) /\ k.waiting = r.waiting
        /\ k.layers = r.layers /\ k.mapped = r.mapped
        /\ k.shows = r.shows /\ k.guards = r.guards
        /\ k.credits = r.credits /\ k.early = r.early
        /\ k.source = r.source
        /\ k.current = IF p = r.current THEN NoPopup ELSE r.current
        /\ k.control = r.control /\ k.controls = r.controls
        /\ k.strayed = r.strayed
    <2>1. CASE p # r.current
      BY <2>1 DEF SameHosts
    <2>2. CASE p = r.current
      <3>1. k = Note(r, NoPopup)
        BY <2>2
      <3> HIDE DEF k
      <3>2. QED
        BY <2>2, <3>1, NoteIs
    <2>3. QED
      BY <2>1, <2>2
  <1>3. ClosePopup(r, p) = IF p \in k.layers THEN Drop(k, p) ELSE k
    BY DEF ClosePopup, RemovePopup, Drop, Unmap, Note
  <1> HIDE DEF k
  <1>4. QED
    BY <1>2, <1>3 DEF k

(* Hosts stay as they are.                                                 *)
Still(r, n) ==
    /\ SameHosts(r, n) /\ n.waiting = r.waiting
    /\ n.mapped \cap Hosts = r.mapped \cap Hosts
    /\ n.layers \cap Hosts = r.layers \cap Hosts

LEMMA StillStill ==
    ASSUME NEW r, NEW k, NEW n, Still(r, k), Still(k, n)
    PROVE  Still(r, n)
  BY DEF Still, SameHosts

(* closePopup() on the map: no other popup was open, so none is.           *)
LEMMA Closes ==
    ASSUME NEW r, RegInv(r), NEW p \in Popups
    PROVE  LET n == ClosePopup(r, p) IN
           /\ RegInv(n) /\ Still(r, n)
           /\ n.layers = r.layers \ {p} /\ n.mapped = r.mapped \ {p}
           /\ n.strayed = r.strayed
  <1> DEFINE n == ClosePopup(r, p)
             k == IF p = r.current THEN Note(r, NoPopup) ELSE r
  <1>1. r \in Reg /\ RegWhole(r) /\ r.mapped \subseteq r.layers
    BY ViewTells DEF RegInv
  <1>2. /\ n = IF p \in r.layers THEN Drop(k, p) ELSE k
        /\ k \in Reg /\ SameHosts(r, k) /\ k.waiting = r.waiting
        /\ k.layers = r.layers /\ k.mapped = r.mapped
        /\ k.current = IF p = r.current THEN NoPopup ELSE r.current
        /\ k.strayed = r.strayed
    BY <1>1, ClosePopupIs
  <1>3. RegWhole(k)
    BY <1>1, NoteWhole
  <1>4. r.layers \cap Popups \subseteq {r.current}
    BY DEF RegInv, KnowsOpen
  <1>5. p \in Layers /\ p \notin Hosts
    BY HostsAndPopups
  <1> HIDE DEF n, k
  <1>6. CASE p \notin r.layers
    <2>1. n = k
      BY <1>2, <1>6
    <2>2. KnowsOpen(n)
      BY <1>2, <1>4, <1>6, <2>1 DEF KnowsOpen
    <2>3. Still(r, n)
      BY <1>2, <2>1 DEF Still
    <2>4. n.layers = r.layers \ {p} /\ n.mapped = r.mapped \ {p}
      BY <1>1, <1>2, <1>6, <2>1
    <2>5. QED
      BY <1>2, <1>3, <2>1, <2>2, <2>3, <2>4 DEF RegInv, n
  <1>7. CASE p \in r.layers
    <2>1. n = Drop(k, p)
      BY <1>2, <1>7
    <2>2. /\ SameHosts(k, n) /\ n.waiting = k.waiting
          /\ n.layers = k.layers \ {p} /\ n.mapped = k.mapped \ {p}
          /\ n.current = k.current /\ n.strayed = k.strayed
      <3>1. k \in Reg /\ p \in Layers
        BY <1>2, <1>5
      <3> DEFINE d == Drop(k, p)
      <3>2. /\ SameHosts(k, d) /\ d.waiting = k.waiting
            /\ d.layers = k.layers \ {p} /\ d.mapped = k.mapped \ {p}
            /\ d.current = k.current /\ d.strayed = k.strayed
        BY <3>1, DropIs
      <3> HIDE DEF d
      <3>3. n = d
        BY <2>1 DEF d
      <3>4. QED
        BY <3>2, <3>3
    <2>3. RegWhole(n)
      BY <1>2, <1>3, <1>7, <2>1, DropsWhole
    <2>4. KnowsOpen(n)
      BY <1>2, <1>4, <1>7, <2>2 DEF KnowsOpen
    <2>5. Still(r, n)
      BY <1>2, <1>5, <2>2 DEF Still, SameHosts
    <2>6. QED
      BY <1>2, <2>2, <2>3, <2>4, <2>5 DEF RegInv, n
  <1>8. QED
    BY <1>6, <1>7

(* closePopup() of a layer.                                                *)
LEMMA LayerCloses ==
    ASSUME NEW r, RegInv(r), NEW l \in Hosts
    PROVE  LET n == LayerClosePopup(r, l) IN RegInv(n) /\ Still(r, n)
  <1>1. r.popupOf[l] \in Popups \cup {NoPopup} /\ r.mapped \subseteq Layers
    <2>1. r \in Reg
      BY DEF RegInv, RegWhole, RegSound
    <2>2. QED
      BY <2>1 DEF Reg
  <1>2. CASE r.popupOf[l] \in r.mapped
    <2>1. r.popupOf[l] \in Popups
      BY <1>1, <1>2, HostsAndPopups
    <2>2. LayerClosePopup(r, l) = ClosePopup(r, r.popupOf[l])
      BY <1>2 DEF LayerClosePopup
    <2>3. QED
      BY <2>1, <2>2, Closes
  <1>3. CASE r.popupOf[l] \notin r.mapped
    <2>1. LayerClosePopup(r, l) = r
      BY <1>3 DEF LayerClosePopup
    <2>2. QED
      BY <2>1 DEF Still, SameHosts
  <1>4. QED
    BY <1>2, <1>3

(* A layer comes to a map that has a view.                                 *)
LEMMA AddLeafShows ==
    ASSUME NEW r, NEW rest, RegSound(r, rest), r.loaded, NEW l \in Layers,
           l \in Popups /\ l \notin r.layers => r.layers \cap Popups = {}
    PROVE  LET n == AddLeaf(r, l) IN
           /\ RegSound(n, rest) /\ SameHosts(r, n) /\ n.waiting = r.waiting
           /\ n.layers = r.layers \cup {l}
           /\ r.mapped \subseteq n.mapped /\ n.mapped \subseteq r.mapped \cup {l}
           /\ n.current = r.current /\ n.early = r.early
  <1> DEFINE n == AddLeaf(r, l)
  <1>1. r \in Reg /\ ToCome(r, rest)
    BY DEF RegSound
  <1>2. CASE l \in r.layers
    <2>1. n = r /\ r.layers = r.layers \cup {l}
      BY <1>2 DEF AddLeaf
    <2>2. SameHosts(r, r)
      BY DEF SameHosts
    <2>3. QED
      BY <2>1, <2>2
  <1>3. CASE l \notin r.layers
    <2> DEFINE k == Register(r, l)
    <2>1. n = LayerAddLeaf(k, l)
      BY <1>3 DEF AddLeaf
    <2>2. RegSound(k, rest \cup {l})
      BY <1>3, Registers
    <2>3. /\ k \in Reg /\ SameHosts(r, k) /\ k.waiting = r.waiting
          /\ k.layers = r.layers \cup {l} /\ k.mapped = r.mapped
          /\ k.current = r.current /\ k.early = r.early
      BY <1>1, RegisterIs
    <2> HIDE DEF n, k
    <2>4. l \in k.layers /\ l \notin k.mapped
      BY <1>1, <1>3, <2>3 DEF ToCome
    <2>5. \/ rest = (rest \cup {l}) \ {l}
          \/ rest = rest \cup {l} /\ l \in k.early
      <3>1. l \in rest => l \in r.early
        BY <1>1, <1>3 DEF ToCome
      <3>2. QED
        BY <2>3, <3>1
    <2>6. RegSound(n, rest)
      BY <2>1, <2>2, <2>4, <2>5, Shown1
    <2>7. /\ SameHosts(k, n) /\ n.layers = k.layers /\ n.waiting = k.waiting
          /\ n.mapped = k.mapped \cup {l}
          /\ n.current = k.current /\ n.early = k.early
      <3> DEFINE d == LayerAddLeaf(k, l)
      <3>1. /\ SameHosts(k, d) /\ d.layers = k.layers /\ d.waiting = k.waiting
            /\ d.mapped = k.mapped \cup {l}
            /\ d.current = k.current /\ d.early = k.early
        BY <2>3, <2>4, LayerAddLeafIs
      <3> HIDE DEF d
      <3>2. n = d
        BY <2>1 DEF d
      <3>3. QED
        BY <3>1, <3>2
    <2>8. SameHosts(r, n)
      BY <2>3, <2>7 DEF SameHosts
    <2>9. QED
      BY <2>3, <2>6, <2>7, <2>8 DEF n
  <1>4. QED
    BY <1>2, <1>3

(* openPopup(): the popup that was open closes first.                      *)
LEMMA PopupOpens ==
    ASSUME NEW r, RegInv(r), r.loaded, NEW p \in Popups
    PROVE  LET n == OpenPopup(r, p) IN RegInv(n) /\ Still(r, n)
  <1> DEFINE n == OpenPopup(r, p)
             k == IF r.current = NoPopup THEN r ELSE ClosePopup(r, r.current)
             m == Note(k, p)
  <1>1. CASE p \in r.layers
    <2>1. n = r
      BY <1>1 DEF OpenPopup
    <2>2. QED
      BY <2>1 DEF Still, SameHosts
  <1>2. CASE p \notin r.layers
    <2>1. n = AddLeaf(m, p)
      BY <1>2 DEF OpenPopup, Note
    <2>2. RegInv(k) /\ Still(r, k) /\ k.layers \cap Popups = {}
      <3>0. r.layers \cap Popups \subseteq {r.current} /\ r \in Reg
        BY DEF RegInv, KnowsOpen, RegWhole, RegSound
      <3>1. CASE r.current = NoPopup
        <4>1. NoPopup \notin Popups
          BY HostsAndPopups
        <4>2. k = r /\ r.layers \cap Popups = {}
          BY <3>0, <3>1, <4>1
        <4>3. QED
          BY <4>2 DEF Still, SameHosts
      <3>2. CASE r.current # NoPopup
        <4>1. r.current \in Popups
          BY <3>0, <3>2 DEF Reg
        <4> DEFINE d == ClosePopup(r, r.current)
        <4>2. RegInv(d) /\ Still(r, d) /\ d.layers = r.layers \ {r.current}
          BY <4>1, Closes
        <4>3. k = d
          BY <3>2
        <4> HIDE DEF d, k
        <4>4. QED
          BY <3>0, <4>2, <4>3
      <3>3. QED
        BY <3>1, <3>2
    <2> HIDE DEF k
    <2>3. k \in Reg /\ RegWhole(k) /\ k.loaded
      BY <2>2 DEF RegInv, RegWhole, RegSound, Still, SameHosts
    <2>4. /\ SameHosts(k, m) /\ m.waiting = k.waiting
          /\ m.layers = k.layers /\ m.mapped = k.mapped /\ m.current = p
      BY <2>3, NoteIs
    <2>5. RegWhole(m)
      BY <2>3, NoteWhole
    <2> HIDE DEF m, n
    <2>6. m.loaded /\ RegSound(m, {}) /\ p \in Layers /\ p \notin Hosts
      <3>1. m.loaded
        BY <2>3, <2>4 DEF SameHosts
      <3>2. QED
        BY <2>5, <3>1, HostsAndPopups DEF RegWhole, Waits
    <2> DEFINE d == AddLeaf(m, p)
    <2>7. /\ RegSound(d, {}) /\ SameHosts(m, d) /\ d.waiting = m.waiting
          /\ d.layers = m.layers \cup {p}
          /\ m.mapped \subseteq d.mapped /\ d.mapped \subseteq m.mapped \cup {p}
          /\ d.current = m.current
      BY <2>2, <2>4, <2>6, AddLeafShows
    <2> HIDE DEF d
    <2>8. n = d
      BY <2>1 DEF d
    <2>9. RegWhole(n)
      <3>1. n.loaded /\ Waits(n) = {} /\ Unseen(n)
        BY <2>6, <2>7, <2>8 DEF SameHosts, Waits, Unseen
      <3>2. Once(n.waiting)
        BY <2>5, <2>7, <2>8 DEF RegWhole
      <3>3. QED
        BY <2>7, <2>8, <3>1, <3>2 DEF RegWhole
    <2>10. KnowsOpen(n)
      BY <2>2, <2>4, <2>7, <2>8 DEF KnowsOpen
    <2>11. Still(k, n)
      BY <2>4, <2>6, <2>7, <2>8 DEF Still, SameHosts
    <2>12. Still(r, n)
      BY <2>2, <2>11, StillStill
    <2>13. QED
      BY <2>9, <2>10, <2>12 DEF RegInv, n
  <1>3. QED
    BY <1>1, <1>2

LEMMA SetSourceIs ==
    ASSUME NEW r \in Reg, NEW p \in Popups, NEW l \in Hosts
    PROVE  LET n == SetSource(r, p, l) IN
           /\ n \in Reg /\ SameHosts(r, n) /\ n.waiting = r.waiting
           /\ n.layers = r.layers /\ n.mapped = r.mapped
           /\ n.shows = r.shows /\ n.guards = r.guards
           /\ n.credits = r.credits /\ n.early = r.early
           /\ n.source = [r.source EXCEPT ![p] = l] /\ n.current = r.current
           /\ n.control = r.control
           /\ n.strayed <=> (r.strayed \/ (p \in r.mapped /\ r.source[p] # l))
  <1> DEFINE S == [r.source EXCEPT ![p] = l]
             b == r.strayed \/ (p \in r.mapped /\ r.source[p] # l)
             n == [r EXCEPT !.source = S, !.strayed = b]
  <1>1. S \in [Popups -> Layers \cup {NoSource}]
    <2>1. r.source \in [Popups -> Layers \cup {NoSource}] /\ l \in Layers
      BY HostsAndPopups DEF Reg
    <2>2. QED
      BY <2>1
  <1>2. b \in BOOLEAN
    OBVIOUS
  <1>3. SetSource(r, p, l) = n
    BY DEF SetSource
  <1> HIDE DEF S, b
  <1>4. n \in Reg
    BY <1>1, <1>2 DEF Reg
  <1>5. SameHosts(r, n) /\ n.waiting = r.waiting /\ n.mapped = r.mapped
    BY DEF Reg, SameHosts
  <1>6. /\ n.layers = r.layers /\ n.shows = r.shows /\ n.credits = r.credits
        /\ n.guards = r.guards /\ n.early = r.early
    BY DEF Reg
  <1>7. n.source = S /\ n.strayed = b /\ n.current = r.current /\ n.control = r.control
    BY DEF Reg
  <1> HIDE DEF n
  <1>8. QED
    BY <1>3, <1>4, <1>5, <1>6, <1>7 DEF S, b

(* A popup may get another source while it is open; then it has strayed,   *)
(* and nothing is said of guards.                                          *)
LEMMA Sources ==
    ASSUME NEW r, RegInv(r), NEW p \in Popups, NEW l \in Hosts
    PROVE  LET n == SetSource(r, p, l) IN
           RegInv(n) /\ Still(r, n) /\ n.layers = r.layers /\ n.mapped = r.mapped
  <1> DEFINE n == SetSource(r, p, l)
  <1>0. r \in Reg /\ r.source \in [Popups -> Layers \cup {NoSource}]
    BY DEF RegInv, RegWhole, RegSound, Reg
  <1>1. /\ n \in Reg /\ SameHosts(r, n) /\ n.waiting = r.waiting
        /\ n.layers = r.layers /\ n.mapped = r.mapped
        /\ n.shows = r.shows /\ n.guards = r.guards
        /\ n.credits = r.credits /\ n.early = r.early
        /\ n.source = [r.source EXCEPT ![p] = l] /\ n.current = r.current
        /\ n.control = r.control
        /\ n.strayed <=> (r.strayed \/ (p \in r.mapped /\ r.source[p] # l))
    BY <1>0, SetSourceIs
  <1> HIDE DEF n
  <1>2. Waits(n) = Waits(r) /\ Unseen(n) /\ Once(n.waiting)
    BY <1>1 DEF Waits, Unseen, SameHosts, RegWhole, RegInv
  <1>3. RegSound(r, Waits(r))
    BY DEF RegInv, RegWhole
  <1>4. Showing(n) /\ ToCome(n, Waits(n)) /\ Listens(n)
    BY <1>1, <1>2, <1>3 DEF RegSound, Showing, ToCome, Listens, SameHosts
  <1>5. OnePopupAtMost(n) /\ Crediting(n) /\ KnowsOpen(n)
    BY <1>1, <1>3 DEF RegSound, OnePopupAtMost, Crediting, RegInv, KnowsOpen
  <1>6. Guarding(n)
    <2>1. SUFFICES ASSUME ~n.strayed
                   PROVE  n.guards = {n.source[q] : q \in n.mapped \cap Popups} \ {NoSource}
      BY DEF Guarding
    <2>2. r.guards = {r.source[q] : q \in r.mapped \cap Popups} \ {NoSource}
      BY <1>1, <1>3, <2>1 DEF RegSound, Guarding
    <2>3. \A q \in r.mapped \cap Popups : n.source[q] = r.source[q]
      BY <1>0, <1>1, <2>1
    <2>4. QED
      BY <1>1, <2>2, <2>3
  <1>7. Still(r, n)
    BY <1>1 DEF Still
  <1>8. QED
    BY <1>1, <1>2, <1>4, <1>5, <1>6, <1>7 DEF RegInv, RegWhole, RegSound, n

(* Only a layer on a map with a view opens its popup.                      *)
LEMMA LayerOpens ==
    ASSUME NEW r, RegInv(r), NEW l \in Hosts, NEW layer \in Hosts,
           layer \in Groups => l \in Groups, NEW n \in LayerOpenPopup(r, l, layer)
    PROVE  RegInv(n) /\ Still(r, n)
  <1>0. /\ r \in Reg /\ (r.mapped # {} => r.loaded)
        /\ r.popupOf[l] \in Popups \cup {NoPopup}
        /\ Places(r, l, layer) \subseteq Hosts
    <2>1. r \in Reg /\ (r.mapped # {} => r.loaded)
      BY ViewTells DEF RegInv
    <2>2. r.popupOf[l] \in Popups \cup {NoPopup}
      BY <2>1 DEF Reg
    <2>3. Places(r, l, layer) \subseteq Hosts
      <3>1. CASE layer \in Groups
        BY <2>1, <3>1, HostsAndPopups DEF Places, Reg
      <3>2. CASE layer \notin Groups
        BY <3>2 DEF Places
      <3>3. QED
        BY <3>1, <3>2
    <2>4. QED
      BY <2>1, <2>2, <2>3
  <1>1. CASE r.popupOf[l] = NoPopup \/ l \notin r.mapped \/ Places(r, l, layer) = {}
    <2>1. n = r
      BY <1>1 DEF LayerOpenPopup
    <2>2. QED
      BY <2>1 DEF Still, SameHosts
  <1>2. CASE ~(r.popupOf[l] = NoPopup \/ l \notin r.mapped \/ Places(r, l, layer) = {})
    <2>1. PICK place \in Places(r, l, layer) :
              n = OpenPopup(SetSource(r, r.popupOf[l], place), r.popupOf[l])
      BY <1>2 DEF LayerOpenPopup
    <2> DEFINE p == r.popupOf[l]
               k == SetSource(r, p, place)
    <2>2. p \in Popups /\ place \in Hosts /\ r.loaded
      BY <1>0, <1>2
    <2> HIDE DEF p
    <2>3. RegInv(k) /\ Still(r, k)
      BY <2>2, Sources
    <2> HIDE DEF k
    <2>4. k.loaded
      BY <2>2, <2>3 DEF Still, SameHosts
    <2>5. n = OpenPopup(k, p)
      BY <2>1 DEF k, p
    <2>6. RegInv(n) /\ Still(k, n)
      BY <2>2, <2>3, <2>4, <2>5, PopupOpens
    <2>7. QED
      BY <2>3, <2>6, StillStill
  <1>3. QED
    BY <1>1, <1>2

LEMMA ClickOpens ==
    ASSUME NEW r, RegInv(r), NEW l \in Hosts, NEW layer \in Leaves,
           NEW n \in OpenOnClick(r, l, layer)
    PROVE  RegInv(n) /\ Still(r, n)
  <1>1. \/ n = r \/ n = LayerClosePopup(r, l)
        \/ n \in LayerOpenPopup(r, l, layer)
    BY DEF OpenOnClick
  <1>2. CASE n = r
    BY <1>2 DEF Still, SameHosts
  <1>3. CASE n = LayerClosePopup(r, l)
    BY <1>3, LayerCloses
  <1>4. CASE n \in LayerOpenPopup(r, l, layer)
    <2>1. layer \in Hosts /\ layer \notin Groups
      BY HostsAndPopups
    <2>2. QED
      BY <1>4, <2>1, LayerOpens
  <1>5. QED
    BY <1>1, <1>2, <1>3, <1>4

(* Whether a layer is taken off the map before or after its popup closes   *)
(* makes no difference.                                                    *)
LEMMA UnmapCloses ==
    ASSUME NEW r \in Reg, NEW l \in Hosts, NEW p \in Popups
    PROVE  Unmap(ClosePopup(r, p), l) = ClosePopup(Unmap(r, l), p)
  <1> DEFINE k == IF p = r.current THEN Note(r, NoPopup) ELSE r
             u == Unmap(r, l)
             m == IF p = u.current THEN Note(u, NoPopup) ELSE u
             a == IF p \in r.layers THEN Drop(k, p) ELSE k
             b == IF p \in u.layers THEN Drop(m, p) ELSE m
             c == Unmap(a, l)
  <1>0. l \in Layers /\ p \in Layers
    BY HostsAndPopups
  <1>1. /\ u \in Reg /\ SameHosts(r, u) /\ u.waiting = r.waiting
        /\ u.layers = r.layers /\ u.mapped = r.mapped \ {l}
        /\ u.shows = r.shows /\ u.guards = r.guards
        /\ u.credits = r.credits /\ u.early = r.early
        /\ u.source = r.source /\ u.current = r.current
        /\ u.control = r.control /\ u.controls = r.controls
        /\ u.strayed = r.strayed
    BY UnmapIs
  <1>2. /\ ClosePopup(r, p) = a
        /\ k \in Reg /\ SameHosts(r, k) /\ k.waiting = r.waiting
        /\ k.layers = r.layers /\ k.mapped = r.mapped
        /\ k.shows = r.shows /\ k.guards = r.guards
        /\ k.credits = r.credits /\ k.early = r.early
        /\ k.source = r.source
        /\ k.current = IF p = r.current THEN NoPopup ELSE r.current
        /\ k.control = r.control /\ k.controls = r.controls
        /\ k.strayed = r.strayed
    BY ClosePopupIs
  <1> HIDE DEF u
  <1>3. /\ ClosePopup(u, p) = b
        /\ m \in Reg /\ SameHosts(u, m) /\ m.waiting = u.waiting
        /\ m.layers = u.layers /\ m.mapped = u.mapped
        /\ m.shows = u.shows /\ m.guards = u.guards
        /\ m.credits = u.credits /\ m.early = u.early
        /\ m.source = u.source
        /\ m.current = IF p = u.current THEN NoPopup ELSE u.current
        /\ m.control = u.control /\ m.controls = u.controls
        /\ m.strayed = u.strayed
    BY <1>1, ClosePopupIs
  <1> HIDE DEF k, m
  <1>4. CASE p \notin r.layers
    <2>1. a = k /\ b = m
      BY <1>1, <1>4
    <2> HIDE DEF a, b, c
    <2>2. /\ c \in Reg /\ SameHosts(k, c) /\ c.waiting = k.waiting
          /\ c.layers = k.layers /\ c.mapped = k.mapped \ {l}
          /\ c.shows = k.shows /\ c.guards = k.guards
          /\ c.credits = k.credits /\ c.early = k.early
          /\ c.source = k.source /\ c.current = k.current
          /\ c.control = k.control /\ c.controls = k.controls
          /\ c.strayed = k.strayed
      BY <1>2, <2>1, UnmapIs DEF c
    <2>3. c = m
      <3>1. /\ c.layers = m.layers /\ c.mapped = m.mapped /\ c.waiting = m.waiting
            /\ c.shows = m.shows /\ c.early = m.early /\ c.guards = m.guards
        BY <1>1, <1>2, <1>3, <2>2
      <3>2. /\ c.credits = m.credits /\ c.source = m.source /\ c.current = m.current
            /\ c.control = m.control /\ c.controls = m.controls /\ c.strayed = m.strayed
        BY <1>1, <1>2, <1>3, <2>2
      <3>3. SameHosts(m, c)
        BY <1>1, <1>2, <1>3, <2>2 DEF SameHosts
      <3>4. QED
        BY <1>3, <2>2, <3>1, <3>2, <3>3, EqualRegs DEF SameHosts
    <2>4. QED
      BY <1>2, <1>3, <2>1, <2>3 DEF c, u
  <1>5. CASE p \in r.layers
    <2>1. a = Drop(k, p) /\ b = Drop(m, p)
      BY <1>1, <1>5
    <2> HIDE DEF a, b, c
    <2>2. /\ a \in Reg /\ SameHosts(k, a) /\ a.waiting = k.waiting
          /\ a.layers = k.layers \ {p} /\ a.mapped = k.mapped \ {p}
          /\ a.shows = [k.shows EXCEPT ![p] = IF k.loaded THEN 0 ELSE @]
          /\ a.guards = IF k.loaded /\ p \in Popups
                          THEN k.guards \ {k.source[p]} ELSE k.guards
          /\ a.credits = IF k.credits > 0 THEN k.credits - Credits(k, p)
                                          ELSE k.credits
          /\ a.early = IF k.loaded THEN k.early \ {p} ELSE k.early \cup {p}
          /\ a.source = k.source /\ a.current = k.current
          /\ a.control = k.control /\ a.controls = k.controls
          /\ a.strayed = k.strayed
      <3> DEFINE e == Drop(k, p)
      <3>1. k \in Reg /\ p \in Layers
        BY <1>0, <1>2
      <3>2. /\ e \in Reg /\ SameHosts(k, e) /\ e.waiting = k.waiting
            /\ e.layers = k.layers \ {p} /\ e.mapped = k.mapped \ {p}
            /\ e.shows = [k.shows EXCEPT ![p] = IF k.loaded THEN 0 ELSE @]
            /\ e.guards = IF k.loaded /\ p \in Popups
                            THEN k.guards \ {k.source[p]} ELSE k.guards
            /\ e.credits = IF k.credits > 0 THEN k.credits - Credits(k, p)
                                            ELSE k.credits
            /\ e.early = IF k.loaded THEN k.early \ {p} ELSE k.early \cup {p}
            /\ e.source = k.source /\ e.current = k.current
            /\ e.control = k.control /\ e.controls = k.controls
            /\ e.strayed = k.strayed
        BY <3>1, DropIs
      <3>3. a = e
        BY <2>1
      <3> HIDE DEF e
      <3>4. QED
        BY <3>2, <3>3
    <2>3. /\ b \in Reg /\ SameHosts(m, b) /\ b.waiting = m.waiting
          /\ b.layers = m.layers \ {p} /\ b.mapped = m.mapped \ {p}
          /\ b.shows = [m.shows EXCEPT ![p] = IF m.loaded THEN 0 ELSE @]
          /\ b.guards = IF m.loaded /\ p \in Popups
                          THEN m.guards \ {m.source[p]} ELSE m.guards
          /\ b.credits = IF m.credits > 0 THEN m.credits - Credits(m, p)
                                          ELSE m.credits
          /\ b.early = IF m.loaded THEN m.early \ {p} ELSE m.early \cup {p}
          /\ b.source = m.source /\ b.current = m.current
          /\ b.control = m.control /\ b.controls = m.controls
          /\ b.strayed = m.strayed
      <3> DEFINE e == Drop(m, p)
      <3>1. m \in Reg /\ p \in Layers
        BY <1>0, <1>3
      <3>2. /\ e \in Reg /\ SameHosts(m, e) /\ e.waiting = m.waiting
            /\ e.layers = m.layers \ {p} /\ e.mapped = m.mapped \ {p}
            /\ e.shows = [m.shows EXCEPT ![p] = IF m.loaded THEN 0 ELSE @]
            /\ e.guards = IF m.loaded /\ p \in Popups
                            THEN m.guards \ {m.source[p]} ELSE m.guards
            /\ e.credits = IF m.credits > 0 THEN m.credits - Credits(m, p)
                                            ELSE m.credits
            /\ e.early = IF m.loaded THEN m.early \ {p} ELSE m.early \cup {p}
            /\ e.source = m.source /\ e.current = m.current
            /\ e.control = m.control /\ e.controls = m.controls
            /\ e.strayed = m.strayed
        BY <3>1, DropIs
      <3>3. b = e
        BY <2>1
      <3> HIDE DEF e
      <3>4. QED
        BY <3>2, <3>3
    <2>4. /\ c \in Reg /\ SameHosts(a, c) /\ c.waiting = a.waiting
          /\ c.layers = a.layers /\ c.mapped = a.mapped \ {l}
          /\ c.shows = a.shows /\ c.guards = a.guards
          /\ c.credits = a.credits /\ c.early = a.early
          /\ c.source = a.source /\ c.current = a.current
          /\ c.control = a.control /\ c.controls = a.controls
          /\ c.strayed = a.strayed
      BY <2>2, UnmapIs DEF c
    <2>5. k.loaded = m.loaded /\ Credits(k, p) = Credits(m, p) /\ SameHosts(c, b)
      BY <1>1, <1>2, <1>3, <2>2, <2>3, <2>4 DEF SameHosts, Credits
    <2>6. /\ c.layers = b.layers /\ c.mapped = b.mapped /\ c.waiting = b.waiting
          /\ c.shows = b.shows /\ c.early = b.early
      BY <1>1, <1>2, <1>3, <2>2, <2>3, <2>4, <2>5
    <2>7. c.guards = b.guards /\ c.credits = b.credits /\ c.source = b.source
      BY <1>1, <1>2, <1>3, <2>2, <2>3, <2>4, <2>5
    <2>8. /\ c.current = b.current /\ c.control = b.control
          /\ c.controls = b.controls /\ c.strayed = b.strayed
      BY <1>1, <1>2, <1>3, <2>2, <2>3, <2>4
    <2>9. c = b
      BY <2>3, <2>4, <2>5, <2>6, <2>7, <2>8, EqualRegs DEF SameHosts
    <2>10. QED
      BY <1>2, <1>3, <2>9 DEF c, u
  <1>6. QED
    BY <1>4, <1>5

(* What has gone took its popup along.                                     *)
TakesAlong(r, n) ==
    \A l \in Hosts :
        l \in r.mapped /\ l \notin n.mapped /\ r.popupOf[l] # NoPopup
        => r.popupOf[l] \notin n.layers

Gone(r, n) ==
    /\ SameHosts(r, n) /\ n.waiting = r.waiting
    /\ n.mapped \subseteq r.mapped /\ n.layers \subseteq r.layers
    /\ TakesAlong(r, n)

LEMMA GoneGone ==
    ASSUME NEW r, NEW k, NEW n, Gone(r, k), Gone(k, n)
    PROVE  Gone(r, n)
  <1>1. SameHosts(r, n) /\ n.waiting = r.waiting
    BY DEF Gone, SameHosts
  <1>2. n.mapped \subseteq r.mapped /\ n.layers \subseteq r.layers
    BY DEF Gone
  <1>3. TakesAlong(r, n)
    BY DEF Gone, TakesAlong, SameHosts
  <1>4. QED
    BY <1>1, <1>2, <1>3 DEF Gone

LEMMA NotGone == ASSUME NEW r PROVE Gone(r, r)
  BY DEF Gone, SameHosts, TakesAlong

(* removeLayer() of anything but a group.                                  *)
LEMMA RemovesLeaf ==
    ASSUME NEW r, RegInv(r), NEW l \in Layers
    PROVE  LET n == RemoveLeaf(r, l) IN RegInv(n) /\ Gone(r, n)
  <1> DEFINE n == RemoveLeaf(r, l)
             d == Drop(r, l)
             k == Unregister(r, l)
  <1>1. CASE l \notin r.layers
    <2>1. n = r
      BY <1>1 DEF RemoveLeaf
    <2>2. QED
      BY <2>1, NotGone
  <1>2. CASE l \in r.layers
    <2>0. /\ r \in Reg /\ RegWhole(r) /\ r.mapped \subseteq r.layers
          /\ r.loaded => r.mapped = r.layers
          /\ ~r.loaded => r.mapped = {}
          /\ r.popupOf \in [Hosts -> Popups \cup {NoPopup}]
          /\ r.listening \subseteq Hosts
      <3>1. /\ r \in Reg /\ RegWhole(r) /\ r.mapped \subseteq r.layers
            /\ r.loaded => r.mapped = r.layers
            /\ ~r.loaded => r.mapped = {}
        BY ViewTells DEF RegInv
      <3>2. r.popupOf \in [Hosts -> Popups \cup {NoPopup}] /\ r.listening \subseteq Hosts
        BY <3>1 DEF Reg
      <3>3. QED
        BY <3>1, <3>2
    <2>1. /\ k \in Reg /\ SameHosts(r, k) /\ k.mapped = r.mapped
      BY <2>0, UnregisterIs
    <2>2. /\ SameHosts(r, d) /\ d.waiting = r.waiting
          /\ d.layers = r.layers \ {l} /\ d.mapped = r.mapped \ {l}
          /\ d.current = r.current
      BY <2>0, DropIs
    <2>3. RegInv(d)
      <3>1. RegWhole(d)
        BY <1>2, <2>0, DropsWhole
      <3> HIDE DEF d
      <3>2. KnowsOpen(d)
        BY <2>2 DEF RegInv, KnowsOpen
      <3>3. QED
        BY <3>1, <3>2 DEF RegInv
    <2>4. d = Unmap(k, l)
      BY DEF Drop
    <2> DEFINE closes == r.loaded /\ l \in k.listening
               q == IF closes THEN LayerClosePopup(k, l) ELSE k
    <2>5. n = Unmap(q, l)
      BY <1>2 DEF RemoveLeaf, Unmap
    <2> HIDE DEF n, d, k
    <2>6. CASE closes /\ k.popupOf[l] \in k.mapped
      <3> DEFINE p == r.popupOf[l]
      <3>1. l \in Hosts /\ p = k.popupOf[l] /\ p \in k.mapped
        BY <2>0, <2>1, <2>6 DEF SameHosts
      <3>2. p \in Popups
        BY <2>0, <2>1, <3>1, HostsAndPopups DEF Reg
      <3> HIDE DEF p
      <3>3. q = ClosePopup(k, p)
        BY <2>6, <3>1 DEF LayerClosePopup
      <3> HIDE DEF q
      <3>4. n = ClosePopup(d, p)
        BY <2>1, <2>4, <2>5, <3>1, <3>2, <3>3, UnmapCloses
      <3> DEFINE e == ClosePopup(d, p)
      <3>5. RegInv(e) /\ Still(d, e) /\ e.layers = d.layers \ {p} /\ e.mapped = d.mapped \ {p}
        BY <2>3, <3>2, Closes
      <3> HIDE DEF e
      <3>6. n = e
        BY <3>4 DEF e
      <3>7. SameHosts(r, n) /\ n.waiting = r.waiting
        BY <2>2, <3>5, <3>6 DEF Still, SameHosts
      <3>8. n.mapped = (r.mapped \ {l}) \ {p} /\ n.layers = (r.layers \ {l}) \ {p}
        BY <2>2, <3>5, <3>6
      <3>9. TakesAlong(r, n)
        <4>1. p \notin Hosts
          BY <3>2, HostsAndPopups
        <4>2. ASSUME NEW h \in Hosts, h \in r.mapped, h \notin n.mapped
              PROVE  h = l
          BY <3>8, <4>1, <4>2
        <4>3. QED
          BY <3>8, <4>2 DEF TakesAlong, p
      <3>10. QED
        BY <3>5, <3>6, <3>7, <3>8, <3>9 DEF Gone, n
    <2>7. CASE ~(closes /\ k.popupOf[l] \in k.mapped)
      <3>1. q = k
        BY <2>7 DEF LayerClosePopup
      <3> HIDE DEF q
      <3>2. n = d
        BY <2>4, <2>5, <3>1
      <3>3. TakesAlong(r, n)
        <4> SUFFICES ASSUME NEW h \in Hosts, h \in r.mapped, h \notin n.mapped,
                            r.popupOf[h] # NoPopup
                     PROVE  r.popupOf[h] \notin n.layers
          BY DEF TakesAlong
        <4>1. h = l /\ r.loaded
          BY <2>0, <2>2, <3>2
        <4>2. l \in r.listening
          BY <4>1 DEF RegInv, RegWhole, RegSound, Listens
        <4>3. r.popupOf[l] \notin r.mapped
          BY <2>1, <2>7, <4>1, <4>2 DEF SameHosts
        <4>4. QED
          BY <2>0, <2>2, <3>2, <4>1, <4>3
      <3>4. QED
        BY <2>2, <2>3, <3>2, <3>3 DEF Gone, n
    <2>8. QED
      BY <2>6, <2>7
  <1>3. QED
    BY <1>1, <1>2

(* What groups do with their members, and the map with its popups. What    *)
(* each of the steps keeps holds after all of them.                        *)
AddAll(b, T) == FoldSet(LAMBDA c, a : AddLeaf(a, c), b, T)

LEMMA AllAdded ==
    ASSUME NEW T, IsFiniteSet(T), NEW V, NEW b \in V,
           \A i \in T, v \in V : AddLeaf(v, i) \in V
    PROVE  AddAll(b, T) \in V
  <1> DEFINE Step(v, i) == AddLeaf(v, i)
             f == [z \in T \X V |-> Step(z[2], z[1])]
             c == [S \in SUBSET T |-> CHOOSE x \in S : TRUE]
             Iter(g) == [S \in SUBSET T |-> IF S = {} THEN b
                            ELSE LET x == CHOOSE x \in S : TRUE IN Step(g[S \ {x}], x)]
             h == CHOOSE h : h = Iter(h)
  <1>1. AddAll(b, T) = h[T]
    BY DEF AddAll, FoldSet, MapThenFoldSet, Step
  <1>2. \A i \in T, v \in V : Step(v, i) \in V
    OBVIOUS
  <1> HIDE DEF Step
  <1>3. Chooses(c, T)
    BY DEF Chooses
  <1>4. \A i \in T, v \in V : f[<<i, v>>] = Step(v, i)
    OBVIOUS
  <1>5. PICK g : IsFold(g, f, c, b, T, V)
    <2>1. StaysWithin(f, T, V)
      BY <1>2, <1>4 DEF StaysWithin
    <2> HIDE DEF c, f
    <2>2. QED
      BY <1>3, <2>1, FoldFound
  <1> HIDE DEF f
  <1>6. g = Iter(g)
    <2>1. \A S \in SUBSET T : S # {} => g[S] = Step(g[S \ {c[S]}], c[S])
      <3> SUFFICES ASSUME NEW S \in SUBSET T, S # {}
                   PROVE  g[S] = Step(g[S \ {c[S]}], c[S])
        OBVIOUS
      <3>1. c[S] \in T /\ S \ {c[S]} \in SUBSET T
        BY <1>3 DEF Chooses
      <3> HIDE DEF c
      <3>2. g[S] = f[<<c[S], g[S \ {c[S]}]>>] /\ g[S \ {c[S]}] \in V
        BY <1>5, <3>1 DEF IsFold
      <3>3. QED
        BY <1>4, <3>1, <3>2
    <2>2. g = [S \in SUBSET T |-> g[S]] /\ g[{}] = b
      BY <1>5 DEF IsFold
    <2>3. QED
      BY <2>1, <2>2
  <1>7. h = Iter(h)
    BY <1>6
  <1> HIDE DEF h
  <1>8. h[{}] = b /\ \A S \in SUBSET T : S # {} => h[S] = Step(h[S \ {c[S]}], c[S])
    BY <1>7
  <1>9. StepsStay(h, c, T, V)
    <2> SUFFICES ASSUME NEW S \in SUBSET T, S # {}, h[S \ {c[S]}] \in V
                 PROVE  h[S] \in V
      BY DEF StepsStay
    <2>1. c[S] \in T
      BY <1>3 DEF Chooses
    <2> HIDE DEF c
    <2>2. QED
      BY <1>2, <1>8, <2>1
  <1> HIDE DEF c
  <1>10. \A S \in SUBSET T : h[S] \in V
    BY <1>3, <1>8, <1>9, FoldStays
  <1>11. QED
    BY <1>1, <1>10

RemoveAll(b, T) == FoldSet(LAMBDA c, a : RemoveLeaf(a, c), b, T)

LEMMA AllRemoved ==
    ASSUME NEW T, IsFiniteSet(T), NEW V, NEW b \in V,
           \A i \in T, v \in V : RemoveLeaf(v, i) \in V
    PROVE  RemoveAll(b, T) \in V
  <1> DEFINE Step(v, i) == RemoveLeaf(v, i)
             f == [z \in T \X V |-> Step(z[2], z[1])]
             c == [S \in SUBSET T |-> CHOOSE x \in S : TRUE]
             Iter(g) == [S \in SUBSET T |-> IF S = {} THEN b
                            ELSE LET x == CHOOSE x \in S : TRUE IN Step(g[S \ {x}], x)]
             h == CHOOSE h : h = Iter(h)
  <1>1. RemoveAll(b, T) = h[T]
    BY DEF RemoveAll, FoldSet, MapThenFoldSet, Step
  <1>2. \A i \in T, v \in V : Step(v, i) \in V
    OBVIOUS
  <1> HIDE DEF Step
  <1>3. Chooses(c, T)
    BY DEF Chooses
  <1>4. \A i \in T, v \in V : f[<<i, v>>] = Step(v, i)
    OBVIOUS
  <1>5. PICK g : IsFold(g, f, c, b, T, V)
    <2>1. StaysWithin(f, T, V)
      BY <1>2, <1>4 DEF StaysWithin
    <2> HIDE DEF c, f
    <2>2. QED
      BY <1>3, <2>1, FoldFound
  <1> HIDE DEF f
  <1>6. g = Iter(g)
    <2>1. \A S \in SUBSET T : S # {} => g[S] = Step(g[S \ {c[S]}], c[S])
      <3> SUFFICES ASSUME NEW S \in SUBSET T, S # {}
                   PROVE  g[S] = Step(g[S \ {c[S]}], c[S])
        OBVIOUS
      <3>1. c[S] \in T /\ S \ {c[S]} \in SUBSET T
        BY <1>3 DEF Chooses
      <3> HIDE DEF c
      <3>2. g[S] = f[<<c[S], g[S \ {c[S]}]>>] /\ g[S \ {c[S]}] \in V
        BY <1>5, <3>1 DEF IsFold
      <3>3. QED
        BY <1>4, <3>1, <3>2
    <2>2. g = [S \in SUBSET T |-> g[S]] /\ g[{}] = b
      BY <1>5 DEF IsFold
    <2>3. QED
      BY <2>1, <2>2
  <1>7. h = Iter(h)
    BY <1>6
  <1> HIDE DEF h
  <1>8. h[{}] = b /\ \A S \in SUBSET T : S # {} => h[S] = Step(h[S \ {c[S]}], c[S])
    BY <1>7
  <1>9. StepsStay(h, c, T, V)
    <2> SUFFICES ASSUME NEW S \in SUBSET T, S # {}, h[S \ {c[S]}] \in V
                 PROVE  h[S] \in V
      BY DEF StepsStay
    <2>1. c[S] \in T
      BY <1>3 DEF Chooses
    <2> HIDE DEF c
    <2>2. QED
      BY <1>2, <1>8, <2>1
  <1> HIDE DEF c
  <1>10. \A S \in SUBSET T : h[S] \in V
    BY <1>3, <1>8, <1>9, FoldStays
  <1>11. QED
    BY <1>1, <1>10

ClearAll(g0, b, T) ==
    FoldSet(LAMBDA c, a : IF g0 \in a.mapped THEN RemoveLeaf(a, c) ELSE a, b, T)

LEMMA AllCleared ==
    ASSUME NEW T, IsFiniteSet(T), NEW V, NEW b \in V, NEW g0,
           \A i \in T, v \in V : (IF g0 \in v.mapped THEN RemoveLeaf(v, i) ELSE v) \in V
    PROVE  ClearAll(g0, b, T) \in V
  <1> DEFINE Step(v, i) == (IF g0 \in v.mapped THEN RemoveLeaf(v, i) ELSE v)
             f == [z \in T \X V |-> Step(z[2], z[1])]
             c == [S \in SUBSET T |-> CHOOSE x \in S : TRUE]
             Iter(g) == [S \in SUBSET T |-> IF S = {} THEN b
                            ELSE LET x == CHOOSE x \in S : TRUE IN Step(g[S \ {x}], x)]
             h == CHOOSE h : h = Iter(h)
  <1>1. ClearAll(g0, b, T) = h[T]
    BY DEF ClearAll, FoldSet, MapThenFoldSet, Step
  <1>2. \A i \in T, v \in V : Step(v, i) \in V
    OBVIOUS
  <1> HIDE DEF Step
  <1>3. Chooses(c, T)
    BY DEF Chooses
  <1>4. \A i \in T, v \in V : f[<<i, v>>] = Step(v, i)
    OBVIOUS
  <1>5. PICK g : IsFold(g, f, c, b, T, V)
    <2>1. StaysWithin(f, T, V)
      BY <1>2, <1>4 DEF StaysWithin
    <2> HIDE DEF c, f
    <2>2. QED
      BY <1>3, <2>1, FoldFound
  <1> HIDE DEF f
  <1>6. g = Iter(g)
    <2>1. \A S \in SUBSET T : S # {} => g[S] = Step(g[S \ {c[S]}], c[S])
      <3> SUFFICES ASSUME NEW S \in SUBSET T, S # {}
                   PROVE  g[S] = Step(g[S \ {c[S]}], c[S])
        OBVIOUS
      <3>1. c[S] \in T /\ S \ {c[S]} \in SUBSET T
        BY <1>3 DEF Chooses
      <3> HIDE DEF c
      <3>2. g[S] = f[<<c[S], g[S \ {c[S]}]>>] /\ g[S \ {c[S]}] \in V
        BY <1>5, <3>1 DEF IsFold
      <3>3. QED
        BY <1>4, <3>1, <3>2
    <2>2. g = [S \in SUBSET T |-> g[S]] /\ g[{}] = b
      BY <1>5 DEF IsFold
    <2>3. QED
      BY <2>1, <2>2
  <1>7. h = Iter(h)
    BY <1>6
  <1> HIDE DEF h
  <1>8. h[{}] = b /\ \A S \in SUBSET T : S # {} => h[S] = Step(h[S \ {c[S]}], c[S])
    BY <1>7
  <1>9. StepsStay(h, c, T, V)
    <2> SUFFICES ASSUME NEW S \in SUBSET T, S # {}, h[S \ {c[S]}] \in V
                 PROVE  h[S] \in V
      BY DEF StepsStay
    <2>1. c[S] \in T
      BY <1>3 DEF Chooses
    <2> HIDE DEF c
    <2>2. QED
      BY <1>2, <1>8, <2>1
  <1> HIDE DEF c
  <1>10. \A S \in SUBSET T : h[S] \in V
    BY <1>3, <1>8, <1>9, FoldStays
  <1>11. QED
    BY <1>1, <1>10

CloseAll(b, T) ==
    FoldSet(LAMBDA p, a : IF p \in a.mapped THEN ClosePopup(a, p) ELSE a, b, T)

LEMMA AllClosed ==
    ASSUME NEW T, IsFiniteSet(T), NEW V, NEW b \in V,
           \A i \in T, v \in V : (IF i \in v.mapped THEN ClosePopup(v, i) ELSE v) \in V
    PROVE  CloseAll(b, T) \in V
  <1> DEFINE Step(v, i) == (IF i \in v.mapped THEN ClosePopup(v, i) ELSE v)
             f == [z \in T \X V |-> Step(z[2], z[1])]
             c == [S \in SUBSET T |-> CHOOSE x \in S : TRUE]
             Iter(g) == [S \in SUBSET T |-> IF S = {} THEN b
                            ELSE LET x == CHOOSE x \in S : TRUE IN Step(g[S \ {x}], x)]
             h == CHOOSE h : h = Iter(h)
  <1>1. CloseAll(b, T) = h[T]
    BY DEF CloseAll, FoldSet, MapThenFoldSet, Step
  <1>2. \A i \in T, v \in V : Step(v, i) \in V
    OBVIOUS
  <1> HIDE DEF Step
  <1>3. Chooses(c, T)
    BY DEF Chooses
  <1>4. \A i \in T, v \in V : f[<<i, v>>] = Step(v, i)
    OBVIOUS
  <1>5. PICK g : IsFold(g, f, c, b, T, V)
    <2>1. StaysWithin(f, T, V)
      BY <1>2, <1>4 DEF StaysWithin
    <2> HIDE DEF c, f
    <2>2. QED
      BY <1>3, <2>1, FoldFound
  <1> HIDE DEF f
  <1>6. g = Iter(g)
    <2>1. \A S \in SUBSET T : S # {} => g[S] = Step(g[S \ {c[S]}], c[S])
      <3> SUFFICES ASSUME NEW S \in SUBSET T, S # {}
                   PROVE  g[S] = Step(g[S \ {c[S]}], c[S])
        OBVIOUS
      <3>1. c[S] \in T /\ S \ {c[S]} \in SUBSET T
        BY <1>3 DEF Chooses
      <3> HIDE DEF c
      <3>2. g[S] = f[<<c[S], g[S \ {c[S]}]>>] /\ g[S \ {c[S]}] \in V
        BY <1>5, <3>1 DEF IsFold
      <3>3. QED
        BY <1>4, <3>1, <3>2
    <2>2. g = [S \in SUBSET T |-> g[S]] /\ g[{}] = b
      BY <1>5 DEF IsFold
    <2>3. QED
      BY <2>1, <2>2
  <1>7. h = Iter(h)
    BY <1>6, ZenonT(40)
  <1> HIDE DEF h
  <1>8. h[{}] = b /\ \A S \in SUBSET T : S # {} => h[S] = Step(h[S \ {c[S]}], c[S])
    BY <1>7
  <1>9. StepsStay(h, c, T, V)
    <2> SUFFICES ASSUME NEW S \in SUBSET T, S # {}, h[S \ {c[S]}] \in V
                 PROVE  h[S] \in V
      BY DEF StepsStay
    <2>1. c[S] \in T
      BY <1>3 DEF Chooses
    <2> HIDE DEF c
    <2>2. QED
      BY <1>2, <1>8, <2>1
  <1> HIDE DEF c
  <1>10. \A S \in SUBSET T : h[S] \in V
    BY <1>3, <1>8, <1>9, FoldStays
  <1>11. QED
    BY <1>1, <1>10

(* The same folds, as the model has them.                                  *)
LEMMA GroupAdds ==
    ASSUME NEW r, NEW l
    PROVE  LayerAdd(r, l) = IF l \in Groups /\ l \in r.layers
                              THEN AddAll(LayerAddLeaf(r, l), r.members[l])
                              ELSE LayerAddLeaf(r, l)
  BY DEF LayerAdd, AddAll, FoldSet, MapThenFoldSet

LEMMA GroupRemoves ==
    ASSUME NEW r, NEW l
    PROVE  RemoveLayer(r, l) = RemoveLeaf(IF l \in Groups /\ l \in r.layers /\ r.loaded
                                            THEN RemoveAll(r, r.members[l]) ELSE r, l)
  BY SMTT(40) DEF RemoveLayer, RemoveAll, FoldSet, MapThenFoldSet

LEMMA GroupClears ==
    ASSUME NEW g, ClearLayers(g)
    PROVE  reg' = [ClearAll(g, reg, reg.members[g]) EXCEPT !.members[g] = {}]
  BY DEF ClearLayers, ClearAll, FoldSet, MapThenFoldSet

LEMMA MapCloses ==
    ASSUME ClickMap
    PROVE  reg' = CloseAll(reg, Popups)
  BY DEF ClickMap, CloseAll, FoldSet, MapThenFoldSet

(* After `load` has begun the map has a view, and keeps it.                *)
LoadedRegs == {v \in Reg : v.loaded}

LEMMA FiniteMembers ==
    ASSUME NEW r \in Reg, NEW g \in Groups
    PROVE  r.members[g] \subseteq Leaves /\ IsFiniteSet(r.members[g])
  <1>1. r.members[g] \subseteq Leaves
    BY DEF Reg
  <1>2. r.members[g] \subseteq Layers
    BY <1>1, HostsAndPopups
  <1>3. QED
    BY <1>1, <1>2, LayersAssumption, FS_Subset

LEMMA LayerAddLeafLoaded ==
    ASSUME NEW r \in LoadedRegs, NEW l \in Layers
    PROVE  LayerAddLeaf(r, l) \in LoadedRegs
  <1>1. r \in Reg /\ r.loaded
    BY DEF LoadedRegs
  <1>2. CASE l \notin r.layers
    BY <1>2 DEF LayerAddLeaf
  <1>3. CASE l \in r.layers
    <2> DEFINE n == LayerAddLeaf(r, l)
    <2>1. n \in Reg /\ SameHosts(r, n)
      BY <1>1, <1>3, LayerAddLeafIs
    <2> HIDE DEF n
    <2>2. n.loaded
      BY <1>1, <2>1 DEF SameHosts
    <2>3. QED
      BY <2>1, <2>2 DEF LoadedRegs, n
  <1>4. QED
    BY <1>2, <1>3

LEMMA AddLeafLoaded ==
    ASSUME NEW r \in LoadedRegs, NEW l \in Layers
    PROVE  AddLeaf(r, l) \in LoadedRegs
  <1>1. r \in Reg /\ r.loaded
    BY DEF LoadedRegs
  <1>2. CASE l \in r.layers
    BY <1>2 DEF AddLeaf
  <1>3. CASE l \notin r.layers
    <2> DEFINE n == Register(r, l)
    <2>1. n \in Reg /\ SameHosts(r, n)
      BY <1>1, RegisterIs
    <2>2. AddLeaf(r, l) = LayerAddLeaf(n, l)
      BY <1>1, <1>3 DEF AddLeaf
    <2> HIDE DEF n
    <2>3. n \in LoadedRegs
      BY <1>1, <2>1 DEF SameHosts, LoadedRegs
    <2>4. QED
      BY <2>2, <2>3, LayerAddLeafLoaded
  <1>4. QED
    BY <1>2, <1>3

LEMMA LayerAddLoaded ==
    ASSUME NEW r \in LoadedRegs, NEW l \in Hosts
    PROVE  LayerAdd(r, l) \in LoadedRegs
  <1>1. r \in Reg /\ l \in Layers
    BY HostsAndPopups DEF LoadedRegs
  <1> DEFINE n == LayerAddLeaf(r, l)
  <1>2. n \in LoadedRegs
    BY <1>1, LayerAddLeafLoaded
  <1> HIDE DEF n
  <1>3. LayerAdd(r, l) = IF l \in Groups /\ l \in r.layers
                           THEN AddAll(n, r.members[l]) ELSE n
    BY GroupAdds DEF n
  <1>4. CASE l \in Groups /\ l \in r.layers
    <2> DEFINE T == r.members[l]
    <2>1. T \subseteq Leaves /\ IsFiniteSet(T)
      BY <1>1, <1>4, FiniteMembers
    <2> HIDE DEF T
    <2>2. \A i \in T, v \in LoadedRegs : AddLeaf(v, i) \in LoadedRegs
      BY <2>1, HostsAndPopups, AddLeafLoaded
    <2>3. AddAll(n, T) \in LoadedRegs
      BY <1>2, <2>1, <2>2, AllAdded
    <2>4. QED
      BY <1>3, <1>4, <2>3 DEF T
  <1>5. CASE ~(l \in Groups /\ l \in r.layers)
    BY <1>2, <1>3, <1>5
  <1>6. QED
    BY <1>4, <1>5

(* Layers come, none goes, and popups stay as they are.                    *)
Grown(r, n) ==
    /\ SameHosts(r, n) /\ n.waiting = r.waiting
    /\ r.mapped \subseteq n.mapped
    /\ n.layers \cap Popups = r.layers \cap Popups
    /\ n.current = r.current

LEMMA GrownGrown ==
    ASSUME NEW r, NEW k, NEW n, Grown(r, k), Grown(k, n)
    PROVE  Grown(r, n)
  <1>1. SameHosts(r, n)
    BY DEF Grown, SameHosts
  <1>2. QED
    BY <1>1 DEF Grown

(* A layer that was still to come is shown, with its members.              *)
LEMMA LayerAdds ==
    ASSUME NEW r, NEW rest, RegSound(r, rest), r.loaded, NEW l \in Hosts, l \in rest
    PROVE  LET n == LayerAdd(r, l) IN RegSound(n, rest \ {l}) /\ Grown(r, n)
  <1> DEFINE n == LayerAdd(r, l)
             m == LayerAddLeaf(r, l)
             left == rest \ {l}
  <1>1. r \in Reg /\ ToCome(r, rest) /\ l \in Layers /\ l \notin Popups
    BY HostsAndPopups DEF RegSound
  <1>2. CASE l \notin r.layers
    <2>1. m = r
      BY <1>2 DEF LayerAddLeaf
    <2>2. n = r
      BY <1>2, <2>1, GroupAdds
    <2>3. ToCome(r, left)
      BY <1>1, <1>2 DEF ToCome
    <2>4. QED
      BY <2>2, <2>3 DEF RegSound, Grown, SameHosts
  <1>3. CASE l \in r.layers
    <2>1. l \in r.mapped => l \in r.early /\ l \notin Popups
      BY <1>1 DEF ToCome
    <2>2. RegSound(m, left)
      BY <1>3, <2>1, Shown1
    <2>3. Grown(r, m)
      <3>1. /\ SameHosts(r, m) /\ m.layers = r.layers /\ m.waiting = r.waiting
            /\ m.mapped = r.mapped \cup {l} /\ m.current = r.current
        BY <1>1, <1>3, LayerAddLeafIs
      <3> HIDE DEF m
      <3>2. QED
        BY <3>1 DEF Grown
    <2>4. n = IF l \in Groups THEN AddAll(m, r.members[l]) ELSE m
      BY <1>3, GroupAdds
    <2> HIDE DEF m, n, left
    <2>5. CASE l \notin Groups
      BY <2>2, <2>3, <2>4, <2>5 DEF n, left
    <2>6. CASE l \in Groups
      <3> DEFINE T == r.members[l]
                 V == {v \in Reg : RegSound(v, left) /\ v.loaded /\ Grown(m, v)}
      <3>1. T \subseteq Leaves /\ IsFiniteSet(T)
        BY <1>1, <2>6, FiniteMembers
      <3>2. m \in V
        <4>1. m \in Reg /\ m.loaded
          BY <2>2, <2>3 DEF RegSound, Grown, SameHosts
        <4>2. QED
          BY <2>2, <4>1 DEF Grown, SameHosts
      <3> HIDE DEF T
      <3>3. ASSUME NEW i \in T, NEW v \in V PROVE AddLeaf(v, i) \in V
        <4>1. i \in Layers /\ i \notin Popups
          BY <3>1, HostsAndPopups
        <4> DEFINE a == AddLeaf(v, i)
        <4>2. /\ RegSound(a, left) /\ SameHosts(v, a) /\ a.waiting = v.waiting
              /\ a.layers = v.layers \cup {i}
              /\ v.mapped \subseteq a.mapped /\ a.current = v.current
          BY <3>3, <4>1, AddLeafShows
        <4> HIDE DEF a
        <4>3. Grown(v, a)
          BY <4>1, <4>2 DEF Grown
        <4>4. Grown(m, a)
          BY <3>3, <4>3, GrownGrown
        <4>5. a \in Reg /\ a.loaded
          BY <3>3, <4>2 DEF RegSound, SameHosts
        <4>6. QED
          BY <4>2, <4>4, <4>5 DEF a
      <3>4. AddAll(m, T) \in V
        <4> HIDE DEF V
        <4>1. QED
          BY <3>1, <3>2, <3>3, AllAdded
      <3>5. n \in V
        BY <2>4, <2>6, <3>4 DEF T
      <3>6. RegSound(n, left) /\ Grown(m, n)
        BY <3>5
      <3>7. QED
        BY <2>3, <3>6, GrownGrown DEF n, left
    <2>7. QED
      BY <2>5, <2>6
  <1>4. QED
    BY <1>2, <1>3

-----------------------------------------------------------------------------
(* addLayer() and removeLayer(), groups included.                          *)
LEMMA AddsLayer ==
    ASSUME NEW r, RegInv(r), NEW l \in Hosts \ r.layers
    PROVE  LET n == AddLayer(r, l) IN
           /\ RegInv(n) /\ SameHosts(r, n)
           /\ r.mapped \subseteq n.mapped
  <1> DEFINE n == AddLayer(r, l)
             k == Register(r, l)
  <1>1. r \in Reg /\ RegSound(r, Waits(r)) /\ l \in Layers /\ l \notin Popups
    BY HostsAndPopups DEF RegInv, RegWhole, RegSound
  <1>2. /\ SameHosts(r, k) /\ k.layers = r.layers \cup {l}
        /\ k.waiting = IF r.loaded \/ Contains(r.waiting, l) THEN r.waiting
                                                         ELSE Append(r.waiting, l)
        /\ k.mapped = r.mapped /\ k.current = r.current
    BY <1>1, RegisterIs
  <1>3. RegSound(k, Waits(r) \cup {l})
    BY <1>1, Registers
  <1>4. n = IF r.loaded THEN LayerAdd(k, l) ELSE k
    BY DEF AddLayer
  <1> HIDE DEF n, k
  <1>5. CASE r.loaded
    <2>1. Waits(r) = {} /\ k.loaded /\ k.waiting = r.waiting
      BY <1>2, <1>5 DEF Waits, SameHosts
    <2>2. RegSound(k, {l})
      BY <1>3, <2>1
    <2> DEFINE a == LayerAdd(k, l)
    <2>3. RegSound(a, {l} \ {l}) /\ Grown(k, a)
      BY <2>1, <2>2, LayerAdds
    <2> HIDE DEF a
    <2>4. n = a /\ {l} \ {l} = {}
      BY <1>4, <1>5 DEF a
    <2>5. SameHosts(r, n) /\ n.waiting = r.waiting /\ r.mapped \subseteq n.mapped
      BY <1>2, <2>1, <2>3, <2>4 DEF Grown, SameHosts
    <2>6. Waits(n) = {} /\ Unseen(n) /\ Once(n.waiting)
      BY <1>5, <2>5 DEF SameHosts, Waits, Unseen, RegInv, RegWhole
    <2>7. KnowsOpen(n)
      BY <1>1, <1>2, <2>3, <2>4 DEF Grown, KnowsOpen, RegInv
    <2>8. QED
      BY <2>3, <2>4, <2>5, <2>6, <2>7 DEF RegInv, RegWhole, n
  <1>6. CASE ~r.loaded
    <2>1. n = k /\ ~n.loaded
      BY <1>2, <1>4, <1>6 DEF SameHosts
    <2>2. KnowsOpen(n)
      BY <1>1, <1>2, <2>1 DEF KnowsOpen, RegInv
    <2>3. Unseen(n)
      BY <1>2, <1>6, <2>1 DEF Unseen, RegInv, RegWhole
    <2> DEFINE w == r.waiting
    <2>4. w \in Seq(Hosts) /\ Len(w) \in Nat /\ Once(w)
      BY <1>1 DEF Reg, RegInv, RegWhole
    <2>5. ToSet(n.waiting) = ToSet(w) \cup {l} /\ Once(n.waiting)
      <3> HIDE DEF w
      <3>1. CASE Contains(w, l)
        <4>1. n.waiting = w
          BY <1>2, <1>6, <2>1, <3>1 DEF w
        <4>2. l \in ToSet(w)
          BY <2>4, <3>1 DEF Contains, ToSet
        <4>3. QED
          BY <2>4, <4>1, <4>2
      <3>2. CASE ~Contains(w, l)
        <4> DEFINE u == Append(w, l)
        <4>1. /\ Len(u) = Len(w) + 1 /\ u[Len(w) + 1] = l
              /\ \A i \in 1..Len(w) : u[i] = w[i]
              /\ DOMAIN u = 1..(Len(w) + 1) /\ DOMAIN w = 1..Len(w)
          BY <2>4, AppendProperties
        <4>2. \A i \in 1..Len(w) : w[i] # l
          BY <3>2 DEF Contains
        <4> HIDE DEF u
        <4>3. Once(u)
          <5> SUFFICES ASSUME NEW i \in 1..Len(u), NEW j \in 1..Len(u), u[i] = u[j]
                       PROVE  i = j
            BY DEF Once
          <5>1. CASE i \in 1..Len(w) /\ j \in 1..Len(w)
            BY <2>4, <4>1, <5>1 DEF Once
          <5>2. CASE i = Len(w) + 1 /\ j \in 1..Len(w)
            BY <4>1, <4>2, <5>2
          <5>3. CASE j = Len(w) + 1 /\ i \in 1..Len(w)
            BY <4>1, <4>2, <5>3
          <5>4. QED
            BY <2>4, <4>1, <5>1, <5>2, <5>3
        <4>4. ToSet(u) = ToSet(w) \cup {l}
          <5>1. ToSet(u) = {u[i] : i \in 1..(Len(w) + 1)}
            BY <4>1 DEF ToSet
          <5>2. ToSet(w) = {w[i] : i \in 1..Len(w)}
            BY <4>1 DEF ToSet
          <5>3. 1..(Len(w) + 1) = 1..Len(w) \cup {Len(w) + 1}
            BY <2>4
          <5>4. QED
            BY <4>1, <5>1, <5>2, <5>3
        <4>5. n.waiting = u
          BY <1>2, <1>6, <2>1, <3>2 DEF u, w
        <4>6. QED
          BY <4>3, <4>4, <4>5
      <3>3. QED
        BY <3>1, <3>2
    <2>6. Waits(n) = Waits(r) \cup {l}
      BY <1>6, <2>1, <2>5 DEF Waits
    <2>7. QED
      BY <1>2, <1>3, <2>1, <2>2, <2>3, <2>5, <2>6 DEF RegInv, RegWhole, n
  <1>7. QED
    BY <1>5, <1>6

LEMMA RemovesLayer ==
    ASSUME NEW r, RegInv(r), NEW l \in Layers
    PROVE  LET n == RemoveLayer(r, l) IN RegInv(n) /\ Gone(r, n)
  <1> DEFINE n == RemoveLayer(r, l)
             k == IF l \in Groups /\ l \in r.layers /\ r.loaded
                    THEN RemoveAll(r, r.members[l]) ELSE r
  <1>1. n = RemoveLeaf(k, l)
    BY GroupRemoves
  <1>2. r \in Reg
    BY DEF RegInv, RegWhole, RegSound
  <1>3. RegInv(k) /\ Gone(r, k)
    <2>1. CASE l \in Groups /\ l \in r.layers /\ r.loaded
      <3> DEFINE T == r.members[l]
                 V == {v \in Reg : RegInv(v) /\ Gone(r, v)}
      <3>1. T \subseteq Leaves /\ IsFiniteSet(T)
        BY <1>2, <2>1, FiniteMembers
      <3>2. r \in V
        BY <1>2, NotGone
      <3>3. k = RemoveAll(r, T)
        BY <2>1
      <3> HIDE DEF T, k
      <3>4. ASSUME NEW i \in T, NEW v \in V PROVE RemoveLeaf(v, i) \in V
        <4>1. i \in Layers
          BY <3>1, HostsAndPopups
        <4> DEFINE a == RemoveLeaf(v, i)
        <4>2. RegInv(a) /\ Gone(v, a)
          BY <3>4, <4>1, RemovesLeaf
        <4> HIDE DEF a
        <4>3. Gone(r, a) /\ a \in Reg
          BY <3>4, <4>2, GoneGone DEF RegInv, RegWhole, RegSound
        <4>4. QED
          BY <4>2, <4>3 DEF a
      <3>5. RemoveAll(r, T) \in V
        <4> HIDE DEF V
        <4>1. QED
          BY <3>1, <3>2, <3>4, AllRemoved
      <3>6. QED
        BY <3>3, <3>5
    <2>2. CASE ~(l \in Groups /\ l \in r.layers /\ r.loaded)
      <3>1. k = r
        BY <2>2
      <3>2. QED
        BY <3>1, NotGone
    <2>3. QED
      BY <2>1, <2>2
  <1> HIDE DEF k
  <1> DEFINE a == RemoveLeaf(k, l)
  <1>4. RegInv(a) /\ Gone(k, a)
    BY <1>3, RemovesLeaf
  <1> HIDE DEF a
  <1>5. n = a
    BY <1>1 DEF a
  <1> HIDE DEF n
  <1>6. Gone(r, n)
    BY <1>3, <1>4, <1>5, GoneGone
  <1>7. QED
    BY <1>4, <1>5, <1>6 DEF n

(* `load` reaches the waiting layers in turn.                              *)
ShowAll(h, b, w) ==
    /\ h[{}] = b
    /\ \A i \in 1..Len(w) : h[1..i] = LayerAdd(h[1..(i - 1)], w[i])

LEMMA LoadInTurn ==
    ASSUME NEW b \in LoadedRegs, NEW w \in Seq(Hosts)
    PROVE  \E h : ShowAll(h, b, w) /\ FoldLeft(LayerAdd, b, w) = h[1..Len(w)]
  <1> DEFINE T == DOMAIN w
             V == LoadedRegs
             Step(v, i) == LayerAdd(v, w[i])
             f == [z \in T \X V |-> Step(z[2], z[1])]
             c == [S \in SUBSET T |-> Max(S)]
             Iter(g) == [S \in SUBSET T |-> IF S = {} THEN b
                            ELSE LET x == Max(S) IN Step(g[S \ {x}], x)]
  <1>1. T = 1..Len(w) /\ Len(w) \in Nat /\ IsFiniteSet(T)
    BY LenProperties, FS_Interval
  <1>2. \A S \in SUBSET T : S # {} => c[S] = Max(S) /\ c[S] \in S
    BY <1>1, MaxIn
  <1>3. ASSUME NEW i \in T, NEW v \in V PROVE Step(v, i) \in V
    <2>1. w[i] \in Hosts
      BY ElementOfSeq, <1>1
    <2>2. QED
      BY <2>1, LayerAddLoaded
  <1>4. b \in V
    OBVIOUS
  <1>c. \A S \in SUBSET T : S # {} => c[S] \in S
    BY <1>2
  <1>f. IsFiniteSet(T)
    BY <1>1
  <1> HIDE DEF V, T, Step
  <1>5. \A i \in T, v \in V : f[<<i, v>>] = Step(v, i)
    OBVIOUS
  <1> HIDE DEF f
  <1>6. PICK g : IsFold(g, f, c, b, T, V)
    <2>1. StaysWithin(f, T, V)
      BY <1>3, <1>5 DEF StaysWithin
    <2>2. Chooses(c, T)
      BY <1>c DEF Chooses
    <2> HIDE DEF c
    <2>3. QED
      BY <1>f, <1>4, <2>1, <2>2, FoldFound
  <1>7. g = Iter(g)
    <2>1. \A S \in SUBSET T : S # {} => g[S] = Step(g[S \ {Max(S)}], Max(S))
      BY <1>2, <1>5, <1>6 DEF IsFold
    <2>2. QED
      BY <1>6, <2>1 DEF IsFold
  <1> DEFINE h == CHOOSE h : h = Iter(h)
             all == FoldLeft(LayerAdd, b, w)
  <1>8. all = h[T]
    BY DEF FoldLeft, MapThenFoldSet, T, Step
  <1> HIDE DEF all
  <1>9. h = Iter(h)
    BY <1>7
  <1> HIDE DEF h
  <1>10. h[{}] = b /\ \A S \in SUBSET T : S # {} => h[S] = Step(h[S \ {Max(S)}], Max(S))
    BY <1>9
  <1>11. ASSUME NEW i \in 1..Len(w) PROVE h[1..i] = LayerAdd(h[1..(i - 1)], w[i])
    <2>1. i \in Nat /\ i > 0 /\ 1..i \in SUBSET T
      BY <1>1
    <2>2. Max(1..i) = i /\ (1..i) \ {i} = 1..(i - 1) /\ 1..i # {}
      BY <2>1, LastOf
    <2>3. h[1..i] = Step(h[1..(i - 1)], i)
      BY <1>10, <2>1, <2>2
    <2>4. QED
      BY <2>3 DEF Step
  <1>12. ShowAll(h, b, w) /\ all = h[1..Len(w)]
    BY <1>1, <1>8, <1>10, <1>11 DEF ShowAll
  <1>13. QED
    BY <1>12 DEF all

Rest(w, i) == {w[j] : j \in (i + 1)..Len(w)}

(* The first view shows all layers that wait; those after the i-th are     *)
(* still to come when it is shown.                                         *)
LEMMA Loads ==
    ASSUME NEW r, RegInv(r), ~r.loaded
    PROVE  LET n == FoldLeft(LayerAdd, [r EXCEPT !.loaded = TRUE, !.waiting = <<>>],
                             r.waiting) IN
           /\ RegInv(n) /\ n.popupOf = r.popupOf
           /\ r.mapped \subseteq n.mapped
  <1> DEFINE yes == TRUE
             none == <<>>
             b == [r EXCEPT !.loaded = yes, !.waiting = none]
             w == r.waiting
  <1>1. /\ r \in Reg /\ RegSound(r, ToSet(w)) /\ r.mapped = {}
        /\ r.layers \subseteq Hosts /\ Once(w)
    BY ViewTells DEF RegInv, RegWhole, RegSound, Waits
  <1>2. w \in Seq(Hosts) /\ Len(w) \in Nat /\ DOMAIN w = 1..Len(w)
    BY <1>1 DEF Reg
  <1>3. b \in Reg
    <2>1. none \in Seq(Hosts) /\ yes \in BOOLEAN
      OBVIOUS
    <2> HIDE DEF none, yes
    <2>2. QED
      BY <1>1, <2>1 DEF Reg
  <1>4. /\ b.loaded /\ b.waiting = <<>> /\ b.layers = r.layers
        /\ b.mapped = r.mapped /\ b.shows = r.shows /\ b.members = r.members
        /\ b.popupOf = r.popupOf
    BY <1>1 DEF Reg
  <1>5. /\ b.handlersAdded = r.handlersAdded /\ b.listening = r.listening
        /\ b.source = r.source /\ b.current = r.current
        /\ b.guards = r.guards /\ b.credits = r.credits
        /\ b.control = r.control /\ b.early = r.early /\ b.strayed = r.strayed
    BY <1>1 DEF Reg
  <1> DEFINE all == FoldLeft(LayerAdd, b, w)
  <1> HIDE DEF b
  <1>6. RegSound(b, ToSet(w))
    <2>1. Showing(b) /\ ToCome(b, ToSet(w)) /\ Listens(b)
      BY <1>1, <1>4, <1>5 DEF RegSound, Showing, ToCome, Listens
    <2>2. OnePopupAtMost(b) /\ Guarding(b) /\ Crediting(b)
      BY <1>1, <1>4, <1>5 DEF RegSound, OnePopupAtMost, Guarding, Crediting
    <2>3. QED
      BY <1>3, <2>1, <2>2 DEF RegSound
  <1>7. PICK h : ShowAll(h, b, w) /\ all = h[1..Len(w)]
    <2>1. b \in LoadedRegs
      BY <1>3, <1>4 DEF LoadedRegs
    <2>2. QED
      BY <1>2, <2>1, LoadInTurn
  <1> HIDE DEF all, w
  <1> DEFINE Good(i) == RegSound(h[1..i], Rest(w, i)) /\ Grown(b, h[1..i])
             P == {i \in Nat : i <= Len(w) => Good(i)}
  <1>8. 0 \in P
    <2>1. 1..0 = {} /\ h[1..0] = b
      BY <1>7 DEF ShowAll
    <2>2. Rest(w, 0) = ToSet(w)
      BY <1>2 DEF Rest, ToSet
    <2>3. Good(0)
      BY <1>6, <2>1, <2>2 DEF Grown, SameHosts
    <2>4. QED
      BY <2>3
  <1>9. ASSUME NEW i \in Nat, i \in P PROVE i + 1 \in P
    <2>1. ASSUME i + 1 <= Len(w) PROVE Good(i + 1)
      <3>1. i + 1 \in 1..Len(w) /\ (i + 1) - 1 = i /\ i <= Len(w)
        BY <1>2, <2>1
      <3> DEFINE v == h[1..i]
                 l == w[i + 1]
                 n == LayerAdd(v, l)
      <3>2. RegSound(v, Rest(w, i)) /\ Grown(b, v)
        BY <1>9, <3>1
      <3>3. l \in Hosts /\ l \in Rest(w, i)
        <4>1. i + 1 \in (i + 1)..Len(w)
          BY <1>2, <3>1
        <4>2. QED
          BY <1>2, <3>1, <4>1, ElementOfSeq DEF Rest
      <3>4. h[1..(i + 1)] = n
        BY <1>7, <3>1 DEF ShowAll
      <3>5. v.loaded
        BY <1>4, <3>2 DEF Grown, SameHosts
      <3> HIDE DEF v, l
      <3>6. RegSound(n, Rest(w, i) \ {l}) /\ Grown(v, n)
        BY <3>2, <3>3, <3>5, LayerAdds
      <3>7. Rest(w, i) \ {l} = Rest(w, i + 1)
        <4>1. \A j \in (i + 2)..Len(w) : w[j] # w[i + 1]
          BY <1>1, <1>2, <3>1 DEF Once, w
        <4>2. (i + 1)..Len(w) = {i + 1} \cup (i + 2)..Len(w) /\ (i + 1) + 1 = i + 2
          BY <1>2, <3>1
        <4>3. QED
          BY <4>1, <4>2 DEF Rest, l
      <3> HIDE DEF n
      <3>8. Grown(b, n)
        BY <3>2, <3>6, GrownGrown
      <3>9. QED
        BY <3>4, <3>6, <3>7, <3>8
    <2> HIDE DEF Good
    <2>2. QED
      BY <2>1
  <1>10. Good(Len(w))
    <2>1. Nat \subseteq P
      <3> HIDE DEF P
      <3>1. QED
        BY <1>8, <1>9, AllNumbers
    <2> HIDE DEF Good
    <2>2. QED
      BY <1>2, <2>1
  <1>11. Rest(w, Len(w)) = {}
    BY <1>2 DEF Rest
  <1>12. RegSound(all, {}) /\ Grown(b, all)
    BY <1>7, <1>10, <1>11
  <1>13. all.loaded /\ all.waiting = <<>> /\ all.popupOf = r.popupOf /\ r.mapped \subseteq all.mapped
    BY <1>4, <1>12 DEF Grown, SameHosts
  <1>14. Waits(all) = {} /\ Unseen(all) /\ Once(all.waiting)
    BY <1>13 DEF Waits, Unseen, Once
  <1>15. KnowsOpen(all)
    BY <1>1, <1>4, <1>12, HostsAndPopups DEF Grown, KnowsOpen
  <1>16. RegInv(all)
    BY <1>12, <1>14, <1>15 DEF RegInv, RegWhole
  <1>17. all = FoldLeft(LayerAdd, [r EXCEPT !.loaded = TRUE, !.waiting = <<>>], r.waiting)
    BY DEF all, b, w, FoldLeft, MapThenFoldSet
  <1>18. QED
    BY <1>13, <1>16, <1>17

Clicked(S, g, l) ==
    UNION {IF l \in r.members[g] THEN OpenOnClick(r, g, l) ELSE {r} : r \in S}

ClickAll(l, S, s) ==
    FoldLeft(LAMBDA R, g : UNION {IF l \in r.members[g] THEN OpenOnClick(r, g, l)
                                                        ELSE {r} : r \in R}, S, s)

LEMMA AllClicked ==
    ASSUME NEW s, NEW k \in Nat, DOMAIN s = 1..k, NEW l, NEW V, NEW b \in V,
           \A i \in 1..k, v \in V : Clicked(v, s[i], l) \in V
    PROVE  ClickAll(l, b, s) \in V
  <1> DEFINE T == DOMAIN s
             Step(v, i) == Clicked(v, s[i], l)
             f == [z \in T \X V |-> Step(z[2], z[1])]
             c == [S \in SUBSET T |-> Max(S)]
             Iter(g) == [S \in SUBSET T |-> IF S = {} THEN b
                            ELSE LET x == Max(S) IN Step(g[S \ {x}], x)]
             h == CHOOSE h : h = Iter(h)
  <1>1. ClickAll(l, b, s) = h[T]
    BY DEF ClickAll, FoldLeft, MapThenFoldSet, Step, Clicked, T
  <1>2. \A i \in T, v \in V : Step(v, i) \in V
    OBVIOUS
  <1>3. IsFiniteSet(T) /\ T = 1..k
    BY FS_Interval
  <1>4. Chooses(c, T)
    <2>1. ASSUME NEW S \in SUBSET T, S # {} PROVE c[S] \in S
      <3>1. Max(S) \in S
        BY <1>3, <2>1, MaxIn
      <3>2. QED
        BY <3>1
    <2>2. QED
      BY <2>1 DEF Chooses
  <1> HIDE DEF Step, T
  <1>5. \A i \in T, v \in V : f[<<i, v>>] = Step(v, i)
    OBVIOUS
  <1>6. PICK g : IsFold(g, f, c, b, T, V)
    <2>1. StaysWithin(f, T, V)
      BY <1>2, <1>5 DEF StaysWithin
    <2> HIDE DEF c, f
    <2>2. QED
      BY <1>3, <1>4, <2>1, FoldFound
  <1> HIDE DEF f
  <1>7. g = Iter(g)
    <2>1. \A S \in SUBSET T : S # {} => g[S] = Step(g[S \ {c[S]}], c[S])
      <3> SUFFICES ASSUME NEW S \in SUBSET T, S # {}
                   PROVE  g[S] = Step(g[S \ {c[S]}], c[S])
        OBVIOUS
      <3>1. c[S] \in T /\ S \ {c[S]} \in SUBSET T
        BY <1>4 DEF Chooses
      <3> HIDE DEF c
      <3>2. g[S] = f[<<c[S], g[S \ {c[S]}]>>] /\ g[S \ {c[S]}] \in V
        BY <1>6, <3>1 DEF IsFold
      <3>3. QED
        BY <1>5, <3>1, <3>2
    <2>2. g = [S \in SUBSET T |-> g[S]] /\ g[{}] = b
      BY <1>6 DEF IsFold
    <2>3. QED
      BY <2>1, <2>2
  <1>8. h = Iter(h)
    BY <1>7
  <1> HIDE DEF h
  <1>9. h[{}] = b /\ \A S \in SUBSET T : S # {} => h[S] = Step(h[S \ {c[S]}], c[S])
    BY <1>8
  <1>10. StepsStay(h, c, T, V)
    <2> SUFFICES ASSUME NEW S \in SUBSET T, S # {}, h[S \ {c[S]}] \in V
                 PROVE  h[S] \in V
      BY DEF StepsStay
    <2>1. c[S] \in T
      BY <1>4 DEF Chooses
    <2> HIDE DEF c
    <2>2. QED
      BY <1>2, <1>9, <2>1
  <1> HIDE DEF c
  <1>11. \A S \in SUBSET T : h[S] \in V
    BY <1>3, <1>4, <1>9, <1>10, FoldStays
  <1>12. QED
    BY <1>1, <1>11

(* The click at a leaf goes to its groups in any order.                    *)
LEMMA Clicks ==
    ASSUME NEW r, RegInv(r), NEW l \in Leaves, NEW n \in OpenOnClick(r, l, l),
           NEW s \in SetToSeqs(Groups), NEW m \in ClickAll(l, {n}, s)
    PROVE  RegInv(m) /\ Still(r, m)
  <1> DEFINE U == {v \in Reg : RegInv(v) /\ Still(r, v)}
             V == SUBSET U
             k == Cardinality(Groups)
  <1>1. k \in Nat /\ s \in [1..k -> Groups]
    <2>1. IsFiniteSet(Groups)
      BY LayersAssumption, FS_Subset DEF Layers
    <2>2. k \in Nat
      BY <2>1, FS_CardinalityType
    <2>3. QED
      BY <2>2 DEF SetToSeqs
  <1> HIDE DEF k
  <1>2. l \in Hosts /\ Groups \subseteq Hosts
    BY HostsAndPopups
  <1>3. {n} \in V
    <2>1. RegInv(n) /\ Still(r, n)
      BY <1>2, ClickOpens
    <2>2. QED
      BY <2>1 DEF RegInv, RegWhole, RegSound
  <1>4. ASSUME NEW i \in 1..k, NEW v \in V PROVE Clicked(v, s[i], l) \in V
    <2>1. s[i] \in Groups
      BY <1>1
    <2>2. ASSUME NEW x \in v, NEW y \in OpenOnClick(x, s[i], l) PROVE y \in U
      <3>1. RegInv(x) /\ Still(r, x)
        BY <1>4
      <3>2. RegInv(y) /\ Still(x, y)
        BY <1>2, <2>1, <2>2, <3>1, ClickOpens
      <3>3. Still(r, y)
        BY <3>1, <3>2, StillStill
      <3>4. QED
        BY <3>2, <3>3 DEF RegInv, RegWhole, RegSound
    <2>3. ASSUME NEW x \in v PROVE {x} \subseteq U
      OBVIOUS
    <2> HIDE DEF U
    <2>4. \A x \in v : OpenOnClick(x, s[i], l) \subseteq U
      BY <2>2
    <2>5. QED
      BY <2>3, <2>4 DEF Clicked
  <1>5. ClickAll(l, {n}, s) \in V
    <2> HIDE DEF V
    <2>1. DOMAIN s = 1..k
      BY <1>1
    <2>2. QED
      BY <1>1, <1>3, <1>4, <2>1, AllClicked
  <1>6. QED
    BY <1>5

(* preclick on the map.                                                    *)
LEMMA ClickCloses ==
    ASSUME NEW r, RegInv(r)
    PROVE  RegInv(CloseAll(r, Popups)) /\ Still(r, CloseAll(r, Popups))
  <1> DEFINE V == {v \in Reg : RegInv(v) /\ Still(r, v)}
  <1>1. IsFiniteSet(Popups)
    BY LayersAssumption, FS_Subset DEF Layers
  <1>2. r \in V
    BY DEF RegInv, RegWhole, RegSound, Still, SameHosts
  <1>3. ASSUME NEW p \in Popups, NEW v \in V
        PROVE  (IF p \in v.mapped THEN ClosePopup(v, p) ELSE v) \in V
    <2> DEFINE a == ClosePopup(v, p)
    <2>1. RegInv(a) /\ Still(v, a)
      BY <1>3, Closes
    <2> HIDE DEF a
    <2>2. Still(r, a)
      BY <1>3, <2>1, StillStill
    <2>3. a \in V
      BY <2>1, <2>2 DEF RegInv, RegWhole, RegSound
    <2>4. QED
      BY <1>3, <2>3 DEF a
  <1> HIDE DEF V
  <1>4. CloseAll(r, Popups) \in V
    BY <1>1, <1>2, <1>3, AllClosed
  <1>5. QED
    BY <1>4 DEF V

Membered(r, g, S) == [r EXCEPT !.members[g] = S]

(* What groups have as members and layers as popups is no matter of the    *)
(* map.                                                                    *)
LEMMA MembersChange ==
    ASSUME NEW r, RegInv(r), NEW g \in Groups, NEW S \in SUBSET Leaves
    PROVE  LET n == Membered(r, g, S) IN
           /\ RegInv(n) /\ n.popupOf = r.popupOf
           /\ n.mapped = r.mapped /\ n.layers = r.layers
  <1> DEFINE M == [r.members EXCEPT ![g] = S]
             n == [r EXCEPT !.members = M]
  <1>1. r \in Reg /\ RegSound(r, Waits(r))
    BY DEF RegInv, RegWhole, RegSound
  <1>2. M \in [Groups -> SUBSET Leaves]
    <2>1. r.members \in [Groups -> SUBSET Leaves]
      BY <1>1 DEF Reg
    <2>2. QED
      BY <2>1
  <1>3. Membered(r, g, S) = n
    BY DEF Membered
  <1> HIDE DEF M
  <1>4. n \in Reg
    BY <1>1, <1>2 DEF Reg
  <1>5. /\ n.loaded = r.loaded /\ n.waiting = r.waiting /\ n.layers = r.layers
        /\ n.mapped = r.mapped /\ n.shows = r.shows /\ n.popupOf = r.popupOf
    BY <1>1 DEF Reg
  <1>6. /\ n.handlersAdded = r.handlersAdded /\ n.listening = r.listening
        /\ n.source = r.source /\ n.current = r.current
        /\ n.guards = r.guards /\ n.credits = r.credits
        /\ n.control = r.control /\ n.early = r.early /\ n.strayed = r.strayed
    BY <1>1 DEF Reg
  <1> HIDE DEF n
  <1>7. Showing(n) /\ ToCome(n, Waits(n)) /\ Listens(n)
    BY <1>1, <1>5, <1>6 DEF RegSound, Showing, ToCome, Listens, Waits
  <1>8. OnePopupAtMost(n) /\ Guarding(n) /\ Crediting(n)
    BY <1>1, <1>5, <1>6 DEF RegSound, OnePopupAtMost, Guarding, Crediting
  <1>9. Unseen(n) /\ Once(n.waiting) /\ KnowsOpen(n)
    BY <1>5, <1>6 DEF RegInv, RegWhole, Unseen, KnowsOpen
  <1>10. QED
    BY <1>3, <1>4, <1>5, <1>7, <1>8, <1>9 DEF RegInv, RegWhole, RegSound

Tied(r, l, p, H) == [r EXCEPT !.popupOf[l] = p, !.handlersAdded = H, !.listening = H]

LEMMA PopupTied ==
    ASSUME NEW r, RegInv(r), NEW l \in Hosts, NEW p \in Popups \cup {NoPopup},
           NEW H, H = IF p = NoPopup THEN r.listening \ {l} ELSE r.listening \cup {l}
    PROVE  LET n == Tied(r, l, p, H) IN RegInv(n) /\ n.mapped = r.mapped
  <1> DEFINE O == [r.popupOf EXCEPT ![l] = p]
             n == [r EXCEPT !.popupOf = O, !.handlersAdded = H, !.listening = H]
  <1>1. r \in Reg /\ RegSound(r, Waits(r)) /\ r.listening \in SUBSET Hosts
    BY DEF RegInv, RegWhole, RegSound, Reg
  <1>2. O \in [Hosts -> Popups \cup {NoPopup}] /\ H \in SUBSET Hosts
    <2>1. r.popupOf \in [Hosts -> Popups \cup {NoPopup}]
      BY <1>1 DEF Reg
    <2>2. QED
      BY <1>1, <2>1
  <1>3. Tied(r, l, p, H) = n
    BY DEF Tied
  <1>4. \A k \in Hosts : O[k] = IF k = l THEN p ELSE r.popupOf[k]
    BY <1>1 DEF Reg
  <1> HIDE DEF O
  <1>5. n \in Reg
    BY <1>1, <1>2 DEF Reg
  <1>6. n.popupOf = O /\ n.handlersAdded = H /\ n.listening = H
    BY <1>1 DEF Reg
  <1>7. /\ n.loaded = r.loaded /\ n.waiting = r.waiting /\ n.layers = r.layers
        /\ n.mapped = r.mapped /\ n.shows = r.shows
    BY <1>1 DEF Reg
  <1>8. /\ n.source = r.source /\ n.current = r.current
        /\ n.guards = r.guards /\ n.credits = r.credits
        /\ n.control = r.control /\ n.early = r.early /\ n.strayed = r.strayed
    BY <1>1 DEF Reg
  <1> HIDE DEF n
  <1>9. Listens(n)
    <2>1. \A k \in Hosts : k \in r.listening <=> r.popupOf[k] # NoPopup
      BY <1>1 DEF RegSound, Listens
    <2>2. ASSUME NEW k \in Hosts PROVE k \in n.listening <=> n.popupOf[k] # NoPopup
      <3>1. CASE k = l
        BY <1>4, <1>6, <3>1
      <3>2. CASE k # l
        BY <1>4, <1>6, <2>1, <3>2
      <3>3. QED
        BY <3>1, <3>2
    <2>3. QED
      BY <1>6, <2>2 DEF Listens
  <1>10. Showing(n) /\ ToCome(n, Waits(n))
    BY <1>1, <1>7, <1>8 DEF RegSound, Showing, ToCome, Waits
  <1>11. OnePopupAtMost(n) /\ Guarding(n) /\ Crediting(n)
    BY <1>1, <1>7, <1>8 DEF RegSound, OnePopupAtMost, Guarding, Crediting
  <1>12. Unseen(n) /\ Once(n.waiting) /\ KnowsOpen(n)
    BY <1>7, <1>8 DEF RegInv, RegWhole, Unseen, KnowsOpen
  <1>13. QED
    BY <1>3, <1>5, <1>7, <1>9, <1>10, <1>11, <1>12 DEF RegInv, RegWhole,
       RegSound

(* The attribution control counts layers that wait as well.                *)
LEMMA CreditsCounted ==
    ASSUME NEW r, RegInv(r), NEW c, c = r.credits + Cardinality(Credited \cap r.layers),
           NEW k \in 0..MaxControls
    PROVE  LET n == [r EXCEPT !.control = TRUE, !.controls = k, !.credits = c] IN
           RegInv(n) /\ n.mapped = r.mapped
  <1> DEFINE yes == TRUE
             n == [r EXCEPT !.control = yes, !.controls = k, !.credits = c]
  <1>1. r \in Reg /\ RegSound(r, Waits(r)) /\ r.mapped \subseteq r.layers /\ r.credits \in Nat
    BY ViewTells DEF RegInv, RegWhole, RegSound, Reg
  <1> DEFINE a == Cardinality(Credited \cap r.mapped)
             b == Cardinality(Credited \cap r.layers)
  <1>2. a \in Nat /\ b \in Nat /\ a <= b
    <2>1. Credited \cap r.layers \subseteq Layers
      BY HostsAndPopups
    <2>2. IsFiniteSet(Credited \cap r.layers)
      BY <2>1, LayersAssumption, FS_Subset
    <2>3. Credited \cap r.mapped \subseteq Credited \cap r.layers
      BY <1>1
    <2>4. QED
      BY <2>2, <2>3, FS_Subset, FS_CardinalityType
  <1>3. c = r.credits + b
    OBVIOUS
  <1> HIDE DEF a, b
  <1>4. c \in Nat /\ c >= a
    BY <1>1, <1>2, <1>3
  <1>5. n \in Reg
    <2>1. yes \in BOOLEAN
      OBVIOUS
    <2> HIDE DEF yes
    <2>2. QED
      BY <1>1, <1>4, <2>1 DEF Reg
  <1>6. /\ n.loaded = r.loaded /\ n.waiting = r.waiting /\ n.layers = r.layers
        /\ n.mapped = r.mapped /\ n.shows = r.shows /\ n.popupOf = r.popupOf
    BY <1>1 DEF Reg
  <1>7. /\ n.handlersAdded = r.handlersAdded /\ n.listening = r.listening
        /\ n.source = r.source /\ n.current = r.current
        /\ n.guards = r.guards /\ n.credits = c
        /\ n.early = r.early /\ n.strayed = r.strayed
    BY <1>1 DEF Reg
  <1> HIDE DEF n
  <1>8. Showing(n) /\ ToCome(n, Waits(n)) /\ Listens(n)
    BY <1>1, <1>6, <1>7 DEF RegSound, Showing, ToCome, Listens, Waits
  <1>9. OnePopupAtMost(n) /\ Guarding(n)
    BY <1>1, <1>6, <1>7 DEF RegSound, OnePopupAtMost, Guarding
  <1>10. Crediting(n)
    BY <1>4, <1>6, <1>7 DEF Crediting, a
  <1>11. Unseen(n) /\ Once(n.waiting) /\ KnowsOpen(n)
    BY <1>6, <1>7 DEF RegInv, RegWhole, Unseen, KnowsOpen
  <1>12. QED
    BY <1>5, <1>6, <1>8, <1>9, <1>10, <1>11 DEF RegInv, RegWhole, RegSound, n

LEMMA Clears ==
    ASSUME NEW r, RegInv(r), NEW g \in Groups
    PROVE  LET n == ClearAll(g, r, r.members[g]) IN RegInv(n) /\ Gone(r, n)
  <1> DEFINE T == r.members[g]
             V == {v \in Reg : RegInv(v) /\ Gone(r, v)}
  <1>1. r \in Reg
    BY DEF RegInv, RegWhole, RegSound
  <1>2. T \subseteq Leaves /\ IsFiniteSet(T)
    BY <1>1, FiniteMembers
  <1>3. r \in V
    BY <1>1, NotGone
  <1> HIDE DEF T
  <1>4. ASSUME NEW i \in T, NEW v \in V
        PROVE  (IF g \in v.mapped THEN RemoveLeaf(v, i) ELSE v) \in V
    <2>1. i \in Layers
      BY <1>2, HostsAndPopups
    <2> DEFINE a == RemoveLeaf(v, i)
    <2>2. RegInv(a) /\ Gone(v, a)
      BY <1>4, <2>1, RemovesLeaf
    <2> HIDE DEF a
    <2>3. Gone(r, a) /\ a \in Reg
      BY <1>4, <2>2, GoneGone DEF RegInv, RegWhole, RegSound
    <2>4. QED
      BY <1>4, <2>2, <2>3 DEF a
  <1> HIDE DEF V
  <1>5. ClearAll(g, r, T) \in V
    BY <1>2, <1>3, <1>4, AllCleared
  <1>6. QED
    BY <1>5 DEF V, T

LEMMA NewMap == LayersInit => RegInv(reg)
  <1> SUFFICES ASSUME LayersInit PROVE RegInv(reg)
    OBVIOUS
  <1>1. PICK control \in BOOLEAN :
          reg = [loaded |-> FALSE, layers |-> {}, waiting |-> <<>>, mapped |-> {},
                 shows |-> [l \in Layers |-> 0],
                 members |-> [g \in Groups |-> {}],
                 popupOf |-> [l \in Leaves \cup Groups |-> NoPopup],
                 handlersAdded |-> {}, listening |-> {},
                 source |-> [p \in Popups |-> NoSource],
                 current |-> NoPopup, guards |-> {}, credits |-> 0,
                 control |-> control, controls |-> 0, early |-> {},
                 strayed |-> FALSE]
    BY DEF LayersInit
  <1>2. /\ reg.loaded = FALSE /\ reg.layers = {} /\ reg.waiting = <<>> /\ reg.mapped = {}
        /\ reg.shows = [l \in Layers |-> 0]
        /\ reg.popupOf = [l \in Hosts |-> NoPopup]
        /\ reg.handlersAdded = {} /\ reg.listening = {}
        /\ reg.guards = {} /\ reg.credits = 0 /\ reg.strayed = FALSE
    BY <1>1 DEF Hosts
  <1>3. reg \in Reg
    <2>1. [l \in Layers |-> 0] \in [Layers -> Nat]
      OBVIOUS
    <2>2. [g \in Groups |-> {}] \in [Groups -> SUBSET Leaves]
      OBVIOUS
    <2>3. /\ [l \in Hosts |-> NoPopup] \in [Hosts -> Popups \cup {NoPopup}]
          /\ [p \in Popups |-> NoSource] \in [Popups -> Layers \cup {NoSource}]
      OBVIOUS
    <2>4. 0 \in 0..MaxControls /\ <<>> \in Seq(Hosts)
      BY LayersAssumption
    <2>5. QED
      BY <1>1, <2>1, <2>2, <2>3, <2>4 DEF Reg, Hosts
  <1>4. Showing(reg) /\ Listens(reg)
    BY <1>2 DEF Showing, Listens
  <1>5. ToCome(reg, Waits(reg)) /\ Unseen(reg) /\ Once(reg.waiting) /\ KnowsOpen(reg)
    BY <1>2 DEF ToCome, Waits, Unseen, Once, KnowsOpen, ToSet
  <1>6. OnePopupAtMost(reg) /\ Guarding(reg)
    BY <1>2 DEF OnePopupAtMost, Guarding
  <1>7. Crediting(reg)
    <2>1. Credited \cap reg.mapped = {}
      BY <1>2
    <2>2. Cardinality(Credited \cap reg.mapped) = 0
      BY <2>1, FS_EmptySet
    <2>3. QED
      BY <1>2, <2>2 DEF Crediting
  <1>8. QED
    BY <1>3, <1>4, <1>5, <1>6, <1>7 DEF RegInv, RegWhole, RegSound

(* A call leaves the registers right, and what it took off the map went    *)
(* with its popup.                                                         *)
Well == RegInv(reg') /\ RemovalClosesPopup

LEMMA GoneWell ==
    ASSUME RegInv(reg'), reg'.mapped \subseteq reg.mapped, reg'.layers \subseteq reg.layers,
           TakesAlong(reg, reg')
    PROVE  Well
  BY DEF Well, RemovalClosesPopup, TakesAlong, Hosts

LEMMA StillWell ==
    ASSUME RegInv(reg'), reg.mapped \cap Hosts \subseteq reg'.mapped
    PROVE  Well
  BY DEF Well, RemovalClosesPopup, Hosts

(* The actions, one by one.                                                *)
LEMMA CallAdd ==
    ASSUME RegInv(reg), NEW l \in Layers \ Popups, LayerAddTo(l)
    PROVE  Well
  <1> DEFINE n == AddLayer(reg, l)
  <1>1. l \in Hosts \ reg.layers
    BY HostsAndPopups DEF LayerAddTo
  <1>2. RegInv(n) /\ reg.mapped \subseteq n.mapped
    BY <1>1, AddsLayer
  <1>3. reg' = n
    BY DEF LayerAddTo
  <1> HIDE DEF n
  <1>4. QED
    BY <1>2, <1>3, StillWell

LEMMA CallRemove ==
    ASSUME RegInv(reg), NEW l \in Layers, LayerRemoveFrom(l)
    PROVE  Well
  <1> DEFINE n == RemoveLayer(reg, l)
  <1>1. RegInv(n) /\ Gone(reg, n)
    BY RemovesLayer
  <1>2. reg' = n
    BY DEF LayerRemoveFrom
  <1> HIDE DEF n
  <1>3. QED
    BY <1>1, <1>2, GoneWell DEF Gone

LEMMA CallGroupAdd ==
    ASSUME RegInv(reg), NEW g \in Groups, NEW l \in Leaves, GroupAddLayer(g, l)
    PROVE  Well
  <1> DEFINE S == reg.members[g] \cup {l}
             n == Membered(reg, g, S)
             m == AddLayer(n, l)
  <1>1. S \in SUBSET Leaves
    BY FiniteMembers DEF RegInv, RegWhole, RegSound
  <1>2. reg' = IF g \in reg.mapped THEN m ELSE n
    BY DEF GroupAddLayer, Membered
  <1> HIDE DEF S
  <1>3. RegInv(n) /\ n.mapped = reg.mapped
    BY <1>1, MembersChange
  <1> HIDE DEF n
  <1>4. CASE g \notin reg.mapped
    <2>1. reg' = n
      BY <1>2, <1>4
    <2>2. QED
      BY <1>3, <2>1, StillWell
  <1>5. CASE g \in reg.mapped
    <2>1. reg' = m
      BY <1>2, <1>5
    <2>2. CASE l \in n.layers
      <3>1. m = n
        BY <2>2 DEF AddLayer
      <3>2. QED
        BY <1>3, <2>1, <3>1, StillWell
    <2>3. CASE l \notin n.layers
      <3>1. l \in Hosts \ n.layers
        BY <2>3, HostsAndPopups
      <3>2. RegInv(m) /\ n.mapped \subseteq m.mapped
        BY <1>3, <3>1, AddsLayer
      <3> HIDE DEF m
      <3>3. QED
        BY <1>3, <2>1, <3>2, StillWell
    <2>4. QED
      BY <2>2, <2>3
  <1>6. QED
    BY <1>4, <1>5

LEMMA CallGroupRemove ==
    ASSUME RegInv(reg), NEW g \in Groups, NEW l \in Leaves, GroupRemoveLayer(g, l)
    PROVE  Well
  <1> DEFINE k == IF g \in reg.mapped THEN RemoveLayer(reg, l) ELSE reg
             S == k.members[g] \ {l}
             n == Membered(k, g, S)
  <1>1. reg' = n
    BY DEF GroupRemoveLayer, Membered
  <1>2. RegInv(k) /\ Gone(reg, k)
    <2>1. CASE g \in reg.mapped
      <3>1. k = RemoveLayer(reg, l) /\ l \in Layers
        BY <2>1, HostsAndPopups
      <3> HIDE DEF k
      <3>2. QED
        BY <3>1, RemovesLayer
    <2>2. CASE g \notin reg.mapped
      BY <2>2, NotGone
    <2>3. QED
      BY <2>1, <2>2
  <1> HIDE DEF k
  <1>3. S \in SUBSET Leaves
    BY <1>2, FiniteMembers DEF RegInv, RegWhole, RegSound
  <1> HIDE DEF S
  <1>4. RegInv(n) /\ n.mapped = k.mapped /\ n.layers = k.layers
    BY <1>2, <1>3, MembersChange
  <1> HIDE DEF n
  <1>5. QED
    BY <1>1, <1>2, <1>4, GoneWell DEF Gone, TakesAlong

LEMMA CallClear ==
    ASSUME RegInv(reg), NEW g \in Groups, ClearLayers(g)
    PROVE  Well
  <1> DEFINE k == ClearAll(g, reg, reg.members[g])
             S == {}
             n == Membered(k, g, S)
  <1>1. reg' = n
    BY GroupClears DEF Membered
  <1>2. RegInv(k) /\ Gone(reg, k)
    BY Clears
  <1> HIDE DEF k
  <1>3. S \in SUBSET Leaves
    OBVIOUS
  <1> HIDE DEF S
  <1>4. RegInv(n) /\ n.mapped = k.mapped /\ n.layers = k.layers
    BY <1>2, <1>3, MembersChange
  <1> HIDE DEF n
  <1>5. QED
    BY <1>1, <1>2, <1>4, GoneWell DEF Gone, TakesAlong

LEMMA CallLoad ==
    ASSUME RegInv(reg), Load
    PROVE  Well
  <1> DEFINE n == FoldLeft(LayerAdd, [reg EXCEPT !.loaded = TRUE, !.waiting = <<>>],
                           reg.waiting)
  <1>1. ~reg.loaded
    BY DEF Load
  <1>2. RegInv(n) /\ reg.mapped \subseteq n.mapped
    BY <1>1, Loads
  <1>3. reg' = n
    BY DEF Load, FoldLeft, MapThenFoldSet
  <1> HIDE DEF n
  <1>4. QED
    BY <1>2, <1>3, StillWell

LEMMA CallPopup ==
    ASSUME RegInv(reg), NEW p \in Popups, OpenOn(p) \/ CloseOn(p)
    PROVE  Well
  <1>1. CASE OpenOn(p)
    <2> DEFINE n == OpenPopup(reg, p)
    <2>1. RegInv(n) /\ Still(reg, n)
      BY <1>1, PopupOpens DEF OpenOn
    <2>2. reg' = n
      BY <1>1 DEF OpenOn
    <2> HIDE DEF n
    <2>3. QED
      BY <2>1, <2>2, StillWell DEF Still
  <1>2. CASE CloseOn(p)
    <2> DEFINE n == ClosePopup(reg, p)
    <2>1. RegInv(n) /\ Still(reg, n)
      BY Closes
    <2>2. reg' = n
      BY <1>2 DEF CloseOn
    <2> HIDE DEF n
    <2>3. QED
      BY <2>1, <2>2, StillWell DEF Still
  <1>3. QED
    BY <1>1, <1>2

LEMMA CallBind ==
    ASSUME RegInv(reg), NEW l \in Hosts, NEW p \in Popups, BindPopup(l, p)
    PROVE  Well
  <1> DEFINE k == SetSource(reg, p, l)
             H == k.handlersAdded \cup {l}
             I == IF l \in k.handlersAdded THEN k.listening ELSE k.listening \cup {l}
             n == Tied(k, l, p, H)
  <1>1. RegInv(k) /\ k.mapped = reg.mapped
    BY Sources
  <1>2. reg' = [k EXCEPT !.popupOf[l] = p, !.handlersAdded = H, !.listening = I]
    BY DEF BindPopup
  <1> HIDE DEF k
  <1>3. H = k.listening \cup {l} /\ I = H /\ p # NoPopup
    BY <1>1, HostsAndPopups DEF RegInv, RegWhole, RegSound, Listens
  <1>4. reg' = n
    BY <1>2, <1>3 DEF Tied
  <1> HIDE DEF H
  <1>5. RegInv(n) /\ n.mapped = k.mapped
    BY <1>1, <1>3, PopupTied
  <1> HIDE DEF n
  <1>6. QED
    BY <1>1, <1>4, <1>5, StillWell

LEMMA CallUnbind ==
    ASSUME RegInv(reg), NEW l \in Hosts, UnbindPopup(l)
    PROVE  Well
  <1> DEFINE H == reg.listening \ {l}
             I == reg.handlersAdded \ {l}
             n == Tied(reg, l, NoPopup, H)
  <1>1. reg' = [reg EXCEPT !.popupOf[l] = NoPopup, !.listening = H, !.handlersAdded = I]
    BY DEF UnbindPopup
  <1>2. I = H
    BY DEF RegInv, RegWhole, RegSound, Listens
  <1>3. reg' = n
    BY <1>1, <1>2 DEF Tied
  <1>4. RegInv(n) /\ n.mapped = reg.mapped
    BY PopupTied
  <1> HIDE DEF n
  <1>5. QED
    BY <1>3, <1>4, StillWell

LEMMA CallLayer ==
    ASSUME RegInv(reg), NEW l \in Hosts, LayerOpen(l) \/ LayerClose(l)
    PROVE  Well
  <1>1. CASE LayerOpen(l)
    <2>1. reg' \in LayerOpenPopup(reg, l, l)
      BY <1>1 DEF LayerOpen
    <2>2. RegInv(reg') /\ Still(reg, reg')
      BY <2>1, LayerOpens
    <2>3. QED
      BY <2>2, StillWell DEF Still
  <1>2. CASE LayerClose(l)
    <2> DEFINE n == LayerClosePopup(reg, l)
    <2>1. RegInv(n) /\ Still(reg, n)
      BY LayerCloses
    <2>2. reg' = n
      BY <1>2 DEF LayerClose
    <2> HIDE DEF n
    <2>3. QED
      BY <2>1, <2>2, StillWell DEF Still
  <1>3. QED
    BY <1>1, <1>2

LEMMA CallClick ==
    ASSUME RegInv(reg), NEW l \in Leaves, ClickLeaf(l)
    PROVE  Well
  <1>1. PICK n \in OpenOnClick(reg, l, l), s \in SetToSeqs(Groups) : reg' \in ClickAll(l, {n}, s)
    BY DEF ClickLeaf, ClickAll, FoldLeft, MapThenFoldSet
  <1>2. RegInv(reg') /\ Still(reg, reg')
    BY <1>1, Clicks
  <1>3. QED
    BY <1>2, StillWell DEF Still

LEMMA CallClickMap ==
    ASSUME RegInv(reg), ClickMap
    PROVE  Well
  <1> DEFINE n == CloseAll(reg, Popups)
  <1>1. RegInv(n) /\ Still(reg, n)
    BY ClickCloses
  <1>2. reg' = n
    BY MapCloses
  <1> HIDE DEF n
  <1>3. QED
    BY <1>1, <1>2, StillWell DEF Still

LEMMA CallCredits ==
    ASSUME RegInv(reg), AddCredits
    PROVE  Well
  <1> DEFINE c == reg.credits + Cardinality(Credited \cap reg.layers)
             k == reg.controls + 1
             n == [reg EXCEPT !.control = TRUE, !.controls = k, !.credits = c]
  <1>1. reg' = n
    BY DEF AddCredits
  <1>2. k \in 0..MaxControls
    <2>1. reg.controls \in 0..MaxControls /\ reg.controls < MaxControls
      BY DEF RegInv, RegWhole, RegSound, Reg, AddCredits
    <2>2. QED
      BY <2>1, LayersAssumption
  <1> HIDE DEF k
  <1>3. RegInv(n) /\ n.mapped = reg.mapped
    BY <1>2, CreditsCounted
  <1> HIDE DEF n
  <1>4. QED
    BY <1>1, <1>3, StillWell

LEMMA CallsAreWell ==
    ASSUME RegInv(reg), LayersNext
    PROVE  Well
  <1>1. CASE \E l \in Layers \ Popups : LayerAddTo(l)
    BY <1>1, CallAdd
  <1>2. CASE \E l \in Layers : LayerRemoveFrom(l)
    BY <1>2, CallRemove
  <1>3. CASE \E g \in Groups, l \in Leaves : GroupAddLayer(g, l) \/ GroupRemoveLayer(g, l)
    BY <1>3, CallGroupAdd, CallGroupRemove
  <1>4. CASE \E g \in Groups : ClearLayers(g)
    BY <1>4, CallClear
  <1>5. CASE Load
    BY <1>5, CallLoad
  <1>6. CASE \E p \in Popups : OpenOn(p) \/ CloseOn(p)
    BY <1>6, CallPopup
  <1>7. CASE \E l \in Leaves \cup Groups :
                \/ \E p \in Popups : BindPopup(l, p)
                \/ UnbindPopup(l) \/ LayerOpen(l) \/ LayerClose(l)
    <2>1. PICK l \in Hosts : \/ \E p \in Popups : BindPopup(l, p)
                             \/ UnbindPopup(l) \/ LayerOpen(l) \/ LayerClose(l)
      BY <1>7 DEF Hosts
    <2>2. QED
      BY <2>1, CallBind, CallUnbind, CallLayer
  <1>8. CASE \E l \in Leaves : ClickLeaf(l)
    BY <1>8, CallClick
  <1>9. CASE ClickMap
    BY <1>9, CallClickMap
  <1>10. CASE AddCredits
    BY <1>10, CallCredits
  <1>11. QED
    BY <1>1, <1>2, <1>3, <1>4, <1>5, <1>6, <1>7, <1>8, <1>9, <1>10
       DEF LayersNext

(* What the property says after every step is part of the invariant.       *)
LEMMA RegInvTells ==
    ASSUME RegInv(reg)
    PROVE  LayersTypeOK /\ ShownOnce /\ OnePopup /\ GuardsOpenSource /\ CreditsAreShown
  <1>1. RegWhole(reg) /\ RegSound(reg, Waits(reg)) /\ reg \in Reg
    BY DEF RegInv, RegWhole, RegSound
  <1>2. LayersTypeOK
    <2>1. reg.waiting \in Seq(Layers)
      <3>1. reg.waiting \in Seq(Hosts) /\ Hosts \subseteq Layers
        BY <1>1, HostsAndPopups DEF Reg
      <3>2. QED
        BY <3>1
    <2>2. /\ {reg.loaded, reg.control, reg.strayed} \subseteq BOOLEAN
          /\ reg.layers \subseteq Layers /\ reg.mapped \subseteq Layers
          /\ reg.shows \in [Layers -> Nat]
          /\ reg.members \in [Groups -> SUBSET Leaves]
          /\ reg.popupOf \in [Leaves \cup Groups -> Popups \cup {NoPopup}]
      BY <1>1 DEF Reg, Hosts
    <2>3. /\ reg.handlersAdded \subseteq Layers /\ reg.listening \subseteq Layers
          /\ reg.source \in [Popups -> Layers \cup {NoSource}]
          /\ reg.current \in Popups \cup {NoPopup}
          /\ reg.guards \subseteq Layers
          /\ reg.credits \in Nat /\ reg.controls \in 0..MaxControls
          /\ reg.early \subseteq Layers
      BY <1>1, HostsAndPopups DEF Reg
    <2>4. QED
      BY <2>1, <2>2, <2>3 DEF LayersTypeOK
  <1>3. ShownOnce
    <2>1. /\ reg.loaded => reg.mapped = reg.layers
          /\ ~reg.loaded => reg.mapped = {}
      BY <1>1, ViewTells
    <2>2. QED
      BY <1>1, <2>1 DEF ShownOnce, RegSound, Showing
  <1>4. OnePopup
    BY DEF RegInv, KnowsOpen, OnePopup
  <1>5. GuardsOpenSource /\ CreditsAreShown
    BY <1>1 DEF RegSound, Guarding, Crediting, GuardsOpenSource, CreditsAreShown
  <1>6. QED
    BY <1>2, <1>3, <1>4, <1>5

(***************************************************************************)
(* Through Map.addLayer and removeLayer, groups, popups, clicks, the first *)
(* view and the attribution control, in any order: what the map has and    *)
(* does not show waits for `load`, what waits is on the map unless it was  *)
(* removed early, every host listens while a popup is bound to it, and at  *)
(* most one popup is open, which the map knows.                            *)
(***************************************************************************)
THEOREM RegistersStayRight == LayersSpec => []RegInv(reg)
  <1>1. ASSUME RegInv(reg), [LayersNext]_reg PROVE RegInv(reg)'
    <2>1. CASE LayersNext
      BY <1>1, <2>1, CallsAreWell DEF Well
    <2>2. CASE UNCHANGED reg
      BY <1>1, <2>2
    <2>3. QED
      BY <1>1, <2>1, <2>2
  <1>2. QED
    BY <1>1, NewMap, PTL DEF LayersSpec

(***************************************************************************)
(* For any layers, groups and popups, and whatever is added, removed,      *)
(* bound, opened and clicked, alone or with a group, before or after the   *)
(* first view: the map, its groups, its popups and the attribution agree   *)
(* after every step, and a layer that goes takes its popup along.          *)
(***************************************************************************)
THEOREM LayersAgree == LayersSpec => RegistersAgree
  <1> DEFINE Right == LayersTypeOK /\ ShownOnce /\ OnePopup /\ GuardsOpenSource /\ CreditsAreShown
             Agrees == reg' # reg =>
                        /\ LayersTypeOK' /\ ShownOnce' /\ OnePopup'
                        /\ GuardsOpenSource' /\ CreditsAreShown'
                        /\ RemovalClosesPopup
  <1>1. RegInv(reg) => Right
    BY RegInvTells
  <1>2. RegInv(reg) /\ [LayersNext]_reg /\ Right' => [Agrees]_reg
    <2>1. SUFFICES ASSUME RegInv(reg), LayersNext, Right' PROVE Agrees
      BY DEF Agrees
    <2>2. RemovalClosesPopup
      BY <2>1, CallsAreWell DEF Well
    <2>3. QED
      BY <2>1, <2>2
  <1> HIDE DEF Right, Agrees
  <1>3. LayersSpec => [][Agrees]_reg
    BY <1>1, <1>2, RegistersStayRight, PTL DEF LayersSpec
  <1>4. QED
    BY <1>3 DEF RegistersAgree, Agrees

-----------------------------------------------------------------------------
(* The list of layers *)

(***************************************************************************)
(* Every layer is listed once and heard while the list is on the map; the  *)
(* inputs are those of the entries, of the radio buttons one is checked at *)
(* most, and each tells whether its layer is shown, unless the page hid    *)
(* overlays while a click was handled: ListingInv. A click is two loops    *)
(* over the inputs, each with all that the map and the page do about it.   *)
(***************************************************************************)

Control == [onMap : BOOLEAN, collapsed : BOOLEAN, broken : BOOLEAN,
            entries : Seq(Listable), inputs : Seq(Input),
            heard : SUBSET Listable, shown : SUBSET Listable, zoom : 0..1,
            reacts : BOOLEAN, stale : BOOLEAN]

Working(c) == c.onMap /\ ~c.broken

(* Every layer is listed once.                                             *)
ListedOnce(c) ==
    \A i, j \in 1..Len(c.entries) : c.entries[i] = c.entries[j] => i = j

(* The control hears the layers that it lists, while it is on the map.     *)
HearsListed(c) ==
    /\ c.heard \subseteq Listed(c)
    /\ ~c.onMap => c.heard = {}
    /\ Working(c) => c.heard = Listed(c)

ListSound(c) ==
    /\ c \in Control /\ Len(c.entries) <= MaxEntries
    /\ ListedOnce(c) /\ HearsListed(c)

(* Of the radio buttons one is checked at most.                            *)
OneRadio(w) ==
    \A i, j \in 1..Len(w) :
        /\ w[i].layer \in Bases /\ w[i].checked
        /\ w[j].layer \in Bases /\ w[j].checked
        => i = j

(* There is an input for each entry.                                       *)
Mirrors(c) ==
    /\ Len(c.inputs) = Len(c.entries)
    /\ \A i \in 1..Len(c.entries) :
          /\ c.inputs[i].layer = c.entries[i]
          /\ c.inputs[i].disabled = DisabledAt(c.entries[i], c.zoom)

Tells(c) == \A i \in 1..Len(c.entries) : c.inputs[i].checked = CheckedAt(c, i)

ListingInv(c) ==
    /\ ListSound(c) /\ OneRadio(c.inputs)
    /\ Working(c) => Mirrors(c)
    /\ Working(c) /\ ~c.stale => Tells(c)

-----------------------------------------------------------------------------
(* A control that changes in what it lists, or hears, or shows.            *)
LEMMA ControlIs ==
    ASSUME NEW c \in Control,
           NEW E \in Seq(Listable), NEW J \in Seq(Input),
           NEW H \in SUBSET Listable, NEW S \in SUBSET Listable,
           NEW m \in BOOLEAN, NEW b \in BOOLEAN, NEW t \in BOOLEAN, NEW z \in 0..1
    PROVE  LET n == [c EXCEPT !.entries = E, !.inputs = J, !.heard = H, !.shown = S,
                              !.onMap = m, !.broken = b, !.stale = t, !.zoom = z] IN
           /\ n \in Control
           /\ n.entries = E /\ n.inputs = J /\ n.heard = H /\ n.shown = S
           /\ n.onMap = m /\ n.broken = b /\ n.stale = t /\ n.zoom = z
           /\ n.collapsed = c.collapsed /\ n.reacts = c.reacts
  BY DEF Control

LEMMA UpdateIs ==
    ASSUME NEW c \in Control
    PROVE  LET n == UpdateList(c) IN
           /\ n \in Control /\ n.stale = FALSE
           /\ n.entries = c.entries /\ n.heard = c.heard /\ n.shown = c.shown
           /\ n.onMap = c.onMap /\ n.broken = c.broken /\ n.zoom = c.zoom
           /\ n.collapsed = c.collapsed /\ n.reacts = c.reacts
           /\ Len(n.inputs) = Len(c.entries)
           /\ \A i \in 1..Len(c.entries) :
                 /\ n.inputs[i].layer = c.entries[i]
                 /\ n.inputs[i].checked = CheckedAt(c, i)
                 /\ n.inputs[i].disabled = DisabledAt(c.entries[i], c.zoom)
  <1> DEFINE J == [i \in 1..Len(c.entries) |->
                     [layer |-> c.entries[i], checked |-> CheckedAt(c, i),
                      disabled |-> DisabledAt(c.entries[i], c.zoom)]]
             n == [c EXCEPT !.inputs = J, !.stale = FALSE]
  <1>1. UpdateList(c) = n
    BY DEF UpdateList
  <1>2. c.entries \in Seq(Listable) /\ Len(c.entries) \in Nat
    BY LenProperties DEF Control
  <1>3. J \in Seq(Input)
    <2>1. ASSUME NEW i \in 1..Len(c.entries) PROVE J[i] \in Input
      <3>1. c.entries[i] \in Listable
        BY <1>2, ElementOfSeq
      <3>2. CheckedAt(c, i) \in BOOLEAN /\ DisabledAt(c.entries[i], c.zoom) \in BOOLEAN
        BY DEF CheckedAt, DisabledAt
      <3>3. QED
        BY <3>1, <3>2 DEF Input
    <2>2. J \in [1..Len(c.entries) -> Input]
      BY <2>1
    <2>3. QED
      BY <1>2, <2>2, SeqDef
  <1>4. /\ Len(J) = Len(c.entries)
        /\ \A i \in 1..Len(c.entries) :
              /\ J[i].layer = c.entries[i]
              /\ J[i].checked = CheckedAt(c, i)
              /\ J[i].disabled = DisabledAt(c.entries[i], c.zoom)
    BY <1>2
  <1> HIDE DEF J
  <1>5. /\ n \in Control /\ n.stale = FALSE /\ n.inputs = J
        /\ n.entries = c.entries /\ n.heard = c.heard /\ n.shown = c.shown
        /\ n.onMap = c.onMap /\ n.broken = c.broken /\ n.zoom = c.zoom
        /\ n.collapsed = c.collapsed /\ n.reacts = c.reacts
    BY <1>3 DEF Control
  <1> HIDE DEF n
  <1>6. QED
    BY <1>1, <1>4, <1>5

(* What is listed, and heard, decides whether a new list is right.         *)
LEMMA ListUpdated ==
    ASSUME NEW c, ListSound(c)
    PROVE  ListingInv(UpdateList(c))
  <1> DEFINE n == UpdateList(c)
  <1>1. /\ n \in Control /\ n.entries = c.entries /\ n.heard = c.heard
        /\ n.shown = c.shown /\ n.onMap = c.onMap /\ n.broken = c.broken
        /\ n.zoom = c.zoom /\ Len(n.inputs) = Len(c.entries)
        /\ \A i \in 1..Len(c.entries) :
              /\ n.inputs[i].layer = c.entries[i]
              /\ n.inputs[i].checked = CheckedAt(c, i)
              /\ n.inputs[i].disabled = DisabledAt(c.entries[i], c.zoom)
    BY UpdateIs DEF ListSound
  <1> HIDE DEF n
  <1>2. ListSound(n)
    BY <1>1 DEF ListSound, ListedOnce, HearsListed, Working, Listed
  <1>3. Mirrors(n)
    BY <1>1 DEF Mirrors
  <1>4. Tells(n)
    BY <1>1 DEF Tells, CheckedAt
  <1>5. OneRadio(n.inputs)
    <2> SUFFICES ASSUME NEW i \in 1..Len(n.inputs), NEW j \in 1..Len(n.inputs),
                        n.inputs[i].layer \in Bases, n.inputs[i].checked,
                        n.inputs[j].layer \in Bases, n.inputs[j].checked
                 PROVE  i = j
      BY DEF OneRadio
    <2>1. /\ CheckedAt(c, i) /\ c.entries[i] \in Bases /\ i \in 1..Len(c.entries)
          /\ CheckedAt(c, j) /\ c.entries[j] \in Bases /\ j \in 1..Len(c.entries)
      BY <1>1
    <2>2. /\ \A k \in (i + 1)..Len(c.entries) :
                ~(c.entries[k] \in Bases /\ c.entries[k] \in c.shown)
          /\ \A k \in (j + 1)..Len(c.entries) :
                ~(c.entries[k] \in Bases /\ c.entries[k] \in c.shown)
          /\ c.entries[i] \in c.shown /\ c.entries[j] \in c.shown
      BY <2>1 DEF CheckedAt
    <2>3. Len(c.entries) \in Nat
      BY LenProperties DEF ListSound, Control
    <2>4. ~(i < j) /\ ~(j < i)
      BY <2>1, <2>2, <2>3
    <2>5. QED
      BY <2>1, <2>4
  <1>6. QED
    BY <1>2, <1>3, <1>4, <1>5 DEF ListingInv, n

(* A layer that is not heard is not listed, or the list is not to be used. *)
LEMMA UnheardKeeps ==
    ASSUME NEW c, ListingInv(c), NEW S \in SUBSET Listable,
           NEW l, l \notin c.heard, \A k \in Listable : k # l => (k \in S <=> k \in c.shown)
    PROVE  ListingInv([c EXCEPT !.shown = S])
  <1> DEFINE n == [c EXCEPT !.shown = S]
  <1>1. c \in Control
    BY DEF ListingInv, ListSound
  <1>2. /\ n \in Control /\ n.entries = c.entries /\ n.inputs = c.inputs
        /\ n.heard = c.heard /\ n.shown = S /\ n.onMap = c.onMap
        /\ n.broken = c.broken /\ n.stale = c.stale /\ n.zoom = c.zoom
    BY <1>1 DEF Control
  <1> HIDE DEF n
  <1>3. ListSound(n) /\ OneRadio(n.inputs)
    BY <1>2 DEF ListingInv, ListSound, ListedOnce, HearsListed, Working, Listed
  <1>4. Working(n) => Mirrors(n)
    BY <1>2 DEF ListingInv, Working, Mirrors
  <1>5. ASSUME Working(n), ~n.stale PROVE Tells(n)
    <2>1. Tells(c) /\ c.heard = Listed(c)
      BY <1>2, <1>5 DEF ListingInv, ListSound, HearsListed, Working
    <2>2. \A i \in 1..Len(c.entries) : c.entries[i] \in Listable /\ c.entries[i] # l
      <3> SUFFICES ASSUME NEW i \in 1..Len(c.entries)
                   PROVE  c.entries[i] \in Listable /\ c.entries[i] # l
        OBVIOUS
      <3>1. c.entries \in Seq(Listable)
        BY <1>1 DEF Control
      <3>2. c.entries[i] \in Listed(c)
        BY <3>1 DEF Listed, ToSet
      <3>3. QED
        BY <2>1, <3>1, <3>2, ElementOfSeq
    <2>3. \A i \in 1..Len(c.entries) : c.entries[i] \in S <=> c.entries[i] \in c.shown
      BY <2>2
    <2>4. Len(c.entries) \in Nat
      BY <1>1, LenProperties DEF Control
    <2>5. ASSUME NEW i \in 1..Len(c.entries) PROVE CheckedAt(n, i) = CheckedAt(c, i)
      <3>1. (i + 1)..Len(c.entries) \subseteq 1..Len(c.entries)
        BY <2>4
      <3>2. QED
        BY <1>2, <2>3, <3>1 DEF CheckedAt
    <2>6. QED
      BY <1>2, <2>1, <2>5 DEF Tells
  <1>6. QED
    BY <1>3, <1>4, <1>5 DEF ListingInv, n

(* What each step of the loop keeps, holds after it.                       *)
OverlaysHidden(b, handling) ==
    FoldSet(LAMBDA l, a : HideLayer(a, l, handling), b, Overlays)

LEMMA AllHidden ==
    ASSUME NEW V, NEW b \in V, NEW handling,
           \A l \in Overlays, v \in V : HideLayer(v, l, handling) \in V
    PROVE  OverlaysHidden(b, handling) \in V
  <1> DEFINE T == Overlays
             Step(v, l) == HideLayer(v, l, handling)
             f == [z \in T \X V |-> Step(z[2], z[1])]
             c == [S \in SUBSET T |-> CHOOSE x \in S : TRUE]
             Iter(g) == [S \in SUBSET T |-> IF S = {} THEN b
                            ELSE LET x == CHOOSE x \in S : TRUE IN Step(g[S \ {x}], x)]
             h == CHOOSE h : h = Iter(h)
  <1>0. IsFiniteSet(T)
    BY ListAssumption, FS_Subset
  <1>1. OverlaysHidden(b, handling) = h[T]
    BY DEF OverlaysHidden, FoldSet, MapThenFoldSet
  <1>2. \A i \in T, v \in V : Step(v, i) \in V
    OBVIOUS
  <1> HIDE DEF Step, T
  <1>3. Chooses(c, T)
    BY DEF Chooses
  <1>4. \A i \in T, v \in V : f[<<i, v>>] = Step(v, i)
    OBVIOUS
  <1>5. PICK g : IsFold(g, f, c, b, T, V)
    <2>1. StaysWithin(f, T, V)
      BY <1>2, <1>4 DEF StaysWithin
    <2> HIDE DEF c, f
    <2>2. QED
      BY <1>0, <1>3, <2>1, FoldFound
  <1> HIDE DEF f
  <1>6. g = Iter(g)
    <2>1. \A S \in SUBSET T : S # {} => g[S] = Step(g[S \ {c[S]}], c[S])
      <3> SUFFICES ASSUME NEW S \in SUBSET T, S # {}
                   PROVE  g[S] = Step(g[S \ {c[S]}], c[S])
        OBVIOUS
      <3>1. c[S] \in T /\ S \ {c[S]} \in SUBSET T
        BY <1>3 DEF Chooses
      <3> HIDE DEF c
      <3>2. g[S] = f[<<c[S], g[S \ {c[S]}]>>] /\ g[S \ {c[S]}] \in V
        BY <1>5, <3>1 DEF IsFold
      <3>3. QED
        BY <1>4, <3>1, <3>2
    <2>2. g = [S \in SUBSET T |-> g[S]] /\ g[{}] = b
      BY <1>5 DEF IsFold
    <2>3. QED
      BY <2>1, <2>2
  <1>7. h = Iter(h)
    BY <1>6
  <1> HIDE DEF h
  <1>8. h[{}] = b /\ \A S \in SUBSET T : S # {} => h[S] = Step(h[S \ {c[S]}], c[S])
    BY <1>7
  <1>9. StepsStay(h, c, T, V)
    <2> SUFFICES ASSUME NEW S \in SUBSET T, S # {}, h[S \ {c[S]}] \in V
                 PROVE  h[S] \in V
      BY DEF StepsStay
    <2>1. c[S] \in T
      BY <1>3 DEF Chooses
    <2> HIDE DEF c
    <2>2. QED
      BY <1>2, <1>8, <2>1
  <1> HIDE DEF c
  <1>10. \A S \in SUBSET T : h[S] \in V
    BY <1>0, <1>3, <1>8, <1>9, FoldStays
  <1>11. QED
    BY <1>1, <1>10

LEMMA BaseChangedIs ==
    ASSUME NEW c, NEW handling
    PROVE  BaseChanged(c, handling) =
             IF ~c.reacts THEN c
             ELSE [OverlaysHidden(c, handling) EXCEPT
                     !.stale = @ \/ (handling /\ c.shown \cap Overlays # {})]
  BY DEF BaseChanged, OverlaysHidden, FoldSet, MapThenFoldSet

-----------------------------------------------------------------------------
(* The map shows and hides a layer: a list that hears it is made anew.     *)
ListStates == {v \in Control : ListingInv(v)}

LEMMA ShownIs ==
    ASSUME NEW c, ListingInv(c), NEW S \in SUBSET Listable
    PROVE  ListSound([c EXCEPT !.shown = S])
  <1> DEFINE n == [c EXCEPT !.shown = S]
  <1>1. c \in Control
    BY DEF ListingInv, ListSound
  <1>2. /\ n \in Control /\ n.entries = c.entries
        /\ n.heard = c.heard /\ n.onMap = c.onMap /\ n.broken = c.broken
    BY <1>1 DEF Control
  <1> HIDE DEF n
  <1>3. ListSound(n)
    BY <1>2 DEF ListingInv, ListSound, ListedOnce, HearsListed, Working, Listed
  <1>4. QED
    BY <1>3 DEF n

LEMMA HideKeeps ==
    ASSUME NEW c, ListingInv(c), NEW l \in Listable
    PROVE  ListingInv(HideLayer(c, l, FALSE))
  <1> DEFINE n == [c EXCEPT !.shown = c.shown \ {l}]
  <1>1. c.shown \ {l} \in SUBSET Listable
    BY DEF ListingInv, ListSound, Control
  <1>2. CASE l \notin c.shown
    BY <1>2 DEF HideLayer
  <1>3. CASE l \in c.shown /\ l \in c.heard
    <2>1. HideLayer(c, l, FALSE) = UpdateList(n)
      BY <1>3 DEF HideLayer
    <2>2. ListSound(n)
      BY <1>1, ShownIs
    <2> HIDE DEF n
    <2>3. QED
      BY <2>1, <2>2, ListUpdated
  <1>4. CASE l \in c.shown /\ l \notin c.heard
    <2>1. HideLayer(c, l, FALSE) = n
      BY <1>4 DEF HideLayer
    <2>2. ListingInv(n)
      BY <1>1, <1>4, UnheardKeeps
    <2> HIDE DEF n
    <2>3. QED
      BY <2>1, <2>2
  <1>5. QED
    BY <1>2, <1>3, <1>4

LEMMA BaseChangedKeeps ==
    ASSUME NEW c, ListingInv(c)
    PROVE  ListingInv(BaseChanged(c, FALSE))
  <1>1. c \in ListStates
    BY DEF ListStates, ListingInv, ListSound
  <1>2. \A l \in Overlays, v \in ListStates : HideLayer(v, l, FALSE) \in ListStates
    <2> SUFFICES ASSUME NEW l \in Overlays, NEW v \in ListStates
                 PROVE  HideLayer(v, l, FALSE) \in ListStates
      OBVIOUS
    <2>1. l \in Listable /\ ListingInv(v)
      BY DEF ListStates, Listable
    <2>2. ListingInv(HideLayer(v, l, FALSE))
      BY <2>1, HideKeeps
    <2>3. QED
      BY <2>2 DEF ListStates, ListingInv, ListSound
  <1> DEFINE a == OverlaysHidden(c, FALSE)
  <1>3. a \in ListStates
    BY <1>1, <1>2, AllHidden
  <1> HIDE DEF a
  <1>4. a \in Control /\ ListingInv(a) /\ a.stale \in BOOLEAN
    BY <1>3 DEF ListStates, Control
  <1>5. [a EXCEPT !.stale = @ \/ (FALSE /\ c.shown \cap Overlays # {})] = a
    BY <1>4 DEF Control
  <1>6. QED
    BY <1>4, <1>5, BaseChangedIs DEF a

LEMMA ShowKeeps ==
    ASSUME NEW c, ListingInv(c), NEW l \in Listable
    PROVE  ListingInv(ShowLayer(c, l, FALSE))
  <1> DEFINE n == [c EXCEPT !.shown = c.shown \cup {l}]
             k == UpdateList(n)
  <1>1. c.shown \cup {l} \in SUBSET Listable
    BY DEF ListingInv, ListSound, Control
  <1>2. CASE l \in c.shown
    BY <1>2 DEF ShowLayer
  <1>3. CASE l \notin c.shown /\ l \in c.heard
    <2>1. ShowLayer(c, l, FALSE) = IF l \in Bases THEN BaseChanged(k, FALSE) ELSE k
      BY <1>3 DEF ShowLayer
    <2>2. ListSound(n)
      BY <1>1, ShownIs
    <2> HIDE DEF n
    <2>3. ListingInv(k)
      BY <2>2, ListUpdated
    <2> HIDE DEF k
    <2>4. QED
      BY <2>1, <2>3, BaseChangedKeeps
  <1>4. CASE l \notin c.shown /\ l \notin c.heard
    <2>1. ShowLayer(c, l, FALSE) = n
      BY <1>4 DEF ShowLayer
    <2>2. ListingInv(n)
      BY <1>1, <1>4, UnheardKeeps
    <2> HIDE DEF n
    <2>3. QED
      BY <2>1, <2>2
  <1>5. QED
    BY <1>2, <1>3, <1>4

(* While a click is handled the list stays as it is, and stale if it was.  *)
Handling(c) ==
    {v \in Control :
        /\ v.entries = c.entries /\ v.inputs = c.inputs /\ v.heard = c.heard
        /\ v.onMap = c.onMap /\ v.broken = c.broken /\ v.zoom = c.zoom
        /\ c.stale => v.stale}

LEMMA HideHandled ==
    ASSUME NEW c \in Control, NEW v \in Handling(c), NEW l \in Listable
    PROVE  LET n == HideLayer(v, l, TRUE) IN
           /\ n \in Handling(c) /\ n.shown = v.shown \ {l} /\ n.stale = v.stale
  <1> DEFINE S == v.shown \ {l}
             n == [v EXCEPT !.shown = S]
  <1>1. v \in Control /\ S \in SUBSET Listable
    BY DEF Handling, Control
  <1>2. CASE l \notin v.shown
    <2>1. HideLayer(v, l, TRUE) = v /\ S = v.shown
      BY <1>2 DEF HideLayer
    <2>2. QED
      BY <2>1
  <1>3. CASE l \in v.shown
    <2>1. HideLayer(v, l, TRUE) = n
      BY <1>3 DEF HideLayer
    <2> HIDE DEF S
    <2>2. /\ n \in Control /\ n.shown = S /\ n.stale = v.stale
          /\ n.entries = v.entries /\ n.inputs = v.inputs /\ n.heard = v.heard
          /\ n.onMap = v.onMap /\ n.broken = v.broken /\ n.zoom = v.zoom
      BY <1>1 DEF Control
    <2> HIDE DEF n
    <2>3. n \in Handling(c)
      BY <2>2 DEF Handling
    <2>4. QED
      BY <2>1, <2>2, <2>3 DEF S
  <1>4. QED
    BY <1>2, <1>3

(* A page that hides overlays meanwhile makes the list stale.              *)
LEMMA BaseHandled ==
    ASSUME NEW c \in Control, NEW v \in Handling(c)
    PROVE  LET n == BaseChanged(v, TRUE) IN
           /\ n \in Handling(c)
           /\ v.shown \ Overlays \subseteq n.shown /\ n.shown \subseteq v.shown
           /\ v.stale => n.stale
           /\ ~n.stale => n.shown = v.shown
  <1> DEFINE V == {u \in Handling(c) : /\ v.shown \ Overlays \subseteq u.shown
                                       /\ u.shown \subseteq v.shown
                                       /\ u.stale = v.stale}
             a == OverlaysHidden(v, TRUE)
             t == v.stale \/ v.shown \cap Overlays # {}
             n == [a EXCEPT !.stale = t]
  <1>1. CASE ~v.reacts
    <2>1. BaseChanged(v, TRUE) = v
      BY <1>1, BaseChangedIs
    <2>2. QED
      BY <2>1
  <1>2. CASE v.reacts
    <2>1. v \in V
      OBVIOUS
    <2>2. ASSUME NEW l \in Overlays, NEW u \in V PROVE HideLayer(u, l, TRUE) \in V
      <3> DEFINE k == HideLayer(u, l, TRUE)
      <3>1. k \in Handling(c) /\ k.shown = u.shown \ {l} /\ k.stale = u.stale
        BY HideHandled DEF Listable
      <3> HIDE DEF k
      <3>2. k \in V
        BY <3>1
      <3>3. QED
        BY <3>2 DEF k
    <2>3. a \in V
      <3> HIDE DEF V
      <3>1. QED
        BY <2>1, <2>2, AllHidden
    <2> HIDE DEF a
    <2>4. BaseChanged(v, TRUE) = [a EXCEPT !.stale = a.stale \/ v.shown \cap Overlays # {}]
      BY <1>2, BaseChangedIs DEF a
    <2>5. a.stale = v.stale /\ a \in Control /\ v.stale \in BOOLEAN
      BY <2>3 DEF Handling, Control
    <2>6. BaseChanged(v, TRUE) = n
      BY <2>4, <2>5
    <2>7. t \in BOOLEAN
      BY <2>5
    <2>8. /\ v.stale => t
          /\ ~t => v.shown \cap Overlays = {}
      OBVIOUS
    <2> HIDE DEF t
    <2>9. /\ n \in Control /\ n.stale = t /\ n.shown = a.shown
          /\ n.entries = a.entries /\ n.inputs = a.inputs /\ n.heard = a.heard
          /\ n.onMap = a.onMap /\ n.broken = a.broken /\ n.zoom = a.zoom
      BY <2>5, <2>7 DEF Control
    <2> HIDE DEF n
    <2>10. n \in Handling(c)
      BY <2>3, <2>8, <2>9 DEF Handling
    <2>11. v.shown \ Overlays \subseteq a.shown /\ a.shown \subseteq v.shown
      BY <2>3
    <2>12. QED
      BY <2>6, <2>8, <2>9, <2>10, <2>11
  <1>3. QED
    BY <1>1, <1>2

LEMMA ShowHandled ==
    ASSUME NEW c \in Control, NEW v \in Handling(c), NEW l \in Listable
    PROVE  LET n == ShowLayer(v, l, TRUE) IN
           /\ n \in Handling(c)
           /\ (v.shown \cup {l}) \ Overlays \subseteq n.shown
           /\ n.shown \subseteq v.shown \cup {l}
           /\ v.stale => n.stale
           /\ ~n.stale => n.shown = v.shown \cup {l}
  <1> DEFINE S == v.shown \cup {l}
             n == [v EXCEPT !.shown = S]
  <1>1. v \in Control /\ S \in SUBSET Listable
    BY DEF Handling, Control
  <1>2. CASE l \in v.shown
    <2>1. ShowLayer(v, l, TRUE) = v /\ S = v.shown
      BY <1>2 DEF ShowLayer
    <2>2. QED
      BY <2>1
  <1>3. CASE l \notin v.shown
    <2>1. ShowLayer(v, l, TRUE) = IF l \in v.heard /\ l \in Bases
                                    THEN BaseChanged(n, TRUE) ELSE n
      BY <1>3 DEF ShowLayer
    <2> HIDE DEF S
    <2>2. /\ n \in Control /\ n.shown = S /\ n.stale = v.stale
          /\ n.entries = v.entries /\ n.inputs = v.inputs /\ n.heard = v.heard
          /\ n.onMap = v.onMap /\ n.broken = v.broken /\ n.zoom = v.zoom
      BY <1>1 DEF Control
    <2> HIDE DEF n
    <2>3. n \in Handling(c)
      BY <2>2 DEF Handling
    <2> DEFINE k == BaseChanged(n, TRUE)
    <2>4. /\ k \in Handling(c)
          /\ n.shown \ Overlays \subseteq k.shown /\ k.shown \subseteq n.shown
          /\ n.stale => k.stale
          /\ ~k.stale => k.shown = n.shown
      BY <2>3, BaseHandled
    <2> HIDE DEF k
    <2>5. ShowLayer(v, l, TRUE) = k \/ ShowLayer(v, l, TRUE) = n
      BY <2>1 DEF k
    <2>6. QED
      BY <2>2, <2>3, <2>4, <2>5 DEF S
  <1>4. QED
    BY <1>2, <1>3

(* Each of the two loops of a click, from the last input to the first.     *)
HideUnchosen(boxes, c) ==
    FoldRight(LAMBDA box, a : IF box.checked THEN a ELSE HideLayer(a, box.layer, TRUE),
              boxes, c)

HideStep(c, i, v) ==
    IF c.inputs[i].checked THEN v ELSE HideLayer(v, c.inputs[i].layer, TRUE)

ShowStep(c, i, v) ==
    IF c.inputs[i].checked THEN ShowLayer(v, c.inputs[i].layer, TRUE) ELSE v

Boxed(c) == 1..Len(c.inputs)

LEMMA BoxIs ==
    ASSUME NEW c \in Control, NEW i \in Boxed(c)
    PROVE  c.inputs[i] \in Input /\ c.inputs[i].layer \in Listable
  <1>1. c.inputs \in Seq(Input)
    BY DEF Control
  <1>2. c.inputs[i] \in Input
    BY <1>1, ElementOfSeq DEF Boxed
  <1>3. QED
    BY <1>2 DEF Input

LEMMA HiddenInTurn ==
    ASSUME NEW c \in Control, NEW b \in Handling(c)
    PROVE  \E g, f, m :
              /\ IsFiniteSet(Boxed(c)) /\ Chooses(m, Boxed(c))
              /\ IsFold(g, f, m, b, Boxed(c), Handling(c))
              /\ \A i \in Boxed(c), v \in Handling(c) : f[<<i, v>>] = HideStep(c, i, v)
              /\ HideUnchosen(c.inputs, b) = g[Boxed(c)]
  <1> DEFINE w == c.inputs
             T == DOMAIN w
             V == Handling(c)
             Step(v, i) == IF w[i].checked THEN v ELSE HideLayer(v, w[i].layer, TRUE)
             f == [z \in T \X V |-> Step(z[2], z[1])]
             m == [S \in SUBSET T |-> Min(S)]
             Iter(g) == [S \in SUBSET T |-> IF S = {} THEN b
                            ELSE LET x == Min(S) IN Step(g[S \ {x}], x)]
  <1>0. w \in Seq(Input)
    BY DEF Control
  <1>1. T = 1..Len(w) /\ Len(w) \in Nat /\ IsFiniteSet(T) /\ T = Boxed(c)
    BY <1>0, LenProperties, FS_Interval DEF Boxed
  <1>2. \A S \in SUBSET T : S # {} => m[S] = Min(S) /\ m[S] \in S
    BY <1>1, MinIn
  <1>3. ASSUME NEW i \in T, NEW v \in V PROVE Step(v, i) \in V
    <2>1. w[i].layer \in Listable
      BY <1>1, BoxIs
    <2>2. QED
      BY <2>1, HideHandled
  <1>4. \A v, i : Step(v, i) = HideStep(c, i, v)
    BY DEF HideStep
  <1>m. Chooses(m, T)
    BY <1>2 DEF Chooses
  <1>f. IsFiniteSet(T)
    BY <1>1
  <1> DEFINE h == CHOOSE h : h = Iter(h)
             all == HideUnchosen(w, b)
  <1>5. all = h[T]
    BY DEF HideUnchosen, FoldRight, MapThenFoldSet, w, T, Step
  <1> HIDE DEF all, V, T, Step, w
  <1>6. \A i \in T, v \in V : f[<<i, v>>] = Step(v, i)
    OBVIOUS
  <1> HIDE DEF f
  <1>7. PICK g : IsFold(g, f, m, b, T, V)
    <2>1. StaysWithin(f, T, V)
      BY <1>3, <1>6 DEF StaysWithin
    <2>2. b \in V
      BY DEF V
    <2> HIDE DEF m
    <2>3. QED
      BY <1>f, <1>m, <2>1, <2>2, FoldFound
  <1>8. g = Iter(g)
    <2>1. \A S \in SUBSET T : S # {} => g[S] = Step(g[S \ {Min(S)}], Min(S))
      <3> SUFFICES ASSUME NEW S \in SUBSET T, S # {}
                   PROVE  g[S] = Step(g[S \ {Min(S)}], Min(S))
        OBVIOUS
      <3>1. m[S] = Min(S) /\ m[S] \in T /\ S \ {m[S]} \in SUBSET T
        BY <1>2
      <3> HIDE DEF m
      <3>2. g[S] = f[<<m[S], g[S \ {m[S]}]>>] /\ g[S \ {m[S]}] \in V
        BY <1>7, <3>1 DEF IsFold
      <3>3. QED
        BY <1>6, <3>1, <3>2
    <2>2. g = [S \in SUBSET T |-> g[S]] /\ g[{}] = b
      BY <1>7 DEF IsFold
    <2>3. QED
      BY <2>1, <2>2
  <1>9. h = Iter(h)
    BY <1>8
  <1> HIDE DEF h
  <1>10. IsFold(h, f, m, b, T, V)
    <2>1. h[{}] = b /\ \A S \in SUBSET T : S # {} => h[S] = Step(h[S \ {m[S]}], m[S])
      BY <1>2, <1>9
    <2>2. StepsStay(h, m, T, V)
      <3> SUFFICES ASSUME NEW S \in SUBSET T, S # {}, h[S \ {m[S]}] \in V
                   PROVE  h[S] \in V
        BY DEF StepsStay
      <3>1. m[S] \in T
        BY <1>m DEF Chooses
      <3> HIDE DEF m
      <3>2. QED
        BY <1>3, <2>1, <3>1
    <2>3. b \in V
      BY DEF V
    <2>4. h = [S \in SUBSET T |-> h[S]]
      BY <1>9
    <2> HIDE DEF m
    <2>5. \A S \in SUBSET T : h[S] \in V
      BY <1>f, <1>m, <2>1, <2>2, <2>3, FoldStays
    <2>6. \A S \in SUBSET T : S # {} => h[S] = f[<<m[S], h[S \ {m[S]}]>>]
      <3> SUFFICES ASSUME NEW S \in SUBSET T, S # {}
                   PROVE  h[S] = f[<<m[S], h[S \ {m[S]}]>>]
        OBVIOUS
      <3>1. m[S] \in T /\ S \ {m[S]} \in SUBSET T
        BY <1>m DEF Chooses
      <3>2. h[S \ {m[S]}] \in V
        BY <2>5, <3>1
      <3>3. QED
        BY <1>6, <2>1, <3>1, <3>2
    <2>7. QED
      BY <2>1, <2>4, <2>5, <2>6 DEF IsFold
  <1> HIDE DEF m
  <1>11. /\ T = Boxed(c) /\ V = Handling(c)
         /\ \A i \in T, v \in V : f[<<i, v>>] = HideStep(c, i, v)
         /\ all = HideUnchosen(c.inputs, b)
    BY <1>1, <1>4, <1>6 DEF V, all, w
  <1>12. QED
    BY <1>5, <1>10, <1>11, <1>f, <1>m

LEMMA ShownInTurn ==
    ASSUME NEW c \in Control, NEW b \in Handling(c)
    PROVE  \E g, f, m :
              /\ IsFiniteSet(Boxed(c)) /\ Chooses(m, Boxed(c))
              /\ IsFold(g, f, m, b, Boxed(c), Handling(c))
              /\ \A i \in Boxed(c), v \in Handling(c) : f[<<i, v>>] = ShowStep(c, i, v)
              /\ AddChosen(c.inputs, b) = g[Boxed(c)]
  <1> DEFINE w == c.inputs
             T == DOMAIN w
             V == Handling(c)
             Step(v, i) == IF w[i].checked THEN ShowLayer(v, w[i].layer, TRUE) ELSE v
             f == [z \in T \X V |-> Step(z[2], z[1])]
             m == [S \in SUBSET T |-> Min(S)]
             Iter(g) == [S \in SUBSET T |-> IF S = {} THEN b
                            ELSE LET x == Min(S) IN Step(g[S \ {x}], x)]
  <1>0. w \in Seq(Input)
    BY DEF Control
  <1>1. T = 1..Len(w) /\ Len(w) \in Nat /\ IsFiniteSet(T) /\ T = Boxed(c)
    BY <1>0, LenProperties, FS_Interval DEF Boxed
  <1>2. \A S \in SUBSET T : S # {} => m[S] = Min(S) /\ m[S] \in S
    BY <1>1, MinIn
  <1>3. ASSUME NEW i \in T, NEW v \in V PROVE Step(v, i) \in V
    <2>1. w[i].layer \in Listable
      BY <1>1, BoxIs
    <2>2. QED
      BY <2>1, ShowHandled
  <1>4. \A v, i : Step(v, i) = ShowStep(c, i, v)
    BY DEF ShowStep
  <1>m. Chooses(m, T)
    BY <1>2 DEF Chooses
  <1>f. IsFiniteSet(T)
    BY <1>1
  <1> DEFINE h == CHOOSE h : h = Iter(h)
             all == AddChosen(w, b)
  <1>5. all = h[T]
    BY DEF AddChosen, FoldRight, MapThenFoldSet, w, T, Step
  <1> HIDE DEF all, V, T, Step, w
  <1>6. \A i \in T, v \in V : f[<<i, v>>] = Step(v, i)
    OBVIOUS
  <1> HIDE DEF f
  <1>7. PICK g : IsFold(g, f, m, b, T, V)
    <2>1. StaysWithin(f, T, V)
      BY <1>3, <1>6 DEF StaysWithin
    <2>2. b \in V
      BY DEF V
    <2> HIDE DEF m
    <2>3. QED
      BY <1>f, <1>m, <2>1, <2>2, FoldFound
  <1>8. g = Iter(g)
    <2>1. \A S \in SUBSET T : S # {} => g[S] = Step(g[S \ {Min(S)}], Min(S))
      <3> SUFFICES ASSUME NEW S \in SUBSET T, S # {}
                   PROVE  g[S] = Step(g[S \ {Min(S)}], Min(S))
        OBVIOUS
      <3>1. m[S] = Min(S) /\ m[S] \in T /\ S \ {m[S]} \in SUBSET T
        BY <1>2
      <3> HIDE DEF m
      <3>2. g[S] = f[<<m[S], g[S \ {m[S]}]>>] /\ g[S \ {m[S]}] \in V
        BY <1>7, <3>1 DEF IsFold
      <3>3. QED
        BY <1>6, <3>1, <3>2
    <2>2. g = [S \in SUBSET T |-> g[S]] /\ g[{}] = b
      BY <1>7 DEF IsFold
    <2>3. QED
      BY <2>1, <2>2
  <1>9. h = Iter(h)
    BY <1>8
  <1> HIDE DEF h
  <1>10. IsFold(h, f, m, b, T, V)
    <2>1. h[{}] = b /\ \A S \in SUBSET T : S # {} => h[S] = Step(h[S \ {m[S]}], m[S])
      BY <1>2, <1>9
    <2>2. StepsStay(h, m, T, V)
      <3> SUFFICES ASSUME NEW S \in SUBSET T, S # {}, h[S \ {m[S]}] \in V
                   PROVE  h[S] \in V
        BY DEF StepsStay
      <3>1. m[S] \in T
        BY <1>m DEF Chooses
      <3> HIDE DEF m
      <3>2. QED
        BY <1>3, <2>1, <3>1
    <2>3. b \in V
      BY DEF V
    <2>4. h = [S \in SUBSET T |-> h[S]]
      BY <1>9
    <2> HIDE DEF m
    <2>5. \A S \in SUBSET T : h[S] \in V
      BY <1>f, <1>m, <2>1, <2>2, <2>3, FoldStays
    <2>6. \A S \in SUBSET T : S # {} => h[S] = f[<<m[S], h[S \ {m[S]}]>>]
      <3> SUFFICES ASSUME NEW S \in SUBSET T, S # {}
                   PROVE  h[S] = f[<<m[S], h[S \ {m[S]}]>>]
        OBVIOUS
      <3>1. m[S] \in T /\ S \ {m[S]} \in SUBSET T
        BY <1>m DEF Chooses
      <3>2. h[S \ {m[S]}] \in V
        BY <2>5, <3>1
      <3>3. QED
        BY <1>6, <2>1, <3>1, <3>2
    <2>7. QED
      BY <2>1, <2>4, <2>5, <2>6 DEF IsFold
  <1> HIDE DEF m
  <1>11. /\ T = Boxed(c) /\ V = Handling(c)
         /\ \A i \in T, v \in V : f[<<i, v>>] = ShowStep(c, i, v)
         /\ all = AddChosen(c.inputs, b)
    BY <1>1, <1>4, <1>6 DEF V, all, w
  <1>12. QED
    BY <1>5, <1>10, <1>11, <1>f, <1>m

(* The loops leave what they say: nothing that is not chosen is shown, and *)
(* what is chosen is, unless it is an overlay that the page has hidden.    *)
LEMMA UnchosenHidden ==
    ASSUME NEW c \in Control, NEW j \in Boxed(c), ~c.inputs[j].checked
    PROVE  /\ HideUnchosen(c.inputs, c) \in Handling(c)
           /\ c.inputs[j].layer \notin HideUnchosen(c.inputs, c).shown
  <1> DEFINE l == c.inputs[j].layer
             W == {v \in Handling(c) : l \notin v.shown}
             V == Handling(c)
             T == Boxed(c)
  <1>1. c \in Handling(c)
    BY DEF Handling
  <1>2. PICK g, f, m :
              /\ IsFiniteSet(T) /\ Chooses(m, T) /\ IsFold(g, f, m, c, T, V)
              /\ \A i \in T, v \in V : f[<<i, v>>] = HideStep(c, i, v)
              /\ HideUnchosen(c.inputs, c) = g[T]
    BY <1>1, HiddenInTurn
  <1>3. ASSUME NEW i \in T, NEW v \in V
        PROVE  /\ i = j => f[<<i, v>>] \in W
               /\ v \in W => f[<<i, v>>] \in W
    <2>1. c.inputs[i].layer \in Listable /\ v \in Handling(c)
      BY BoxIs
    <2> DEFINE k == c.inputs[i].layer
               n == HideLayer(v, k, TRUE)
    <2>2. n \in Handling(c) /\ n.shown = v.shown \ {k}
      <3>1. k \in Listable /\ v \in Handling(c)
        BY <2>1
      <3> HIDE DEF W, V, T, l, k
      <3>2. QED
        BY <3>1, HideHandled
    <2>3. f[<<i, v>>] = IF c.inputs[i].checked THEN v ELSE n
      BY <1>2 DEF HideStep
    <2> HIDE DEF n
    <2>4. QED
      BY <2>2, <2>3
  <1> HIDE DEF W, V, T
  <1>4. g[T] \in W
    <2>1. j \in T
      BY DEF T
    <2>2. \A v \in V : f[<<j, v>>] \in W
      BY <1>3, <2>1
    <2>3. \A y \in T, v \in V : v \in W => f[<<y, v>>] \in W
      BY <1>3
    <2>4. QED
      BY <1>2, <2>1, <2>2, <2>3, FoldReaches
  <1>5. QED
    BY <1>2, <1>4 DEF W

LEMMA HidingHandled ==
    ASSUME NEW c \in Control
    PROVE  HideUnchosen(c.inputs, c) \in Handling(c)
  <1>1. c \in Handling(c)
    BY DEF Handling
  <1>2. PICK g, f, m :
              /\ IsFold(g, f, m, c, Boxed(c), Handling(c))
              /\ HideUnchosen(c.inputs, c) = g[Boxed(c)]
    BY <1>1, HiddenInTurn
  <1>3. QED
    BY <1>2 DEF IsFold

LEMMA UnchosenStays ==
    ASSUME NEW c \in Control, NEW b \in Handling(c), NEW l, l \notin b.shown,
           \A i \in Boxed(c) : c.inputs[i].checked => c.inputs[i].layer # l
    PROVE  /\ AddChosen(c.inputs, b) \in Handling(c)
           /\ l \notin AddChosen(c.inputs, b).shown
  <1> DEFINE W == {v \in Handling(c) : l \notin v.shown}
             V == Handling(c)
             T == Boxed(c)
  <1>2. PICK g, f, m :
              /\ IsFiniteSet(T) /\ Chooses(m, T) /\ IsFold(g, f, m, b, T, V)
              /\ \A i \in T, v \in V : f[<<i, v>>] = ShowStep(c, i, v)
              /\ AddChosen(c.inputs, b) = g[T]
    BY ShownInTurn
  <1>3. ASSUME NEW i \in T, NEW v \in V, v \in W
        PROVE  f[<<i, v>>] \in W
    <2>1. c.inputs[i].layer \in Listable /\ v \in Handling(c)
      BY BoxIs
    <2> DEFINE n == ShowLayer(v, c.inputs[i].layer, TRUE)
    <2>2. n \in Handling(c) /\ n.shown \subseteq v.shown \cup {c.inputs[i].layer}
      BY <2>1, ShowHandled
    <2>3. f[<<i, v>>] = IF c.inputs[i].checked THEN n ELSE v
      BY <1>2 DEF ShowStep
    <2> HIDE DEF n
    <2>4. QED
      BY <1>3, <2>2, <2>3
  <1>4. b \in W
    OBVIOUS
  <1> HIDE DEF W, V, T
  <1>5. g[T] \in W
    BY <1>2, <1>3, <1>4, FoldKeeps
  <1>6. QED
    BY <1>2, <1>5 DEF W

LEMMA ChosenShown ==
    ASSUME NEW c \in Control, NEW b \in Handling(c), NEW j \in Boxed(c),
           c.inputs[j].checked
    PROVE  LET n == AddChosen(c.inputs, b) IN
           /\ n \in Handling(c)
           /\ c.inputs[j].layer \in n.shown \/ (c.inputs[j].layer \in Overlays /\ n.stale)
  <1> DEFINE l == c.inputs[j].layer
             W == {v \in Handling(c) : l \in v.shown \/ (l \in Overlays /\ v.stale)}
             V == Handling(c)
             T == Boxed(c)
  <1>2. PICK g, f, m :
              /\ IsFiniteSet(T) /\ Chooses(m, T) /\ IsFold(g, f, m, b, T, V)
              /\ \A i \in T, v \in V : f[<<i, v>>] = ShowStep(c, i, v)
              /\ AddChosen(c.inputs, b) = g[T]
    BY ShownInTurn
  <1>3. ASSUME NEW i \in T, NEW v \in V
        PROVE  /\ i = j => f[<<i, v>>] \in W
               /\ v \in W => f[<<i, v>>] \in W
    <2>1. c.inputs[i].layer \in Listable /\ v \in Handling(c)
      BY BoxIs
    <2> DEFINE k == c.inputs[i].layer
               n == ShowLayer(v, k, TRUE)
    <2>2. /\ n \in Handling(c)
          /\ (v.shown \cup {k}) \ Overlays \subseteq n.shown
          /\ v.stale => n.stale
          /\ ~n.stale => n.shown = v.shown \cup {k}
      <3>1. k \in Listable /\ v \in Handling(c)
        BY <2>1
      <3> HIDE DEF W, V, T, l, k
      <3>2. QED
        BY <3>1, ShowHandled
    <2>3. f[<<i, v>>] = IF c.inputs[i].checked THEN n ELSE v
      BY <1>2 DEF ShowStep
    <2> HIDE DEF n
    <2>4. ASSUME l \in v.shown \/ l = k \/ (l \in Overlays /\ v.stale) PROVE n \in W
      BY <2>2, <2>4
    <2>5. QED
      BY <2>3, <2>4
  <1> HIDE DEF W, V, T
  <1>4. g[T] \in W
    <2>1. j \in T
      BY DEF T
    <2>2. \A v \in V : f[<<j, v>>] \in W
      BY <1>3, <2>1
    <2>3. \A y \in T, v \in V : v \in W => f[<<y, v>>] \in W
      BY <1>3
    <2>4. QED
      BY <1>2, <2>1, <2>2, <2>3, FoldReaches
  <1>5. QED
    BY <1>2, <1>4 DEF W

(* A layer that is listed once is shown if its input is checked; overlays  *)
(* are unless the list has become stale.                                   *)
LEMMA ClickTells ==
    ASSUME NEW c \in Control, ListSound(c), Mirrors(c), OneRadio(c.inputs), Working(c)
    PROVE  LET n == OnInputClick(c) IN
           /\ ListingInv(n)
           /\ n.entries = c.entries /\ n.inputs = c.inputs
           /\ \A j \in 1..Len(c.entries) :
                 c.entries[j] \in Bases =>
                    (c.entries[j] \in n.shown <=> c.inputs[j].checked)
  <1> DEFINE b == HideUnchosen(c.inputs, c)
             n == AddChosen(c.inputs, b)
  <1>0. OnInputClick(c) = n
    BY DEF OnInputClick, HideUnchosen, AddChosen, FoldRight, MapThenFoldSet
  <1>1. b \in Handling(c)
    BY HidingHandled
  <1>2. Len(c.inputs) = Len(c.entries) /\ Boxed(c) = 1..Len(c.entries)
    BY DEF Mirrors, Boxed
  <1>3. \A j \in Boxed(c) : c.inputs[j].layer = c.entries[j]
    BY <1>2 DEF Mirrors
  <1>4. ASSUME NEW j \in Boxed(c), ~c.inputs[j].checked
        PROVE  c.entries[j] \notin n.shown
    <2>1. c.entries[j] \notin b.shown
      BY <1>3, <1>4, UnchosenHidden
    <2>2. ASSUME NEW i \in Boxed(c), c.inputs[i].checked
          PROVE  c.inputs[i].layer # c.entries[j]
      BY <1>2, <1>3, <1>4, <2>2 DEF ListSound, ListedOnce
    <2> HIDE DEF b
    <2>3. QED
      BY <1>1, <2>1, <2>2, UnchosenStays
  <1>5. ASSUME NEW j \in Boxed(c), c.inputs[j].checked
        PROVE  c.entries[j] \in n.shown \/ (c.entries[j] \in Overlays /\ n.stale)
    <2> HIDE DEF b
    <2>1. QED
      BY <1>1, <1>3, <1>5, ChosenShown
  <1>6. n \in Handling(c)
    <2> HIDE DEF b
    <2>1. PICK g, f, m :
              /\ IsFold(g, f, m, b, Boxed(c), Handling(c))
              /\ AddChosen(c.inputs, b) = g[Boxed(c)]
      BY <1>1, ShownInTurn
    <2>2. QED
      BY <2>1 DEF IsFold
  <1> HIDE DEF n, b
  <1>7. /\ n \in Control /\ n.entries = c.entries /\ n.inputs = c.inputs
        /\ n.heard = c.heard /\ n.onMap = c.onMap /\ n.broken = c.broken
        /\ n.zoom = c.zoom
    BY <1>6 DEF Handling
  <1>8. ListSound(n) /\ OneRadio(n.inputs) /\ Mirrors(n)
    BY <1>7 DEF ListSound, ListedOnce, HearsListed, Working, Listed, Mirrors
  <1>9. ASSUME ~n.stale, NEW j \in 1..Len(n.entries)
        PROVE  n.inputs[j].checked = CheckedAt(n, j)
    <2>1. j \in Boxed(c) /\ c.inputs[j].checked \in BOOLEAN
      BY <1>2, <1>7, BoxIs DEF Input
    <2>2. c.inputs[j].checked <=> c.entries[j] \in n.shown
      BY <1>4, <1>5, <1>9, <2>1
    <2>3. ASSUME c.inputs[j].checked, c.entries[j] \in Bases,
                 NEW k \in (j + 1)..Len(c.entries), c.entries[k] \in Bases
          PROVE  c.entries[k] \notin n.shown
      <3>0. Len(c.entries) \in Nat
        BY LenProperties DEF Control
      <3>1. k \in Boxed(c) /\ k # j
        BY <1>2, <2>1, <3>0
      <3>2. ~c.inputs[k].checked
        BY <1>2, <1>3, <2>1, <2>3, <3>1 DEF OneRadio, Boxed
      <3>3. QED
        BY <1>4, <3>1, <3>2
    <2>4. QED
      BY <1>7, <2>1, <2>2, <2>3 DEF CheckedAt
  <1>10. ListingInv(n)
    BY <1>8, <1>9 DEF ListingInv, Tells
  <1>11. ASSUME NEW j \in 1..Len(c.entries), c.entries[j] \in Bases
         PROVE  c.entries[j] \in n.shown <=> c.inputs[j].checked
    <2>1. c.entries[j] \notin Overlays
      BY <1>11, ListAssumption
    <2>2. QED
      BY <1>2, <1>4, <1>5, <2>1
  <1>12. QED
    BY <1>0, <1>7, <1>10, <1>11

LEMMA ListOnMap ==
    ASSUME ListingInv(listing), NEW l \in Listable, ShowOnMap(l) \/ HideFromMap(l)
    PROVE  ListingInv(listing')
  <1>1. CASE ShowOnMap(l)
    BY <1>1, ShowKeeps DEF ShowOnMap
  <1>2. CASE HideFromMap(l)
    BY <1>2, HideKeeps DEF HideFromMap
  <1>3. QED
    BY <1>1, <1>2

(* After a zoom the inputs are disabled as the new zoom has it.            *)
LEMMA DisabledIs ==
    ASSUME NEW c \in Control
    PROVE  LET n == CheckDisabled(c) IN
           /\ n \in Control /\ n.entries = c.entries /\ n.heard = c.heard
           /\ n.shown = c.shown /\ n.onMap = c.onMap /\ n.broken = c.broken
           /\ n.zoom = c.zoom /\ n.stale = c.stale
           /\ Len(n.inputs) = Len(c.inputs)
           /\ \A i \in 1..Len(c.inputs) :
                 /\ n.inputs[i].layer = c.inputs[i].layer
                 /\ n.inputs[i].checked = c.inputs[i].checked
                 /\ n.inputs[i].disabled = DisabledAt(c.inputs[i].layer, c.zoom)
  <1> DEFINE w == c.inputs
             J == [i \in DOMAIN w |-> [w[i] EXCEPT !.disabled = DisabledAt(w[i].layer, c.zoom)]]
             n == [c EXCEPT !.inputs = J]
  <1>1. w \in Seq(Input) /\ Len(w) \in Nat /\ DOMAIN w = 1..Len(w)
    BY LenProperties DEF Control
  <1>2. CheckDisabled(c) = n
    BY DEF CheckDisabled
  <1>3. ASSUME NEW i \in 1..Len(w)
        PROVE  LET x == [w[i] EXCEPT !.disabled = DisabledAt(w[i].layer, c.zoom)] IN
               /\ x \in Input /\ x.layer = w[i].layer /\ x.checked = w[i].checked
               /\ x.disabled = DisabledAt(w[i].layer, c.zoom)
    <2>1. w[i] \in Input
      BY <1>1, ElementOfSeq
    <2>2. DisabledAt(w[i].layer, c.zoom) \in BOOLEAN
      BY DEF DisabledAt
    <2>3. QED
      BY <2>1, <2>2 DEF Input
  <1>4. J \in Seq(Input)
    <2>1. J \in [1..Len(w) -> Input]
      BY <1>1, <1>3
    <2>2. QED
      BY <1>1, <2>1, SeqDef
  <1>5. Len(J) = Len(w)
    BY <1>1
  <1>6. \A i \in 1..Len(w) :
           /\ J[i].layer = w[i].layer /\ J[i].checked = w[i].checked
           /\ J[i].disabled = DisabledAt(w[i].layer, c.zoom)
    BY <1>1, <1>3
  <1> HIDE DEF J
  <1>7. /\ n \in Control /\ n.inputs = J /\ n.entries = c.entries
        /\ n.heard = c.heard /\ n.shown = c.shown /\ n.onMap = c.onMap
        /\ n.broken = c.broken /\ n.zoom = c.zoom /\ n.stale = c.stale
    BY <1>4 DEF Control
  <1> HIDE DEF n
  <1>8. QED
    BY <1>2, <1>5, <1>6, <1>7

LEMMA ListZooms ==
    ASSUME ListingInv(listing), NEW zoom \in 0..1, ListZoomEnd(zoom)
    PROVE  ListingInv(listing')
  <1> DEFINE c == [listing EXCEPT !.zoom = zoom]
             n == CheckDisabled(c)
  <1>1. listing \in Control
    BY DEF ListingInv, ListSound
  <1>2. /\ c \in Control /\ c.entries = listing.entries /\ c.inputs = listing.inputs
        /\ c.heard = listing.heard /\ c.shown = listing.shown
        /\ c.onMap = listing.onMap /\ c.broken = listing.broken
        /\ c.stale = listing.stale
    BY <1>1 DEF Control
  <1>3. listing' = IF c.onMap /\ ~c.broken THEN n ELSE c
    BY DEF ListZoomEnd
  <1> HIDE DEF c
  <1>4. ListSound(c) /\ OneRadio(c.inputs)
    BY <1>2 DEF ListingInv, ListSound, ListedOnce, HearsListed, Working, Listed
  <1>5. CASE ~Working(c)
    BY <1>3, <1>4, <1>5 DEF ListingInv, Working
  <1>6. CASE Working(c)
    <2>1. listing' = n
      BY <1>3, <1>6 DEF Working
    <2>2. /\ n \in Control /\ n.entries = c.entries /\ n.heard = c.heard
          /\ n.shown = c.shown /\ n.onMap = c.onMap /\ n.broken = c.broken
          /\ n.zoom = c.zoom /\ n.stale = c.stale
          /\ Len(n.inputs) = Len(c.inputs)
          /\ \A i \in 1..Len(c.inputs) :
                /\ n.inputs[i].layer = c.inputs[i].layer
                /\ n.inputs[i].checked = c.inputs[i].checked
                /\ n.inputs[i].disabled = DisabledAt(c.inputs[i].layer, c.zoom)
      BY <1>2, DisabledIs
    <2> HIDE DEF n
    <2>3. ListSound(n)
      BY <1>4, <2>2 DEF ListSound, ListedOnce, HearsListed, Working, Listed
    <2>4. OneRadio(n.inputs)
      BY <1>4, <2>2 DEF OneRadio
    <2>5. /\ Len(c.inputs) = Len(c.entries)
          /\ \A i \in 1..Len(c.entries) : c.inputs[i].layer = c.entries[i]
      BY <1>2, <1>6 DEF ListingInv, Mirrors, Working
    <2>6. Mirrors(n)
      BY <2>2, <2>5 DEF Mirrors
    <2>7. ASSUME ~n.stale PROVE Tells(n)
      <3>1. Tells(listing)
        BY <1>2, <1>6, <2>2, <2>7 DEF ListingInv, Working
      <3> SUFFICES ASSUME NEW i \in 1..Len(n.entries)
                   PROVE  n.inputs[i].checked = CheckedAt(n, i)
        BY DEF Tells
      <3>2. n.inputs[i].checked = listing.inputs[i].checked
        BY <1>2, <2>2, <2>5
      <3>3. CheckedAt(n, i) = CheckedAt(listing, i)
        BY <1>2, <2>2 DEF CheckedAt
      <3>4. QED
        BY <1>2, <2>2, <3>1, <3>2, <3>3 DEF Tells
    <2>8. QED
      BY <2>1, <2>3, <2>4, <2>6, <2>7 DEF ListingInv
  <1>7. QED
    BY <1>5, <1>6

LEMMA ListAdded ==
    ASSUME ListingInv(listing), AddListControl
    PROVE  ListingInv(listing')
  <1> DEFINE H == listing.heard \cup Listed(listing)
             c == [listing EXCEPT !.onMap = TRUE, !.heard = H]
             n == [listing EXCEPT !.onMap = TRUE, !.broken = TRUE]
  <1>1. listing \in Control /\ ListSound(listing)
    BY DEF ListingInv, ListSound
  <1>2. listing.heard = {} /\ H \in SUBSET Listable /\ H = Listed(listing)
    <2>1. listing.heard = {}
      BY <1>1 DEF AddListControl, ListSound, HearsListed
    <2>2. listing.entries \in Seq(Listable)
      BY <1>1 DEF Control
    <2>3. Listed(listing) \subseteq Listable
      BY <2>2, LenProperties, ElementOfSeq DEF Listed, ToSet
    <2>4. QED
      BY <2>1, <2>3
  <1>3. listing' = n \/ listing' = UpdateList(c)
    <2>1. [[listing EXCEPT !.onMap = TRUE] EXCEPT !.broken = TRUE] = n
      BY <1>1 DEF Control
    <2>2. LET d == [listing EXCEPT !.onMap = TRUE] IN
          [d EXCEPT !.heard = @ \cup Listed(d)] = c
      BY <1>1 DEF Control, Listed
    <2> HIDE DEF n, c
    <2>3. QED
      BY <2>1, <2>2 DEF AddListControl
  <1>4. ListingInv(n)
    <2>1. /\ n \in Control /\ n.entries = listing.entries /\ n.inputs = listing.inputs
          /\ n.heard = listing.heard /\ n.onMap = TRUE /\ n.broken = TRUE
      BY <1>1 DEF Control
    <2> HIDE DEF n
    <2>2. QED
      BY <1>1, <2>1 DEF ListingInv, ListSound, ListedOnce, HearsListed, Working, Listed
  <1>5. ListSound(c)
    <2> HIDE DEF H
    <2>1. /\ c \in Control /\ c.entries = listing.entries
          /\ c.heard = H /\ c.onMap = TRUE
      BY <1>1, <1>2 DEF Control
    <2> HIDE DEF c
    <2>2. QED
      BY <1>1, <1>2, <2>1 DEF ListSound, ListedOnce, HearsListed, Working, Listed
  <1> HIDE DEF n, c
  <1>6. ListingInv(UpdateList(c))
    BY <1>5, ListUpdated
  <1>7. QED
    BY <1>3, <1>4, <1>6

LEMMA ListRemoved ==
    ASSUME ListingInv(listing), RemoveListControl
    PROVE  ListingInv(listing')
  <1> DEFINE H == listing.heard \ Listed(listing)
             n == [listing EXCEPT !.onMap = FALSE, !.broken = FALSE, !.heard = H]
  <1>1. listing \in Control /\ ListSound(listing)
    BY DEF ListingInv, ListSound
  <1>2. H = {}
    BY <1>1 DEF ListSound, HearsListed
  <1>3. listing' = n
    BY DEF RemoveListControl
  <1> HIDE DEF H
  <1>4. /\ n \in Control /\ n.entries = listing.entries /\ n.inputs = listing.inputs
        /\ n.heard = {} /\ n.onMap = FALSE /\ n.broken = FALSE
    BY <1>1, <1>2 DEF Control
  <1> HIDE DEF n
  <1>5. ListingInv(n)
    BY <1>1, <1>4 DEF ListingInv, ListSound, ListedOnce, HearsListed, Working, Listed
  <1>6. QED
    BY <1>3, <1>5

(* A control that is not on the map leaves its inputs for later.           *)
LEMMA EntriesKeep ==
    ASSUME ListingInv(listing), NEW n, ListSound(n), n.inputs = listing.inputs,
           NEW m, m = IF n.onMap THEN UpdateList(n) ELSE n
    PROVE  ListingInv(m)
  <1>1. CASE n.onMap
    BY <1>1, ListUpdated
  <1>2. CASE ~n.onMap
    BY <1>2 DEF ListingInv, Working
  <1>3. QED
    BY <1>1, <1>2

LEMMA EntryAdded ==
    ASSUME ListingInv(listing), NEW l \in Listable, AddToList(l)
    PROVE  ListingInv(listing')
  <1> DEFINE c == listing
             E == Append(c.entries, l)
             H == IF c.onMap THEN c.heard \cup {l} ELSE c.heard
             n == [c EXCEPT !.entries = E, !.heard = H]
  <1>1. ListSound(c) /\ c \in Control /\ c.entries \in Seq(Listable)
        /\ c.heard \in SUBSET Listable
    BY DEF ListingInv, ListSound, Control
  <1>2. /\ E \in Seq(Listable) /\ Len(E) = Len(c.entries) + 1
        /\ Len(c.entries) \in Nat
        /\ \A i \in 1..Len(c.entries) : E[i] = c.entries[i]
        /\ E[Len(c.entries) + 1] = l
    BY <1>1, AppendProperties, LenProperties
  <1>3. l \notin Listed(c) /\ Len(c.entries) < MaxEntries
    BY DEF AddToList
  <1>4. DOMAIN c.entries = 1..Len(c.entries) /\ DOMAIN E = 1..Len(E)
    BY <1>1, <1>2, LenProperties
  <1>5. listing' = IF n.onMap /\ (n.collapsed \/ ~ExpandFails(n)) THEN UpdateList(n)
                   ELSE n
    <2>1. AddEntry(c, l) = n
      BY DEF AddEntry
    <2> HIDE DEF n
    <2>2. QED
      BY <2>1 DEF AddToList
  <1> HIDE DEF E
  <1>6. ToSet(E) = Listed(c) \cup {l}
    <2>1. \A i \in 1..Len(c.entries) : i \in 1..Len(E)
      BY <1>2
    <2>2. ToSet(E) \subseteq Listed(c) \cup {l}
      <3> SUFFICES ASSUME NEW i \in 1..Len(E) PROVE E[i] \in Listed(c) \cup {l}
        BY <1>4 DEF ToSet
      <3>1. i \in 1..Len(c.entries) \/ i = Len(c.entries) + 1
        BY <1>2
      <3>2. QED
        BY <1>2, <1>4, <3>1 DEF Listed, ToSet
    <2>3. Listed(c) \subseteq ToSet(E)
      BY <1>2, <1>4, <2>1 DEF Listed, ToSet
    <2>4. l \in ToSet(E)
      <3>1. Len(c.entries) + 1 \in 1..Len(E)
        BY <1>2
      <3>2. QED
        BY <1>2, <1>4, <3>1 DEF ToSet
    <2>5. QED
      BY <2>2, <2>3, <2>4
  <1>7. Injective(E)
    <2> SUFFICES ASSUME NEW i \in 1..Len(E), NEW j \in 1..Len(E), E[i] = E[j]
                 PROVE  i = j
      BY DEF Injective
    <2>1. \A k \in 1..Len(c.entries) : c.entries[k] # l
      BY <1>3, <1>4 DEF Listed, ToSet
    <2>2. /\ i \in 1..Len(c.entries) \/ i = Len(c.entries) + 1
          /\ j \in 1..Len(c.entries) \/ j = Len(c.entries) + 1
      BY <1>2
    <2>3. QED
      BY <1>1, <1>2, <2>1, <2>2 DEF ListSound, ListedOnce
  <1>8. /\ H \in SUBSET Listable /\ H \subseteq ToSet(E)
        /\ ~c.onMap => H = {}
        /\ Working(c) => H = ToSet(E)
    BY <1>1, <1>6 DEF ListSound, HearsListed, Working
  <1>9. Len(E) <= MaxEntries
    BY <1>2, <1>3, ListAssumption
  <1> HIDE DEF H
  <1>10. ListSound(n) /\ n.inputs = c.inputs
    <2>1. /\ n \in Control /\ n.entries = E /\ n.heard = H
          /\ n.onMap = c.onMap /\ n.broken = c.broken /\ n.inputs = c.inputs
      BY <1>1, <1>2, <1>7, <1>8, <1>9 DEF Control
    <2> HIDE DEF n
    <2>2. QED
      BY <1>1, <1>2, <1>7, <1>8, <1>9, <2>1
         DEF ListSound, ListedOnce, HearsListed, Working, Listed, Injective
  <1>11. Working(c) => ~ExpandFails(n)
    <2> SUFFICES ASSUME Working(c), NEW i \in DOMAIN c.inputs
                 PROVE  c.inputs[i].layer \in ToSet(E)
      BY <1>1, <1>10 DEF ExpandFails, Listed, Control
    <2>1. Mirrors(c) /\ DOMAIN c.inputs = 1..Len(c.inputs)
      BY <1>1, LenProperties DEF ListingInv, Control
    <2>2. i \in 1..Len(c.entries) /\ c.inputs[i].layer = c.entries[i]
      BY <2>1 DEF Mirrors
    <2>3. QED
      BY <1>4, <1>6, <2>2 DEF Listed, ToSet
  <1>12. n.onMap = c.onMap /\ n.broken = c.broken
    BY <1>1 DEF Control
  <1> HIDE DEF n
  <1>13. CASE n.onMap => n.collapsed \/ ~ExpandFails(n)
    BY <1>5, <1>10, <1>13, EntriesKeep
  <1>14. CASE ~(n.onMap => n.collapsed \/ ~ExpandFails(n))
    BY <1>5, <1>10, <1>11, <1>12, <1>14 DEF ListingInv, Working
  <1>15. QED
    BY <1>13, <1>14

LEMMA RemoveFirstIs ==
    ASSUME NEW s \in Seq(Listable), NEW l \in ToSet(s)
    PROVE  \E i \in 1..Len(s) : s[i] = l /\ RemoveFirst(s, l) = RemoveAt(s, i)
  <1> DEFINE I == {i \in 1..Len(s) : s[i] = l}
  <1>1. Len(s) \in Nat /\ DOMAIN s = 1..Len(s)
    BY LenProperties
  <1>2. I # {} /\ I \in SUBSET (1..Len(s))
    BY <1>1 DEF ToSet
  <1>3. Min(I) \in I
    BY <1>1, <1>2, MinIn
  <1>4. \E i \in 1..Len(s) : s[i] = l
    BY <1>2
  <1>5. RemoveFirst(s, l) = RemoveAt(s, Min(I))
    BY <1>2, <1>4 DEF RemoveFirst, SelectInSeq
  <1> HIDE DEF I
  <1>6. Min(I) \in 1..Len(s) /\ s[Min(I)] = l
    BY <1>3 DEF I
  <1>7. QED
    BY <1>5, <1>6

LEMMA EntryRemoved ==
    ASSUME ListingInv(listing), NEW l \in Listable, RemoveFromList(l)
    PROVE  ListingInv(listing')
  <1> DEFINE c == listing
             E == RemoveFirst(c.entries, l)
             H == c.heard \ {l}
             n == [c EXCEPT !.entries = E, !.heard = H]
  <1>1. ListSound(c) /\ c \in Control /\ c.entries \in Seq(Listable)
        /\ c.heard \in SUBSET Listable
    BY DEF ListingInv, ListSound, Control
  <1>2. l \in ToSet(c.entries)
    BY DEF RemoveFromList, Listed
  <1>3. PICK i \in 1..Len(c.entries) :
           c.entries[i] = l /\ E = RemoveAt(c.entries, i)
    BY <1>1, <1>2, RemoveFirstIs
  <1>4. listing' = IF n.onMap THEN UpdateList(n) ELSE n
    <2>1. DropEntry(c, l) = n
      BY <1>2 DEF DropEntry
    <2> HIDE DEF n
    <2>2. QED
      BY <2>1 DEF RemoveFromList
  <1> HIDE DEF E
  <1>5. Injective(c.entries)
    BY <1>1 DEF ListSound, ListedOnce, Injective
  <1>6. /\ E \in Seq(Listable) /\ Len(E) = Len(c.entries) - 1
        /\ Injective(E) /\ ToSet(E) = Listed(c) \ {l}
    BY <1>1, <1>3, <1>5, Removes, ZenonT(60) DEF Listed
  <1>7. Len(E) <= MaxEntries
    BY <1>1, <1>6, LenProperties, ListAssumption DEF ListSound
  <1>8. /\ H \in SUBSET Listable /\ H \subseteq ToSet(E)
        /\ ~c.onMap => H = {}
        /\ Working(c) => H = ToSet(E)
    BY <1>1, <1>6 DEF ListSound, HearsListed, Working
  <1> HIDE DEF H
  <1>9. ListSound(n) /\ n.inputs = c.inputs
    <2>1. /\ n \in Control /\ n.entries = E /\ n.heard = H
          /\ n.onMap = c.onMap /\ n.broken = c.broken /\ n.inputs = c.inputs
      BY <1>1, <1>6, <1>7, <1>8 DEF Control
    <2> HIDE DEF n
    <2>2. QED
      BY <1>1, <1>6, <1>7, <1>8, <2>1
         DEF ListSound, ListedOnce, HearsListed, Working, Listed, Injective
  <1> HIDE DEF n
  <1>10. QED
    BY <1>4, <1>9, EntriesKeep

-----------------------------------------------------------------------------
(* The browser checks one input, and of the radio buttons only that one.   *)
LEMMA ToggleIs ==
    ASSUME NEW c \in Control, NEW i \in 1..Len(c.inputs), OneRadio(c.inputs)
    PROVE  LET n == ToggleInput(c, i) IN
           /\ n \in Control /\ n.entries = c.entries /\ n.heard = c.heard
           /\ n.shown = c.shown /\ n.onMap = c.onMap /\ n.broken = c.broken
           /\ n.zoom = c.zoom /\ n.stale = c.stale
           /\ Len(n.inputs) = Len(c.inputs) /\ OneRadio(n.inputs)
           /\ \A j \in 1..Len(c.inputs) :
                 /\ n.inputs[j].layer = c.inputs[j].layer
                 /\ n.inputs[j].disabled = c.inputs[j].disabled
  <1> DEFINE w == c.inputs
             base == w[i].layer \notin Overlays
             J == [j \in 1..Len(w) |->
                     IF base /\ w[j].layer \in Bases THEN [w[j] EXCEPT !.checked = (j = i)]
                     ELSE IF ~base /\ j = i THEN [w[j] EXCEPT !.checked = ~@]
                     ELSE w[j]]
             n == [c EXCEPT !.inputs = J]
  <1>1. /\ w \in Seq(Input) /\ Len(w) \in Nat /\ DOMAIN w = 1..Len(w)
        /\ w = [j \in 1..Len(w) |-> w[j]]
    BY LenProperties DEF Control
  <1>2. ToggleInput(c, i) = n
    <2>1. CASE base
      <3>1. J = [j \in DOMAIN w |->
                  IF w[j].layer \in Bases THEN [w[j] EXCEPT !.checked = (j = i)] ELSE w[j]]
        BY <1>1, <2>1
      <3> HIDE DEF J
      <3>2. QED
        BY <2>1, <3>1 DEF ToggleInput
    <2>2. CASE ~base
      <3>1. J = [w EXCEPT ![i] = [w[i] EXCEPT !.checked = ~w[i].checked]]
        BY <1>1, <2>2
      <3> HIDE DEF J
      <3>2. ToggleInput(c, i) = [c EXCEPT !.inputs[i].checked = ~@]
        BY <2>2 DEF ToggleInput
      <3>3. [c EXCEPT !.inputs[i].checked = ~@]
              = [c EXCEPT !.inputs = [w EXCEPT ![i] = [w[i] EXCEPT !.checked = ~w[i].checked]]]
        OBVIOUS
      <3>4. QED
        BY <3>1, <3>2, <3>3
    <2>3. QED
      BY <2>1, <2>2
  <1>3. ASSUME NEW j \in 1..Len(w)
        PROVE  /\ J[j] \in Input /\ J[j].layer = w[j].layer
               /\ J[j].disabled = w[j].disabled
               /\ base /\ w[j].layer \in Bases => (J[j].checked <=> j = i)
               /\ ~base /\ w[j].layer \in Bases => J[j].checked = w[j].checked
    <2>1. w[j] \in Input /\ w[i] \in Input
      BY <1>1, ElementOfSeq
    <2>2. Bases \cap Overlays = {}
      BY ListAssumption
    <2>3. QED
      BY <2>1, <2>2 DEF Input
  <1>4. J \in Seq(Input) /\ Len(J) = Len(w)
    <2>1. J \in [1..Len(w) -> Input]
      BY <1>3
    <2>2. QED
      BY <1>1, <2>1, SeqDef
  <1> HIDE DEF J
  <1>5. OneRadio(J)
    BY <1>3, <1>4 DEF OneRadio
  <1>6. /\ n \in Control /\ n.entries = c.entries /\ n.heard = c.heard
        /\ n.shown = c.shown /\ n.onMap = c.onMap /\ n.broken = c.broken
        /\ n.zoom = c.zoom /\ n.stale = c.stale /\ n.inputs = J
    BY <1>4 DEF Control
  <1> HIDE DEF n
  <1>7. QED
    BY <1>2, <1>3, <1>4, <1>5, <1>6

ListWell == ListingInv(listing') /\ ClickLeavesOneBase

LEMMA InputClicked ==
    ASSUME ListingInv(listing), NEW i \in 1..MaxEntries, ClickInput(i)
    PROVE  /\ ListingInv(listing')
           /\ Cardinality(listing'.shown \cap ListedBases) =
                (IF \E j \in DOMAIN listing'.inputs :
                       listing'.inputs[j].layer \in Bases /\ listing'.inputs[j].checked
                   THEN 1 ELSE 0)
  <1> DEFINE c == listing
             t == ToggleInput(c, i)
             n == OnInputClick(t)
             On(j) == c.entries[j] \in Bases /\ t.inputs[j].checked
             S == n.shown \cap ListedBases
  <1>1. /\ c \in Control /\ ListSound(c) /\ Mirrors(c) /\ OneRadio(c.inputs)
        /\ Working(c) /\ i \in 1..Len(c.inputs)
    <2>1. c \in Control /\ c.inputs \in Seq(Input)
      BY DEF ListingInv, ListSound, Control
    <2>2. DOMAIN c.inputs = 1..Len(c.inputs)
      BY <2>1, LenProperties
    <2>3. QED
      BY <2>1, <2>2 DEF ListingInv, ListSound, ClickInput, Working
  <1>2. /\ t \in Control /\ t.entries = c.entries /\ t.heard = c.heard
        /\ t.shown = c.shown /\ t.onMap = c.onMap /\ t.broken = c.broken
        /\ t.zoom = c.zoom /\ t.stale = c.stale
        /\ Len(t.inputs) = Len(c.inputs) /\ OneRadio(t.inputs)
        /\ \A j \in 1..Len(c.inputs) :
              /\ t.inputs[j].layer = c.inputs[j].layer
              /\ t.inputs[j].disabled = c.inputs[j].disabled
    <2> HIDE DEF c
    <2>1. QED
      BY <1>1, ToggleIs
  <1>3. listing' = n
    BY DEF ClickInput
  <1> HIDE DEF t
  <1>4. ListSound(t) /\ Working(t) /\ Mirrors(t)
    BY <1>1, <1>2 DEF ListSound, ListedOnce, HearsListed, Working, Listed, Mirrors
  <1>5. /\ ListingInv(n) /\ n.entries = t.entries /\ n.inputs = t.inputs
        /\ \A j \in 1..Len(t.entries) :
              t.entries[j] \in Bases =>
                 (t.entries[j] \in n.shown <=> t.inputs[j].checked)
    BY <1>2, <1>4, ClickTells
  <1> HIDE DEF n
  <1>6. DOMAIN c.entries = 1..Len(c.entries)
    BY <1>1, LenProperties DEF Control
  <1>7. /\ DOMAIN n.inputs = 1..Len(c.entries) /\ Len(t.inputs) = Len(c.entries)
        /\ \A j \in 1..Len(c.entries) : n.inputs[j].layer = c.entries[j]
    <2>1. n.inputs \in Seq(Input)
      BY <1>5 DEF ListingInv, ListSound, Control
    <2>2. Len(n.inputs) = Len(c.entries)
      BY <1>1, <1>2, <1>5 DEF Mirrors
    <2>3. \A j \in 1..Len(c.entries) : n.inputs[j].layer = c.entries[j]
      BY <1>2, <1>4, <1>5 DEF Mirrors
    <2>4. QED
      BY <1>5, <2>1, <2>2, <2>3, LenProperties
  <1>8. S = {c.entries[j] : j \in {k \in 1..Len(c.entries) : On(k)}}
    <2>1. ListedBases = Bases \cap {c.entries[j] : j \in 1..Len(c.entries)}
      BY <1>6 DEF ListedBases, Listed, ToSet
    <2>2. QED
      BY <1>2, <1>5, <2>1
  <1>9. \A j, k \in 1..Len(c.entries) : On(j) /\ On(k) => j = k
    BY <1>2, <1>5, <1>7 DEF OneRadio
  <1>10. CASE \E j \in 1..Len(c.entries) : On(j)
    <2>1. PICK j \in 1..Len(c.entries) : On(j)
      BY <1>10
    <2>2. S = {c.entries[j]}
      BY <1>8, <1>9, <2>1
    <2>3. Cardinality(S) = 1
      BY <2>2, FS_Singleton
    <2>4. \E k \in DOMAIN n.inputs : n.inputs[k].layer \in Bases /\ n.inputs[k].checked
      BY <1>5, <1>7, <2>1
    <2>5. QED
      BY <1>3, <1>5, <2>3, <2>4
  <1>11. CASE ~\E j \in 1..Len(c.entries) : On(j)
    <2>1. S = {}
      BY <1>8, <1>11
    <2>2. Cardinality(S) = 0
      BY <2>1, FS_EmptySet
    <2>3. ~\E k \in DOMAIN n.inputs : n.inputs[k].layer \in Bases /\ n.inputs[k].checked
      BY <1>5, <1>7, <1>11
    <2>4. QED
      BY <1>3, <1>5, <2>2, <2>3
  <1>12. QED
    BY <1>10, <1>11

LEMMA NewList == ListControlInit => ListingInv(listing)
  <1> SUFFICES ASSUME ListControlInit PROVE ListingInv(listing)
    OBVIOUS
  <1>1. PICK collapsed \in BOOLEAN, reacts \in BOOLEAN :
          listing = [onMap |-> FALSE, collapsed |-> collapsed, broken |-> FALSE,
                     entries |-> <<>>, inputs |-> <<>>, heard |-> {}, shown |-> {},
                     zoom |-> 0, reacts |-> reacts, stale |-> FALSE]
    BY DEF ListControlInit
  <1>2. <<>> \in Seq(Listable) /\ <<>> \in Seq(Input) /\ Len(<<>>) = 0
    BY EmptySeq
  <1>3. listing \in Control
    BY <1>1, <1>2 DEF Control
  <1>4. /\ listing.onMap = FALSE /\ listing.entries = <<>> /\ listing.inputs = <<>>
        /\ listing.heard = {}
    BY <1>1
  <1>5. QED
    BY <1>2, <1>3, <1>4, ListAssumption
       DEF ListingInv, ListSound, ListedOnce, HearsListed, OneRadio, Working

LEMMA ListStepWell ==
    ASSUME ListingInv(listing), ListControlNext
    PROVE  ListWell
  <1>1. ClickLeavesOneBase
    BY InputClicked DEF ClickLeavesOneBase
  <1>2. CASE \E l \in Listable : ShowOnMap(l) \/ HideFromMap(l)
    BY <1>1, <1>2, ListOnMap DEF ListWell
  <1>3. CASE \E l \in Listable : AddToList(l)
    BY <1>1, <1>3, EntryAdded DEF ListWell
  <1>4. CASE \E l \in Listable : RemoveFromList(l)
    BY <1>1, <1>4, EntryRemoved DEF ListWell
  <1>5. CASE \E zoom \in 0..1 : ListZoomEnd(zoom)
    BY <1>1, <1>5, ListZooms DEF ListWell
  <1>6. CASE AddListControl
    BY <1>1, <1>6, ListAdded DEF ListWell
  <1>7. CASE RemoveListControl
    BY <1>1, <1>7, ListRemoved DEF ListWell
  <1>8. CASE \E i \in 1..MaxEntries : ClickInput(i)
    BY <1>1, <1>8, InputClicked DEF ListWell
  <1>9. QED
    BY <1>2, <1>3, <1>4, <1>5, <1>6, <1>7, <1>8 DEF ListControlNext

LEMMA CheckedIsBoolean ==
    ASSUME NEW c, NEW i PROVE CheckedAt(c, i) \in BOOLEAN
  BY DEF CheckedAt

LEMMA ListInvTells ==
    ASSUME ListingInv(listing)
    PROVE  ListTypeOK /\ ListShowsMap
  <1>1. /\ listing \in Control /\ Len(listing.entries) <= MaxEntries
        /\ listing.entries \in Seq(Listable) /\ Len(listing.entries) \in Nat
    BY LenProperties DEF ListingInv, ListSound, Control
  <1>2. ListTypeOK
    <2>1. /\ Len(listing.entries) \in 0..MaxEntries
          /\ listing.entries \in [1..Len(listing.entries) -> Listable]
      BY <1>1, ListAssumption, LenProperties
    <2>2. listing.entries \in SeqOf(Listable, MaxEntries)
      BY <2>1 DEF SeqOf
    <2>3. QED
      BY <1>1, <2>2 DEF ListTypeOK, Control
  <1>3. ASSUME Working(listing), ~listing.stale
        PROVE  /\ [i \in DOMAIN listing.inputs |-> listing.inputs[i].layer]
                     = listing.entries
               /\ \A i \in DOMAIN listing.inputs :
                     LET l == listing.inputs[i].layer IN
                     /\ listing.inputs[i].disabled = DisabledAt(l, listing.zoom)
                     /\ l \in Overlays \/ Cardinality(listing.shown \cap ListedBases) <= 1
                        => listing.inputs[i].checked = (l \in listing.shown)
    <2>1. /\ Len(listing.inputs) = Len(listing.entries)
          /\ \A i \in 1..Len(listing.entries) :
                /\ listing.inputs[i].layer = listing.entries[i]
                /\ listing.inputs[i].disabled
                     = DisabledAt(listing.entries[i], listing.zoom)
                /\ listing.inputs[i].checked = CheckedAt(listing, i)
      BY <1>3 DEF ListingInv, Mirrors, Tells
    <2>2. /\ DOMAIN listing.inputs = 1..Len(listing.entries)
          /\ DOMAIN listing.entries = 1..Len(listing.entries)
          /\ listing.entries = [i \in 1..Len(listing.entries) |-> listing.entries[i]]
      BY <1>1, <2>1, LenProperties DEF Control
    <2>3. ASSUME NEW i \in 1..Len(listing.entries),
                 \/ listing.entries[i] \in Overlays
                 \/ Cardinality(listing.shown \cap ListedBases) <= 1
          PROVE  CheckedAt(listing, i) = (listing.entries[i] \in listing.shown)
      <3>1. CASE listing.entries[i] \in Overlays
        <4>1. listing.entries[i] \notin Bases
          BY <3>1, ListAssumption
        <4>2. CheckedAt(listing, i) <=> listing.entries[i] \in listing.shown
          BY <4>1 DEF CheckedAt
        <4>3. QED
          BY <4>2, CheckedIsBoolean
      <3>2. CASE listing.entries[i] \notin Overlays
        <4> DEFINE S == listing.shown \cap ListedBases
        <4>1. IsFiniteSet(S)
          <5>1. S \subseteq Bases \cup Overlays
            BY DEF ListedBases
          <5>2. QED
            BY <5>1, ListAssumption, FS_Subset
        <4>2. ASSUME NEW x \in S, NEW y \in S PROVE x = y
          <5>1. Cardinality(S \ {x}) = Cardinality(S) - 1 /\ IsFiniteSet(S \ {x})
            BY <4>1, FS_RemoveElement
          <5>2. Cardinality(S) \in Nat /\ Cardinality(S \ {x}) \in Nat
            BY <4>1, <5>1, FS_CardinalityType
          <5>3. Cardinality(S \ {x}) = 0
            BY <2>3, <3>2, <5>1, <5>2
          <5>4. S \ {x} = {}
            BY <5>1, <5>3, FS_EmptySet
          <5>5. QED
            BY <5>4
        <4>3. ASSUME NEW j \in 1..Len(listing.entries),
                     listing.entries[j] \in Bases, listing.entries[j] \in listing.shown
              PROVE  listing.entries[j] \in S
          BY <2>2, <4>3 DEF ListedBases, Listed, ToSet
        <4>4. \A j \in (i + 1)..Len(listing.entries) :
                 j \in 1..Len(listing.entries) /\ j # i
          BY <1>1
        <4>5. \A j \in 1..Len(listing.entries) :
                 listing.entries[j] = listing.entries[i] => j = i
          BY DEF ListingInv, ListSound, ListedOnce
        <4> HIDE DEF S
        <4>6. CASE listing.entries[i] \notin listing.shown
          <5>1. ~CheckedAt(listing, i)
            BY <4>6 DEF CheckedAt
          <5>2. QED
            BY <4>6, <5>1, CheckedIsBoolean
        <4>7. CASE listing.entries[i] \in listing.shown
          <5>1. ASSUME listing.entries[i] \in Bases,
                       NEW j \in (i + 1)..Len(listing.entries),
                       listing.entries[j] \in Bases
                PROVE  listing.entries[j] \notin listing.shown
            BY <4>2, <4>3, <4>4, <4>5, <4>7, <5>1
          <5>2. CheckedAt(listing, i)
            BY <4>7, <5>1 DEF CheckedAt
          <5>3. QED
            BY <4>7, <5>2, CheckedIsBoolean
        <4>8. QED
          BY <4>6, <4>7
      <3>3. QED
        BY <3>1, <3>2
    <2>4. QED
      BY <2>1, <2>2, <2>3
  <1>4. QED
    BY <1>2, <1>3 DEF ListShowsMap, Working

(* Through any calls of the page, events of layers, zooms and clicks, also  *)
(* while the list is off the map: `ListingInv`.                            *)
THEOREM ListStaysRight == ListControlSpec => []ListingInv(listing)
  <1>1. ASSUME ListingInv(listing), [ListControlNext]_listing PROVE ListingInv(listing)'
    <2>1. CASE ListControlNext
      BY <1>1, <2>1, ListStepWell DEF ListWell
    <2>2. CASE UNCHANGED listing
      BY <1>1, <2>2
    <2>3. QED
      BY <1>1, <2>1, <2>2
  <1>2. QED
    BY <1>1, NewList, PTL DEF ListControlSpec

(* Whatever the page and the user add, hide, list and choose: the list     *)
(* tells what the map shows, and a click on it leaves on the map the base  *)
(* layer that is checked, and no other.                                    *)
THEOREM ListTells == ListControlSpec => ListAndMapAgree
  <1> DEFINE Told == ListTypeOK /\ ListShowsMap
             Agrees == listing' # listing =>
                          ListTypeOK' /\ ListShowsMap' /\ ClickLeavesOneBase
  <1>1. ListingInv(listing) => Told
    BY ListInvTells
  <1>2. ListingInv(listing) /\ [ListControlNext]_listing /\ Told' => [Agrees]_listing
    <2>1. SUFFICES ASSUME ListingInv(listing), ListControlNext, Told' PROVE Agrees
      BY DEF Agrees
    <2>2. ClickLeavesOneBase
      BY <2>1, ListStepWell DEF ListWell
    <2>3. QED
      BY <2>1, <2>2
  <1> HIDE DEF Told, Agrees
  <1>3. ListControlSpec => [][Agrees]_listing
    BY <1>1, <1>2, ListStaysRight, PTL DEF ListControlSpec
  <1>4. QED
    BY <1>3 DEF ListAndMapAgree, Agrees

-----------------------------------------------------------------------------
(* The canvas *)

(* Painting, path by path: h is what is painted by the first paths of s.   *)
CoatStep(a, p, S, style) == IF p \in S THEN Append(a, <<p, style[p]>>) ELSE a

Coated(h, s, S, style) ==
    /\ h[1..0] = <<>>
    /\ \A k \in 1..Len(s) :
          h[1..k] = CoatStep(h[1..(k - 1)], s[k], S, style)

Styled(style, D, E) == \A p \in D : style[p] \in E

LEMMA CoatsInTurn ==
    ASSUME NEW D, NEW E, NEW s \in Seq(D), NEW S, NEW style,
           Styled(style, D, E)
    PROVE  \E h : /\ Coated(h, s, S, style) /\ Coats(s, S, style) = h[1..Len(s)]
                  /\ \A k \in 0..Len(s) : h[1..k] \in Seq(D \X E)
  <1> DEFINE T == DOMAIN s
             V == Seq(D \X E)
             Step(v, i) == CoatStep(v, s[i], S, style)
             f == [z \in T \X V |-> Step(z[2], z[1])]
             c == [R \in SUBSET T |-> Max(R)]
             Iter(g) == [R \in SUBSET T |-> IF R = {} THEN <<>>
                            ELSE LET x == Max(R) IN Step(g[R \ {x}], x)]
             h == CHOOSE h : h = Iter(h)
  <1>1. Coats(s, S, style) = h[T]
    BY DEF Coats, FoldLeft, MapThenFoldSet, Step, CoatStep, T
  <1>2. T = 1..Len(s) /\ Len(s) \in Nat /\ IsFiniteSet(T)
    BY LenProperties, FS_Interval
  <1>3. ASSUME NEW i \in T, NEW v \in V PROVE Step(v, i) \in V
    <2>1. s[i] \in D /\ <<s[i], style[s[i]]>> \in D \X E
      BY <1>2, ElementOfSeq DEF Styled
    <2>2. Append(v, <<s[i], style[s[i]]>>) \in V
      BY <2>1, AppendProperties
    <2>3. QED
      BY <2>2 DEF CoatStep
  <1>4. <<>> \in V
    BY EmptySeq
  <1> HIDE DEF Step, T, V
  <1>5. Chooses(c, T) /\ \A R \in SUBSET T : R # {} => c[R] = Max(R)
    <2>1. ASSUME NEW R \in SUBSET T, R # {} PROVE c[R] = Max(R) /\ c[R] \in R
      <3>1. Max(R) \in R
        BY <1>2, <2>1, MaxIn
      <3>2. QED
        BY <3>1
    <2>2. QED
      BY <2>1 DEF Chooses
  <1>6. \A i \in T, v \in V : f[<<i, v>>] = Step(v, i)
    OBVIOUS
  <1>7. PICK g : IsFold(g, f, c, <<>>, T, V)
    <2>1. StaysWithin(f, T, V)
      BY <1>3, <1>6 DEF StaysWithin
    <2> HIDE DEF c, f
    <2>2. QED
      BY <1>2, <1>4, <1>5, <2>1, FoldFound
  <1> HIDE DEF f
  <1>8. g = Iter(g)
    <2>1. \A R \in SUBSET T : R # {} => g[R] = Step(g[R \ {Max(R)}], Max(R))
      <3> SUFFICES ASSUME NEW R \in SUBSET T, R # {}
                   PROVE  g[R] = Step(g[R \ {Max(R)}], Max(R))
        OBVIOUS
      <3>1. c[R] \in T /\ R \ {c[R]} \in SUBSET T /\ c[R] = Max(R)
        BY <1>5 DEF Chooses
      <3> HIDE DEF c
      <3>2. g[R] = f[<<c[R], g[R \ {c[R]}]>>] /\ g[R \ {c[R]}] \in V
        BY <1>7, <3>1 DEF IsFold
      <3>3. QED
        BY <1>6, <3>1, <3>2
    <2>2. g = [R \in SUBSET T |-> g[R]] /\ g[{}] = <<>>
      BY <1>7 DEF IsFold
    <2>3. QED
      BY <2>1, <2>2
  <1>9. h = Iter(h)
    BY <1>8
  <1> HIDE DEF h
  <1>10. h[{}] = <<>> /\ \A R \in SUBSET T : R # {} => h[R] = Step(h[R \ {Max(R)}], Max(R))
    BY <1>9
  <1>11. StepsStay(h, c, T, V)
    <2> SUFFICES ASSUME NEW R \in SUBSET T, R # {}, h[R \ {c[R]}] \in V
                 PROVE  h[R] \in V
      BY DEF StepsStay
    <2>1. c[R] \in T /\ c[R] = Max(R)
      BY <1>5 DEF Chooses
    <2> HIDE DEF c
    <2>2. QED
      BY <1>3, <1>10, <2>1
  <1> HIDE DEF c
  <1>12. \A R \in SUBSET T : h[R] \in V
    BY <1>2, <1>4, <1>5, <1>10, <1>11, FoldStays, ZenonT(40)
  <1>13. \A k \in 0..Len(s) : 1..k \in SUBSET T /\ 1..k \subseteq 1..Len(s)
    BY <1>2
  <1>14. 1..0 = {}
    OBVIOUS
  <1>15. ASSUME NEW k \in 1..Len(s)
         PROVE  h[1..k] = Step(h[1..(k - 1)], k)
    <2>1. k \in Nat /\ k > 0 /\ k \in 0..Len(s)
      BY <1>2
    <2>2. Max(1..k) = k /\ (1..k) \ {k} = 1..(k - 1) /\ 1..k # {}
      BY <2>1, LastOf
    <2>3. QED
      BY <1>10, <1>13, <2>1, <2>2
  <1>16. Coated(h, s, S, style)
    BY <1>10, <1>14, <1>15 DEF Coated, Step
  <1>17. \A k \in 0..Len(s) : h[1..k] \in Seq(D \X E)
    BY <1>12, <1>13 DEF V
  <1>18. Coats(s, S, style) = h[1..Len(s)]
    BY <1>1, <1>2
  <1>19. QED
    BY <1>16, <1>17, <1>18

(* The last path: met is what has been met among the first paths of s.     *)
Met(h, s, S) ==
    /\ h[1..0] = Nil
    /\ \A k \in 1..Len(s) : h[1..k] = IF s[k] \in S THEN s[k] ELSE h[1..(k - 1)]

LEMMA MetInTurn ==
    ASSUME NEW D, NEW s \in Seq(D), NEW S
    PROVE  \E h : /\ Met(h, s, S) /\ LastPath(s, S) = h[1..Len(s)]
                  /\ \A k \in 0..Len(s) : h[1..k] \in D \cup {Nil}
  <1> DEFINE T == DOMAIN s
             V == D \cup {Nil}
             Step(v, i) == IF s[i] \in S THEN s[i] ELSE v
             f == [z \in T \X V |-> Step(z[2], z[1])]
             c == [R \in SUBSET T |-> Max(R)]
             Iter(g) == [R \in SUBSET T |-> IF R = {} THEN Nil
                            ELSE LET x == Max(R) IN Step(g[R \ {x}], x)]
             h == CHOOSE h : h = Iter(h)
  <1>1. LastPath(s, S) = h[T]
    BY DEF LastPath, FoldLeft, MapThenFoldSet, Step, T
  <1>2. T = 1..Len(s) /\ Len(s) \in Nat /\ IsFiniteSet(T)
    BY LenProperties, FS_Interval
  <1>3. ASSUME NEW i \in T, NEW v \in V PROVE Step(v, i) \in V
    <2>1. s[i] \in D
      BY <1>2, ElementOfSeq
    <2>2. QED
      BY <2>1
  <1>4. Nil \in V
    OBVIOUS
  <1> HIDE DEF Step, T, V
  <1>5. Chooses(c, T) /\ \A R \in SUBSET T : R # {} => c[R] = Max(R)
    <2>1. ASSUME NEW R \in SUBSET T, R # {} PROVE c[R] = Max(R) /\ c[R] \in R
      <3>1. Max(R) \in R
        BY <1>2, <2>1, MaxIn
      <3>2. QED
        BY <3>1
    <2>2. QED
      BY <2>1 DEF Chooses
  <1>6. \A i \in T, v \in V : f[<<i, v>>] = Step(v, i)
    OBVIOUS
  <1>7. PICK g : IsFold(g, f, c, Nil, T, V)
    <2>1. StaysWithin(f, T, V)
      BY <1>3, <1>6 DEF StaysWithin
    <2> HIDE DEF c, f
    <2>2. QED
      BY <1>2, <1>4, <1>5, <2>1, FoldFound
  <1> HIDE DEF f
  <1>8. g = Iter(g)
    <2>1. \A R \in SUBSET T : R # {} => g[R] = Step(g[R \ {Max(R)}], Max(R))
      <3> SUFFICES ASSUME NEW R \in SUBSET T, R # {}
                   PROVE  g[R] = Step(g[R \ {Max(R)}], Max(R))
        OBVIOUS
      <3>1. c[R] \in T /\ R \ {c[R]} \in SUBSET T /\ c[R] = Max(R)
        BY <1>5 DEF Chooses
      <3> HIDE DEF c
      <3>2. g[R] = f[<<c[R], g[R \ {c[R]}]>>] /\ g[R \ {c[R]}] \in V
        BY <1>7, <3>1 DEF IsFold
      <3>3. QED
        BY <1>6, <3>1, <3>2
    <2>2. g = [R \in SUBSET T |-> g[R]] /\ g[{}] = Nil
      BY <1>7 DEF IsFold
    <2>3. QED
      BY <2>1, <2>2
  <1>9. h = Iter(h)
    BY <1>8
  <1> HIDE DEF h
  <1>10. h[{}] = Nil /\ \A R \in SUBSET T : R # {} => h[R] = Step(h[R \ {Max(R)}], Max(R))
    BY <1>9
  <1>11. StepsStay(h, c, T, V)
    <2> SUFFICES ASSUME NEW R \in SUBSET T, R # {}, h[R \ {c[R]}] \in V
                 PROVE  h[R] \in V
      BY DEF StepsStay
    <2>1. c[R] \in T /\ c[R] = Max(R)
      BY <1>5 DEF Chooses
    <2> HIDE DEF c
    <2>2. QED
      BY <1>3, <1>10, <2>1
  <1> HIDE DEF c
  <1>12. \A R \in SUBSET T : h[R] \in V
    BY <1>2, <1>4, <1>5, <1>10, <1>11, FoldStays
  <1>13. \A k \in 0..Len(s) : 1..k \in SUBSET T /\ 1..k \subseteq 1..Len(s)
    BY <1>2
  <1>14. 1..0 = {}
    OBVIOUS
  <1>15. ASSUME NEW k \in 1..Len(s)
         PROVE  h[1..k] = Step(h[1..(k - 1)], k)
    <2>1. k \in Nat /\ k > 0 /\ k \in 0..Len(s)
      BY <1>2
    <2>2. Max(1..k) = k /\ (1..k) \ {k} = 1..(k - 1) /\ 1..k # {}
      BY <2>1, LastOf
    <2>3. QED
      BY <1>10, <1>13, <2>1, <2>2
  <1>16. Met(h, s, S)
    BY <1>10, <1>14, <1>15 DEF Met, Step
  <1>17. \A k \in 0..Len(s) : h[1..k] \in D \cup {Nil}
    BY <1>12, <1>13 DEF V
  <1>18. LastPath(s, S) = h[1..Len(s)]
    BY <1>1, <1>2
  <1>19. QED
    BY <1>16, <1>17, <1>18

(* What is painted of the first k paths depends on these, and on the style *)
(* of those among them that are painted.                                   *)
LEMMA CoatsAgree ==
    ASSUME NEW s, NEW S, NEW style, NEW h, Coated(h, s, S, style),
           NEW t, NEW other, NEW g, Coated(g, t, S, other),
           NEW n \in Nat, n <= Len(s), n <= Len(t), Len(s) \in Nat, Len(t) \in Nat,
           \A k \in 1..n : s[k] = t[k] /\ (s[k] \in S => style[s[k]] = other[s[k]])
    PROVE  \A k \in 0..n : h[1..k] = g[1..k]
  <1> DEFINE P == {k \in Nat : k <= n => h[1..k] = g[1..k]}
  <1>1. 0 \in P
    BY DEF Coated
  <1>2. ASSUME NEW k \in Nat, k \in P PROVE k + 1 \in P
    <2>1. ASSUME k + 1 <= n PROVE h[1..(k + 1)] = g[1..(k + 1)]
      <3>1. /\ k + 1 \in 1..Len(s) /\ k + 1 \in 1..Len(t) /\ k + 1 \in 1..n
            /\ (k + 1) - 1 = k /\ k <= n
        BY <2>1
      <3>2. h[1..(k + 1)] = CoatStep(h[1..k], s[k + 1], S, style)
        BY <3>1 DEF Coated
      <3>3. g[1..(k + 1)] = CoatStep(g[1..k], t[k + 1], S, other)
        BY <3>1 DEF Coated
      <3>4. h[1..k] = g[1..k]
        BY <1>2, <3>1
      <3>5. s[k + 1] = t[k + 1] /\ (s[k + 1] \in S => style[s[k + 1]] = other[s[k + 1]])
        BY <3>1
      <3>6. QED
        BY <3>2, <3>3, <3>4, <3>5 DEF CoatStep
    <2>2. QED
      BY <2>1
  <1>3. Nat \subseteq P
    <2> HIDE DEF P
    <2>1. QED
      BY <1>1, <1>2, AllNumbers
  <1>4. QED
    BY <1>3

LEMMA CoatsRestyled ==
    ASSUME NEW D, NEW E, NEW s \in Seq(D), NEW S, NEW style, NEW other,
           Styled(style, D, E), Styled(other, D, E),
           \A p \in S : style[p] = other[p]
    PROVE  Coats(s, S, style) = Coats(s, S, other)
  <1>1. Len(s) \in Nat
    BY LenProperties
  <1>2. PICK h : /\ Coated(h, s, S, style) /\ Coats(s, S, style) = h[1..Len(s)]
                 /\ \A k \in 0..Len(s) : h[1..k] \in Seq(D \X E)
    BY CoatsInTurn
  <1>3. PICK g : /\ Coated(g, s, S, other) /\ Coats(s, S, other) = g[1..Len(s)]
                 /\ \A k \in 0..Len(s) : g[1..k] \in Seq(D \X E)
    BY CoatsInTurn
  <1>4. \A k \in 0..Len(s) : h[1..k] = g[1..k]
    BY <1>1, <1>2, <1>3, CoatsAgree
  <1>5. QED
    BY <1>1, <1>2, <1>3, <1>4

(* A path at the end that is not painted leaves the coats as they are.     *)
LEMMA CoatsAppended ==
    ASSUME NEW D, NEW E, NEW s \in Seq(D), NEW S, NEW style,
           Styled(style, D, E), NEW p \in D, p \notin S
    PROVE  Coats(Append(s, p), S, style) = Coats(s, S, style)
  <1> DEFINE t == Append(s, p)
             n == Len(s)
  <1>1. /\ t \in Seq(D) /\ Len(t) = n + 1 /\ n \in Nat
        /\ \A i \in 1..n : t[i] = s[i]
        /\ t[n + 1] = p
    BY AppendProperties, LenProperties
  <1> HIDE DEF t
  <1>2. PICK h : /\ Coated(h, s, S, style) /\ Coats(s, S, style) = h[1..Len(s)]
                 /\ \A k \in 0..Len(s) : h[1..k] \in Seq(D \X E)
    BY CoatsInTurn
  <1>3. PICK g : /\ Coated(g, t, S, style) /\ Coats(t, S, style) = g[1..Len(t)]
                 /\ \A k \in 0..Len(t) : g[1..k] \in Seq(D \X E)
    BY <1>1, CoatsInTurn
  <1>4. \A k \in 0..n : h[1..k] = g[1..k]
    <2>1. n <= Len(t) /\ Len(t) \in Nat /\ n <= Len(s) /\ \A i \in 1..n : s[i] = t[i]
      BY <1>1
    <2> HIDE DEF n
    <2>2. n \in Nat /\ Len(s) \in Nat
      BY <1>1
    <2>3. QED
      BY <1>2, <1>3, <2>1, <2>2, CoatsAgree
  <1>5. n + 1 \in 1..Len(t) /\ (n + 1) - 1 = n /\ n \in 0..n
    BY <1>1
  <1>6. g[1..(n + 1)] = CoatStep(g[1..n], p, S, style)
    BY <1>1, <1>3, <1>5 DEF Coated
  <1>7. g[1..(n + 1)] = g[1..n]
    BY <1>6 DEF CoatStep
  <1>8. QED
    BY <1>1, <1>2, <1>3, <1>4, <1>5, <1>7 DEF t

(* So does one anywhere: s has it at i, and t is s without it.             *)
Skips(s, t, i) ==
    /\ i \in 1..Len(s) /\ Len(t) = Len(s) - 1
    /\ \A j \in 1..Len(t) : t[j] = IF j < i THEN s[j] ELSE s[j + 1]

LEMMA CoatsSkipped ==
    ASSUME NEW D, NEW E, NEW s \in Seq(D), NEW t \in Seq(D), NEW S, NEW style,
           Styled(style, D, E), NEW i, Skips(s, t, i), s[i] \notin S
    PROVE  Coats(t, S, style) = Coats(s, S, style)
  <1> DEFINE n == Len(t)
             At(k) == IF k < i THEN k ELSE k + 1
  <1>1. Len(s) = n + 1 /\ n \in Nat /\ Len(s) \in Nat /\ i \in 1..Len(s) /\ i \in Nat
    BY LenProperties DEF Skips
  <1>2. PICK h : /\ Coated(h, s, S, style) /\ Coats(s, S, style) = h[1..Len(s)]
                 /\ \A k \in 0..Len(s) : h[1..k] \in Seq(D \X E)
    BY CoatsInTurn
  <1>3. PICK g : /\ Coated(g, t, S, style) /\ Coats(t, S, style) = g[1..Len(t)]
                 /\ \A k \in 0..Len(t) : g[1..k] \in Seq(D \X E)
    BY CoatsInTurn
  <1>4. h[1..i] = h[1..(i - 1)]
    BY <1>1, <1>2 DEF Coated, CoatStep
  <1> DEFINE Q == {k \in Nat : k <= n => g[1..k] = h[1..At(k)]}
  <1>5. 0 \in Q
    BY <1>1, <1>2, <1>3 DEF Coated
  <1>6. ASSUME NEW k \in Nat, k \in Q PROVE k + 1 \in Q
    <2>1. ASSUME k + 1 <= n PROVE g[1..(k + 1)] = h[1..At(k + 1)]
      <3>1. /\ k + 1 \in 1..Len(t) /\ (k + 1) - 1 = k /\ k <= n
            /\ At(k + 1) \in 1..Len(s) /\ At(k + 1) \in Nat
        BY <1>1, <2>1
      <3>2. g[1..(k + 1)] = CoatStep(g[1..k], t[k + 1], S, style)
        BY <1>3, <3>1 DEF Coated
      <3>3. h[1..At(k + 1)] = CoatStep(h[1..(At(k + 1) - 1)], s[At(k + 1)], S, style)
        BY <1>2, <3>1 DEF Coated
      <3>4. t[k + 1] = s[At(k + 1)]
        BY <1>1, <3>1 DEF Skips
      <3>5. g[1..k] = h[1..At(k)]
        BY <1>6, <3>1
      <3>6. h[1..At(k)] = h[1..(At(k + 1) - 1)]
        <4>1. CASE k + 1 = i
          <5>1. At(k) = i - 1 /\ At(k + 1) - 1 = i
            BY <1>1, <4>1
          <5> HIDE DEF At
          <5>2. QED
            BY <1>4, <5>1
        <4>2. CASE k + 1 # i
          <5>1. At(k) = At(k + 1) - 1
            BY <1>1, <4>2
          <5> HIDE DEF At
          <5>2. QED
            BY <5>1
        <4>3. QED
          BY <4>1, <4>2
      <3> HIDE DEF At
      <3>7. QED
        BY <3>2, <3>3, <3>4, <3>5, <3>6
    <2>2. QED
      BY <2>1
  <1>7. Nat \subseteq Q
    <2> HIDE DEF Q
    <2>1. QED
      BY <1>5, <1>6, AllNumbers
  <1>8. g[1..n] = h[1..At(n)]
    BY <1>1, <1>7
  <1>9. h[1..At(n)] = h[1..Len(s)]
    <2>1. CASE n < i
      <3>1. At(n) = i - 1 /\ Len(s) = i
        BY <1>1, <2>1
      <3> HIDE DEF At
      <3>2. QED
        BY <1>4, <3>1
    <2>2. CASE ~(n < i)
      <3>1. At(n) = Len(s)
        BY <1>1, <2>2
      <3> HIDE DEF At
      <3>2. QED
        BY <3>1
    <2>3. QED
      BY <2>1, <2>2
  <1>10. QED
    BY <1>2, <1>3, <1>8, <1>9

(* The last path that is met is the one that was painted last.             *)
LEMMA LastIsOnTop ==
    ASSUME NEW D, NEW E, NEW s \in Seq(D), NEW S, NEW style, Styled(style, D, E)
    PROVE  LET all == Coats(s, S, style) IN
           LastPath(s, S) = IF all = <<>> THEN Nil ELSE Last(all)[1]
  <1>1. Len(s) \in Nat
    BY LenProperties
  <1>2. PICK h : /\ Coated(h, s, S, style) /\ Coats(s, S, style) = h[1..Len(s)]
                 /\ \A k \in 0..Len(s) : h[1..k] \in Seq(D \X E)
    BY CoatsInTurn
  <1>3. PICK g : Met(g, s, S) /\ LastPath(s, S) = g[1..Len(s)]
    BY MetInTurn
  <1> DEFINE OnTop(k) == g[1..k] = IF h[1..k] = <<>> THEN Nil ELSE Last(h[1..k])[1]
             P == {k \in Nat : k <= Len(s) => OnTop(k)}
  <1>4. 0 \in P
    BY <1>2, <1>3 DEF Coated, Met
  <1>5. ASSUME NEW k \in Nat, k \in P PROVE k + 1 \in P
    <2>1. ASSUME k + 1 <= Len(s) PROVE OnTop(k + 1)
      <3>1. /\ k + 1 \in 1..Len(s) /\ (k + 1) - 1 = k /\ k <= Len(s) /\ k \in 0..Len(s)
        BY <1>1, <2>1
      <3>2. h[1..(k + 1)] = CoatStep(h[1..k], s[k + 1], S, style)
        BY <1>2, <3>1 DEF Coated
      <3>3. g[1..(k + 1)] = IF s[k + 1] \in S THEN s[k + 1] ELSE g[1..k]
        BY <1>3, <3>1 DEF Met
      <3>4. OnTop(k)
        BY <1>5, <3>1
      <3>5. CASE s[k + 1] \in S
        <4> DEFINE a == h[1..k]
                   e == <<s[k + 1], style[s[k + 1]]>>
                   b == Append(a, e)
        <4>1. s[k + 1] \in D /\ a \in Seq(D \X E) /\ e \in D \X E
          BY <1>2, <3>1, ElementOfSeq DEF Styled
        <4> HIDE DEF a, e
        <4>2. Len(b) = Len(a) + 1 /\ b[Len(a) + 1] = e /\ Len(a) \in Nat
          BY <4>1, AppendProperties, LenProperties
        <4>3. b # <<>>
          <5>1. Len(b) # 0
            BY <4>2
          <5> HIDE DEF b
          <5>2. QED
            BY <5>1, EmptySeq
        <4>c. Last(b) = e
          BY <4>2 DEF Last
        <4>4. h[1..(k + 1)] = b
          BY <3>2, <3>5 DEF CoatStep, a, e
        <4>5. g[1..(k + 1)] = e[1]
          BY <3>3, <3>5 DEF e
        <4>6. QED
          BY <4>3, <4>c, <4>4, <4>5
      <3>6. CASE s[k + 1] \notin S
        BY <3>2, <3>3, <3>4, <3>6 DEF CoatStep
      <3>7. QED
        BY <3>5, <3>6
    <2>2. QED
      BY <2>1
  <1>6. Nat \subseteq P
    <2> HIDE DEF P
    <2>1. QED
      BY <1>4, <1>5, AllNumbers
  <1>7. OnTop(Len(s))
    BY <1>1, <1>6
  <1>8. QED
    BY <1>2, <1>3, <1>7

CanvasState ==
    [onMap : BOOLEAN, origin : Origins, window : Windows, animating : BOOLEAN,
     area : SUBSET Cells, shape : [Paths -> Shapes],
     rings : [Paths -> SUBSET Cells], px : [Paths -> (SUBSET Cells) \cup {Nil}],
     parts : [Paths -> SUBSET Cells], style : [Paths -> Styles],
     bounds : (SUBSET Cells) \cup {Nil}, request : {"none", "frame", "dead"},
     orphans : 0..MaxOrphans, hovered : Paths \cup {Nil},
     painted : [Cells -> Seq(Paths \X Styles)], cut : BOOLEAN,
     skipped : BOOLEAN, unclipped : BOOLEAN, turned : BOOLEAN]

(* What of a state stays the same.                                         *)
SamePlace(n, r) ==
    /\ n.onMap = r.onMap /\ n.origin = r.origin /\ n.area = r.area
    /\ n.skipped = r.skipped /\ n.unclipped = r.unclipped /\ n.turned = r.turned

SameCuts(n, r) == n.rings = r.rings /\ n.px = r.px /\ n.parts = r.parts

SamePaths(n, r) == n.shape = r.shape /\ n.style = r.style

SamePaint(n, r) == n.request = r.request /\ n.painted = r.painted /\ n.cut = r.cut

(* What the paths of s make of a cell.                                     *)
CoveringOf(s, r, c) == {p \in ToSet(s) : c \in r.parts[p]}
CoatsOf(s, r, c) == Coats(s, CoveringOf(s, r, c), r.style)

(* A path is projected for where the map is, within its bounds, and cut    *)
(* from what it was projected to, unless something kept it from that.      *)
RingFits(r, p) ==
    /\ r.rings[p] # {} => r.px[p] # Nil /\ r.rings[p] \subseteq r.px[p]
    /\ ~r.turned => r.rings[p] = r.shape[p][r.origin]

PartFits(r, p) ==
    ~r.skipped => /\ r.parts[p] \subseteq r.rings[p]
                  /\ ~r.unclipped => r.parts[p] = r.rings[p] \cap r.area

RingsFit(s, r) == \A p \in ToSet(s) : RingFits(r, p)
AllFit(s, r) == \A p \in ToSet(s) : RingFits(r, p) /\ PartFits(r, p)

InBounds(b, c) == b # Nil /\ c \in b

(* What is not right will be drawn again.                                  *)
ShowsOrWill(s, r) ==
    r.onMap /\ ~r.cut /\ ~r.skipped =>
        /\ r.request # "dead"
        /\ \A c \in r.area : \/ r.request = "frame" /\ InBounds(r.bounds, c)
                             \/ r.painted[c] = CoatsOf(s, r, c)

CanvasSound(s, r) == r \in CanvasState /\ AllFit(s, r) /\ ShowsOrWill(s, r)

CanvasInv == order \in Seq(Paths) /\ Injective(order) /\ CanvasSound(order, canvas)

-----------------------------------------------------------------------------
LEMMA AlikeFits ==
    ASSUME NEW s, NEW r, NEW n, SamePlace(n, r), SameCuts(n, r), SamePaths(n, r)
    PROVE  /\ AllFit(s, r) => AllFit(s, n)
           /\ \A c : CoatsOf(s, n, c) = CoatsOf(s, r, c)
  BY DEF SamePlace, SameCuts, SamePaths, AllFit, RingFits, PartFits, CoatsOf, CoveringOf

LEMMA CoversMore ==
    ASSUME NEW r, NEW p, RingFits(r, p), PartFits(r, p), ~r.skipped,
           NEW c, ~InBounds(r.px[p], c)
    PROVE  c \notin r.parts[p]
  BY DEF RingFits, PartFits, InBounds

(* The map moves and the paths stay as they are; so does a state that      *)
(* differs only in what nothing depends on.                                *)
LEMMA MovedStaysSound ==
    ASSUME NEW s, NEW r, CanvasSound(s, r), NEW n \in CanvasState,
           SameCuts(n, r), SamePaths(n, r), SamePaint(n, r), n.bounds = r.bounds,
           n.onMap = r.onMap, n.area = r.area,
           n.skipped = r.skipped, n.unclipped = r.unclipped,
           n.turned \/ (n.origin = r.origin /\ n.turned = r.turned)
    PROVE  CanvasSound(s, n)
  <1>1. AllFit(s, n) /\ \A c : CoatsOf(s, n, c) = CoatsOf(s, r, c)
    BY DEF SameCuts, SamePaths, CanvasSound, AllFit, RingFits, PartFits, CoatsOf, CoveringOf
  <1>2. ShowsOrWill(s, n)
    BY <1>1 DEF CanvasSound, SamePaint, ShowsOrWill
  <1>3. QED
    BY <1>1, <1>2 DEF CanvasSound

LEMMA HullHolds ==
    ASSUME NEW S \in SUBSET Cells
    PROVE  Hull(S) \in SUBSET Cells /\ S \subseteq Hull(S)
  <1>1. CASE S = {}
    BY <1>1 DEF Hull
  <1>2. CASE S # {}
    <2>1. S \in SUBSET (1..Width) /\ Width \in Nat
      BY CanvasAssumption DEF Cells
    <2>2. Max(S) \in S /\ \A y \in S : y <= Max(S)
      BY <1>2, <2>1, MaxIn
    <2>3. Min(S) \in S /\ \A y \in S : Min(S) <= y
      <3>1. S \in SUBSET Nat
        BY <2>1
      <3>2. QED
        BY <1>2, <3>1, LeastStep DEF Min
    <2>4. Hull(S) = Min(S)..Max(S)
      BY <1>2 DEF Hull
    <2>5. Min(S) \in 1..Width /\ Max(S) \in 1..Width
      BY <2>1, <2>2, <2>3
    <2>6. S \subseteq Min(S)..Max(S)
      BY <2>1, <2>2, <2>3
    <2>7. Min(S)..Max(S) \subseteq 1..Width
      BY <2>1, <2>5
    <2>8. QED
      BY <2>4, <2>6, <2>7 DEF Cells
  <1>3. QED
    BY <1>1, <1>2

(* The bounds to be drawn again only grow, and by those of the path.       *)
LEMMA ExtendIs ==
    ASSUME NEW r \in CanvasState, NEW p \in Paths
    PROVE  LET n == ExtendRedrawBounds(r, p) IN
           /\ n \in CanvasState
           /\ SamePlace(n, r) /\ SameCuts(n, r) /\ SamePaths(n, r) /\ SamePaint(n, r)
           /\ \A c : InBounds(r.bounds, c) => InBounds(n.bounds, c)
           /\ \A c : InBounds(r.px[p], c) => InBounds(n.bounds, c)
  <1>1. CASE r.px[p] = Nil
    BY <1>1 DEF ExtendRedrawBounds, InBounds, SamePlace, SameCuts, SamePaths, SamePaint
  <1>2. CASE r.px[p] # Nil
    <2> DEFINE S == r.px[p] \cup (IF r.bounds = Nil THEN {} ELSE r.bounds)
               b == Hull(S)
               n == [r EXCEPT !.bounds = b]
    <2>1. S \in SUBSET Cells
      <3>1. r.px \in [Paths -> (SUBSET Cells) \cup {Nil}] /\ r.bounds \in (SUBSET Cells) \cup {Nil}
        BY DEF CanvasState
      <3>2. r.px[p] \in SUBSET Cells
        BY <1>2, <3>1
      <3>3. CASE r.bounds = Nil
        BY <3>2, <3>3
      <3>4. CASE r.bounds # Nil
        <4>1. r.bounds \in SUBSET Cells
          BY <3>1, <3>4
        <4>2. QED
          BY <3>2, <3>4, <4>1
      <3>5. QED
        BY <3>3, <3>4
    <2>2. b \in SUBSET Cells /\ S \subseteq b /\ b # Nil
      BY <2>1, HullHolds, CanvasAssumption
    <2>3. ExtendRedrawBounds(r, p) = n
      BY <1>2 DEF ExtendRedrawBounds
    <2> HIDE DEF b
    <2>4. /\ n \in CanvasState /\ n.bounds = b
          /\ SamePlace(n, r) /\ SameCuts(n, r) /\ SamePaths(n, r) /\ SamePaint(n, r)
      BY <2>2 DEF CanvasState, SamePlace, SameCuts, SamePaths, SamePaint
    <2> HIDE DEF n
    <2>5. QED
      BY <1>2, <2>2, <2>3, <2>4 DEF InBounds
  <1>3. QED
    BY <1>1, <1>2

(* Right but for the bounds of p, which a request adds.                    *)
RightButFor(s, r, p) ==
    r.onMap /\ ~r.cut /\ ~r.skipped =>
        /\ r.request # "dead"
        /\ \A c \in r.area : \/ InBounds(r.bounds, c) \/ InBounds(r.px[p], c)
                             \/ r.painted[c] = CoatsOf(s, r, c)

LEMMA Requested ==
    ASSUME NEW r \in CanvasState, NEW p \in Paths, NEW s,
           AllFit(s, r), RightButFor(s, r, p)
    PROVE  CanvasSound(s, RequestRedraw(r, p))
  <1>1. CASE ~r.onMap
    BY <1>1 DEF RequestRedraw, CanvasSound, ShowsOrWill
  <1>2. CASE r.onMap
    <2> DEFINE e == ExtendRedrawBounds(r, p)
               q == IF e.request = "none" THEN "frame" ELSE e.request
               n == [e EXCEPT !.request = q]
    <2>1. RequestRedraw(r, p) = n
      BY <1>2 DEF RequestRedraw
    <2>2. /\ e \in CanvasState
          /\ SamePlace(e, r) /\ SameCuts(e, r) /\ SamePaths(e, r) /\ SamePaint(e, r)
          /\ \A c : InBounds(r.bounds, c) => InBounds(e.bounds, c)
          /\ \A c : InBounds(r.px[p], c) => InBounds(e.bounds, c)
      BY ExtendIs
    <2> HIDE DEF e
    <2>3. q \in {"frame", "dead"} /\ (r.request # "dead" => q = "frame")
      BY <2>2 DEF CanvasState, SamePaint
    <2> HIDE DEF q
    <2>4. /\ n \in CanvasState /\ n.request = q /\ n.bounds = e.bounds
          /\ SamePlace(n, r) /\ SameCuts(n, r) /\ SamePaths(n, r)
          /\ n.painted = r.painted /\ n.cut = r.cut
      BY <2>2, <2>3 DEF CanvasState, SamePlace, SameCuts, SamePaths, SamePaint
    <2> HIDE DEF n
    <2>5. AllFit(s, n) /\ \A c : CoatsOf(s, n, c) = CoatsOf(s, r, c)
      BY <2>4, AlikeFits
    <2>6. ShowsOrWill(s, n)
      BY <2>2, <2>3, <2>4, <2>5 DEF ShowsOrWill, RightButFor, SamePlace
    <2>7. QED
      BY <2>1, <2>4, <2>5, <2>6 DEF CanvasSound
  <1>3. QED
    BY <1>1, <1>2 DEF CanvasState

LEMMA ShapeIs ==
    ASSUME NEW r \in CanvasState, NEW p \in Paths
    PROVE  LET x == r.shape[p][r.origin] IN
           x \in SUBSET Cells /\ Hull(x) \in SUBSET Cells /\ x \subseteq Hull(x) /\ Hull(x) # Nil
  <1>1. r.shape[p] \in Shapes /\ r.origin \in Origins
    BY DEF CanvasState
  <1>2. r.shape[p] \in [Origins -> SUBSET Cells]
    BY <1>1, CanvasAssumption
  <1>3. r.shape[p][r.origin] \in SUBSET Cells
    BY <1>1, <1>2
  <1>4. QED
    BY <1>3, HullHolds, CanvasAssumption

LEMMA ProjectIs ==
    ASSUME NEW r \in CanvasState, NEW S
    PROVE  LET n == ProjectPaths(r, S) IN
           /\ n \in CanvasState
           /\ SamePlace(n, r) /\ SamePaths(n, r) /\ SamePaint(n, r)
           /\ n.parts = r.parts /\ n.bounds = r.bounds /\ n.orphans = r.orphans
           /\ n.window = r.window /\ n.animating = r.animating
           /\ \A p \in Paths : p \in S => /\ RingFits(n, p)
                                          /\ n.rings[p] = r.shape[p][r.origin]
           /\ \A p \in Paths : p \notin S => n.rings[p] = r.rings[p] /\ n.px[p] = r.px[p]
  <1> DEFINE At(p) == r.shape[p][r.origin]
             y == [p \in Paths |-> IF p \in S THEN At(p) ELSE r.rings[p]]
             x == [p \in Paths |-> IF p \in S /\ At(p) # {} THEN Hull(At(p)) ELSE r.px[p]]
             n == [r EXCEPT !.rings = y, !.px = x]
  <1>1. ProjectPaths(r, S) = n
    BY DEF ProjectPaths
  <1>2. \A p \in Paths : r.rings[p] \in SUBSET Cells /\ r.px[p] \in (SUBSET Cells) \cup {Nil}
    BY DEF CanvasState
  <1>3. \A p \in Paths : /\ At(p) \in SUBSET Cells /\ Hull(At(p)) \in SUBSET Cells
                         /\ At(p) \subseteq Hull(At(p)) /\ Hull(At(p)) # Nil
    BY ShapeIs
  <1> HIDE DEF At
  <1>4. /\ x \in [Paths -> (SUBSET Cells) \cup {Nil}] /\ y \in [Paths -> SUBSET Cells]
        /\ \A p \in Paths : p \in S => y[p] = At(p)
        /\ \A p \in Paths : p \in S /\ At(p) # {} => x[p] = Hull(At(p))
        /\ \A p \in Paths : p \notin S => y[p] = r.rings[p] /\ x[p] = r.px[p]
    BY <1>2, <1>3
  <1> HIDE DEF x, y
  <1>5. /\ n \in CanvasState /\ n.px = x /\ n.rings = y
        /\ SamePlace(n, r) /\ SamePaths(n, r) /\ SamePaint(n, r)
        /\ n.parts = r.parts /\ n.bounds = r.bounds /\ n.orphans = r.orphans
        /\ n.window = r.window /\ n.animating = r.animating
    BY <1>4 DEF CanvasState, SamePlace, SamePaths, SamePaint
  <1> HIDE DEF n
  <1>6. \A p \in Paths : n.shape[p][n.origin] = At(p)
    BY <1>5 DEF At, SamePlace, SamePaths
  <1>7. \A p \in Paths : p \in S => RingFits(n, p)
    BY <1>3, <1>4, <1>5, <1>6 DEF RingFits
  <1>8. QED
    BY <1>1, <1>4, <1>5, <1>7 DEF At

LEMMA ClipIs ==
    ASSUME NEW r \in CanvasState, NEW S
    PROVE  LET n == ClipPaths(r, S) IN
           /\ n \in CanvasState
           /\ SamePlace(n, r) /\ SamePaths(n, r) /\ SamePaint(n, r)
           /\ n.rings = r.rings /\ n.px = r.px
           /\ n.bounds = r.bounds /\ n.orphans = r.orphans
           /\ \A p \in Paths : p \in S => n.parts[p] = r.rings[p] \cap r.area
           /\ \A p \in Paths : p \notin S => n.parts[p] = r.parts[p]
  <1> DEFINE x == [p \in Paths |-> IF p \in S THEN r.rings[p] \cap r.area ELSE r.parts[p]]
             n == [r EXCEPT !.parts = x]
  <1>1. ClipPaths(r, S) = n
    BY DEF ClipPaths
  <1>2. \A p \in Paths : r.rings[p] \in SUBSET Cells /\ r.parts[p] \in SUBSET Cells
    BY DEF CanvasState
  <1>3. /\ x \in [Paths -> SUBSET Cells]
        /\ \A p \in Paths : p \in S => x[p] = r.rings[p] \cap r.area
        /\ \A p \in Paths : p \notin S => x[p] = r.parts[p]
    BY <1>2
  <1> HIDE DEF x
  <1>4. /\ n \in CanvasState /\ n.parts = x
        /\ SamePlace(n, r) /\ SamePaths(n, r) /\ SamePaint(n, r)
        /\ n.rings = r.rings /\ n.px = r.px
        /\ n.bounds = r.bounds /\ n.orphans = r.orphans
    BY <1>3 DEF CanvasState, SamePlace, SamePaths, SamePaint
  <1> HIDE DEF n
  <1>5. QED
    BY <1>1, <1>3, <1>4

(* One path is projected and clipped, and the others stay.                 *)
LEMMA PathProjected ==
    ASSUME NEW r \in CanvasState, NEW p \in Paths
    PROVE  LET n == ProjectPath(r, p) IN
           /\ n \in CanvasState
           /\ SamePlace(n, r) /\ SamePaths(n, r) /\ SamePaint(n, r)
           /\ n.bounds = r.bounds
           /\ RingFits(n, p) /\ PartFits(n, p)
           /\ \A q \in Paths : q # p => /\ n.rings[q] = r.rings[q] /\ n.px[q] = r.px[q]
                                        /\ n.parts[q] = r.parts[q]
  <1> DEFINE b == ProjectPaths(r, {p})
             n == ClipPaths(b, {p})
  <1>1. /\ b \in CanvasState
        /\ SamePlace(b, r) /\ SamePaths(b, r) /\ SamePaint(b, r)
        /\ b.parts = r.parts /\ b.bounds = r.bounds
        /\ RingFits(b, p)
        /\ \A q \in Paths : q # p => b.rings[q] = r.rings[q] /\ b.px[q] = r.px[q]
    BY ProjectIs
  <1> HIDE DEF b
  <1>2. /\ n \in CanvasState
        /\ SamePlace(n, b) /\ SamePaths(n, b) /\ SamePaint(n, b)
        /\ n.rings = b.rings /\ n.px = b.px /\ n.bounds = b.bounds
        /\ n.parts[p] = b.rings[p] \cap b.area
        /\ \A q \in Paths : q # p => n.parts[q] = b.parts[q]
    BY <1>1, ClipIs
  <1> HIDE DEF n
  <1>3. SamePlace(n, r) /\ SamePaths(n, r) /\ SamePaint(n, r)
    BY <1>1, <1>2 DEF SamePlace, SamePaths, SamePaint
  <1>4. RingFits(n, p) /\ PartFits(n, p)
    BY <1>1, <1>2 DEF RingFits, PartFits, SamePlace, SamePaths
  <1>5. QED
    BY <1>1, <1>2, <1>3, <1>4 DEF ProjectPath, n, b

LEMMA StyleOf ==
    ASSUME NEW r \in CanvasState PROVE Styled(r.style, Paths, Styles)
  BY DEF CanvasState, Styled

LEMMA CoatsType ==
    ASSUME NEW s \in Seq(Paths), NEW S, NEW r \in CanvasState
    PROVE  Coats(s, S, r.style) \in Seq(Paths \X Styles)
  <1>1. Styled(r.style, Paths, Styles) /\ Len(s) \in Nat
    BY StyleOf, LenProperties
  <1>2. PICK h : /\ Coated(h, s, S, r.style) /\ Coats(s, S, r.style) = h[1..Len(s)]
                 /\ \A k \in 0..Len(s) : h[1..k] \in Seq(Paths \X Styles)
    BY <1>1, CoatsInTurn
  <1>3. QED
    BY <1>1, <1>2

(* On an empty canvas, or on what was cleared, exactly the paths that      *)
(* cover a cell of the area are painted: those left out do not reach it.   *)
LEMMA Drawn ==
    ASSUME NEW r \in CanvasState, order \in Seq(Paths), AllFit(order, r)
    PROVE  LET n == DrawShapes(r) IN
           /\ n \in CanvasState
           /\ SamePlace(n, r) /\ SameCuts(n, r) /\ SamePaths(n, r)
           /\ n.request = r.request /\ n.bounds = r.bounds /\ n.cut = r.cut
           /\ n.orphans = r.orphans
           /\ ~r.skipped =>
                \A c \in r.area :
                   n.painted[c] = IF r.bounds # Nil /\ ~InBounds(r.bounds, c)
                                    THEN r.painted[c] ELSE r.painted[c] \o CoatsOf(order, r, c)
  <1> DEFINE Painting(c) == Coats(order, {p \in Covering(r, c) : ~Missed(r, p)}, r.style)
             Out(c) == c \notin r.area \/ (r.bounds # Nil /\ c \notin r.bounds)
             x == [c \in Cells |-> IF Out(c) THEN r.painted[c]
                                   ELSE r.painted[c] \o Painting(c)]
             n == [r EXCEPT !.painted = x]
  <1>1. DrawShapes(r) = n
    BY DEF DrawShapes
  <1>2. r.painted \in [Cells -> Seq(Paths \X Styles)] /\ r.area \in SUBSET Cells
    BY DEF CanvasState
  <1>3. ASSUME NEW c \in Cells PROVE Painting(c) \in Seq(Paths \X Styles)
    BY CoatsType
  <1>4. ASSUME ~r.skipped, NEW c \in Cells, r.bounds = Nil \/ c \in r.bounds
        PROVE  Painting(c) = CoatsOf(order, r, c)
    <2>1. ASSUME NEW p \in Covering(r, c) PROVE ~Missed(r, p)
      <3>1. p \in ToSet(order) /\ c \in r.parts[p]
        BY DEF Covering
      <3>2. r.px[p] # Nil /\ c \in r.px[p]
        BY <1>4, <3>1, CoversMore DEF AllFit, InBounds
      <3>3. QED
        BY <1>4, <3>2 DEF Missed
    <2>2. {p \in Covering(r, c) : ~Missed(r, p)} = CoveringOf(order, r, c)
      BY <2>1 DEF Covering, CoveringOf
    <2>3. QED
      BY <2>2 DEF CoatsOf
  <1> HIDE DEF Painting
  <1>5. \A c \in Cells : r.painted[c] \o Painting(c) \in Seq(Paths \X Styles)
    BY <1>2, <1>3, ConcatProperties
  <1>6. x \in [Cells -> Seq(Paths \X Styles)]
    BY <1>2, <1>5
  <1>7. ASSUME ~r.skipped, NEW c \in r.area
        PROVE  x[c] = IF r.bounds # Nil /\ ~InBounds(r.bounds, c)
                        THEN r.painted[c] ELSE r.painted[c] \o CoatsOf(order, r, c)
    <2>1. c \in Cells
      BY <1>2, <1>7
    <2>2. CASE r.bounds # Nil /\ c \notin r.bounds
      BY <1>7, <2>1, <2>2 DEF InBounds
    <2>3. CASE ~(r.bounds # Nil /\ c \notin r.bounds)
      BY <1>4, <1>7, <2>1, <2>3 DEF InBounds
    <2>4. QED
      BY <2>2, <2>3
  <1> HIDE DEF x
  <1>8. /\ n \in CanvasState /\ n.painted = x
        /\ SamePlace(n, r) /\ SameCuts(n, r) /\ SamePaths(n, r)
        /\ n.request = r.request /\ n.bounds = r.bounds /\ n.cut = r.cut
        /\ n.orphans = r.orphans
    BY <1>6 DEF CanvasState, SamePlace, SameCuts, SamePaths
  <1> HIDE DEF n
  <1>9. QED
    BY <1>1, <1>7, <1>8

LEMMA NothingBefore ==
    ASSUME NEW s \in Seq(Paths), NEW r \in CanvasState, NEW c
    PROVE  <<>> \o CoatsOf(s, r, c) = CoatsOf(s, r, c)
  <1>1. CoatsOf(s, r, c) \in Seq(Paths \X Styles)
    BY CoatsType DEF CoatsOf
  <1>2. QED
    BY <1>1, ConcatEmptySeq

LEMMA EmptyCanvas == [c \in Cells |-> <<>>] \in [Cells -> Seq(Paths \X Styles)]
  <1>1. <<>> \in Seq(Paths \X Styles)
    BY EmptySeq
  <1>2. QED
    BY <1>1

(* A redraw makes right what it covers, and what was right stays.          *)
LEMMA Redrawn ==
    ASSUME NEW r \in CanvasState, order \in Seq(Paths), AllFit(order, r),
           r.bounds = Nil \/ ShowsOrWill(order, r)
    PROVE  LET n == RedrawCanvas(r) IN
           /\ CanvasSound(order, n) /\ n.orphans = r.orphans
  <1> DEFINE x == [c \in Cells |->
                     IF r.bounds = Nil \/ c \in r.bounds THEN <<>> ELSE r.painted[c]]
             e == [r EXCEPT !.painted = x]
             d == DrawShapes(e)
             t == d.cut /\ d.bounds # Nil
             n == [d EXCEPT !.request = "none", !.bounds = Nil, !.cut = t]
  <1>1. ClearShapes(r) = e
    BY DEF ClearShapes
  <1>2. RedrawCanvas(r) = [d EXCEPT !.request = "none", !.bounds = Nil,
                                    !.cut = @ /\ r.bounds # Nil]
    BY <1>1 DEF RedrawCanvas
  <1>3. /\ e \in CanvasState /\ e.painted = x
        /\ SamePlace(e, r) /\ SameCuts(e, r) /\ SamePaths(e, r)
        /\ e.request = r.request /\ e.bounds = r.bounds /\ e.cut = r.cut
        /\ e.orphans = r.orphans
    <2>1. <<>> \in Seq(Paths \X Styles) /\ r.painted \in [Cells -> Seq(Paths \X Styles)]
      BY EmptySeq DEF CanvasState
    <2>2. x \in [Cells -> Seq(Paths \X Styles)]
      BY <2>1
    <2> HIDE DEF x
    <2>3. QED
      BY <2>2 DEF CanvasState, SamePlace, SameCuts, SamePaths
  <1>4. \A c \in Cells : x[c] = IF r.bounds = Nil \/ c \in r.bounds
                                  THEN <<>> ELSE r.painted[c]
    OBVIOUS
  <1> HIDE DEF e, x
  <1>5. AllFit(order, e) /\ \A c : CoatsOf(order, e, c) = CoatsOf(order, r, c)
    BY <1>3, AlikeFits
  <1>6. /\ d \in CanvasState
        /\ SamePlace(d, e) /\ SameCuts(d, e) /\ SamePaths(d, e)
        /\ d.request = e.request /\ d.bounds = e.bounds /\ d.cut = e.cut
        /\ d.orphans = e.orphans
        /\ ~e.skipped =>
             \A c \in e.area :
                d.painted[c] = IF e.bounds # Nil /\ ~InBounds(e.bounds, c)
                                 THEN e.painted[c] ELSE e.painted[c] \o CoatsOf(order, e, c)
    BY <1>3, <1>5, Drawn
  <1> HIDE DEF d
  <1>7. ASSUME ~r.skipped, NEW c \in r.area
        PROVE  d.painted[c] = IF r.bounds # Nil /\ ~InBounds(r.bounds, c)
                                THEN r.painted[c] ELSE CoatsOf(order, r, c)
    <2>1. c \in Cells /\ ~e.skipped /\ c \in e.area
      BY <1>3, <1>7 DEF CanvasState, SamePlace
    <2>2. CASE r.bounds # Nil /\ ~InBounds(r.bounds, c)
      BY <1>3, <1>4, <1>6, <2>1, <2>2 DEF InBounds
    <2>3. CASE ~(r.bounds # Nil /\ ~InBounds(r.bounds, c))
      <3>1. e.painted[c] = <<>>
        BY <1>3, <1>4, <2>1, <2>3 DEF InBounds
      <3>2. d.painted[c] = <<>> \o CoatsOf(order, e, c)
        BY <1>3, <1>6, <2>1, <2>3, <3>1
      <3>3. QED
        BY <1>3, <1>5, <2>3, <3>2, NothingBefore
    <2>4. QED
      BY <2>2, <2>3
  <1>8. RedrawCanvas(r) = n
    <2>1. d.bounds = r.bounds
      BY <1>3, <1>6
    <2>2. QED
      BY <1>2, <2>1
  <1>9. t \in BOOLEAN /\ (~t => ~r.cut \/ r.bounds = Nil)
    BY <1>3, <1>6 DEF CanvasState
  <1> HIDE DEF t
  <1>10. /\ n \in CanvasState /\ n.request = "none" /\ n.bounds = Nil /\ n.cut = t
         /\ SamePlace(n, d) /\ SameCuts(n, d) /\ SamePaths(n, d)
         /\ n.painted = d.painted /\ n.orphans = d.orphans
    BY <1>6, <1>9, ZenonT(40) DEF CanvasState, SamePlace, SameCuts, SamePaths
  <1> HIDE DEF n
  <1>11. SamePlace(n, r) /\ SameCuts(n, r) /\ SamePaths(n, r)
    BY <1>3, <1>6, <1>10 DEF SamePlace, SameCuts, SamePaths
  <1>12. AllFit(order, n) /\ \A c : CoatsOf(order, n, c) = CoatsOf(order, r, c)
    BY <1>11, AlikeFits
  <1>13. ShowsOrWill(order, n)
    <2> SUFFICES ASSUME n.onMap, ~n.cut, ~n.skipped, NEW c \in n.area
                 PROVE  n.painted[c] = CoatsOf(order, n, c)
      BY <1>10 DEF ShowsOrWill
    <2>1. r.onMap /\ ~r.skipped /\ c \in r.area
      BY <1>11 DEF SamePlace
    <2>2. CASE r.bounds = Nil \/ InBounds(r.bounds, c)
      BY <1>7, <1>10, <1>12, <2>1, <2>2
    <2>3. CASE r.bounds # Nil /\ ~InBounds(r.bounds, c)
      <3>1. r.painted[c] = CoatsOf(order, r, c)
        BY <1>9, <1>10, <2>1, <2>3 DEF ShowsOrWill
      <3>2. QED
        BY <1>7, <1>10, <1>12, <2>1, <2>3, <3>1
    <2>4. QED
      BY <2>2, <2>3
  <1>14. QED
    BY <1>3, <1>6, <1>8, <1>10, <1>12, <1>13 DEF CanvasSound

(* A renderer whose marks are set or cleared is a renderer.                *)
LEMMA MarksKeepType ==
    ASSUME NEW r \in CanvasState,
           NEW k \in BOOLEAN, NEW u \in BOOLEAN, NEW t \in BOOLEAN
    PROVE  [r EXCEPT !.skipped = k, !.unclipped = u, !.cut = t] \in CanvasState
  <1> DEFINE O == Origins   W == Windows   A == SUBSET Cells   S == [Paths -> Shapes]
             R == [Paths -> SUBSET Cells]   P == [Paths -> (SUBSET Cells) \cup {Nil}]
             Y == [Paths -> Styles]   B == (SUBSET Cells) \cup {Nil}
             Q == {"none", "frame", "dead"}   M == 0..MaxOrphans   H == Paths \cup {Nil}
             I == [Cells -> Seq(Paths \X Styles)]   L == BOOLEAN
             T == [onMap : L, origin : O, window : W, animating : L, area : A, shape : S,
                   rings : R, px : P, parts : R, style : Y, bounds : B, request : Q,
                   orphans : M, hovered : H, painted : I, cut : L, skipped : L,
                   unclipped : L, turned : L]
  <1>1. CanvasState = T
    BY DEF CanvasState
  <1>2. r \in T /\ k \in L /\ u \in L /\ t \in L
    BY <1>1
  <1> HIDE DEF O, W, A, S, R, P, Y, B, Q, M, H, I, L
  <1>3. [r EXCEPT !.skipped = k, !.unclipped = u, !.cut = t] \in T
    BY <1>2
  <1>4. QED
    BY <1>1, <1>3

(* A renderer that comes to the map draws all as it was cut, or is behind. *)
LEMMA RendererAdded ==
    ASSUME NEW r, order \in Seq(Paths), CanvasSound(order, r)
    PROVE  CanvasSound(order, AddRenderer(r))
  <1>1. CASE r.onMap
    BY <1>1 DEF AddRenderer
  <1>2. CASE ~r.onMap
    <2> DEFINE x == [c \in Cells |-> <<>>]
               a == IF r.animating THEN r.area ELSE r.window
               k == r.skipped \/ r.animating
               u == r.unclipped \/ (~r.animating /\ r.window # r.area)
               t == r.cut \/ r.request # "none" \/ r.bounds # Nil
               e == [r EXCEPT !.onMap = TRUE, !.painted = x, !.area = a, !.skipped = k,
                              !.unclipped = u, !.cut = t]
               n == DrawShapes(e)
    <2>1. AddRenderer(r) = n
      BY <1>2 DEF AddRenderer
    <2>2. r \in CanvasState /\ AllFit(order, r)
      BY DEF CanvasSound
    <2>3. /\ a \in SUBSET Cells /\ k \in BOOLEAN /\ u \in BOOLEAN /\ t \in BOOLEAN
          /\ ~k => ~r.skipped /\ (~u => ~r.unclipped /\ a = r.area)
          /\ ~t => r.request = "none" /\ r.bounds = Nil
      BY <2>2, CanvasAssumption DEF CanvasState
    <2>4. \A c \in Cells : x[c] = <<>>
      OBVIOUS
    <2>5. x \in [Cells -> Seq(Paths \X Styles)]
      BY EmptyCanvas
    <2> HIDE DEF x, a, k, u, t
    <2> DEFINE f == [r EXCEPT !.onMap = TRUE, !.painted = x, !.area = a]
               g == [f EXCEPT !.skipped = k, !.unclipped = u, !.cut = t]
    <2>6. /\ e \in CanvasState /\ e.painted = x /\ e.cut = t /\ e.onMap = TRUE
          /\ e.area = a /\ e.skipped = k /\ e.unclipped = u
          /\ e.turned = r.turned /\ e.origin = r.origin
          /\ SameCuts(e, r) /\ SamePaths(e, r)
          /\ e.request = r.request /\ e.bounds = r.bounds
      <3>1. e = g
        OBVIOUS
      <3>2. /\ f \in CanvasState /\ f.painted = x /\ f.onMap = TRUE /\ f.area = a
            /\ f.turned = r.turned /\ f.origin = r.origin
            /\ SameCuts(f, r) /\ SamePaths(f, r)
            /\ f.request = r.request /\ f.bounds = r.bounds
        BY <2>2, <2>3, <2>5 DEF CanvasState, SameCuts, SamePaths
      <3> HIDE DEF e, f
      <3>3. g \in CanvasState
        BY <2>3, <3>2, MarksKeepType
      <3>4. /\ g.painted = f.painted /\ g.onMap = f.onMap /\ g.area = f.area
            /\ g.turned = f.turned /\ g.origin = f.origin
            /\ SameCuts(g, f) /\ SamePaths(g, f)
            /\ g.request = f.request /\ g.bounds = f.bounds
        BY <3>2 DEF CanvasState, SameCuts, SamePaths
      <3>5. g.cut = t /\ g.skipped = k /\ g.unclipped = u
        BY <3>2 DEF CanvasState
      <3> HIDE DEF g
      <3>6. QED
        BY <3>1, <3>2, <3>3, <3>4, <3>5 DEF SameCuts, SamePaths
    <2> HIDE DEF e, f, g
    <2>7. AllFit(order, e)
      BY <2>2, <2>3, <2>6 DEF AllFit, RingFits, PartFits, SameCuts, SamePaths
    <2>8. /\ n \in CanvasState
          /\ SamePlace(n, e) /\ SameCuts(n, e) /\ SamePaths(n, e)
          /\ n.request = e.request /\ n.bounds = e.bounds /\ n.cut = e.cut
          /\ ~e.skipped =>
               \A c \in e.area :
                  n.painted[c] = IF e.bounds # Nil /\ ~InBounds(e.bounds, c)
                                   THEN e.painted[c] ELSE e.painted[c] \o CoatsOf(order, e, c)
      BY <2>6, <2>7, Drawn
    <2> HIDE DEF n
    <2>9. AllFit(order, n) /\ \A c : CoatsOf(order, n, c) = CoatsOf(order, e, c)
      BY <2>7, <2>8, AlikeFits
    <2>10. ShowsOrWill(order, n)
      <3> SUFFICES ASSUME ~n.cut, ~n.skipped
                   PROVE  /\ n.request = "none"
                          /\ \A c \in n.area : n.painted[c] = CoatsOf(order, n, c)
        BY DEF ShowsOrWill
      <3>1. e.request = "none" /\ e.bounds = Nil /\ ~e.skipped /\ n.area = e.area
        BY <2>3, <2>6, <2>8 DEF SamePlace
      <3>2. \A c \in e.area : c \in Cells
        BY <2>6 DEF CanvasState
      <3>3. \A c \in e.area : n.painted[c] = <<>> \o CoatsOf(order, e, c)
        BY <2>4, <2>6, <2>8, <3>1, <3>2
      <3>4. QED
        BY <2>6, <2>8, <2>9, <3>1, <3>3, NothingBefore
    <2>11. QED
      BY <2>1, <2>8, <2>9, <2>10 DEF CanvasSound
  <1>3. QED
    BY <1>1, <1>2

LEMMA PathsOfOrder ==
    ASSUME order \in Seq(Paths) PROVE ToSet(order) \subseteq Paths
  <1>1. DOMAIN order = 1..Len(order)
    BY LenProperties
  <1>2. \A i \in 1..Len(order) : order[i] \in Paths
    BY ElementOfSeq
  <1>3. QED
    BY <1>1, <1>2 DEF ToSet

LEMMA PathAdded ==
    ASSUME CanvasInv, NEW p \in Paths, AddPath(p)
    PROVE  CanvasInv'
  <1> DEFINE t == Append(order, p)
             a == AddRenderer(canvas)
             b == ProjectPath(a, p)
  <1>1. order \in Seq(Paths) /\ Injective(order) /\ CanvasSound(order, canvas)
    BY DEF CanvasInv
  <1>2. order' = t /\ canvas' = RequestRedraw(b, p) /\ p \notin ToSet(order)
    <2>1. DOMAIN order = 1..Len(order)
      BY <1>1, LenProperties
    <2>2. ~Contains(order, p)
      BY DEF AddPath, AddAtEnd
    <2>3. QED
      BY <2>1, <2>2 DEF AddPath, AddAtEnd, SetCanvas, Contains, ToSet
  <1>3. t \in Seq(Paths) /\ Injective(t) /\ ToSet(t) = ToSet(order) \cup {p}
    BY <1>1, <1>2, Appends
  <1>4. CanvasSound(order, a)
    BY <1>1, RendererAdded
  <1>5. a \in CanvasState /\ AllFit(order, a) /\ ShowsOrWill(order, a)
    BY <1>4 DEF CanvasSound
  <1> HIDE DEF a
  <1>6. /\ b \in CanvasState
        /\ SamePlace(b, a) /\ SamePaths(b, a) /\ SamePaint(b, a) /\ b.bounds = a.bounds
        /\ RingFits(b, p) /\ PartFits(b, p)
        /\ \A q \in Paths : q # p => /\ b.rings[q] = a.rings[q] /\ b.px[q] = a.px[q]
                                     /\ b.parts[q] = a.parts[q]
    BY <1>5, PathProjected
  <1> HIDE DEF b
  <1>7. \A q \in ToSet(order) : q \in Paths /\ q # p
    BY <1>1, <1>2, PathsOfOrder
  <1>8. AllFit(t, b)
    <2>1. ASSUME NEW q \in ToSet(order) PROVE RingFits(b, q) /\ PartFits(b, q)
      <3>1. RingFits(a, q) /\ PartFits(a, q) /\ q \in Paths /\ q # p
        BY <1>5, <1>7 DEF AllFit
      <3>2. QED
        BY <1>6, <3>1 DEF RingFits, PartFits, SamePlace, SamePaths
    <2>2. QED
      BY <1>3, <1>6, <2>1 DEF AllFit
  <1>9. ASSUME ~b.skipped, NEW c \in Cells, ~InBounds(b.px[p], c)
        PROVE  CoatsOf(t, b, c) = CoatsOf(order, a, c)
    <2>1. c \notin b.parts[p]
      BY <1>6, <1>9, CoversMore
    <2> DEFINE S == CoveringOf(order, a, c)
    <2>2. CoveringOf(t, b, c) = S
      BY <1>3, <1>6, <1>7, <2>1 DEF CoveringOf
    <2>3. p \notin S /\ Styled(a.style, Paths, Styles)
      BY <1>2, <1>5, StyleOf DEF CoveringOf
    <2> HIDE DEF S, t
    <2>4. Coats(t, S, a.style) = Coats(order, S, a.style)
      BY <1>1, <2>3, CoatsAppended DEF t
    <2>5. QED
      BY <1>6, <2>2, <2>4 DEF CoatsOf, S, SamePaths
  <1>10. RightButFor(t, b, p)
    <2> SUFFICES ASSUME b.onMap, ~b.cut, ~b.skipped
                 PROVE  /\ b.request # "dead"
                        /\ \A c \in b.area : \/ InBounds(b.bounds, c) \/ InBounds(b.px[p], c)
                                             \/ b.painted[c] = CoatsOf(t, b, c)
      BY DEF RightButFor
    <2>1. a.onMap /\ ~a.cut /\ ~a.skipped /\ b.area = a.area /\ b.area \subseteq Cells
      BY <1>6 DEF SamePlace, SamePaint, CanvasState
    <2>2. QED
      BY <1>5, <1>6, <1>9, <2>1 DEF ShowsOrWill, SamePaint
  <1> HIDE DEF t
  <1>11. CanvasSound(t, RequestRedraw(b, p))
    BY <1>6, <1>8, <1>10, Requested
  <1>12. QED
    BY <1>2, <1>3, <1>11 DEF CanvasInv

(* The order without one path, and with it elsewhere.                      *)
LEMMA Reordered ==
    ASSUME NEW s \in Seq(Paths), NEW t \in Seq(Paths), NEW p \in Paths,
           p \in ToSet(s), ToSet(t) \subseteq ToSet(s), ToSet(s) \subseteq ToSet(t) \cup {p},
           NEW r, CanvasSound(s, r),
           \A S : p \notin S => Coats(t, S, r.style) = Coats(s, S, r.style)
    PROVE  CanvasSound(t, RequestRedraw(r, p))
  <1>1. r \in CanvasState /\ AllFit(s, r) /\ ShowsOrWill(s, r)
    BY DEF CanvasSound
  <1>2. AllFit(t, r)
    BY <1>1 DEF AllFit
  <1>3. ASSUME ~r.skipped, NEW c \in Cells, ~InBounds(r.px[p], c)
        PROVE  CoatsOf(t, r, c) = CoatsOf(s, r, c)
    <2>1. c \notin r.parts[p]
      BY <1>1, <1>3, CoversMore DEF AllFit
    <2>2. CoveringOf(t, r, c) = CoveringOf(s, r, c) /\ p \notin CoveringOf(s, r, c)
      BY <2>1 DEF CoveringOf
    <2>3. QED
      BY <2>2 DEF CoatsOf
  <1>4. RightButFor(t, r, p)
    <2>1. r.area \subseteq Cells
      BY <1>1 DEF CanvasState
    <2>2. QED
      BY <1>1, <1>3, <2>1 DEF ShowsOrWill, RightButFor
  <1>5. QED
    BY <1>1, <1>2, <1>4, Requested

LEMMA OrderChanged ==
    ASSUME CanvasInv, NEW p \in Paths, Reorder(p)
    PROVE  CanvasInv'
  <1> DEFINE s == order
             r == canvas
  <1>1. s \in Seq(Paths) /\ Injective(s) /\ CanvasSound(s, r)
    BY DEF CanvasInv
  <1>2. DOMAIN s = 1..Len(s) /\ Len(s) \in Nat
    BY <1>1, LenProperties
  <1>3. canvas' = RequestRedraw(r, p)
    BY DEF Reorder, SetCanvas
  <1>4. PICK i \in 1..Len(s) :
           /\ s[i] = p
           /\ \/ order' = RemoveAt(s, i)
              \/ order' = Append(RemoveAt(s, i), p)
              \/ order' = <<p>> \o RemoveAt(s, i)
    BY <1>2 DEF Reorder, TakeOut, ToEnd, ToStart
  <1> DEFINE u == RemoveAt(s, i)
  <1> HIDE DEF s, r
  <1>5. /\ u \in Seq(Paths) /\ Len(u) = Len(s) - 1
        /\ \A j \in 1..Len(u) : u[j] = IF j < i THEN s[j] ELSE s[j + 1]
        /\ Injective(u) /\ ToSet(u) = ToSet(s) \ {p}
    BY <1>1, <1>4, Removes, SMTT(40)
  <1> HIDE DEF u
  <1>6. /\ r \in CanvasState /\ Styled(r.style, Paths, Styles)
        /\ p \in ToSet(s) /\ p \notin ToSet(u)
    BY <1>1, <1>2, <1>4, <1>5, StyleOf DEF CanvasSound, ToSet
  <1>7. ASSUME NEW S, p \notin S PROVE Coats(u, S, r.style) = Coats(s, S, r.style)
    <2>1. Skips(s, u, i) /\ s[i] \notin S
      BY <1>4, <1>5, <1>7 DEF Skips
    <2>2. QED
      BY <1>1, <1>5, <1>6, <2>1, CoatsSkipped
  <1>8. CASE order' = u
    <2>1. CanvasSound(u, RequestRedraw(r, p))
      BY <1>1, <1>5, <1>6, <1>7, Reordered
    <2>2. QED
      BY <1>3, <1>5, <1>8, <2>1 DEF CanvasInv
  <1>9. CASE order' = Append(u, p)
    <2> DEFINE t == Append(u, p)
    <2>1. t \in Seq(Paths) /\ Injective(t) /\ ToSet(t) = ToSet(u) \cup {p}
      BY <1>5, <1>6, Appends
    <2>2. ASSUME NEW S, p \notin S PROVE Coats(t, S, r.style) = Coats(s, S, r.style)
      <3>1. Coats(t, S, r.style) = Coats(u, S, r.style)
        BY <1>5, <1>6, <2>2, CoatsAppended
      <3>2. QED
        BY <1>7, <2>2, <3>1
    <2> HIDE DEF t
    <2>3. CanvasSound(t, RequestRedraw(r, p))
      BY <1>1, <1>5, <1>6, <2>1, <2>2, Reordered
    <2>4. QED
      BY <1>3, <1>9, <2>1, <2>3 DEF CanvasInv, t
  <1>10. CASE order' = <<p>> \o u
    <2> DEFINE t == <<p>> \o u
    <2>1. /\ t \in Seq(Paths) /\ Injective(t) /\ ToSet(t) = ToSet(u) \cup {p}
          /\ Len(t) = Len(u) + 1 /\ t[1] = p
          /\ \A j \in 1..Len(u) : t[j + 1] = u[j]
      BY <1>5, <1>6, Prepends
    <2> HIDE DEF t
    <2>2. ASSUME NEW S, p \notin S PROVE Coats(t, S, r.style) = Coats(s, S, r.style)
      <3>1. Skips(t, u, 1) /\ t[1] \notin S
        <4>1. Len(u) \in Nat
          BY <1>5, LenProperties
        <4>2. QED
          BY <2>1, <2>2, <4>1 DEF Skips
      <3>2. Coats(u, S, r.style) = Coats(t, S, r.style)
        BY <1>5, <1>6, <2>1, <3>1, CoatsSkipped
      <3>3. QED
        BY <1>7, <2>2, <3>2
    <2>3. CanvasSound(t, RequestRedraw(r, p))
      BY <1>1, <1>5, <1>6, <2>1, <2>2, Reordered
    <2>4. QED
      BY <1>3, <1>10, <2>1, <2>3 DEF CanvasInv, t
  <1>11. QED
    BY <1>4, <1>8, <1>9, <1>10 DEF u

LEMMA ShapeSet ==
    ASSUME CanvasInv, NEW p \in Paths, NEW shape \in Shapes, SetLatLngs(p, shape)
    PROVE  CanvasInv'
  <1> DEFINE r == canvas
             x == [r.shape EXCEPT ![p] = shape]
             n == [r EXCEPT !.shape = x]
  <1>1. order \in Seq(Paths) /\ Injective(order) /\ order' = order
        /\ r \in CanvasState /\ AllFit(order, r) /\ ShowsOrWill(order, r)
    BY DEF CanvasInv, CanvasSound, SetLatLngs
  <1>2. /\ canvas' = IF Contains(order, p) THEN UpdatePath(n, p) ELSE n
        /\ Contains(order, p) <=> p \in ToSet(order)
    <2>1. [canvas EXCEPT !.shape[p] = shape] = n
      OBVIOUS
    <2>2. DOMAIN order = 1..Len(order)
      BY <1>1, LenProperties
    <2> HIDE DEF n
    <2>3. QED
      BY <2>1, <2>2 DEF SetLatLngs, SetCanvas, Contains, ToSet
  <1>3. /\ x \in [Paths -> Shapes] /\ \A q \in Paths : q # p => x[q] = r.shape[q]
    BY <1>1 DEF CanvasState
  <1> HIDE DEF x
  <1>4. /\ n \in CanvasState /\ n.shape = x /\ n.style = r.style
        /\ SamePlace(n, r) /\ SameCuts(n, r) /\ SamePaint(n, r) /\ n.bounds = r.bounds
    BY <1>1, <1>3 DEF CanvasState, SamePlace, SameCuts, SamePaint
  <1>5. ToSet(order) \subseteq Paths
    BY <1>1, PathsOfOrder
  <1> HIDE DEF n, r
  <1>6. ASSUME NEW q \in ToSet(order), q # p PROVE RingFits(n, q) /\ PartFits(n, q)
    <2>1. RingFits(r, q) /\ PartFits(r, q) /\ n.shape[q] = r.shape[q]
      BY <1>1, <1>3, <1>4, <1>5, <1>6 DEF AllFit
    <2>2. QED
      BY <1>4, <2>1 DEF RingFits, PartFits, SamePlace, SameCuts
  <1>7. CASE p \notin ToSet(order)
    <2>1. AllFit(order, n)
      BY <1>6, <1>7 DEF AllFit
    <2>2. \A c : CoatsOf(order, n, c) = CoatsOf(order, r, c)
      BY <1>4 DEF CoatsOf, CoveringOf, SameCuts
    <2>3. ShowsOrWill(order, n)
      BY <1>1, <1>4, <2>2 DEF ShowsOrWill, SamePlace, SamePaint
    <2>4. QED
      BY <1>1, <1>2, <1>4, <1>7, <2>1, <2>3 DEF CanvasInv, CanvasSound
  <1>8. CASE p \in ToSet(order)
    <2> DEFINE e == ExtendRedrawBounds(n, p)
               b == ProjectPath(e, p)
    <2>1. canvas' = RequestRedraw(b, p)
      BY <1>2, <1>8 DEF UpdatePath
    <2>2. /\ e \in CanvasState
          /\ SamePlace(e, n) /\ SameCuts(e, n) /\ SamePaths(e, n) /\ SamePaint(e, n)
          /\ \A c : InBounds(n.bounds, c) => InBounds(e.bounds, c)
          /\ \A c : InBounds(n.px[p], c) => InBounds(e.bounds, c)
      BY <1>4, ExtendIs
    <2> HIDE DEF e
    <2>3. /\ b \in CanvasState
          /\ SamePlace(b, e) /\ SamePaths(b, e) /\ SamePaint(b, e) /\ b.bounds = e.bounds
          /\ RingFits(b, p) /\ PartFits(b, p)
          /\ \A q \in Paths : q # p => /\ b.rings[q] = e.rings[q] /\ b.px[q] = e.px[q]
                                       /\ b.parts[q] = e.parts[q]
      BY <2>2, PathProjected
    <2> HIDE DEF b
    <2>4. /\ SamePlace(b, n) /\ SamePaths(b, n) /\ SamePaint(b, r) /\ b.style = r.style
          /\ SamePlace(b, r)
          /\ \A q \in Paths : q # p => /\ b.rings[q] = n.rings[q] /\ b.px[q] = n.px[q]
                                       /\ b.parts[q] = n.parts[q]
      BY <1>4, <2>2, <2>3 DEF SamePlace, SameCuts, SamePaths, SamePaint
    <2>5. AllFit(order, b)
      <3>1. ASSUME NEW q \in ToSet(order), q # p PROVE RingFits(b, q) /\ PartFits(b, q)
        BY <1>5, <1>6, <2>4, <3>1 DEF RingFits, PartFits, SamePlace, SamePaths
      <3>2. QED
        BY <2>3, <3>1 DEF AllFit
    <2>6. ASSUME ~b.skipped, NEW c \in Cells, ~InBounds(b.bounds, c), ~InBounds(b.px[p], c)
          PROVE  CoatsOf(order, b, c) = CoatsOf(order, r, c)
      <3>1. c \notin b.parts[p]
        BY <2>3, <2>6, CoversMore
      <3>2. c \notin r.parts[p]
        <4>1. ~InBounds(r.px[p], c) /\ ~r.skipped
          BY <1>4, <2>2, <2>3, <2>4, <2>6 DEF SameCuts, SamePlace
        <4>2. RingFits(r, p) /\ PartFits(r, p)
          BY <1>1, <1>8 DEF AllFit
        <4>3. QED
          BY <4>1, <4>2, CoversMore
      <3>3. CoveringOf(order, b, c) = CoveringOf(order, r, c)
        BY <1>4, <1>5, <2>4, <3>1, <3>2 DEF CoveringOf, SameCuts
      <3>4. QED
        BY <2>4, <3>3 DEF CoatsOf
    <2>7. \A c : InBounds(r.bounds, c) => InBounds(b.bounds, c)
      BY <1>4, <2>2, <2>3
    <2>8. RightButFor(order, b, p)
      <3> SUFFICES ASSUME b.onMap, ~b.cut, ~b.skipped
                   PROVE  /\ b.request # "dead"
                          /\ \A c \in b.area : \/ InBounds(b.bounds, c)
                                               \/ InBounds(b.px[p], c)
                                               \/ b.painted[c] = CoatsOf(order, b, c)
        BY DEF RightButFor
      <3>1. r.onMap /\ ~r.cut /\ ~r.skipped /\ b.area = r.area /\ b.area \subseteq Cells
        BY <2>3, <2>4 DEF SamePlace, SamePaint, CanvasState
      <3>2. QED
        BY <1>1, <2>4, <2>6, <2>7, <3>1 DEF ShowsOrWill, SamePaint
    <2>9. CanvasSound(order, RequestRedraw(b, p))
      BY <2>3, <2>5, <2>8, Requested
    <2>10. QED
      BY <1>1, <2>1, <2>9 DEF CanvasInv
  <1>9. QED
    BY <1>7, <1>8

LEMMA StyleSet ==
    ASSUME CanvasInv, NEW p \in Paths, NEW style \in Styles, SetStyle(p, style)
    PROVE  CanvasInv'
  <1> DEFINE r == canvas
             x == [r.style EXCEPT ![p] = style]
             n == [r EXCEPT !.style = x]
  <1>1. order \in Seq(Paths) /\ Injective(order) /\ order' = order
        /\ r \in CanvasState /\ AllFit(order, r) /\ ShowsOrWill(order, r)
    BY DEF CanvasInv, CanvasSound, SetStyle
  <1>2. canvas' = RequestRedraw(n, p)
    <2>1. [canvas EXCEPT !.style[p] = style] = n
      OBVIOUS
    <2> HIDE DEF n
    <2>2. QED
      BY <2>1 DEF SetStyle, SetCanvas
  <1>3. x \in [Paths -> Styles] /\ \A q \in Paths : q # p => x[q] = r.style[q]
    BY <1>1 DEF CanvasState
  <1> HIDE DEF x
  <1>4. /\ n \in CanvasState /\ n.style = x /\ n.shape = r.shape
        /\ SamePlace(n, r) /\ SameCuts(n, r) /\ SamePaint(n, r) /\ n.bounds = r.bounds
    BY <1>1, <1>3 DEF CanvasState, SamePlace, SameCuts, SamePaint
  <1>5. ToSet(order) \subseteq Paths
    BY <1>1, PathsOfOrder
  <1> HIDE DEF n, r
  <1>6. AllFit(order, n)
    BY <1>1, <1>4 DEF AllFit, RingFits, PartFits, SamePlace, SameCuts
  <1>7. ASSUME ~n.skipped, NEW c \in Cells, ~InBounds(n.px[p], c)
        PROVE  CoatsOf(order, n, c) = CoatsOf(order, r, c)
    <2> DEFINE S == CoveringOf(order, r, c)
    <2>1. CoveringOf(order, n, c) = S
      BY <1>4 DEF CoveringOf, SameCuts
    <2>2. p \notin S
      <3>1. ASSUME p \in ToSet(order) PROVE c \notin n.parts[p]
        BY <1>6, <1>7, <3>1, CoversMore DEF AllFit
      <3>2. QED
        BY <1>4, <3>1 DEF CoveringOf, SameCuts
    <2>3. S \subseteq Paths
      BY <1>5 DEF CoveringOf
    <2> HIDE DEF S
    <2>4. \A q \in S : n.style[q] = r.style[q]
      BY <1>3, <1>4, <2>2, <2>3
    <2>5. Styled(n.style, Paths, Styles) /\ Styled(r.style, Paths, Styles)
      BY <1>1, <1>4, StyleOf
    <2>6. Coats(order, S, n.style) = Coats(order, S, r.style)
      BY <1>1, <2>4, <2>5, CoatsRestyled
    <2>7. QED
      BY <2>1, <2>6 DEF CoatsOf, S
  <1>8. RightButFor(order, n, p)
    <2>1. n.area \subseteq Cells
      BY <1>4 DEF CanvasState
    <2>2. QED
      BY <1>1, <1>4, <1>7, <2>1 DEF ShowsOrWill, RightButFor, SamePlace, SamePaint
  <1>9. CanvasSound(order, RequestRedraw(n, p))
    BY <1>4, <1>6, <1>8, Requested
  <1>10. QED
    BY <1>1, <1>2, <1>9 DEF CanvasInv

(* What is the same but for the marks and the area fits as it did.         *)
LEMMA RingsStay ==
    ASSUME NEW s, NEW r, RingsFit(s, r), NEW n, n.rings = r.rings, n.px = r.px,
           n.shape = r.shape, n.origin = r.origin, n.turned = r.turned
    PROVE  RingsFit(s, n)
  BY DEF RingsFit, RingFits

LEMMA FitsSound ==
    ASSUME NEW s, NEW r, CanvasSound(s, r) PROVE r \in CanvasState /\ RingsFit(s, r)
  BY DEF CanvasSound, AllFit, RingsFit

(* Frames on their way do not matter to what is right.                     *)
LEMMA OrphansDoNotMatter ==
    ASSUME NEW s, NEW r, CanvasSound(s, r), NEW k \in 0..MaxOrphans
    PROVE  CanvasSound(s, [r EXCEPT !.orphans = k])
  <1> DEFINE n == [r EXCEPT !.orphans = k]
  <1>1. /\ n \in CanvasState
        /\ SameCuts(n, r) /\ SamePaths(n, r) /\ SamePaint(n, r) /\ n.bounds = r.bounds
        /\ n.onMap = r.onMap /\ n.area = r.area
        /\ n.skipped = r.skipped /\ n.unclipped = r.unclipped
        /\ n.origin = r.origin /\ n.turned = r.turned
    BY DEF CanvasSound, CanvasState, SameCuts, SamePaths, SamePaint
  <1> HIDE DEF n
  <1>2. CanvasSound(s, n)
    BY <1>1, MovedStaysSound
  <1>3. QED
    BY <1>2 DEF n

(* All paths are cut anew from what they were projected to, and drawn.     *)
LEMMA AllUpdated ==
    ASSUME NEW r \in CanvasState, order \in Seq(Paths), RingsFit(order, r),
           r.request = "frame" => r.orphans < MaxOrphans
    PROVE  CanvasSound(order, UpdatePaths(r))
  <1> DEFINE x == [c \in Cells |-> <<>>]
             b == ClipPaths(r, ToSet(order))
             e == [b EXCEPT !.bounds = Nil, !.unclipped = FALSE, !.painted = x]
             d == RedrawCanvas(e)
             n == [d EXCEPT !.orphans = d.orphans + 1]
  <1>1. UpdatePaths(r) = IF r.request = "frame" THEN n ELSE d
    BY DEF UpdatePaths
  <1>2. /\ b \in CanvasState
        /\ SamePlace(b, r) /\ SamePaths(b, r)
        /\ b.rings = r.rings /\ b.px = r.px /\ b.orphans = r.orphans
        /\ \A p \in Paths : p \in ToSet(order) => b.parts[p] = r.rings[p] \cap r.area
    BY ClipIs
  <1>3. x \in [Cells -> Seq(Paths \X Styles)]
    BY EmptyCanvas
  <1> HIDE DEF b, x
  <1>4. /\ e \in CanvasState /\ e.bounds = Nil /\ e.orphans = b.orphans
        /\ e.rings = b.rings /\ e.px = b.px /\ e.parts = b.parts /\ e.shape = b.shape
        /\ e.origin = b.origin /\ e.turned = b.turned /\ e.area = b.area
    BY <1>2, <1>3, ZenonT(40) DEF CanvasState
  <1> HIDE DEF e
  <1>5. RingsFit(order, e)
    BY <1>2, <1>4, RingsStay DEF SamePlace, SamePaths
  <1>6. ASSUME NEW p \in ToSet(order) PROVE PartFits(e, p)
    <2>1. p \in Paths
      BY PathsOfOrder
    <2>2. e.parts[p] = e.rings[p] \cap e.area
      BY <1>2, <1>4, <2>1 DEF SamePlace
    <2>3. QED
      BY <2>2 DEF PartFits
  <1>7. AllFit(order, e)
    BY <1>5, <1>6 DEF AllFit, RingsFit
  <1>8. CanvasSound(order, d) /\ d.orphans = r.orphans
    BY <1>2, <1>4, <1>7, Redrawn
  <1> HIDE DEF d
  <1>9. CASE r.request = "frame"
    <2>1. d.orphans + 1 \in 0..MaxOrphans
      <3>1. r.orphans \in 0..MaxOrphans /\ MaxOrphans \in Nat
        BY CanvasAssumption DEF CanvasState
      <3>2. QED
        BY <1>8, <1>9, <3>1
    <2>2. CanvasSound(order, n)
      BY <1>8, <2>1, OrphansDoNotMatter
    <2>3. QED
      BY <1>1, <1>9, <2>2
  <1>10. CASE r.request # "frame"
    BY <1>1, <1>8, <1>10
  <1>11. QED
    BY <1>9, <1>10

(* Paths that are projected anew fit the place where the map is.           *)
LEMMA AllProjected ==
    ASSUME NEW r \in CanvasState, order \in Seq(Paths)
    PROVE  LET n == ProjectPaths(r, ToSet(order)) IN
           /\ n \in CanvasState /\ n.shape = r.shape /\ n.origin = r.origin
           /\ n.request = r.request /\ n.orphans = r.orphans
           /\ n.window = r.window /\ n.animating = r.animating
           /\ \A p \in ToSet(order) :
                 /\ n.rings[p] # {} => n.px[p] # Nil /\ n.rings[p] \subseteq n.px[p]
                 /\ n.rings[p] = r.shape[p][r.origin]
  <1> DEFINE n == ProjectPaths(r, ToSet(order))
  <1>1. /\ n \in CanvasState
        /\ SamePlace(n, r) /\ SamePaths(n, r) /\ SamePaint(n, r)
        /\ n.orphans = r.orphans
        /\ n.window = r.window /\ n.animating = r.animating
        /\ \A p \in Paths : p \in ToSet(order) => /\ RingFits(n, p)
                                                  /\ n.rings[p] = r.shape[p][r.origin]
    BY ProjectIs
  <1>2. ToSet(order) \subseteq Paths
    BY PathsOfOrder
  <1> HIDE DEF n
  <1>3. QED
    BY <1>1, <1>2 DEF n, RingFits, SamePlace, SamePaths, SamePaint

LEMMA MoveEndKeeps ==
    ASSUME CanvasInv, NEW zoomed \in BOOLEAN, CanvasMoveEnd(zoomed)
    PROVE  CanvasInv'
  <1> DEFINE b == ProjectPaths(canvas, ToSet(order))
             t == [b EXCEPT !.turned = FALSE]
             r == IF zoomed THEN t ELSE canvas
             k == [r EXCEPT !.skipped = TRUE]
             e == [r EXCEPT !.area = r.window, !.skipped = FALSE]
  <1>1. /\ order \in Seq(Paths) /\ Injective(order) /\ order' = order
        /\ canvas \in CanvasState /\ RingsFit(order, canvas)
        /\ canvas.request = "frame" => canvas.orphans < MaxOrphans
    BY FitsSound DEF CanvasInv, CanvasMoveEnd, FewOrphans
  <1>2. canvas' = IF r.animating THEN k ELSE UpdatePaths(e)
    BY DEF CanvasMoveEnd, SetCanvas, UpdateCanvas
  <1>3. /\ r \in CanvasState /\ RingsFit(order, r)
        /\ r.request = canvas.request /\ r.orphans = canvas.orphans
    <2>1. CASE ~zoomed
      BY <1>1, <2>1
    <2>2. CASE zoomed
      <3>1. /\ b \in CanvasState /\ b.shape = canvas.shape /\ b.origin = canvas.origin
            /\ b.request = canvas.request /\ b.orphans = canvas.orphans
            /\ \A p \in ToSet(order) :
                 /\ b.rings[p] # {} => b.px[p] # Nil /\ b.rings[p] \subseteq b.px[p]
                 /\ b.rings[p] = canvas.shape[p][canvas.origin]
        BY <1>1, AllProjected
      <3> HIDE DEF b
      <3>2. /\ t \in CanvasState /\ t.shape = b.shape /\ t.origin = b.origin
            /\ t.rings = b.rings /\ t.px = b.px
            /\ t.request = b.request /\ t.orphans = b.orphans
        BY <3>1 DEF CanvasState
      <3> HIDE DEF t
      <3>3. RingsFit(order, t)
        BY <3>1, <3>2 DEF RingsFit, RingFits
      <3>4. QED
        BY <2>2, <3>1, <3>2, <3>3
    <2>3. QED
      BY <2>1, <2>2
  <1> HIDE DEF r
  <1>4. CASE r.animating
    <2>1. k \in CanvasState /\ k.skipped = TRUE
      BY <1>3 DEF CanvasState
    <2>2. RingsFit(order, k)
      <3>1. /\ k.rings = r.rings /\ k.px = r.px /\ k.shape = r.shape
            /\ k.origin = r.origin /\ k.turned = r.turned
        BY <1>3 DEF CanvasState
      <3> HIDE DEF k
      <3>2. QED
        BY <1>3, <3>1, RingsStay
    <2> HIDE DEF k
    <2>3. CanvasSound(order, k)
      BY <2>1, <2>2 DEF CanvasSound, AllFit, RingsFit, PartFits, ShowsOrWill
    <2>4. QED
      BY <1>1, <1>2, <1>4, <2>3 DEF CanvasInv
  <1>5. CASE ~r.animating
    <2>1. /\ e \in CanvasState /\ e.rings = r.rings /\ e.px = r.px /\ e.shape = r.shape
          /\ e.origin = r.origin /\ e.turned = r.turned
          /\ e.request = r.request /\ e.orphans = r.orphans
      BY <1>3, CanvasAssumption DEF CanvasState
    <2> HIDE DEF e
    <2>2. RingsFit(order, e)
      BY <1>3, <2>1, RingsStay
    <2>3. CanvasSound(order, UpdatePaths(e))
      BY <1>1, <1>3, <2>1, <2>2, AllUpdated
    <2>4. QED
      BY <1>1, <1>2, <1>5, <2>3 DEF CanvasInv
  <1>6. QED
    BY <1>4, <1>5

LEMMA ResetKeeps ==
    ASSUME CanvasInv, NEW origin \in Origins, NEW window \in Windows,
           ResetMap(origin, window)
    PROVE  CanvasInv'
  <1> DEFINE r == [canvas EXCEPT !.origin = origin, !.window = window]
             t == [r EXCEPT !.turned = TRUE]
             b == ProjectPaths(r, ToSet(order))
             a == IF r.animating THEN b.area ELSE window
             k == r.animating
             e == [b EXCEPT !.area = a, !.skipped = k, !.turned = FALSE]
  <1>1. /\ order \in Seq(Paths) /\ Injective(order) /\ order' = order
        /\ canvas \in CanvasState /\ CanvasSound(order, canvas)
        /\ canvas.onMap => (canvas.request = "frame" => canvas.orphans < MaxOrphans)
    BY DEF CanvasInv, CanvasSound, ResetMap, FewOrphans
  <1>2. canvas' = IF ~r.onMap THEN t ELSE UpdatePaths(e)
    BY DEF ResetMap, SetCanvas
  <1>3. /\ r \in CanvasState /\ r.onMap = canvas.onMap
        /\ SameCuts(r, canvas) /\ SamePaths(r, canvas) /\ SamePaint(r, canvas)
        /\ r.bounds = canvas.bounds /\ r.area = canvas.area
        /\ r.skipped = canvas.skipped /\ r.unclipped = canvas.unclipped
        /\ r.orphans = canvas.orphans
    BY <1>1 DEF CanvasState, SameCuts, SamePaths, SamePaint
  <1> HIDE DEF r
  <1>4. CASE ~r.onMap
    <2>1. /\ t \in CanvasState /\ t.turned = TRUE /\ t.onMap = r.onMap
          /\ SameCuts(t, r) /\ SamePaths(t, r) /\ SamePaint(t, r)
          /\ t.bounds = r.bounds /\ t.area = r.area
          /\ t.skipped = r.skipped /\ t.unclipped = r.unclipped
      BY <1>3 DEF CanvasState, SameCuts, SamePaths, SamePaint
    <2> HIDE DEF t
    <2>2. SameCuts(t, canvas) /\ SamePaths(t, canvas) /\ SamePaint(t, canvas)
      BY <1>3, <2>1 DEF SameCuts, SamePaths, SamePaint
    <2>3. CanvasSound(order, t)
      BY <1>1, <1>3, <2>1, <2>2, MovedStaysSound
    <2>4. QED
      BY <1>1, <1>2, <1>4, <2>3 DEF CanvasInv
  <1>5. CASE r.onMap
    <2>1. /\ b \in CanvasState /\ b.shape = r.shape /\ b.origin = r.origin
          /\ b.request = r.request /\ b.orphans = r.orphans
          /\ \A p \in ToSet(order) :
               /\ b.rings[p] # {} => b.px[p] # Nil /\ b.rings[p] \subseteq b.px[p]
               /\ b.rings[p] = r.shape[p][r.origin]
      BY <1>1, <1>3, AllProjected
    <2> HIDE DEF b
    <2>2. a \in SUBSET Cells /\ k \in BOOLEAN
      BY <1>3, <2>1, CanvasAssumption DEF CanvasState
    <2> HIDE DEF a, k
    <2>3. /\ e \in CanvasState /\ e.rings = b.rings /\ e.px = b.px /\ e.shape = b.shape
          /\ e.origin = b.origin
          /\ e.request = b.request /\ e.orphans = b.orphans
      BY <2>1, <2>2 DEF CanvasState
    <2> HIDE DEF e
    <2>4. RingsFit(order, e)
      BY <2>1, <2>3 DEF RingsFit, RingFits
    <2>5. e.request = "frame" => e.orphans < MaxOrphans
      BY <1>1, <1>3, <1>5, <2>1, <2>3 DEF SamePaint
    <2>6. CanvasSound(order, UpdatePaths(e))
      BY <1>1, <2>3, <2>4, <2>5, AllUpdated
    <2>7. QED
      BY <1>1, <1>2, <1>5, <2>6 DEF CanvasInv
  <1>6. QED
    BY <1>4, <1>5

LEMMA RendererGone ==
    ASSUME CanvasInv, RemoveRenderer
    PROVE  CanvasInv'
  <1> DEFINE x == [c \in Cells |-> <<>>]
             q == IF canvas.request = "frame" THEN "dead" ELSE canvas.request
             n == [canvas EXCEPT !.onMap = FALSE, !.request = q, !.painted = x]
  <1>1. /\ order \in Seq(Paths) /\ Injective(order) /\ order' = order
        /\ canvas \in CanvasState /\ AllFit(order, canvas)
    BY DEF CanvasInv, CanvasSound, RemoveRenderer
  <1>2. canvas' = n
    BY DEF RemoveRenderer, SetCanvas
  <1>3. x \in [Cells -> Seq(Paths \X Styles)]
    BY EmptyCanvas
  <1>4. q \in {"none", "frame", "dead"}
    BY <1>1 DEF CanvasState
  <1> HIDE DEF x, q
  <1>5. /\ n \in CanvasState /\ n.onMap = FALSE
        /\ SameCuts(n, canvas) /\ SamePaths(n, canvas)
        /\ n.origin = canvas.origin /\ n.area = canvas.area /\ n.skipped = canvas.skipped
        /\ n.unclipped = canvas.unclipped /\ n.turned = canvas.turned
    BY <1>1, <1>3, <1>4 DEF CanvasState, SameCuts, SamePaths
  <1> HIDE DEF n
  <1>6. AllFit(order, n)
    BY <1>1, <1>5 DEF AllFit, RingFits, PartFits, SameCuts, SamePaths
  <1>7. QED
    BY <1>1, <1>2, <1>5, <1>6 DEF CanvasInv, CanvasSound, ShowsOrWill

(* A frame makes the canvas right, or finds no canvas.                     *)
LEMMA FrameKeeps ==
    ASSUME NEW r, order \in Seq(Paths), CanvasSound(order, r)
    PROVE  CanvasSound(order, FrameRedraws(r)) /\ FrameRedraws(r).orphans = r.orphans
  <1>1. r \in CanvasState /\ AllFit(order, r) /\ ShowsOrWill(order, r)
    BY DEF CanvasSound
  <1>2. CASE r.onMap
    <2>1. CanvasSound(order, RedrawCanvas(r)) /\ RedrawCanvas(r).orphans = r.orphans
      BY <1>1, Redrawn
    <2>2. QED
      BY <1>2, <2>1 DEF FrameRedraws
  <1>3. CASE ~r.onMap
    <2> DEFINE n == [r EXCEPT !.request = "none"]
    <2>1. FrameRedraws(r) = n
      BY <1>3 DEF FrameRedraws
    <2>2. /\ n \in CanvasState /\ n.orphans = r.orphans
          /\ SamePlace(n, r) /\ SameCuts(n, r) /\ SamePaths(n, r)
      BY <1>1 DEF CanvasState, SamePlace, SameCuts, SamePaths
    <2> HIDE DEF n
    <2>3. AllFit(order, n)
      BY <1>1, <2>2, AlikeFits
    <2>4. QED
      BY <1>3, <2>1, <2>2, <2>3 DEF CanvasSound, SamePlace, ShowsOrWill
  <1>4. QED
    BY <1>2, <1>3 DEF CanvasState

LEMMA OrphanKeeps ==
    ASSUME CanvasInv, OrphanFrame
    PROVE  CanvasInv'
  <1> DEFINE r == [canvas EXCEPT !.orphans = canvas.orphans - 1]
             d == FrameRedraws(r)
             n == [d EXCEPT !.orphans = d.orphans + 1]
  <1>1. /\ order \in Seq(Paths) /\ Injective(order) /\ order' = order
        /\ CanvasSound(order, canvas) /\ canvas.orphans > 0
    BY DEF CanvasInv, OrphanFrame
  <1>2. canvas' = IF canvas.request = "frame" THEN n ELSE d
    BY DEF OrphanFrame, SetCanvas
  <1>3. canvas.orphans \in 0..MaxOrphans /\ MaxOrphans \in Nat
    BY <1>1, CanvasAssumption DEF CanvasSound, CanvasState
  <1>4. canvas.orphans - 1 \in 0..MaxOrphans
    BY <1>1, <1>3
  <1>5. CanvasSound(order, r)
    BY <1>1, <1>4, OrphansDoNotMatter
  <1>6. r.orphans = canvas.orphans - 1
    BY <1>1 DEF CanvasSound, CanvasState
  <1> HIDE DEF r
  <1>7. CanvasSound(order, d) /\ d.orphans = canvas.orphans - 1
    BY <1>1, <1>5, <1>6, FrameKeeps
  <1> HIDE DEF d
  <1>8. d.orphans + 1 \in 0..MaxOrphans
    BY <1>3, <1>7
  <1>9. CanvasSound(order, n)
    BY <1>7, <1>8, OrphansDoNotMatter
  <1>10. QED
    BY <1>1, <1>2, <1>7, <1>9 DEF CanvasInv

LEMMA PathMet ==
    ASSUME order \in Seq(Paths), NEW S
    PROVE  LastPath(order, S) \in Paths \cup {Nil}
  <1>1. PICK h : /\ Met(h, order, S) /\ LastPath(order, S) = h[1..Len(order)]
                 /\ \A k \in 0..Len(order) : h[1..k] \in Paths \cup {Nil}
    BY MetInTurn
  <1>2. Len(order) \in 0..Len(order)
    BY LenProperties
  <1>3. QED
    BY <1>1, <1>2

LEMMA HoverKeeps ==
    ASSUME CanvasInv, NEW q \in Paths \cup {Nil},
           order' = order, canvas' = [canvas EXCEPT !.hovered = q]
    PROVE  CanvasInv'
  <1> DEFINE n == [canvas EXCEPT !.hovered = q]
  <1>1. /\ order \in Seq(Paths) /\ Injective(order) /\ CanvasSound(order, canvas)
    BY DEF CanvasInv
  <1>2. /\ n \in CanvasState
        /\ SameCuts(n, canvas) /\ SamePaths(n, canvas) /\ SamePaint(n, canvas)
        /\ n.bounds = canvas.bounds /\ n.onMap = canvas.onMap /\ n.area = canvas.area
        /\ n.skipped = canvas.skipped /\ n.unclipped = canvas.unclipped
        /\ n.origin = canvas.origin /\ n.turned = canvas.turned
    BY <1>1 DEF CanvasSound, CanvasState, SameCuts, SamePaths, SamePaint
  <1>3. canvas' = n
    OBVIOUS
  <1> HIDE DEF n
  <1>4. CanvasSound(order, n)
    BY <1>1, <1>2, MovedStaysSound
  <1>5. QED
    BY <1>1, <1>3, <1>4 DEF CanvasInv

(* The map moves, or is about to: no path is told.                         *)
OnlyMoved(n, r) ==
    /\ SameCuts(n, r) /\ SamePaths(n, r) /\ SamePaint(n, r) /\ n.bounds = r.bounds
    /\ n.onMap = r.onMap /\ n.area = r.area
    /\ n.skipped = r.skipped /\ n.unclipped = r.unclipped
    /\ n.turned \/ (n.origin = r.origin /\ n.turned = r.turned)

LEMMA ViewMoves ==
    ASSUME CanvasInv,
           \/ \E window \in Windows : PanMap(window)
           \/ \E origin \in Origins : TurnMap(origin) \/ EndZoom(origin)
           \/ StartZoom
    PROVE  CanvasInv'
  <1> DEFINE n == canvas'
  <1>1. /\ order \in Seq(Paths) /\ Injective(order) /\ CanvasSound(order, canvas)
        /\ canvas \in CanvasState
    BY DEF CanvasInv, CanvasSound
  <1>2. n \in CanvasState /\ OnlyMoved(n, canvas) /\ order' = order
    <2>1. ASSUME NEW window \in Windows, PanMap(window)
          PROVE  n \in CanvasState /\ OnlyMoved(n, canvas) /\ order' = order
      <3>1. canvas' = [canvas EXCEPT !.window = window] /\ order' = order
        BY <2>1 DEF PanMap, SetCanvas
      <3>2. QED
        BY <1>1, <3>1 DEF CanvasState, OnlyMoved, SameCuts, SamePaths, SamePaint
    <2>2. ASSUME NEW origin \in Origins, TurnMap(origin)
          PROVE  n \in CanvasState /\ OnlyMoved(n, canvas) /\ order' = order
      <3>1. canvas' = [canvas EXCEPT !.origin = origin, !.turned = TRUE] /\ order' = order
        BY <2>2 DEF TurnMap, SetCanvas
      <3>2. /\ canvas' \in CanvasState /\ canvas'.turned = TRUE
            /\ SameCuts(canvas', canvas) /\ SamePaths(canvas', canvas)
            /\ SamePaint(canvas', canvas) /\ canvas'.bounds = canvas.bounds
            /\ canvas'.onMap = canvas.onMap /\ canvas'.area = canvas.area
            /\ canvas'.skipped = canvas.skipped /\ canvas'.unclipped = canvas.unclipped
        BY <1>1, <3>1 DEF CanvasState, SameCuts, SamePaths, SamePaint
      <3>3. QED
        BY <3>1, <3>2 DEF OnlyMoved
    <2>3. ASSUME NEW origin \in Origins, EndZoom(origin)
          PROVE  n \in CanvasState /\ OnlyMoved(n, canvas) /\ order' = order
      <3>1. /\ order' = order
            /\ canvas' = [canvas EXCEPT !.animating = FALSE, !.origin = origin,
                                        !.turned = TRUE]
        BY <2>3 DEF EndZoom, SetCanvas
      <3>2. /\ canvas' \in CanvasState /\ canvas'.turned = TRUE
            /\ SameCuts(canvas', canvas) /\ SamePaths(canvas', canvas)
            /\ SamePaint(canvas', canvas) /\ canvas'.bounds = canvas.bounds
            /\ canvas'.onMap = canvas.onMap /\ canvas'.area = canvas.area
            /\ canvas'.skipped = canvas.skipped /\ canvas'.unclipped = canvas.unclipped
        BY <1>1, <3>1 DEF CanvasState, SameCuts, SamePaths, SamePaint
      <3>3. QED
        BY <3>1, <3>2 DEF OnlyMoved
    <2>4. ASSUME StartZoom
          PROVE  n \in CanvasState /\ OnlyMoved(n, canvas) /\ order' = order
      <3>1. canvas' = [canvas EXCEPT !.animating = TRUE] /\ order' = order
        BY <2>4 DEF StartZoom, SetCanvas
      <3>2. QED
        BY <1>1, <3>1 DEF CanvasState, OnlyMoved, SameCuts, SamePaths, SamePaint
    <2>5. QED
      BY <2>1, <2>2, <2>3, <2>4
  <1>3. CanvasSound(order, n)
    <2> HIDE DEF n
    <2>1. QED
      BY <1>1, <1>2, MovedStaysSound DEF OnlyMoved
  <1>4. QED
    BY <1>1, <1>2, <1>3 DEF CanvasInv

LEMMA CanvasStartsSound ==
    ASSUME CanvasInit PROVE CanvasInv
  <1>1. order = <<>>
    BY DEF CanvasInit, OrderInit
  <1>2. PICK shape \in [Paths -> Shapes], style \in [Paths -> Styles],
             origin \in Origins, window \in Windows :
           canvas = [onMap |-> TRUE, origin |-> origin, window |-> window,
                     animating |-> FALSE, area |-> window, shape |-> shape,
                     rings |-> [p \in Paths |-> {}], px |-> [p \in Paths |-> Nil],
                     parts |-> [p \in Paths |-> {}], style |-> style, bounds |-> Nil,
                     request |-> "none", orphans |-> 0, hovered |-> Nil,
                     painted |-> [c \in Cells |-> <<>>], cut |-> FALSE,
                     skipped |-> FALSE, unclipped |-> FALSE, turned |-> FALSE]
    BY DEF CanvasInit
  <1>3. <<>> \in Seq(Paths) /\ <<>> \in Seq(Paths \X Styles) /\ Len(<<>>) = 0
    BY EmptySeq
  <1>4. Injective(order) /\ ToSet(order) = {}
    <2>1. DOMAIN order = {}
      BY <1>1
    <2>2. QED
      BY <2>1 DEF Injective, ToSet
  <1>5. canvas \in CanvasState
    <2>1. 0 \in 0..MaxOrphans /\ window \in SUBSET Cells
      BY CanvasAssumption
    <2>2. [c \in Cells |-> <<>>] \in [Cells -> Seq(Paths \X Styles)]
      BY EmptyCanvas
    <2>3. QED
      BY <1>2, <2>1, <2>2 DEF CanvasState
  <1>6. ASSUME NEW c \in Cells PROVE CoatsOf(order, canvas, c) = <<>>
    <2> DEFINE S == CoveringOf(order, canvas, c)
    <2> HIDE DEF S
    <2>1. Styled(canvas.style, Paths, Styles) /\ order \in Seq(Paths)
      BY <1>1, <1>3, <1>5, StyleOf
    <2>2. PICK h : /\ Coated(h, order, S, canvas.style)
                   /\ Coats(order, S, canvas.style) = h[1..Len(order)]
                   /\ \A k \in 0..Len(order) : h[1..k] \in Seq(Paths \X Styles)
      BY <2>1, CoatsInTurn
    <2>3. h[1..0] = <<>> /\ Len(order) = 0
      BY <1>1, <1>3, <2>2 DEF Coated
    <2>4. QED
      BY <2>2, <2>3 DEF CoatsOf, S
  <1>7. \A c \in Cells : canvas.painted[c] = <<>>
    BY <1>2
  <1>8. canvas.request = "none" /\ canvas.area \subseteq Cells
    BY <1>2, <1>5 DEF CanvasState
  <1>9. ShowsOrWill(order, canvas)
    BY <1>6, <1>7, <1>8 DEF ShowsOrWill
  <1>10. QED
    BY <1>1, <1>3, <1>4, <1>5, <1>9 DEF CanvasInv, CanvasSound, AllFit

LEMMA CanvasStepWell ==
    ASSUME CanvasInv, [CanvasNext]_canvasVars
    PROVE  CanvasInv'
  <1>1. CASE UNCHANGED canvasVars
    <2>1. order' = order /\ canvas' = canvas
      BY <1>1 DEF canvasVars
    <2>2. QED
      BY <2>1 DEF CanvasInv
  <1>2. CASE CanvasNext
    <2>1. ASSUME NEW p \in Paths, AddPath(p) PROVE CanvasInv'
      BY <2>1, PathAdded
    <2>2. ASSUME NEW p \in Paths, Reorder(p) PROVE CanvasInv'
      BY <2>2, OrderChanged
    <2>3. ASSUME NEW p \in Paths, NEW shape \in Shapes, SetLatLngs(p, shape)
          PROVE  CanvasInv'
      BY <2>3, ShapeSet
    <2>4. ASSUME NEW p \in Paths, NEW style \in Styles, SetStyle(p, style)
          PROVE  CanvasInv'
      BY <2>4, StyleSet
    <2>5. CASE CanvasFrame
      <3>1. order \in Seq(Paths) /\ Injective(order) /\ CanvasSound(order, canvas)
        BY DEF CanvasInv
      <3>2. order' = order /\ canvas' = FrameRedraws(canvas)
        BY <2>5 DEF CanvasFrame, SetCanvas
      <3>3. QED
        BY <3>1, <3>2, FrameKeeps DEF CanvasInv
    <2>6. ASSUME NEW c \in Cells, MouseMove(c) PROVE CanvasInv'
      <3>1. order' = order /\ canvas' = [canvas EXCEPT !.hovered = TopmostAt(canvas, c)]
        BY <2>6 DEF MouseMove, SetCanvas
      <3>2. TopmostAt(canvas, c) \in Paths \cup {Nil}
        BY PathMet DEF TopmostAt, CanvasInv
      <3>3. QED
        BY <3>1, <3>2, HoverKeeps
    <2>7. CASE MouseOut
      <3>1. order' = order /\ canvas' = [canvas EXCEPT !.hovered = Nil]
        BY <2>7 DEF MouseOut, SetCanvas
      <3>2. QED
        BY <3>1, HoverKeeps
    <2>8. CASE ReturnRenderer
      <3>1. order \in Seq(Paths) /\ Injective(order) /\ CanvasSound(order, canvas)
        BY DEF CanvasInv
      <3>2. order' = order /\ canvas' = AddRenderer(canvas)
        BY <2>8 DEF ReturnRenderer, SetCanvas
      <3>3. QED
        BY <3>1, <3>2, RendererAdded DEF CanvasInv
    <2>9. ASSUME NEW origin \in Origins, NEW window \in Windows, ResetMap(origin, window)
          PROVE  CanvasInv'
      BY <2>9, ResetKeeps
    <2>10. ASSUME NEW zoomed \in BOOLEAN, CanvasMoveEnd(zoomed) PROVE CanvasInv'
      BY <2>10, MoveEndKeeps
    <2>11. QED
      BY <1>2, <2>1, <2>2, <2>3, <2>4, <2>5, <2>6, <2>7, <2>8, <2>9, <2>10, ViewMoves,
         RendererGone, OrphanKeeps DEF CanvasNext
  <1>3. QED
    BY <1>1, <1>2

(* Paths are cut as they are where the map is, and outside of what waits to*)
(* be drawn the canvas shows what was cut.                                 *)
LEMMA CanvasShowsPaths ==
    ASSUME CanvasInv PROVE CanvasTypeOK /\ CutsPaths /\ ShowsPaths
  <1>1. /\ order \in Seq(Paths) /\ canvas \in CanvasState
        /\ AllFit(order, canvas) /\ ShowsOrWill(order, canvas)
    BY DEF CanvasInv, CanvasSound
  <1>2. CanvasTypeOK
    BY <1>1 DEF CanvasState, CanvasTypeOK
  <1>3. CutsPaths
    BY <1>1 DEF CutsPaths, AllFit, RingFits, PartFits
  <1>4. \A c : Layered(canvas, c) = CoatsOf(order, canvas, c)
    BY DEF Layered, Covering, CoatsOf, CoveringOf
  <1>5. ShowsPaths
    BY <1>1, <1>4 DEF ShowsPaths, ShowsOrWill, InBounds
  <1>6. QED
    BY <1>2, <1>3, <1>5

LEMMA MouseMeets ==
    ASSUME CanvasInv PROVE MeetsWhatIsSeen
  <1> SUFFICES ASSUME NEW c \in Cells, MouseMove(c), canvas.request = "none",
                      ~canvas.cut, ~canvas.skipped
               PROVE  canvas'.hovered = IF canvas.painted[c] = <<>> THEN Nil
                                        ELSE Last(canvas.painted[c])[1]
    BY DEF MeetsWhatIsSeen
  <1>1. /\ order \in Seq(Paths) /\ canvas \in CanvasState
        /\ AllFit(order, canvas) /\ ShowsOrWill(order, canvas)
    BY DEF CanvasInv, CanvasSound
  <1> DEFINE S == CoveringOf(order, canvas, c)
             all == Coats(order, S, canvas.style)
  <1>2. /\ canvas.onMap /\ c \in canvas.area
        /\ canvas' = [canvas EXCEPT !.hovered = LastPath(order, Containing(canvas, c))]
    BY DEF MouseMove, SetCanvas, TopmostAt
  <1>3. Containing(canvas, c) = S
    <2>1. ASSUME NEW p \in S PROVE canvas.px[p] # Nil /\ c \in canvas.px[p]
      <3>1. p \in ToSet(order) /\ c \in canvas.parts[p]
        BY DEF CoveringOf
      <3>2. QED
        BY <1>1, <3>1, CoversMore DEF AllFit, InBounds
    <2>2. QED
      BY <2>1 DEF Containing, Covering, CoveringOf
  <1> HIDE DEF S
  <1>4. canvas'.hovered = LastPath(order, S)
    BY <1>1, <1>2, <1>3 DEF CanvasState
  <1>5. canvas.painted[c] = all
    BY <1>1, <1>2 DEF ShowsOrWill, CoatsOf, S
  <1>6. LastPath(order, S) = IF all = <<>> THEN Nil ELSE Last(all)[1]
    BY <1>1, StyleOf, LastIsOnTop
  <1>7. QED
    BY <1>4, <1>5, <1>6

(* The inductive invariant of the canvas: a path of the list is projected  *)
(* for where the map is and within the bounds kept of it, and cut from that*)
(* to the area, unless nobody told the renderer of the view; and a cell    *)
(* that does not show what was cut lies in the bounds to be drawn again,   *)
(* with the frame on its way, unless the renderer came back with a redraw  *)
(* left over or an animation kept it from an update. Whatever the paths,   *)
(* the cells, the views, the shapes and the styles.                        *)
THEOREM CanvasStaysSound == CanvasSpec => []CanvasInv
  <1>1. CanvasInit => CanvasInv
    BY CanvasStartsSound
  <1>2. CanvasInv /\ [CanvasNext]_canvasVars => CanvasInv'
    BY CanvasStepWell
  <1>3. QED
    BY <1>1, <1>2, PTL DEF CanvasSpec

(* After every step a path was cut as it is where the map is, if the       *)
(* renderer was told of the view; the canvas shows what was cut, in the    *)
(* order of the paths and with their style, wherever no redraw waits; and  *)
(* the mouse meets the path that is to be seen on top.                     *)
THEOREM CanvasShows == CanvasSpec => CanvasIsTrue
  <1> DEFINE Right == CanvasTypeOK' /\ CutsPaths' /\ ShowsPaths' /\ MeetsWhatIsSeen
  <1>1. ASSUME CanvasInv, [CanvasNext]_canvasVars PROVE CanvasInv'
    BY <1>1, CanvasStepWell
  <1>2. ASSUME CanvasInv, CanvasInv' PROVE Right
    <2>1. CanvasTypeOK' /\ CutsPaths' /\ ShowsPaths'
      BY <1>2, CanvasShowsPaths, PTL
    <2>2. QED
      BY <1>2, <2>1, MouseMeets
  <1>3. CanvasInv /\ CanvasInv' => (canvasVars' # canvasVars => Right)
    BY <1>2
  <1>4. QED
    BY <1>3, CanvasStaysSound, PTL DEF CanvasIsTrue

=============================================================================
