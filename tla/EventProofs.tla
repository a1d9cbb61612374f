----------------------------- MODULE EventProofs ------------------------------
(***************************************************************************)
(* Events, for any objects, types and listeners: fire() calls what was     *)
(* attached when it began, in that order and as long as it is attached.    *)
(* The invariant is of the heap (every listener object is in one list and  *)
(* once, no two lists are one array) and of the stack: what a fire() has   *)
(* not called yet is in its array as it was, the array is no list but that *)
(* of its event, and what is not removed in it is in that list. The calls  *)
(* on the stack count themselves in _firingCount, so that an array that a  *)
(* fire() walks through is never spliced in place.                         *)
(*                                                                         *)
(* And what the user does with boxes, fingers, the wheel and the keys is   *)
(* told to the map as what it is: the invariant counts the boxes in the    *)
(* page, and knows which reset and which click are still to come.          *)
(*                                                                         *)
(* And what the browser reports of clicks, fingers and taps is told once:  *)
(* of a click, the flag skipEvents is left set only before the first view; *)
(* of an Android touch with no other near it, lastClick is left as its     *)
(* first click set it until the second comes.                              *)
(***************************************************************************)
EXTENDS Evented, MapHandlers, DomEvents, SequenceTheorems, FiniteSetTheorems,
        WellFoundedInduction, TLAPS

-----------------------------------------------------------------------------
(* The heap of listeners, of any lists, arrays and cells.                  *)

ListIn(ls, as, o, t) == IF ls[o][t] = 0 THEN <<>> ELSE as[ls[o][t]]

Among(s, c) == \E i \in 1..Len(s) : s[i] = c

HeapTyped(ls, as, cs) ==
    /\ as \in Seq(Seq(Nat)) /\ cs \in Seq(Cell)
    /\ ls \in [Objects -> [Types -> 0..Len(as)]]
    /\ \A a \in 1..Len(as) : \A i \in 1..Len(as[a]) : as[a][i] \in 1..Len(cs)

(* No array is the list of two.                                            *)
OwnArrays(ls) ==
    \A o, p \in Objects, t, u \in Types :
        ls[o][t] # 0 /\ ls[o][t] = ls[p][u] => o = p /\ t = u

(* What is in a list is not removed.                                       *)
Alive(ls, as, cs) ==
    \A o \in Objects, t \in Types : \A i \in 1..Len(ListIn(ls, as, o, t)) :
        cs[ListIn(ls, as, o, t)[i]].live

(* Every listener object is in one list, and once.                         *)
Apart(ls, as) ==
    \A o, p \in Objects, t, u \in Types :
        \A i \in 1..Len(ListIn(ls, as, o, t)), j \in 1..Len(ListIn(ls, as, p, u)) :
            ListIn(ls, as, o, t)[i] = ListIn(ls, as, p, u)[j]
            => o = p /\ t = u /\ i = j

Single(ls, as, cs) ==
    \A o \in Objects, t \in Types :
        \A i, j \in 1..Len(ListIn(ls, as, o, t)) :
            /\ cs[ListIn(ls, as, o, t)[i]].listener = cs[ListIn(ls, as, o, t)[j]].listener
            /\ ~cs[ListIn(ls, as, o, t)[i]].once /\ ~cs[ListIn(ls, as, o, t)[j]].once
            => i = j

Heap(ls, as, cs) ==
    /\ HeapTyped(ls, as, cs) /\ OwnArrays(ls)
    /\ Alive(ls, as, cs) /\ Apart(ls, as) /\ Single(ls, as, cs)

(* A fire() that walks through an array: it starts with what was seen; it  *)
(* is no list but that of the event, if one at all; what it still calls is *)
(* in that list, or wiped.                                                 *)
Walks(f, ls, as, cs, fi, wi) ==
    /\ f.arr \in 1..Len(as)
    /\ f.len = Len(f.seen) /\ f.i >= 1
    /\ f.mode \in {"run", "handled"} => f.i <= f.len
    /\ f.len <= Len(as[f.arr])
    /\ \A i \in 1..Len(f.seen) : f.seen[i] = as[f.arr][i]
    /\ f.level \in 1..fi[f.obj]
    /\ \A o \in Objects, t \in Types : ls[o][t] = f.arr => o = f.obj /\ t = f.type
    /\ \A i \in 1..Len(as[f.arr]) :
          cs[as[f.arr][i]].live =>
            Among(ListIn(ls, as, f.obj, f.type), as[f.arr][i]) \/ as[f.arr][i] \in wi

FrameIn(f, ls, as, cs, fi, wi) ==
    f \in FireFrame /\ (f.mode # "up" => Walks(f, ls, as, cs, fi, wi))

(* The calls that nest count themselves.                                   *)
Nested(st) ==
    \A k \in 1..Len(st), j \in 1..Len(st) :
        j < k /\ st[j].mode # "up" /\ st[k].mode # "up" /\ st[j].obj = st[k].obj
        => st[j].level < st[k].level

Stack(st, ls, as, cs, fi, wi) ==
    /\ st \in Seq(FireFrame) /\ Nested(st)
    /\ \A k \in 1..Len(st) : FrameIn(st[k], ls, as, cs, fi, wi)

EventedInv ==
    /\ Heap(lists, arrays, cells)
    /\ firing \in [Objects -> Nat]
    /\ parents \in [Objects -> SUBSET Objects]
    /\ wiped \subseteq 1..Len(cells)
    /\ Stack(stack, lists, arrays, cells, firing, wiped)

-----------------------------------------------------------------------------
(* Sequences *)

LEMMA RemoveAtTells ==
  ASSUME NEW S, NEW s \in Seq(S), NEW i \in 1..Len(s)
  PROVE  /\ RemoveAt(s, i) \in Seq(S) /\ Len(RemoveAt(s, i)) = Len(s) - 1
         /\ \A j \in 1..(Len(s) - 1) :
               RemoveAt(s, i)[j] = IF j < i THEN s[j] ELSE s[j + 1]
  <1> DEFINE a == SubSeq(s, 1, i - 1)
             b == SubSeq(s, i + 1, Len(s))
             t == RemoveAt(s, i)
  <1>1. Len(s) \in Nat /\ i \in Nat /\ \A j \in 1..Len(s) : s[j] \in S
    BY LenProperties, ElementOfSeq
  <1>2. /\ a \in Seq(S) /\ Len(a) = i - 1
        /\ \A j \in 1..(i - 1) : a[j] = s[j]
    <2>1. \A j \in 1..(i - 1) : s[j] \in S
      BY <1>1
    <2>2. /\ a \in Seq(S)
          /\ Len(a) = IF 1 <= i - 1 THEN (i - 1) - 1 + 1 ELSE 0
          /\ \A j \in 1..((i - 1) - 1 + 1) : a[j] = s[1 + j - 1]
      BY <1>1, <2>1, SubSeqProperties
    <2> HIDE DEF a
    <2>3. Len(a) = i - 1 /\ (i - 1) - 1 + 1 = i - 1
      BY <1>1, <2>2
    <2>4. \A j \in 1..(i - 1) : a[j] = s[j]
      BY <1>1, <2>2, <2>3
    <2>5. QED
      BY <2>2, <2>3, <2>4
  <1>3. /\ b \in Seq(S) /\ Len(b) = Len(s) - i
        /\ \A j \in 1..(Len(s) - i) : b[j] = s[i + j]
    <2>1. \A j \in (i + 1)..Len(s) : s[j] \in S
      BY <1>1
    <2>2. /\ b \in Seq(S)
          /\ Len(b) = IF i + 1 <= Len(s) THEN Len(s) - (i + 1) + 1 ELSE 0
          /\ \A j \in 1..(Len(s) - (i + 1) + 1) : b[j] = s[(i + 1) + j - 1]
      BY <1>1, <2>1, SubSeqProperties
    <2> HIDE DEF b
    <2>3. Len(b) = Len(s) - i /\ Len(s) - (i + 1) + 1 = Len(s) - i
      BY <1>1, <2>2
    <2>4. \A j \in 1..(Len(s) - i) : b[j] = s[i + j]
      BY <1>1, <2>2, <2>3
    <2>5. QED
      BY <2>2, <2>3, <2>4
  <1>4. t = a \o b
    BY DEF RemoveAt
  <1> HIDE DEF a, b, t
  <1>5. /\ t \in Seq(S) /\ Len(t) = Len(a) + Len(b)
        /\ \A j \in 1..(Len(a) + Len(b)) :
               t[j] = IF j <= Len(a) THEN a[j] ELSE b[j - Len(a)]
    BY <1>2, <1>3, <1>4, ConcatProperties
  <1>6. Len(t) = Len(s) - 1
    BY <1>1, <1>2, <1>3, <1>5
  <1>7. ASSUME NEW j \in 1..(Len(s) - 1)
        PROVE  t[j] = IF j < i THEN s[j] ELSE s[j + 1]
    <2>1. j \in Nat /\ j \in 1..(Len(a) + Len(b)) /\ j <= Len(s) - 1
      BY <1>1, <1>5, <1>6
    <2>2. CASE j < i
      <3>1. j <= Len(a) /\ j \in 1..(i - 1)
        BY <1>1, <1>2, <2>1, <2>2
      <3>2. QED
        BY <1>2, <1>5, <2>1, <2>2, <3>1
    <2>3. CASE ~(j < i)
      <3>1. /\ ~(j <= Len(a)) /\ j - (i - 1) \in 1..(Len(s) - i)
            /\ i + (j - (i - 1)) = j + 1
        BY <1>1, <1>2, <2>1, <2>3
      <3>2. t[j] = b[j - (i - 1)]
        BY <1>2, <1>5, <2>1, <3>1
      <3>3. b[j - (i - 1)] = s[i + (j - (i - 1))]
        BY <1>3, <3>1
      <3>4. QED
        BY <2>3, <3>1, <3>2, <3>3
    <2>4. QED
      BY <2>2, <2>3
  <1>8. /\ t \in Seq(S) /\ Len(t) = Len(s) - 1
        /\ \A j \in 1..(Len(s) - 1) : t[j] = IF j < i THEN s[j] ELSE s[j + 1]
    BY <1>5, <1>6, <1>7
  <1>9. QED
    BY <1>8 DEF t

LEMMA PrefixOf ==
  ASSUME NEW s \in Seq(Nat), NEW t \in Seq(Nat), Len(s) <= Len(t),
         \A i \in 1..Len(s) : s[i] = t[i]
  PROVE  IsPrefix(s, t)
  <1>1. SubSeq(s, 1, Len(s)) = s
    BY SubSeqFull
  <1>2. Len(s) \in Nat /\ Len(t) \in Nat
    BY LenProperties
  <1> DEFINE r == SubSeq(t, 1, Len(s))
  <1>3. \A i \in 1..Len(s) : t[i] \in Nat
    BY <1>2, ElementOfSeq
  <1>4. /\ r \in Seq(Nat) /\ Len(r) = IF 1 <= Len(s) THEN Len(s) - 1 + 1 ELSE 0
        /\ \A i \in 1..(Len(s) - 1 + 1) : r[i] = t[1 + i - 1]
    BY <1>2, <1>3, SubSeqProperties
  <1> HIDE DEF r
  <1>5. Len(r) = Len(s) /\ \A i \in 1..Len(s) : r[i] = t[i]
    BY <1>2, <1>4
  <1>6. r = s
    BY <1>4, <1>5, SeqEqual
  <1>7. QED
    BY <1>1, <1>6 DEF IsPrefix, r

-----------------------------------------------------------------------------
(* What changes of the heap a fire() can stand                             *)

(* An array that is in use only grows, by what is in its list.             *)
ArrayKept(a) ==
    /\ a \in 1..Len(arrays')
    /\ \/ \E o \in Objects, t \in Types : lists[o][t] = a /\ firing[o] = 0
       \/ /\ Len(arrays[a]) <= Len(arrays'[a])
          /\ \A i \in 1..Len(arrays[a]) : arrays'[a][i] = arrays[a][i]
          /\ Len(arrays[a]) < Len(arrays'[a]) =>
               \E o \in Objects, t \in Types : lists'[o][t] = a

ArraysKept ==
    /\ \A a \in 1..Len(arrays) : ArrayKept(a)
    /\ \A o \in Objects, t \in Types :
          lists'[o][t] = 0 \/ lists'[o][t] = lists[o][t] \/ lists'[o][t] > Len(arrays)

(* Removed is removed, and what leaves a list is removed or wiped.         *)
CellsKept ==
    /\ wiped \subseteq wiped'
    /\ \A c \in 1..Len(cells) :
          cells'[c].live =>
            /\ cells[c].live
            /\ \A o \in Objects, t \in Types :
                  Among(ListIn(lists, arrays, o, t), c) =>
                     Among(ListIn(lists', arrays', o, t), c) \/ c \in wiped'

LEMMA WalkGoesOn ==
  ASSUME Heap(lists, arrays, cells), Heap(lists', arrays', cells'),
         ArraysKept, CellsKept,
         NEW f \in FireFrame, Walks(f, lists, arrays, cells, firing, wiped),
         firing \in [Objects -> Nat],
         firing' \in [Objects -> Nat], f.level <= firing'[f.obj]
  PROVE  Walks(f, lists', arrays', cells', firing', wiped')
  <1> DEFINE a == f.arr
             s == arrays[a]
             r == arrays'[a]
  <1>1. /\ a \in 1..Len(arrays) /\ f.obj \in Objects /\ f.type \in Types
        /\ f.level \in Nat /\ f.seen \in Seq(Nat) /\ f.len \in Nat /\ f.i \in Nat
    BY DEF Walks, FireFrame
  <1>2. firing[f.obj] # 0 /\ firing[f.obj] \in Nat /\ firing'[f.obj] \in Nat
        /\ f.level \in 1..firing[f.obj]
    BY <1>1 DEF Walks
  <1>3. \A o \in Objects, t \in Types : lists[o][t] = a => o = f.obj /\ t = f.type
    BY DEF Walks
  <1>4. /\ a \in 1..Len(arrays')
        /\ Len(s) <= Len(r)
        /\ \A i \in 1..Len(s) : r[i] = s[i]
        /\ Len(s) < Len(r) => \E o \in Objects, t \in Types : lists'[o][t] = a
    <2>1. ArrayKept(a)
      BY <1>1 DEF ArraysKept
    <2>2. ~ \E o \in Objects, t \in Types : lists[o][t] = a /\ firing[o] = 0
      BY <1>2, <1>3
    <2>3. QED
      BY <2>1, <2>2 DEF ArrayKept
  <1>5. /\ Len(arrays) \in Nat /\ Len(s) \in Nat /\ Len(r) \in Nat
        /\ Len(f.seen) \in Nat
    <2>1. s \in Seq(Nat) /\ r \in Seq(Nat)
      BY <1>1, <1>4, ElementOfSeq DEF Heap, HeapTyped
    <2>2. QED
      BY <1>1, <2>1, LenProperties DEF Heap, HeapTyped
  <1>6. \A o \in Objects, t \in Types :
           lists'[o][t] = a => o = f.obj /\ t = f.type
    <2> SUFFICES ASSUME NEW o \in Objects, NEW t \in Types, lists'[o][t] = a
                 PROVE  lists[o][t] = a
      BY <1>3
    <2>1. a # 0 /\ ~(a > Len(arrays))
      BY <1>1, <1>5, SMTT(20)
    <2>2. QED
      BY <2>1 DEF ArraysKept
  <1>7. ASSUME NEW i \in 1..Len(r), cells'[r[i]].live
        PROVE  Among(ListIn(lists', arrays', f.obj, f.type), r[i]) \/ r[i] \in wiped'
    <2>1. CASE i <= Len(s)
      <3>1. i \in 1..Len(s) /\ r[i] = s[i]
        BY <1>4, <1>5, <2>1
      <3>2. s[i] \in 1..Len(cells)
        BY <1>1, <3>1 DEF Heap, HeapTyped
      <3>3. cells[s[i]].live
        BY <1>7, <3>1, <3>2 DEF CellsKept
      <3>4. Among(ListIn(lists, arrays, f.obj, f.type), s[i]) \/ s[i] \in wiped
        BY <3>1, <3>3 DEF Walks
      <3>5. QED
        BY <1>1, <1>7, <3>1, <3>2, <3>4 DEF CellsKept
    <2>2. CASE ~(i <= Len(s))
      <3>1. PICK o \in Objects, t \in Types : lists'[o][t] = a
        BY <1>4, <1>5, <2>2
      <3>2. lists'[f.obj][f.type] = a /\ a # 0
        BY <1>1, <1>6, <3>1
      <3>3. ListIn(lists', arrays', f.obj, f.type) = r
        BY <3>2 DEF ListIn
      <3>4. QED
        BY <3>3 DEF Among
    <2>3. QED
      BY <2>1, <2>2
  <1>8. f.len <= Len(r) /\ \A i \in 1..Len(f.seen) : f.seen[i] = r[i]
    <2>1. f.len <= Len(s) /\ f.len = Len(f.seen) /\ \A i \in 1..Len(f.seen) : f.seen[i] = s[i]
      BY DEF Walks
    <2> HIDE DEF a, s, r
    <2>2. f.len <= Len(r)
      BY <1>1, <1>4, <1>5, <2>1
    <2>3. \A i \in 1..Len(f.seen) : i \in 1..Len(s)
      BY <1>5, <2>1
    <2>4. QED
      BY <1>4, <2>1, <2>2, <2>3
  <1>9. f.level \in 1..firing'[f.obj]
    BY <1>1, <1>2
  <1>10. /\ f.len = Len(f.seen) /\ f.i >= 1
         /\ f.mode \in {"run", "handled"} => f.i <= f.len
    BY DEF Walks
  <1>11. QED
    BY <1>4, <1>6, <1>7, <1>8, <1>9, <1>10 DEF Walks

(* A step of the heap that no call returns from or makes.                  *)
LEMMA StackStays ==
  ASSUME EventedInv, Heap(lists', arrays', cells'), ArraysKept, CellsKept,
         NEW st, Stack(st, lists, arrays, cells, firing, wiped), UNCHANGED firing
  PROVE  Stack(st, lists', arrays', cells', firing', wiped')
  <1> SUFFICES ASSUME NEW k \in 1..Len(st), st[k].mode # "up"
               PROVE  Walks(st[k], lists', arrays', cells', firing', wiped')
    BY DEF Stack, FrameIn
  <1>1. st[k] \in FireFrame /\ Walks(st[k], lists, arrays, cells, firing, wiped)
    BY DEF Stack, FrameIn
  <1>2. st[k].level <= firing'[st[k].obj] /\ firing' \in [Objects -> Nat]
    BY <1>1 DEF Walks, FireFrame, EventedInv
  <1>3. QED
    BY <1>1, <1>2, WalkGoesOn DEF EventedInv

-----------------------------------------------------------------------------
(* A list becomes another, in its array or in a new one. Both Push and     *)
(* Splice do this.                                                         *)
NewArray(o, t, r) ==
    /\ arrays' = Append(arrays, r)
    /\ lists' = [lists EXCEPT ![o][t] = Len(arrays) + 1]

SameArray(o, t, r) ==
    /\ lists[o][t] # 0
    /\ arrays' = [arrays EXCEPT ![lists[o][t]] = r]
    /\ UNCHANGED lists

Others(o, t) ==
    \A p \in Objects, u \in Types : p # o \/ u # t =>
        ListIn(lists', arrays', p, u) = ListIn(lists, arrays, p, u)

LEMMA NewArrayTells ==
  ASSUME HeapTyped(lists, arrays, cells), OwnArrays(lists),
         NEW o \in Objects, NEW t \in Types, NEW r \in Seq(Nat), NewArray(o, t, r),
         cells' \in Seq(Cell), Len(cells) <= Len(cells'),
         \A i \in 1..Len(r) : r[i] \in 1..Len(cells')
  PROVE  /\ HeapTyped(lists', arrays', cells') /\ OwnArrays(lists')
         /\ ListIn(lists', arrays', o, t) = r /\ Others(o, t) /\ ArraysKept
  <1> DEFINE n == Len(arrays)
             L == lists'
  <1>1. /\ n \in Nat /\ arrays \in Seq(Seq(Nat))
        /\ lists \in [Objects -> [Types -> 0..n]]
        /\ Len(cells) \in Nat /\ Len(cells') \in Nat
    BY LenProperties DEF HeapTyped
  <1>2. /\ arrays' \in Seq(Seq(Nat)) /\ Len(arrays') = n + 1
        /\ \A a \in 1..n : arrays'[a] = arrays[a]
        /\ arrays'[n + 1] = r
    <2>1. arrays' = Append(arrays, r)
      BY DEF NewArray
    <2>2. QED
      BY <1>1, <2>1, AppendProperties
  <1>3. /\ L[o][t] = n + 1
        /\ \A p \in Objects, u \in Types : p # o \/ u # t => L[p][u] = lists[p][u]
        /\ L \in [Objects -> [Types -> 0..(n + 1)]]
    <2>1. L = [lists EXCEPT ![o][t] = n + 1]
      BY DEF NewArray
    <2>2. n + 1 \in 0..(n + 1) /\ \A x \in 0..n : x \in 0..(n + 1)
      BY <1>1
    <2> HIDE DEF n, L
    <2>3. /\ L[o][t] = n + 1
          /\ \A p \in Objects, u \in Types : p # o \/ u # t => L[p][u] = lists[p][u]
      BY <1>1, <2>1
    <2>4. L \in [Objects -> [Types -> 0..(n + 1)]]
      BY <1>1, <2>1, <2>2
    <2>5. QED
      BY <2>3, <2>4
  <1>4. \A p \in Objects, u \in Types : lists[p][u] \in 0..n /\ lists[p][u] # n + 1
    BY <1>1
  <1>5. HeapTyped(lists', arrays', cells')
    <2>1. ASSUME NEW a \in 1..Len(arrays'), NEW i \in 1..Len(arrays'[a])
          PROVE  arrays'[a][i] \in 1..Len(cells')
      <3>1. CASE a = n + 1
        BY <1>2, <3>1
      <3>2. CASE a # n + 1
        <4>1. a \in 1..n
          BY <1>1, <1>2, <3>2
        <4>2. arrays'[a] = arrays[a]
          BY <1>2, <4>1
        <4>3. arrays[a][i] \in 1..Len(cells)
          BY <4>1, <4>2 DEF HeapTyped
        <4>4. \A c \in 1..Len(cells) : c \in 1..Len(cells')
          BY <1>1
        <4>5. QED
          BY <4>2, <4>3, <4>4
      <3>3. QED
        BY <3>1, <3>2
    <2>2. QED
      BY <1>2, <1>3, <2>1 DEF HeapTyped
  <1>6. OwnArrays(lists')
    <2> SUFFICES ASSUME NEW p \in Objects, NEW q \in Objects,
                        NEW u \in Types, NEW v \in Types,
                        lists'[p][u] # 0, lists'[p][u] = lists'[q][v]
                 PROVE  p = q /\ u = v
      BY DEF OwnArrays
    <2>1. CASE p = o /\ u = t
      BY <1>3, <1>4, <2>1
    <2>2. CASE q = o /\ v = t
      BY <1>3, <1>4, <2>2
    <2>3. CASE ~(p = o /\ u = t) /\ ~(q = o /\ v = t)
      <3>1. lists[p][u] # 0 /\ lists[p][u] = lists[q][v]
        BY <1>3, <2>3
      <3>2. QED
        BY <3>1 DEF OwnArrays
    <2>4. QED
      BY <2>1, <2>2, <2>3
  <1>7. ListIn(lists', arrays', o, t) = r
    BY <1>1, <1>2, <1>3 DEF ListIn
  <1>8. Others(o, t)
    <2> SUFFICES ASSUME NEW p \in Objects, NEW u \in Types, p # o \/ u # t
                 PROVE  ListIn(lists', arrays', p, u) = ListIn(lists, arrays, p, u)
      BY DEF Others
    <2>1. L[p][u] = lists[p][u] /\ lists[p][u] \in 0..n
      BY <1>3, <1>4
    <2>2. lists[p][u] # 0 => lists[p][u] \in 1..n
      BY <1>1, <2>1
    <2>3. QED
      BY <1>2, <2>1, <2>2 DEF ListIn
  <1>9. ArraysKept
    <2>1. ASSUME NEW a \in 1..n
          PROVE  ArrayKept(a)
      <3>1. a \in 1..Len(arrays') /\ arrays'[a] = arrays[a] /\ Len(arrays[a]) \in Nat
        BY <1>1, <1>2, LenProperties, ElementOfSeq
      <3>2. QED
        BY <3>1 DEF ArrayKept
    <2>2. \A p \in Objects, u \in Types :
             L[p][u] = lists[p][u] \/ L[p][u] > n
      BY <1>1, <1>3
    <2>3. QED
      BY <2>1, <2>2 DEF ArraysKept
  <1>10. QED
    BY <1>5, <1>6, <1>7, <1>8, <1>9

(* In place only as long as no fire() walks there, or at the end.          *)
LEMMA SameArrayTells ==
  ASSUME HeapTyped(lists, arrays, cells), OwnArrays(lists),
         NEW o \in Objects, NEW t \in Types, NEW r \in Seq(Nat), SameArray(o, t, r),
         cells' \in Seq(Cell), Len(cells) <= Len(cells'),
         \A i \in 1..Len(r) : r[i] \in 1..Len(cells'),
         \/ firing[o] = 0
         \/ /\ Len(ListIn(lists, arrays, o, t)) <= Len(r)
            /\ \A i \in 1..Len(ListIn(lists, arrays, o, t)) :
                  r[i] = ListIn(lists, arrays, o, t)[i]
  PROVE  /\ HeapTyped(lists', arrays', cells') /\ OwnArrays(lists')
         /\ ListIn(lists', arrays', o, t) = r /\ Others(o, t) /\ ArraysKept
  <1> DEFINE n == Len(arrays)
             b == lists[o][t]
  <1>1. /\ n \in Nat /\ arrays \in Seq(Seq(Nat)) /\ lists' = lists
        /\ lists \in [Objects -> [Types -> 0..n]]
        /\ Len(cells) \in Nat /\ Len(cells') \in Nat
        /\ b # 0 /\ arrays' = [arrays EXCEPT ![b] = r]
    BY LenProperties DEF HeapTyped, SameArray
  <1>2. b \in 1..n
    <2>1. b \in 0..n
      BY <1>1
    <2>2. QED
      BY <1>1, <2>1
  <1>3. /\ arrays' \in Seq(Seq(Nat)) /\ Len(arrays') = n
        /\ \A a \in 1..n : arrays'[a] = IF a = b THEN r ELSE arrays[a]
    BY <1>1, <1>2, ExceptSeq
  <1> HIDE DEF n, b
  <1>4. HeapTyped(lists', arrays', cells')
    <2>1. ASSUME NEW a \in 1..n, NEW i \in 1..Len(arrays'[a])
          PROVE  arrays'[a][i] \in 1..Len(cells')
      <3>1. CASE a = b
        BY <1>3, <3>1
      <3>2. CASE a # b
        <4>1. arrays'[a] = arrays[a]
          BY <1>3, <3>2
        <4>2. arrays[a][i] \in 1..Len(cells)
          BY <4>1 DEF HeapTyped, n
        <4>3. \A c \in 1..Len(cells) : c \in 1..Len(cells')
          BY <1>1
        <4>4. QED
          BY <4>1, <4>2, <4>3
      <3>3. QED
        BY <3>1, <3>2
    <2>2. QED
      BY <1>1, <1>3, <2>1 DEF HeapTyped
  <1>5. OwnArrays(lists')
    BY <1>1
  <1>6. ListIn(lists, arrays, o, t) = arrays[b] /\ ListIn(lists', arrays', o, t) = r
    BY <1>1, <1>2, <1>3 DEF ListIn, b
  <1>7. Others(o, t)
    <2> SUFFICES ASSUME NEW p \in Objects, NEW u \in Types, p # o \/ u # t
                 PROVE  ListIn(lists', arrays', p, u) = ListIn(lists, arrays, p, u)
      BY DEF Others
    <2>1. lists[p][u] \in 0..n
      BY <1>1
    <2>2. lists[p][u] # 0 => lists[p][u] \in 1..n /\ lists[p][u] # b
      BY <1>1, <2>1 DEF OwnArrays, b
    <2>3. QED
      BY <1>1, <1>3, <2>1, <2>2 DEF ListIn
  <1>8. ArraysKept
    <2>1. ASSUME NEW a \in 1..n
          PROVE  ArrayKept(a)
      <3>1. a \in 1..Len(arrays') /\ Len(arrays[a]) \in Nat
        BY <1>1, <1>3, LenProperties, ElementOfSeq DEF n
      <3>2. CASE a # b
        <4>1. arrays'[a] = arrays[a]
          BY <1>3, <3>2
        <4>2. QED
          BY <3>1, <4>1 DEF ArrayKept
      <3>3. CASE a = b
        <4>1. arrays'[a] = r /\ lists[o][t] = a /\ lists'[o][t] = a
              /\ ListIn(lists, arrays, o, t) = arrays[a]
          BY <1>1, <1>3, <1>6, <3>3 DEF b
        <4>2. QED
          BY <3>1, <4>1 DEF ArrayKept
      <3>4. QED
        BY <3>2, <3>3
    <2>2. QED
      BY <1>1, <2>1 DEF ArraysKept, n
  <1>9. QED
    BY <1>4, <1>5, <1>6, <1>7, <1>8

-----------------------------------------------------------------------------
(* Attaching                                                               *)

(* New cells: the first may be for a listener that the list has not, any   *)
(* other is of a function that once() made.                                *)
Fresh(o, t, l, new) ==
    /\ cells' \in Seq(Cell) /\ Len(cells') = Len(cells) + Len(new)
    /\ \A c \in 1..Len(cells) : cells'[c] = cells[c]
    /\ \A j \in 1..Len(new) :
          /\ new[j] = Len(cells) + j
          /\ cells'[Len(cells) + j].live
          /\ ~cells'[Len(cells) + j].once =>
               /\ j = 1 /\ cells'[Len(cells) + j].listener = l
               /\ FoundAt(ListOf(o, t), l) = {}

LEMMA ListOfIs ==
  ASSUME HeapTyped(lists, arrays, cells), NEW o \in Objects, NEW t \in Types
  PROVE  /\ ListOf(o, t) = ListIn(lists, arrays, o, t)
         /\ ListIn(lists, arrays, o, t) \in Seq(Nat)
         /\ \A i \in 1..Len(ListIn(lists, arrays, o, t)) :
               ListIn(lists, arrays, o, t)[i] \in 1..Len(cells)
  <1>1. lists[o][t] \in 0..Len(arrays) /\ Len(arrays) \in Nat
    BY LenProperties DEF HeapTyped
  <1>2. CASE lists[o][t] = 0
    <2>1. ListOf(o, t) = <<>> /\ ListIn(lists, arrays, o, t) = <<>>
      BY <1>2 DEF ListOf, ListIn
    <2>2. QED
      BY <2>1, EmptySeq
  <1>3. CASE lists[o][t] # 0
    <2> DEFINE a == lists[o][t]
    <2>1. a \in 1..Len(arrays)
      BY <1>1, <1>3
    <2>2. ListOf(o, t) = arrays[a] /\ ListIn(lists, arrays, o, t) = arrays[a]
      BY <1>3 DEF ListOf, ListIn
    <2>3. arrays[a] \in Seq(Nat)
      BY <2>1, ElementOfSeq DEF HeapTyped
    <2> HIDE DEF a
    <2>4. QED
      BY <2>1, <2>2, <2>3 DEF HeapTyped
  <1>4. QED
    BY <1>2, <1>3

LEMMA AttachKeeps ==
  ASSUME Heap(lists, arrays, cells), NEW o \in Objects, NEW t \in Types,
         NEW l, NEW new \in Seq(Nat), Fresh(o, t, l, new), Push(o, t, new),
         UNCHANGED wiped
  PROVE  Heap(lists', arrays', cells') /\ ArraysKept /\ CellsKept
  <1> DEFINE s == ListIn(lists, arrays, o, t)
             r == s \o new
             m == Len(s)
             k == Len(new)
             n == Len(cells)
  <1>1. /\ HeapTyped(lists, arrays, cells) /\ OwnArrays(lists)
        /\ m \in Nat /\ k \in Nat /\ n \in Nat
        /\ s \in Seq(Nat) /\ \A i \in 1..m : s[i] \in 1..n
        /\ ListOf(o, t) = s
    BY ListOfIs, LenProperties DEF Heap, HeapTyped
  <1>2. /\ r \in Seq(Nat) /\ Len(r) = m + k
        /\ \A i \in 1..(m + k) : r[i] = IF i <= m THEN s[i] ELSE new[i - m]
    BY <1>1, ConcatProperties
  <1>3. /\ cells' \in Seq(Cell) /\ Len(cells') = n + k
        /\ \A c \in 1..n : cells'[c] = cells[c]
        /\ \A j \in 1..k : /\ new[j] = n + j /\ cells'[n + j].live
                           /\ ~cells'[n + j].once =>
                                 /\ j = 1 /\ cells'[n + j].listener = l
                                 /\ FoundAt(s, l) = {}
    BY <1>1 DEF Fresh
  <1>p. \/ lists[o][t] = 0 /\ s = <<>> /\ NewArray(o, t, new)
        \/ lists[o][t] # 0 /\ SameArray(o, t, r)
    BY DEF Push, NewArray, SameArray, ListIn
  <1>4. NewArray(o, t, r) \/ SameArray(o, t, r)
    <2>1. CASE s = <<>>
      BY <1>p, <2>1, ConcatEmptySeq
    <2>2. CASE s # <<>>
      BY <1>p, <2>2
    <2>3. QED
      BY <2>1, <2>2
  <1> HIDE DEF s, r, m, k, n
  (* Which of the list is old and which is new.                            *)
  <1>5. \A i \in 1..Len(r) :
           \/ i \in 1..m /\ r[i] = s[i] /\ r[i] \in 1..n
           \/ i - m \in 1..k /\ r[i] = n + (i - m)
    <2> SUFFICES ASSUME NEW i \in 1..(m + k)
                 PROVE  \/ i \in 1..m /\ r[i] = s[i] /\ r[i] \in 1..n
                        \/ i - m \in 1..k /\ r[i] = n + (i - m)
      BY <1>2
    <2>1. CASE i <= m
      BY <1>1, <1>2, <2>1
    <2>2. CASE ~(i <= m)
      <3>1. i - m \in 1..k
        BY <1>1, <2>2
      <3>2. QED
        BY <1>2, <1>3, <2>2, <3>1
    <2>3. QED
      BY <2>1, <2>2
  <1>6. n <= Len(cells') /\ \A i \in 1..Len(r) : r[i] \in 1..Len(cells')
    BY <1>1, <1>3, <1>5, SMTT(20)
  <1>7. m <= Len(r) /\ \A i \in 1..m : r[i] = s[i]
    <2>1. \A i \in 1..m : i \in 1..(m + k) /\ i <= m
      BY <1>1
    <2>2. QED
      BY <1>1, <1>2, <2>1
  <1>8. /\ HeapTyped(lists', arrays', cells') /\ OwnArrays(lists')
        /\ ListIn(lists', arrays', o, t) = r /\ Others(o, t) /\ ArraysKept
    <2>1. CASE NewArray(o, t, r)
      BY <1>1, <1>2, <1>3, <1>6, <2>1, NewArrayTells DEF n
    <2>2. CASE SameArray(o, t, r)
      BY <1>1, <1>2, <1>3, <1>6, <1>7, <2>2, SameArrayTells DEF n, s, m
    <2>3. QED
      BY <1>4, <2>1, <2>2
  <1>9. \A p \in Objects, u \in Types : p # o \/ u # t =>
           /\ ListIn(lists', arrays', p, u) = ListIn(lists, arrays, p, u)
           /\ \A i \in 1..Len(ListIn(lists, arrays, p, u)) :
                  ListIn(lists, arrays, p, u)[i] \in 1..n
    BY <1>1, <1>8, ListOfIs DEF Others, n
  <1>a. /\ \A i \in 1..m : cells[s[i]].live
        /\ \A i, j \in 1..m : s[i] = s[j] => i = j
        /\ \A i, j \in 1..m : /\ cells[s[i]].listener = cells[s[j]].listener
                              /\ ~cells[s[i]].once /\ ~cells[s[j]].once
                              => i = j
    BY DEF Heap, Alive, Apart, Single, s, m
  <1>10. Alive(lists', arrays', cells')
    <2> SUFFICES ASSUME NEW p \in Objects, NEW u \in Types,
                        NEW i \in 1..Len(ListIn(lists', arrays', p, u))
                 PROVE  cells'[ListIn(lists', arrays', p, u)[i]].live
      BY DEF Alive
    <2>1. CASE p = o /\ u = t
      <3>1. i \in 1..Len(r) /\ ListIn(lists', arrays', p, u)[i] = r[i]
        BY <1>8, <2>1
      <3>2. CASE i \in 1..m /\ r[i] = s[i] /\ r[i] \in 1..n
        BY <1>3, <1>a, <3>1, <3>2
      <3>3. CASE i - m \in 1..k /\ r[i] = n + (i - m)
        BY <1>3, <3>1, <3>3
      <3>4. QED
        BY <1>5, <3>1, <3>2, <3>3
    <2>2. CASE p # o \/ u # t
      BY <1>3, <1>9, <2>2 DEF Heap, Alive
    <2>3. QED
      BY <2>1, <2>2
  <1>11. Apart(lists', arrays')
    <2> SUFFICES ASSUME NEW p \in Objects, NEW u \in Types,
                        NEW q \in Objects, NEW v \in Types,
                        NEW i \in 1..Len(ListIn(lists', arrays', p, u)),
                        NEW j \in 1..Len(ListIn(lists', arrays', q, v)),
                        ListIn(lists', arrays', p, u)[i]
                          = ListIn(lists', arrays', q, v)[j]
                 PROVE  p = q /\ u = v /\ i = j
      BY DEF Apart
    <2>1. \A w \in Objects, x \in Types :
             \A h \in 1..Len(ListIn(lists, arrays, w, x)), g \in 1..m :
                 ListIn(lists, arrays, w, x)[h] = s[g] => w = o /\ x = t
      BY DEF Heap, Apart, s, m
    <2>2. \A w \in Objects, x \in Types : w # o \/ x # t =>
             \A h \in 1..Len(ListIn(lists', arrays', w, x)), g \in 1..Len(r) :
                 ListIn(lists', arrays', w, x)[h] # r[g]
      <3> SUFFICES ASSUME NEW w \in Objects, NEW x \in Types, w # o \/ x # t,
                          NEW h \in 1..Len(ListIn(lists', arrays', w, x)),
                          NEW g \in 1..Len(r)
                   PROVE  ListIn(lists', arrays', w, x)[h] # r[g]
        OBVIOUS
      <3> DEFINE c == ListIn(lists', arrays', w, x)[h]
      <3>1. /\ c = ListIn(lists, arrays, w, x)[h] /\ c \in 1..n
            /\ h \in 1..Len(ListIn(lists, arrays, w, x))
        BY <1>9
      <3>2. CASE g \in 1..m /\ r[g] = s[g]
        BY <2>1, <3>1, <3>2
      <3>3. CASE g - m \in 1..k /\ r[g] = n + (g - m)
        <4> HIDE DEF c
        <4>1. r[g] > n
          BY <1>1, <3>3
        <4>2. c # r[g]
          <5>1. c \in Int /\ c <= n
            BY <1>1, <3>1
          <5> DEFINE b == r[g]
          <5>2. b > n
            BY <4>1
          <5> HIDE DEF b
          <5>3. c # b
            BY <1>1, <5>1, <5>2
          <5>4. QED
            BY <5>3 DEF b
        <4>3. QED
          BY <4>2 DEF c
      <3>4. QED
        BY <1>5, <3>2, <3>3
    <2>3. CASE p = o /\ u = t /\ q = o /\ v = t
      <3>1. i \in 1..Len(r) /\ j \in 1..Len(r) /\ r[i] = r[j]
        BY <1>8, <2>3
      <3>2. i \in Int /\ j \in Int
        BY <1>1, <1>2, <3>1
      <3>3. \A g \in 1..Len(r) :
               \/ g \in 1..m /\ r[g] = s[g] /\ r[g] <= n
               \/ r[g] > n /\ g = r[g] - n + m
        <4> SUFFICES ASSUME NEW g \in 1..Len(r)
                     PROVE  \/ g \in 1..m /\ r[g] = s[g] /\ r[g] <= n
                            \/ r[g] > n /\ g = r[g] - n + m
          OBVIOUS
        <4>1. g \in Int
          BY <1>1, <1>2
        <4>2. CASE g \in 1..m /\ r[g] = s[g] /\ r[g] \in 1..n
          BY <1>1, <4>2
        <4>3. CASE g - m \in 1..k /\ r[g] = n + (g - m)
          BY <1>1, <4>1, <4>3
        <4>4. QED
          BY <1>5, <4>2, <4>3
      <3>4. CASE r[i] <= n
        <4>1. i \in 1..m /\ r[i] = s[i] /\ j \in 1..m /\ r[j] = s[j]
          <5>1. r[i] \in Nat /\ r[j] = r[i] /\ n \in Nat
            BY <1>1, <1>2, <3>1, ElementOfSeq
          <5>2. ~(r[i] > n) /\ ~(r[j] > n)
            BY <3>4, <5>1
          <5>3. QED
            BY <3>1, <3>3, <5>2
        <4>2. QED
          BY <1>a, <2>3, <3>1, <4>1
      <3>5. CASE ~(r[i] <= n)
        <4>1. i = r[i] - n + m /\ j = r[j] - n + m
          BY <3>1, <3>3, <3>5
        <4>2. QED
          BY <2>3, <3>1, <4>1
      <3>6. QED
        BY <3>4, <3>5
    <2>4. CASE (p = o /\ u = t) /\ (q # o \/ v # t)
      BY <1>8, <2>2, <2>4
    <2>5. CASE (p # o \/ u # t) /\ (q = o /\ v = t)
      BY <1>8, <2>2, <2>5
    <2>6. CASE (p # o \/ u # t) /\ (q # o \/ v # t)
      BY <1>9, <2>6 DEF Heap, Apart
    <2>7. QED
      BY <2>3, <2>4, <2>5, <2>6
  <1>12. Single(lists', arrays', cells')
    <2> SUFFICES ASSUME NEW p \in Objects, NEW u \in Types,
                        NEW i \in 1..Len(ListIn(lists', arrays', p, u)),
                        NEW j \in 1..Len(ListIn(lists', arrays', p, u)),
                        cells'[ListIn(lists', arrays', p, u)[i]].listener
                          = cells'[ListIn(lists', arrays', p, u)[j]].listener,
                        ~cells'[ListIn(lists', arrays', p, u)[i]].once,
                        ~cells'[ListIn(lists', arrays', p, u)[j]].once
                 PROVE  i = j
      BY DEF Single
    <2>1. CASE p # o \/ u # t
      <3> DEFINE y == ListIn(lists, arrays, p, u)
      <3>1. /\ i \in 1..Len(y) /\ j \in 1..Len(y)
            /\ cells[y[i]].listener = cells[y[j]].listener
            /\ ~cells[y[i]].once /\ ~cells[y[j]].once
        BY <1>3, <1>9, <2>1
      <3>2. QED
        BY <3>1 DEF Heap, Single
    <2>2. CASE p = o /\ u = t
      <3>1. /\ i \in 1..Len(r) /\ j \in 1..Len(r)
            /\ cells'[r[i]].listener = cells'[r[j]].listener
            /\ ~cells'[r[i]].once /\ ~cells'[r[j]].once
        BY <1>8, <2>2
      <3>2. i \in Int /\ j \in Int
        BY <1>1, <1>2, <3>1
      <3>3. \A g \in 1..m, h \in 1..k :
               ~cells[s[g]].once /\ ~cells'[n + h].once
                 => cells[s[g]].listener # cells'[n + h].listener
        <4> SUFFICES ASSUME NEW g \in 1..m, NEW h \in 1..k,
                            ~cells[s[g]].once, ~cells'[n + h].once
                     PROVE  cells[s[g]].listener # cells'[n + h].listener
          OBVIOUS
        <4>1. cells'[n + h].listener = l /\ FoundAt(s, l) = {}
          BY <1>3
        <4>2. cells[s[g]].live
          BY <1>a
        <4>3. cells[s[g]].listener = l => g \in FoundAt(s, l)
          BY <4>2 DEF FoundAt, m
        <4>4. QED
          BY <4>1, <4>3
      <3>4. CASE i \in 1..m /\ r[i] = s[i] /\ r[i] \in 1..n
        <4>1. cells'[r[i]] = cells[s[i]]
          BY <1>3, <3>4
        <4>2. CASE j \in 1..m /\ r[j] = s[j] /\ r[j] \in 1..n
          <5>1. cells'[r[j]] = cells[s[j]]
            BY <1>3, <4>2
          <5>2. QED
            BY <1>a, <3>1, <3>4, <4>1, <4>2, <5>1
        <4>3. CASE j - m \in 1..k /\ r[j] = n + (j - m)
          BY <3>1, <3>3, <3>4, <4>1, <4>3
        <4>4. QED
          BY <1>5, <3>1, <4>2, <4>3
      <3>5. CASE i - m \in 1..k /\ r[i] = n + (i - m)
        <4>1. i - m = 1
          BY <1>3, <3>1, <3>5
        <4>2. CASE j \in 1..m /\ r[j] = s[j] /\ r[j] \in 1..n
          <5>1. cells'[r[j]] = cells[s[j]]
            BY <1>3, <4>2
          <5>2. QED
            BY <3>1, <3>3, <3>5, <4>2, <5>1
        <4>3. CASE j - m \in 1..k /\ r[j] = n + (j - m)
          <5>1. j - m = 1
            BY <1>3, <3>1, <4>3
          <5>2. QED
            BY <1>1, <3>2, <4>1, <5>1
        <4>4. QED
          BY <1>5, <3>1, <4>2, <4>3
      <3>6. QED
        BY <1>5, <3>1, <3>4, <3>5
    <2>3. QED
      BY <2>1, <2>2
  <1>13. CellsKept
    <2> SUFFICES ASSUME NEW c \in 1..n, NEW p \in Objects, NEW u \in Types,
                        Among(ListIn(lists, arrays, p, u), c)
                 PROVE  Among(ListIn(lists', arrays', p, u), c)
      BY <1>3 DEF CellsKept, n
    <2>1. CASE p # o \/ u # t
      BY <1>9, <2>1
    <2>2. CASE p = o /\ u = t
      <3>1. PICK i \in 1..m : s[i] = c
        BY <2>2 DEF Among, s, m
      <3>2. i \in 1..Len(r) /\ r[i] = c
        BY <1>1, <1>2, <1>7, <3>1
      <3>3. QED
        BY <1>8, <2>2, <3>2 DEF Among
    <2>3. QED
      BY <2>1, <2>2
  <1>14. QED
    BY <1>8, <1>10, <1>11, <1>12, <1>13 DEF Heap

-----------------------------------------------------------------------------
(* Removing                                                                *)

LEMMA SilenceTells ==
  ASSUME cells \in Seq(Cell), NEW S, Silence(S)
  PROVE  /\ cells' \in Seq(Cell) /\ Len(cells') = Len(cells)
         /\ \A c \in 1..Len(cells) :
               /\ cells'[c].listener = cells[c].listener
               /\ cells'[c].once = cells[c].once
               /\ cells'[c].live <=> cells[c].live /\ c \notin S
  <1> DEFINE n == Len(cells)
  <1>1. n \in Nat /\ \A c \in 1..n : cells[c] \in Cell
    BY LenProperties, ElementOfSeq
  <1>2. cells' = [c \in 1..n |->
                    IF c \in S THEN [cells[c] EXCEPT !.live = FALSE] ELSE cells[c]]
    BY DEF Silence
  <1> HIDE DEF n
  <1>3. \A c \in 1..n :
           cells'[c] = IF c \in S THEN [cells[c] EXCEPT !.live = FALSE] ELSE cells[c]
    BY <1>2
  <1>4. \A c \in 1..n :
           /\ cells'[c] \in Cell
           /\ cells'[c].listener = cells[c].listener
           /\ cells'[c].once = cells[c].once
           /\ cells'[c].live <=> cells[c].live /\ c \notin S
    BY <1>1, <1>3 DEF Cell
  <1>5. cells' \in [1..n -> Cell]
    BY <1>2, <1>4
  <1>6. cells' \in Seq(Cell) /\ Len(cells') = n
    BY <1>1, <1>5
  <1>7. QED
    BY <1>4, <1>6 DEF n

LEMMA SpliceKeeps ==
  ASSUME Heap(lists, arrays, cells), NEW o \in Objects, NEW t \in Types,
         NEW i \in 1..Len(ListOf(o, t)), firing[o] \in Nat,
         Silence({ListOf(o, t)[i]}), Splice(o, t, i), UNCHANGED wiped
  PROVE  Heap(lists', arrays', cells') /\ ArraysKept /\ CellsKept
  <1> DEFINE s == ListIn(lists, arrays, o, t)
             r == RemoveAt(s, i)
             m == Len(s)
             n == Len(cells)
             at(j) == IF j < i THEN j ELSE j + 1
  <1>1. /\ HeapTyped(lists, arrays, cells) /\ OwnArrays(lists)
        /\ m \in Nat /\ n \in Nat /\ ListOf(o, t) = s
        /\ s \in Seq(Nat) /\ \A j \in 1..m : s[j] \in 1..n
    BY ListOfIs, LenProperties DEF Heap, HeapTyped
  <1>2. i \in 1..m /\ m >= 1
    BY <1>1
  <1>3. /\ r \in Seq(Nat) /\ Len(r) = m - 1
        /\ \A j \in 1..(m - 1) : r[j] = IF j < i THEN s[j] ELSE s[j + 1]
    BY <1>1, <1>2, RemoveAtTells
  <1>4. /\ cells' \in Seq(Cell) /\ Len(cells') = n
        /\ \A c \in 1..n :
              /\ cells'[c].listener = cells[c].listener
              /\ cells'[c].once = cells[c].once
              /\ cells'[c].live <=> cells[c].live /\ c # s[i]
    <2>1. cells \in Seq(Cell)
      BY <1>1 DEF HeapTyped
    <2>2. Silence({s[i]})
      BY <1>1
    <2>3. QED
      BY <2>1, <2>2, SilenceTells
  <1>5. lists[o][t] # 0
    <2> SUFFICES ASSUME lists[o][t] = 0 PROVE FALSE
      OBVIOUS
    <2>1. s = <<>>
      BY DEF ListIn
    <2> HIDE DEF s
    <2>2. QED
      BY <1>2, <2>1, EmptySeq
  <1>6. NewArray(o, t, r) \/ (SameArray(o, t, r) /\ firing[o] = 0)
    <2>1. CASE firing[o] > 0
      BY <1>1, <2>1 DEF Splice, NewArray
    <2>2. CASE ~(firing[o] > 0)
      BY <1>1, <1>5, <2>2 DEF Splice, SameArray
    <2>3. QED
      BY <2>1, <2>2
  <1>7. \A j \in 1..Len(r) : at(j) \in 1..m /\ at(j) # i /\ r[j] = s[at(j)]
    <2> SUFFICES ASSUME NEW j \in 1..(m - 1)
                 PROVE  at(j) \in 1..m /\ at(j) # i /\ r[j] = s[at(j)]
      BY <1>3
    <2>1. r[j] = s[at(j)]
      BY <1>3
    <2> HIDE DEF s, r, m
    <2>2. at(j) \in 1..m /\ at(j) # i
      BY <1>1, <1>2
    <2>3. QED
      BY <2>1, <2>2
  <1>8. \A j, k \in 1..Len(r) : at(j) = at(k) => j = k
    <2> SUFFICES ASSUME NEW j \in 1..(m - 1), NEW k \in 1..(m - 1), at(j) = at(k)
                 PROVE  j = k
      BY <1>3
    <2>1. i \in Int /\ j \in Int /\ k \in Int
      BY <1>1, <1>2
    <2> HIDE DEF s, r, m
    <2>2. QED
      BY <2>1
  <1>9. \A k \in 1..m : k # i => \E j \in 1..Len(r) : at(j) = k
    <2> SUFFICES ASSUME NEW k \in 1..m, k # i
                 PROVE  \E j \in 1..Len(r) : at(j) = k
      OBVIOUS
    <2>1. CASE k < i
      <3>1. k \in 1..Len(r) /\ at(k) = k
        BY <1>1, <1>2, <1>3, <2>1
      <3>2. QED
        BY <3>1
    <2>2. CASE ~(k < i)
      <3>1. k - 1 \in 1..Len(r) /\ at(k - 1) = k
        BY <1>1, <1>2, <1>3, <2>2
      <3>2. QED
        BY <3>1
    <2>3. QED
      BY <2>1, <2>2
  <1> HIDE DEF s, r, m, n, at
  <1>10. \A j \in 1..Len(r) : r[j] \in 1..n
    BY <1>1, <1>7
  <1>11. /\ HeapTyped(lists', arrays', cells') /\ OwnArrays(lists')
         /\ ListIn(lists', arrays', o, t) = r /\ Others(o, t) /\ ArraysKept
    <2>1. Len(cells) <= Len(cells') /\ \A j \in 1..Len(r) : r[j] \in 1..Len(cells')
      BY <1>1, <1>4, <1>10 DEF n
    <2>2. CASE NewArray(o, t, r)
      BY <1>1, <1>3, <1>4, <2>1, <2>2, NewArrayTells
    <2>3. CASE SameArray(o, t, r) /\ firing[o] = 0
      BY <1>1, <1>3, <1>4, <2>1, <2>3, SameArrayTells
    <2>4. QED
      BY <1>6, <2>2, <2>3
  <1>12. \A p \in Objects, u \in Types : p # o \/ u # t =>
           /\ ListIn(lists', arrays', p, u) = ListIn(lists, arrays, p, u)
           /\ \A j \in 1..Len(ListIn(lists, arrays, p, u)) :
                 /\ ListIn(lists, arrays, p, u)[j] \in 1..n
                 /\ ListIn(lists, arrays, p, u)[j] # s[i]
    <2>1. \A p \in Objects, u \in Types : p # o \/ u # t =>
             \A j \in 1..Len(ListIn(lists, arrays, p, u)) :
                 ListIn(lists, arrays, p, u)[j] # s[i]
      BY <1>2 DEF Heap, Apart, s, m
    <2>2. QED
      BY <1>1, <1>11, <2>1, ListOfIs DEF Others, n
  <1>a. /\ \A j \in 1..m : cells[s[j]].live
        /\ \A j, k \in 1..m : s[j] = s[k] => j = k
        /\ \A j, k \in 1..m : /\ cells[s[j]].listener = cells[s[k]].listener
                              /\ ~cells[s[j]].once /\ ~cells[s[k]].once
                              => j = k
    BY DEF Heap, Alive, Apart, Single, s, m
  <1>13. Alive(lists', arrays', cells')
    <2> SUFFICES ASSUME NEW p \in Objects, NEW u \in Types,
                        NEW j \in 1..Len(ListIn(lists', arrays', p, u))
                 PROVE  cells'[ListIn(lists', arrays', p, u)[j]].live
      BY DEF Alive
    <2>1. CASE p = o /\ u = t
      <3>1. j \in 1..Len(r) /\ ListIn(lists', arrays', p, u)[j] = r[j]
        BY <1>11, <2>1
      <3>2. /\ at(j) \in 1..m /\ r[j] = s[at(j)] /\ r[j] # s[i]
            /\ cells[r[j]].live /\ r[j] \in 1..n
        BY <1>2, <1>7, <1>10, <1>a, <3>1
      <3>3. QED
        BY <1>4, <3>1, <3>2
    <2>2. CASE p # o \/ u # t
      <3> DEFINE y == ListIn(lists, arrays, p, u)
      <3>1. /\ ListIn(lists', arrays', p, u) = y /\ j \in 1..Len(y)
            /\ y[j] \in 1..n /\ y[j] # s[i]
        BY <1>12, <2>2
      <3>2. cells[y[j]].live
        BY <3>1 DEF Heap, Alive
      <3>3. QED
        BY <1>4, <3>1, <3>2
    <2>3. QED
      BY <2>1, <2>2
  (* What is in a list after the step was in it before.                    *)
  <1>14. \A p \in Objects, u \in Types :
            \A j \in 1..Len(ListIn(lists', arrays', p, u)) :
               LET h == IF p = o /\ u = t THEN at(j) ELSE j IN
               /\ h \in 1..Len(ListIn(lists, arrays, p, u))
               /\ ListIn(lists', arrays', p, u)[j] = ListIn(lists, arrays, p, u)[h]
               /\ ListIn(lists', arrays', p, u)[j] \in 1..n
    <2> SUFFICES ASSUME NEW p \in Objects, NEW u \in Types,
                        NEW j \in 1..Len(ListIn(lists', arrays', p, u))
                 PROVE  LET h == IF p = o /\ u = t THEN at(j) ELSE j IN
                        /\ h \in 1..Len(ListIn(lists, arrays, p, u))
                        /\ ListIn(lists', arrays', p, u)[j] = ListIn(lists, arrays, p, u)[h]
                        /\ ListIn(lists', arrays', p, u)[j] \in 1..n
      OBVIOUS
    <2>1. CASE p = o /\ u = t
      BY <1>7, <1>10, <1>11, <2>1 DEF s, m
    <2>2. CASE ~(p = o /\ u = t)
      BY <1>12, <2>2
    <2>3. QED
      BY <2>1, <2>2
  <1>15. Apart(lists', arrays')
    <2> SUFFICES ASSUME NEW p \in Objects, NEW u \in Types,
                        NEW q \in Objects, NEW v \in Types,
                        NEW j \in 1..Len(ListIn(lists', arrays', p, u)),
                        NEW k \in 1..Len(ListIn(lists', arrays', q, v)),
                        ListIn(lists', arrays', p, u)[j]
                          = ListIn(lists', arrays', q, v)[k]
                 PROVE  p = q /\ u = v /\ j = k
      BY DEF Apart
    <2> DEFINE g == IF p = o /\ u = t THEN at(j) ELSE j
               h == IF q = o /\ v = t THEN at(k) ELSE k
    <2>1. /\ g \in 1..Len(ListIn(lists, arrays, p, u))
          /\ h \in 1..Len(ListIn(lists, arrays, q, v))
          /\ ListIn(lists, arrays, p, u)[g] = ListIn(lists, arrays, q, v)[h]
      BY <1>14
    <2> HIDE DEF g, h
    <2>2. p = q /\ u = v /\ g = h
      BY <2>1 DEF Heap, Apart
    <2>3. CASE p = o /\ u = t
      <3>1. /\ j \in 1..Len(r) /\ k \in 1..Len(r) /\ at(j) = at(k)
        BY <1>11, <2>2, <2>3 DEF g, h
      <3>2. QED
        BY <1>8, <2>2, <3>1
    <2>4. CASE ~(p = o /\ u = t)
      BY <2>2, <2>4 DEF g, h
    <2>5. QED
      BY <2>3, <2>4
  <1>16. Single(lists', arrays', cells')
    <2> SUFFICES ASSUME NEW p \in Objects, NEW u \in Types,
                        NEW j \in 1..Len(ListIn(lists', arrays', p, u)),
                        NEW k \in 1..Len(ListIn(lists', arrays', p, u)),
                        cells'[ListIn(lists', arrays', p, u)[j]].listener
                          = cells'[ListIn(lists', arrays', p, u)[k]].listener,
                        ~cells'[ListIn(lists', arrays', p, u)[j]].once,
                        ~cells'[ListIn(lists', arrays', p, u)[k]].once
                 PROVE  j = k
      BY DEF Single
    <2> DEFINE y == ListIn(lists, arrays, p, u)
               g == IF p = o /\ u = t THEN at(j) ELSE j
               h == IF p = o /\ u = t THEN at(k) ELSE k
    <2>1. /\ g \in 1..Len(y) /\ h \in 1..Len(y)
          /\ ListIn(lists', arrays', p, u)[j] = y[g] /\ y[g] \in 1..n
          /\ ListIn(lists', arrays', p, u)[k] = y[h] /\ y[h] \in 1..n
      BY <1>14
    <2> HIDE DEF g, h, y
    <2>a. /\ cells'[y[g]].listener = cells'[y[h]].listener
          /\ ~cells'[y[g]].once /\ ~cells'[y[h]].once
      BY <2>1
    <2>2. /\ cells[y[g]].listener = cells[y[h]].listener
          /\ ~cells[y[g]].once /\ ~cells[y[h]].once
      BY <1>4, <2>1, <2>a
    <2>3. g = h
      BY <2>1, <2>2 DEF Heap, Single, y
    <2>4. CASE p = o /\ u = t
      <3>1. /\ j \in 1..Len(r) /\ k \in 1..Len(r) /\ at(j) = at(k)
        BY <1>11, <2>3, <2>4 DEF g, h
      <3>2. QED
        BY <1>8, <3>1
    <2>5. CASE ~(p = o /\ u = t)
      BY <2>3, <2>5 DEF g, h
    <2>6. QED
      BY <2>4, <2>5
  <1>17. CellsKept
    <2> SUFFICES ASSUME NEW c \in 1..n, cells'[c].live
                 PROVE  /\ cells[c].live
                        /\ \A p \in Objects, u \in Types :
                              Among(ListIn(lists, arrays, p, u), c)
                                => Among(ListIn(lists', arrays', p, u), c)
      BY DEF CellsKept, n
    <2>1. cells[c].live /\ c # s[i]
      BY <1>4
    <2>2. ASSUME NEW p \in Objects, NEW u \in Types,
                 Among(ListIn(lists, arrays, p, u), c)
          PROVE  Among(ListIn(lists', arrays', p, u), c)
      <3>1. CASE p # o \/ u # t
        BY <1>12, <2>2, <3>1
      <3>2. CASE p = o /\ u = t
        <4>1. PICK k \in 1..m : s[k] = c
          BY <2>2, <3>2 DEF Among, s, m
        <4>2. PICK j \in 1..Len(r) : at(j) = k
          BY <1>9, <2>1, <4>1
        <4>3. r[j] = c
          BY <1>7, <4>1, <4>2
        <4>4. QED
          BY <1>11, <3>2, <4>3 DEF Among
      <3>3. QED
        BY <3>1, <3>2
    <2>3. QED
      BY <2>1, <2>2
  <1>18. QED
    BY <1>11, <1>13, <1>15, <1>16, <1>17 DEF Heap

(* Lists are dropped, and what was in them removed or wiped, what is in    *)
(* the others not.                                                         *)
DropsLists ==
    /\ lists' \in [Objects -> [Types -> 0..Len(arrays)]]
    /\ \A o \in Objects, t \in Types :
          \/ /\ lists'[o][t] = lists[o][t]
             /\ lists[o][t] # 0 =>
                  \A i \in 1..Len(ListIn(lists, arrays, o, t)) :
                     cells'[ListIn(lists, arrays, o, t)[i]].live
          \/ /\ lists'[o][t] = 0
             /\ \A i \in 1..Len(ListIn(lists, arrays, o, t)) :
                   \/ ~cells'[ListIn(lists, arrays, o, t)[i]].live
                   \/ ListIn(lists, arrays, o, t)[i] \in wiped'

OnlyRemoves ==
    /\ cells' \in Seq(Cell) /\ Len(cells') = Len(cells)
    /\ \A c \in 1..Len(cells) :
          /\ cells'[c].listener = cells[c].listener
          /\ cells'[c].once = cells[c].once
          /\ cells'[c].live => cells[c].live

LEMMA DropKeeps ==
  ASSUME Heap(lists, arrays, cells), UNCHANGED arrays,
         DropsLists, OnlyRemoves, wiped \subseteq wiped'
  PROVE  Heap(lists', arrays', cells') /\ ArraysKept /\ CellsKept
  <1>1. HeapTyped(lists, arrays, cells) /\ HeapTyped(lists', arrays', cells')
    BY DEF Heap, HeapTyped, DropsLists, OnlyRemoves
  <1>2. \A o \in Objects, t \in Types :
           \/ /\ lists'[o][t] = lists[o][t]
              /\ ListIn(lists', arrays', o, t) = ListIn(lists, arrays, o, t)
           \/ /\ lists'[o][t] = 0 /\ ListIn(lists', arrays', o, t) = <<>>
              /\ Len(ListIn(lists', arrays', o, t)) = 0
    BY EmptySeq DEF ListIn, DropsLists
  <1>3. OwnArrays(lists')
    <2>1. \A o \in Objects, t \in Types : lists'[o][t] # 0 => lists'[o][t] = lists[o][t]
      BY <1>2
    <2>2. QED
      BY <2>1 DEF Heap, OwnArrays
  <1>4. \A o \in Objects, t \in Types :
           \A i \in 1..Len(ListIn(lists', arrays', o, t)) :
              /\ lists'[o][t] # 0 /\ lists'[o][t] = lists[o][t]
              /\ ListIn(lists', arrays', o, t) = ListIn(lists, arrays, o, t)
              /\ ListIn(lists, arrays, o, t)[i] \in 1..Len(cells)
    <2> SUFFICES ASSUME NEW o \in Objects, NEW t \in Types,
                        NEW i \in 1..Len(ListIn(lists', arrays', o, t))
                 PROVE  /\ lists'[o][t] # 0 /\ lists'[o][t] = lists[o][t]
                        /\ ListIn(lists', arrays', o, t) = ListIn(lists, arrays, o, t)
                        /\ ListIn(lists, arrays, o, t)[i] \in 1..Len(cells)
      OBVIOUS
    <2>1. lists'[o][t] # 0
      BY EmptySeq DEF ListIn
    <2>2. QED
      BY <1>1, <1>2, <2>1, ListOfIs
  <1>5. Alive(lists', arrays', cells')
    BY <1>4 DEF Alive, DropsLists
  <1>6. Apart(lists', arrays')
    BY <1>4 DEF Heap, Apart
  <1>7. Single(lists', arrays', cells')
    <2> SUFFICES ASSUME NEW p \in Objects, NEW u \in Types,
                        NEW j \in 1..Len(ListIn(lists', arrays', p, u)),
                        NEW k \in 1..Len(ListIn(lists', arrays', p, u)),
                        cells'[ListIn(lists', arrays', p, u)[j]].listener
                          = cells'[ListIn(lists', arrays', p, u)[k]].listener,
                        ~cells'[ListIn(lists', arrays', p, u)[j]].once,
                        ~cells'[ListIn(lists', arrays', p, u)[k]].once
                 PROVE  j = k
      BY DEF Single
    <2> DEFINE y == ListIn(lists, arrays, p, u)
    <2>1. /\ ListIn(lists', arrays', p, u) = y
          /\ j \in 1..Len(y) /\ k \in 1..Len(y)
          /\ y[j] \in 1..Len(cells) /\ y[k] \in 1..Len(cells)
      BY <1>4
    <2> HIDE DEF y
    <2>a. /\ cells'[y[j]].listener = cells'[y[k]].listener
          /\ ~cells'[y[j]].once /\ ~cells'[y[k]].once
      BY <2>1
    <2>2. /\ cells[y[j]].listener = cells[y[k]].listener
          /\ ~cells[y[j]].once /\ ~cells[y[k]].once
      BY <2>1, <2>a DEF OnlyRemoves
    <2>3. QED
      BY <2>1, <2>2 DEF Heap, Single, y
  <1>8. ArraysKept
    <2>1. ASSUME NEW a \in 1..Len(arrays)
          PROVE  ArrayKept(a)
      <3>1. arrays' = arrays /\ Len(arrays[a]) \in Nat
        BY <1>1, LenProperties, ElementOfSeq DEF HeapTyped
      <3>2. QED
        BY <3>1 DEF ArrayKept
    <2>2. QED
      BY <1>2, <2>1 DEF ArraysKept
  <1>9. CellsKept
    <2>a. \A c \in 1..Len(cells) : cells'[c].live => cells[c].live
      BY DEF OnlyRemoves
    <2> SUFFICES ASSUME NEW c \in 1..Len(cells), cells'[c].live,
                        NEW o \in Objects, NEW t \in Types,
                        Among(ListIn(lists, arrays, o, t), c)
                 PROVE  Among(ListIn(lists', arrays', o, t), c) \/ c \in wiped'
      BY <2>a DEF CellsKept
    <2>1. CASE lists'[o][t] = lists[o][t]
      BY <2>1 DEF ListIn
    <2>2. CASE lists'[o][t] # lists[o][t]
      BY <2>2 DEF Among, DropsLists
    <2>3. QED
      BY <2>1, <2>2
  <1>10. QED
    BY <1>1, <1>3, <1>5, <1>6, <1>7, <1>8, <1>9 DEF Heap

-----------------------------------------------------------------------------
(* Calls of fire()                                                         *)

LEMMA FrontTells ==
  ASSUME NEW S, NEW s \in Seq(S), s # <<>>
  PROVE  /\ Front(s) \in Seq(S) /\ Len(s) \in Nat \ {0}
         /\ Len(Front(s)) = Len(s) - 1
         /\ \A i \in 1..(Len(s) - 1) : Front(s)[i] = s[i]
  <1> DEFINE n == Len(s)
             r == SubSeq(s, 1, n - 1)
  <1>1. n \in Nat /\ n # 0 /\ \A i \in 1..n : s[i] \in S
    BY EmptySeq, LenProperties, ElementOfSeq
  <1>2. \A i \in 1..(n - 1) : s[i] \in S
    BY <1>1
  <1> HIDE DEF n
  <1>3. 1 \in Int /\ n - 1 \in Int
    BY <1>1
  <1>4. /\ r \in Seq(S)
        /\ Len(r) = IF 1 <= n - 1 THEN (n - 1) - 1 + 1 ELSE 0
        /\ \A i \in 1..((n - 1) - 1 + 1) : r[i] = s[1 + i - 1]
    BY <1>2, <1>3, SubSeqProperties
  <1> HIDE DEF r
  <1>5. (n - 1) - 1 + 1 = n - 1 /\ Len(r) = n - 1
    BY <1>1, <1>4
  <1>6. \A i \in 1..(n - 1) : r[i] = s[i]
    BY <1>1, <1>4, <1>5
  <1>7. r = Front(s)
    BY DEF r, n, Front
  <1>8. QED
    BY <1>1, <1>4, <1>5, <1>6, <1>7 DEF n

(* The call on top changes.                                                *)
LEMMA StackSet ==
  ASSUME NEW st, NEW ls, NEW as, NEW cs, NEW fi, NEW wi,
         Stack(st, ls, as, cs, fi, wi), st # <<>>,
         NEW f, FrameIn(f, ls, as, cs, fi, wi),
         \/ f.mode = "up"
         \/ /\ st[Len(st)].mode # "up"
            /\ f.obj = st[Len(st)].obj /\ f.level = st[Len(st)].level
  PROVE  Stack([st EXCEPT ![Len(st)] = f], ls, as, cs, fi, wi)
  <1> DEFINE r == [st EXCEPT ![Len(st)] = f]
             n == Len(st)
  <1>1. st \in Seq(FireFrame) /\ n \in Nat /\ n # 0 /\ f \in FireFrame
    BY EmptySeq, LenProperties DEF Stack, FrameIn
  <1>2. n \in 1..n
    BY <1>1
  <1>3. /\ r \in Seq(FireFrame) /\ Len(r) = n
        /\ \A k \in 1..n : r[k] = IF k = n THEN f ELSE st[k]
    BY <1>1, <1>2, ExceptSeq
  <1> HIDE DEF r
  <1>4. \A k \in 1..Len(r) : FrameIn(r[k], ls, as, cs, fi, wi)
    BY <1>3 DEF Stack
  <1>5. Nested(r)
    <2> SUFFICES ASSUME NEW k \in 1..n, NEW j \in 1..n, j < k,
                        r[j].mode # "up", r[k].mode # "up", r[k].obj = r[j].obj
                 PROVE  r[j].level < r[k].level
      BY <1>3 DEF Nested
    <2>1. r[j] = st[j]
      BY <1>1, <1>3
    <2>2. CASE k = n
      <3>1. /\ r[k] = f /\ st[n].mode # "up" /\ f.obj = st[n].obj
            /\ f.level = st[n].level
        BY <1>3, <2>2
      <3>2. QED
        BY <1>2, <2>1, <2>2, <3>1 DEF Stack, Nested
    <2>3. CASE k # n
      <3>1. r[k] = st[k]
        BY <1>3, <2>3
      <3>2. QED
        BY <2>1, <3>1 DEF Stack, Nested
    <2>4. QED
      BY <2>2, <2>3
  <1>6. Stack(r, ls, as, cs, fi, wi)
    BY <1>3, <1>4, <1>5 DEF Stack
  <1>7. QED
    BY <1>6 DEF r

(* A call is made.                                                         *)
LEMMA StackAppend ==
  ASSUME NEW st, NEW ls, NEW as, NEW cs, NEW fi, NEW wi,
         Stack(st, ls, as, cs, fi, wi),
         NEW f, FrameIn(f, ls, as, cs, fi, wi),
         f.mode # "up" =>
            \A k \in 1..Len(st) :
                st[k].mode # "up" /\ st[k].obj = f.obj => st[k].level < f.level
  PROVE  Stack(Append(st, f), ls, as, cs, fi, wi)
  <1> DEFINE r == Append(st, f)
             n == Len(st)
  <1>1. st \in Seq(FireFrame) /\ n \in Nat /\ f \in FireFrame
    BY LenProperties DEF Stack, FrameIn
  <1>2. /\ r \in Seq(FireFrame) /\ Len(r) = n + 1 /\ r[n + 1] = f
        /\ \A k \in 1..n : r[k] = st[k]
    BY <1>1, AppendProperties
  <1> HIDE DEF r, n
  <1>3. \A k \in 1..(n + 1) : k = n + 1 \/ k \in 1..n
    BY <1>1
  <1>4. \A k \in 1..(n + 1) : FrameIn(r[k], ls, as, cs, fi, wi)
    BY <1>2, <1>3 DEF Stack, n
  <1>5. Nested(r)
    <2> SUFFICES ASSUME NEW k \in 1..(n + 1), NEW j \in 1..(n + 1), j < k,
                        r[j].mode # "up", r[k].mode # "up", r[k].obj = r[j].obj
                 PROVE  r[j].level < r[k].level
      BY <1>2 DEF Nested
    <2>1. j \in 1..n /\ r[j] = st[j]
      BY <1>1, <1>2
    <2>2. CASE k = n + 1
      BY <1>2, <2>1, <2>2 DEF n
    <2>3. CASE k \in 1..n
      <3>1. r[k] = st[k]
        BY <1>2, <2>3
      <3>2. QED
        BY <2>1, <2>3, <3>1 DEF Stack, Nested, n
    <2>4. QED
      BY <1>3, <2>2, <2>3
  <1>6. Stack(r, ls, as, cs, fi, wi)
    BY <1>2, <1>4, <1>5 DEF Stack
  <1>7. QED
    BY <1>6 DEF r

(* A call returns.                                                         *)
LEMMA StackFront ==
  ASSUME NEW st, NEW ls, NEW as, NEW cs, NEW fi, NEW wi,
         Stack(st, ls, as, cs, fi, wi), st # <<>>
  PROVE  Stack(Front(st), ls, as, cs, fi, wi)
  <1> DEFINE r == Front(st)
             n == Len(st)
  <1>1. /\ r \in Seq(FireFrame) /\ n \in Nat \ {0} /\ Len(r) = n - 1
        /\ \A k \in 1..(n - 1) : r[k] = st[k]
    BY FrontTells DEF Stack
  <1> HIDE DEF r, n
  <1>2. \A k \in 1..Len(r) : k \in 1..n /\ r[k] = st[k]
    BY <1>1
  <1>3. Stack(r, ls, as, cs, fi, wi)
    BY <1>1, <1>2 DEF Stack, Nested, n
  <1>4. QED
    BY <1>3 DEF r

(* More events are being fired, or fewer than those on the stack count.    *)
LEMMA StackCounts ==
  ASSUME NEW st, NEW ls, NEW as, NEW cs, NEW fi, NEW wi, NEW fj,
         Stack(st, ls, as, cs, fi, wi),
         \A k \in 1..Len(st) : st[k].mode # "up" =>
             st[k].level \in 1..fj[st[k].obj]
  PROVE  Stack(st, ls, as, cs, fj, wi)
  BY DEF Stack, FrameIn, Walks

LEMMA EnterFireKeeps ==
  ASSUME EventedInv, NEW o \in Objects, NEW t \in Types, NEW propagate \in BOOLEAN,
         NEW below, Stack(below, lists, arrays, cells, firing, wiped),
         EnterFire(o, t, propagate, below),
         UNCHANGED <<lists, arrays, cells, parents, wiped>>
  PROVE  EventedInv'
  <1> DEFINE a == lists[o][t]
             n == IF a = 0 THEN 0 ELSE Len(arrays[a])
             f == [obj |-> o, type |-> t, propagate |-> propagate,
                   mode |-> IF a = 0 THEN "up" ELSE "loop",
                   arr |-> a, i |-> 1, len |-> n, level |-> firing[o] + 1,
                   seen |-> ListOf(o, t),
                   pending |-> IF a = 0 THEN parents[o] ELSE {}]
  <1>1. /\ stack' = Append(below, f)
        /\ firing' = IF a = 0 THEN firing ELSE [firing EXCEPT ![o] = @ + 1]
    BY DEF EnterFire
  <1>2. /\ HeapTyped(lists, arrays, cells) /\ OwnArrays(lists)
        /\ firing \in [Objects -> Nat] /\ firing[o] \in Nat
        /\ parents[o] \in SUBSET Objects
        /\ ListOf(o, t) = ListIn(lists, arrays, o, t) /\ ListOf(o, t) \in Seq(Nat)
        /\ Len(ListOf(o, t)) \in Nat
    BY ListOfIs, LenProperties DEF EventedInv, Heap
  <1>3. a \in 0..Len(arrays) /\ Len(arrays) \in Nat /\ a \in Nat
    BY <1>2, LenProperties DEF HeapTyped
  <1>4. n \in Nat /\ n = Len(ListOf(o, t)) /\ (a # 0 => ListOf(o, t) = arrays[a])
    <2>1. CASE a = 0
      BY <1>2, <2>1, EmptySeq DEF ListIn
    <2>2. CASE a # 0
      BY <1>2, <2>2 DEF ListIn
    <2>3. QED
      BY <2>1, <2>2
  <1>5. /\ firing' \in [Objects -> Nat]
        /\ \A p \in Objects : firing'[p] \in Nat /\ firing[p] \in Nat /\ firing[p] <= firing'[p]
        /\ a # 0 => firing'[o] = firing[o] + 1
    BY <1>1, <1>2
  <1>6. f \in FireFrame
    <2> DEFINE mode == IF a = 0 THEN "up" ELSE "loop"
               todo == IF a = 0 THEN parents[o] ELSE {}
               level == firing[o] + 1
    <2>1. /\ mode \in {"loop", "run", "handled", "up"} /\ todo \in SUBSET Objects
          /\ level \in Nat
      BY <1>2
    <2> HIDE DEF mode, todo, level, n, a
    <2>2. QED
      BY <1>2, <1>3, <1>4, <2>1 DEF FireFrame
  <1>7. /\ f.obj = o /\ f.type = t /\ f.arr = a /\ f.i = 1 /\ f.len = n
        /\ f.level = firing[o] + 1 /\ f.seen = ListOf(o, t)
        /\ f.mode = IF a = 0 THEN "up" ELSE "loop"
    OBVIOUS
  <1> HIDE DEF f
  <1>8. ASSUME a # 0
        PROVE  Walks(f, lists, arrays, cells, firing', wiped)
    <2> HIDE DEF n
    <2>1. a \in 1..Len(arrays) /\ ListIn(lists, arrays, o, t) = arrays[a]
      BY <1>2, <1>3, <1>4, <1>8
    <2>2. \A p \in Objects, u \in Types : lists[p][u] = a => p = o /\ u = t
      BY <1>2, <1>8 DEF OwnArrays
    <2>3. f.level \in 1..firing'[o]
      BY <1>2, <1>5, <1>7, <1>8
    <2>4. \A i \in 1..Len(arrays[a]) : Among(ListIn(lists, arrays, o, t), arrays[a][i])
      BY <2>1 DEF Among
    <2>5. f.mode = "loop" /\ f.len <= Len(arrays[a]) /\ f.i >= 1
      BY <1>2, <1>4, <1>7, <1>8
    <2>6. QED
      BY <1>4, <1>7, <1>8, <2>1, <2>2, <2>3, <2>4, <2>5 DEF Walks
  <1>9. FrameIn(f, lists, arrays, cells, firing', wiped)
    BY <1>6, <1>7, <1>8 DEF FrameIn
  <1>10. \A k \in 1..Len(below) : below[k].mode # "up" =>
            /\ below[k].level \in 1..firing'[below[k].obj]
            /\ below[k].obj = o => below[k].level < f.level
    <2> SUFFICES ASSUME NEW k \in 1..Len(below), below[k].mode # "up"
                 PROVE  /\ below[k].level \in 1..firing'[below[k].obj]
                        /\ below[k].obj = o => below[k].level < f.level
      OBVIOUS
    <2>1. below[k] \in FireFrame /\ below[k].level \in 1..firing[below[k].obj]
      BY DEF Stack, FrameIn, Walks
    <2>2. below[k].obj \in Objects
      BY <2>1 DEF FireFrame
    <2>3. QED
      BY <1>2, <1>5, <1>7, <2>1, <2>2
  <1>11. Stack(below, lists, arrays, cells, firing', wiped)
    BY <1>10, StackCounts
  <1>12. Stack(Append(below, f), lists, arrays, cells, firing', wiped)
    BY <1>7, <1>9, <1>10, <1>11, StackAppend
  <1>13. QED
    BY <1>1, <1>5, <1>12 DEF EventedInv

-----------------------------------------------------------------------------
(* What the page and the listeners do                                      *)

LEMMA HeapMoves ==
  ASSUME EventedInv, Heap(lists', arrays', cells'), ArraysKept, CellsKept,
         wiped' \subseteq 1..Len(cells'), UNCHANGED <<firing, parents, stack>>
  PROVE  EventedInv'
  <1>1. Stack(stack, lists, arrays, cells, firing, wiped)
    BY DEF EventedInv
  <1>2. Stack(stack, lists', arrays', cells', firing', wiped')
    BY <1>1, StackStays
  <1>3. QED
    BY <1>2 DEF EventedInv

LEMMA NewCellsTell ==
  ASSUME cells \in Seq(Cell), NEW l \in Listeners
  PROVE  /\ \A once \in BOOLEAN :
              /\ NewCell(l, once) \in Cell /\ NewCell(l, once).live
              /\ NewCell(l, once).listener = l /\ NewCell(l, once).once = once
         /\ Len(cells) \in Nat
  BY LenProperties DEF NewCell, Cell

LEMMA OneCell ==
  ASSUME EventedInv, NEW o \in Objects, NEW t \in Types, NEW l \in Listeners,
         NEW once \in BOOLEAN, once \/ FoundAt(ListOf(o, t), l) = {},
         cells' = Append(cells, NewCell(l, once)),
         Push(o, t, <<Len(cells) + 1>>), UNCHANGED <<firing, parents, stack, wiped>>
  PROVE  EventedInv'
  <1> DEFINE n == Len(cells)
             c == NewCell(l, once)
             new == <<n + 1>>
  <1>1. /\ Heap(lists, arrays, cells) /\ cells \in Seq(Cell) /\ n \in Nat
        /\ c \in Cell /\ c.live /\ c.listener = l /\ c.once = once
    BY NewCellsTell DEF EventedInv, Heap, HeapTyped
  <1>2. /\ cells' \in Seq(Cell) /\ Len(cells') = n + 1 /\ cells'[n + 1] = c
        /\ \A d \in 1..n : cells'[d] = cells[d]
    BY <1>1, AppendProperties
  <1>3. new \in Seq(Nat) /\ Len(new) = 1 /\ new[1] = n + 1
    BY <1>1
  <1>4. Fresh(o, t, l, new)
    <2> SUFFICES ASSUME NEW j \in 1..Len(new)
                 PROVE  /\ new[j] = n + j
                        /\ cells'[n + j].live
                        /\ ~cells'[n + j].once =>
                              /\ j = 1 /\ cells'[n + j].listener = l
                              /\ FoundAt(ListOf(o, t), l) = {}
      BY <1>2, <1>3 DEF Fresh
    <2>1. j = 1
      BY <1>3
    <2> HIDE DEF new, c
    <2>2. QED
      BY <1>1, <1>2, <1>3, <2>1
  <1>5. Heap(lists', arrays', cells') /\ ArraysKept /\ CellsKept
    BY <1>1, <1>3, <1>4, AttachKeeps
  <1>6. wiped' \subseteq 1..Len(cells')
    BY <1>1, <1>2 DEF EventedInv
  <1>7. QED
    BY <1>5, <1>6, HeapMoves

LEMMA OnKeeps ==
  ASSUME EventedInv, NEW o \in Objects, NEW t \in Types, NEW l \in Listeners,
         On(o, t, l)
  PROVE  EventedInv'
  BY OneCell DEF On

LEMMA OnceKeeps ==
  ASSUME EventedInv, NEW o \in Objects, NEW t \in Types, NEW l \in Listeners,
         Once(o, t, l)
  PROVE  EventedInv'
  <1> DEFINE n == Len(cells)
  <1>1. CASE FoundAt(ListOf(o, t), l) # {}
    BY <1>1, OneCell DEF Once
  <1>2. CASE FoundAt(ListOf(o, t), l) = {}
    <2> DEFINE a == NewCell(l, FALSE)
               b == NewCell(l, TRUE)
               both == <<a, b>>
               new == <<n + 1, n + 2>>
    <2>1. /\ Heap(lists, arrays, cells) /\ cells \in Seq(Cell) /\ n \in Nat
          /\ a \in Cell /\ a.live /\ a.listener = l
          /\ b \in Cell /\ b.live /\ b.once
      BY NewCellsTell DEF EventedInv, Heap, HeapTyped
    <2>2. /\ cells' = cells \o both /\ Push(o, t, new)
          /\ UNCHANGED <<firing, parents, stack, wiped>>
      BY <1>2 DEF Once
    <2> HIDE DEF a, b
    <2>3. both \in Seq(Cell) /\ Len(both) = 2 /\ both[1] = a /\ both[2] = b
      BY <2>1
    <2>4. new \in Seq(Nat) /\ Len(new) = 2 /\ new[1] = n + 1 /\ new[2] = n + 2
      BY <2>1
    <2> HIDE DEF both
    <2>c. /\ cells' \in Seq(Cell) /\ Len(cells') = Len(cells) + Len(both)
          /\ \A d \in 1..(Len(cells) + Len(both)) :
                cells'[d] = IF d <= Len(cells) THEN cells[d] ELSE both[d - Len(cells)]
      <3>1. /\ cells \o both \in Seq(Cell)
            /\ Len(cells \o both) = Len(cells) + Len(both)
            /\ \A d \in 1..(Len(cells) + Len(both)) :
                  (cells \o both)[d] =
                     IF d <= Len(cells) THEN cells[d] ELSE both[d - Len(cells)]
        BY <2>1, <2>3, ConcatProperties
      <3>2. QED
        BY <2>2, <3>1
    <2>5. /\ cells' \in Seq(Cell) /\ Len(cells') = n + 2
          /\ \A d \in 1..(n + 2) : cells'[d] = IF d <= n THEN cells[d] ELSE both[d - n]
      BY <2>3, <2>c
    <2> HIDE DEF n
    <2>6. /\ cells'[n + 1] = a /\ cells'[n + 2] = b
          /\ \A d \in 1..n : cells'[d] = cells[d]
      <3>1. /\ n + 1 \in 1..(n + 2) /\ n + 2 \in 1..(n + 2)
            /\ ~(n + 1 <= n) /\ ~(n + 2 <= n) /\ (n + 1) - n = 1 /\ (n + 2) - n = 2
            /\ \A d \in 1..n : d \in 1..(n + 2) /\ d <= n
        BY <2>1
      <3>2. QED
        BY <2>3, <2>5, <3>1
    <2>7. Fresh(o, t, l, new)
      <3> SUFFICES ASSUME NEW j \in 1..Len(new)
                   PROVE  /\ new[j] = n + j
                          /\ cells'[n + j].live
                          /\ ~cells'[n + j].once =>
                                /\ j = 1 /\ cells'[n + j].listener = l
                                /\ FoundAt(ListOf(o, t), l) = {}
        BY <2>4, <2>5, <2>6 DEF Fresh, n
      <3>1. j = 1 \/ j = 2
        BY <2>4
      <3> HIDE DEF new
      <3>2. QED
        BY <1>2, <2>1, <2>4, <2>6, <3>1
    <2>8. Heap(lists', arrays', cells') /\ ArraysKept /\ CellsKept
      BY <2>1, <2>2, <2>4, <2>7, AttachKeeps
    <2>9. wiped' \subseteq 1..Len(cells')
      BY <2>1, <2>2, <2>5 DEF EventedInv, n
    <2>10. QED
      BY <2>2, <2>8, <2>9, HeapMoves
  <1>3. QED
    BY <1>1, <1>2

LEMMA FoundTells ==
  ASSUME NEW s, NEW l, NEW i \in FoundAt(s, l)
  PROVE  i \in 1..Len(s)
  BY DEF FoundAt

LEMMA SpliceMoves ==
  ASSUME EventedInv, NEW o \in Objects, NEW t \in Types,
         NEW i \in 1..Len(ListOf(o, t)), Silence({ListOf(o, t)[i]}), Splice(o, t, i),
         UNCHANGED wiped
  PROVE  /\ Heap(lists', arrays', cells') /\ ArraysKept /\ CellsKept
         /\ wiped' \subseteq 1..Len(cells')
  <1>1. Heap(lists, arrays, cells) /\ firing[o] \in Nat /\ cells \in Seq(Cell)
    BY DEF EventedInv, Heap, HeapTyped
  <1>2. Heap(lists', arrays', cells') /\ ArraysKept /\ CellsKept
    BY <1>1, SpliceKeeps
  <1>3. Len(cells') = Len(cells)
    BY <1>1, SilenceTells
  <1>4. QED
    BY <1>2, <1>3 DEF EventedInv

LEMMA OffKeeps ==
  ASSUME EventedInv, NEW o \in Objects, NEW t \in Types, NEW l \in Listeners,
         Off(o, t, l)
  PROVE  EventedInv'
  <1>1. PICK i \in FoundAt(ListOf(o, t), l) :
               Silence({ListOf(o, t)[i]}) /\ Splice(o, t, i)
    BY DEF Off
  <1>2. UNCHANGED <<firing, parents, stack, wiped>>
    BY DEF Off
  <1>3. QED
    BY <1>1, <1>2, FoundTells, SpliceMoves, HeapMoves

LEMMA OffTypeKeeps ==
  ASSUME EventedInv, NEW o \in Objects, NEW t \in Types, OffType(o, t)
  PROVE  EventedInv'
  <1> DEFINE s == ListIn(lists, arrays, o, t)
             S == ToSet(ListOf(o, t))
  <1>1. /\ Heap(lists, arrays, cells) /\ HeapTyped(lists, arrays, cells)
        /\ cells \in Seq(Cell) /\ Len(arrays) \in Nat
        /\ lists \in [Objects -> [Types -> 0..Len(arrays)]]
        /\ ListOf(o, t) = s /\ s \in Seq(Nat)
    BY ListOfIs, LenProperties DEF EventedInv, Heap, HeapTyped
  <1>2. /\ Silence(S) /\ lists' = [lists EXCEPT ![o][t] = 0]
        /\ UNCHANGED <<arrays, firing, parents, stack, wiped>>
    BY DEF OffType
  <1>3. S = {s[i] : i \in 1..Len(s)}
    BY <1>1, LenProperties DEF ToSet
  <1> HIDE DEF s, S
  <1>4. /\ cells' \in Seq(Cell) /\ Len(cells') = Len(cells)
        /\ \A c \in 1..Len(cells) :
              /\ cells'[c].listener = cells[c].listener
              /\ cells'[c].once = cells[c].once
              /\ cells'[c].live <=> cells[c].live /\ c \notin S
    BY <1>1, <1>2, SilenceTells
  <1>5. OnlyRemoves
    BY <1>4 DEF OnlyRemoves
  <1>6. /\ lists' \in [Objects -> [Types -> 0..Len(arrays)]] /\ lists'[o][t] = 0
        /\ \A p \in Objects, u \in Types : p # o \/ u # t => lists'[p][u] = lists[p][u]
    BY <1>1, <1>2
  <1>7. DropsLists
    <2> SUFFICES ASSUME NEW p \in Objects, NEW u \in Types
                 PROVE  \/ /\ lists'[p][u] = lists[p][u]
                           /\ lists[p][u] # 0 =>
                                \A i \in 1..Len(ListIn(lists, arrays, p, u)) :
                                   cells'[ListIn(lists, arrays, p, u)[i]].live
                        \/ /\ lists'[p][u] = 0
                           /\ \A i \in 1..Len(ListIn(lists, arrays, p, u)) :
                                 \/ ~cells'[ListIn(lists, arrays, p, u)[i]].live
                                 \/ ListIn(lists, arrays, p, u)[i] \in wiped'
      BY <1>6 DEF DropsLists
    <2> DEFINE y == ListIn(lists, arrays, p, u)
    <2>1. \A i \in 1..Len(y) : y[i] \in 1..Len(cells) /\ cells[y[i]].live
      BY <1>1, ListOfIs DEF Heap, Alive
    <2>2. CASE p = o /\ u = t
      <3>1. \A i \in 1..Len(y) : y[i] \in S
        BY <1>3, <2>2 DEF s
      <3>2. \A i \in 1..Len(y) : ~cells'[y[i]].live
        BY <1>4, <2>1, <3>1
      <3>3. QED
        BY <1>6, <2>2, <3>2
    <2>3. CASE p # o \/ u # t
      <3>1. ASSUME NEW i \in 1..Len(y), y[i] \in S PROVE FALSE
        <4>1. PICK j \in 1..Len(s) : y[i] = s[j]
          BY <1>3, <3>1
        <4>2. p = o /\ u = t
          BY <1>1, <4>1 DEF s, Heap, Apart
        <4>3. QED
          BY <2>3, <4>2
      <3>2. \A i \in 1..Len(y) : cells'[y[i]].live
        BY <1>4, <2>1, <3>1
      <3>3. QED
        BY <1>6, <2>3, <3>2
    <2>4. QED
      BY <2>2, <2>3
  <1>8. Heap(lists', arrays', cells') /\ ArraysKept /\ CellsKept
    BY <1>1, <1>2, <1>5, <1>7, DropKeeps
  <1>9. wiped' \subseteq 1..Len(cells')
    BY <1>2, <1>4 DEF EventedInv
  <1>10. QED
    BY <1>2, <1>8, <1>9, HeapMoves

LEMMA OffAllKeeps ==
  ASSUME EventedInv, NEW o \in Objects, OffAll(o)
  PROVE  EventedInv'
  <1> DEFINE W == UNION {ToSet(ListOf(o, t)) : t \in Types}
             Z == [t \in Types |-> 0]
  <1>1. /\ Heap(lists, arrays, cells) /\ HeapTyped(lists, arrays, cells)
        /\ cells \in Seq(Cell) /\ Len(arrays) \in Nat
        /\ lists \in [Objects -> [Types -> 0..Len(arrays)]]
    BY LenProperties DEF EventedInv, Heap, HeapTyped
  <1>2. /\ wiped' = wiped \cup W /\ lists' = [lists EXCEPT ![o] = Z]
        /\ UNCHANGED <<arrays, cells, firing, parents, stack>>
    BY DEF OffAll
  <1>3. OnlyRemoves
    BY <1>1, <1>2 DEF OnlyRemoves
  <1>z. Z \in [Types -> 0..Len(arrays)] /\ \A t \in Types : Z[t] = 0
    BY <1>1
  <1> HIDE DEF Z
  <1>4. /\ lists' \in [Objects -> [Types -> 0..Len(arrays)]]
        /\ \A t \in Types : lists'[o][t] = 0
        /\ \A p \in Objects, t \in Types : p # o => lists'[p][t] = lists[p][t]
    BY <1>1, <1>2, <1>z
  <1>5. \A t \in Types : \A i \in 1..Len(ListIn(lists, arrays, o, t)) :
           ListIn(lists, arrays, o, t)[i] \in W
    <2> SUFFICES ASSUME NEW t \in Types, NEW i \in 1..Len(ListIn(lists, arrays, o, t))
                 PROVE  ListIn(lists, arrays, o, t)[i] \in W
      OBVIOUS
    <2> DEFINE s == ListIn(lists, arrays, o, t)
    <2>1. ListOf(o, t) = s /\ s \in Seq(Nat)
      BY <1>1, ListOfIs
    <2>2. s[i] \in ToSet(ListOf(o, t))
      BY <2>1, LenProperties DEF ToSet
    <2>3. QED
      BY <2>2
  <1>6. W \subseteq 1..Len(cells)
    <2> SUFFICES ASSUME NEW t \in Types PROVE ToSet(ListOf(o, t)) \subseteq 1..Len(cells)
      OBVIOUS
    <2> DEFINE s == ListIn(lists, arrays, o, t)
    <2>1. /\ ListOf(o, t) = s /\ s \in Seq(Nat)
          /\ \A i \in 1..Len(s) : s[i] \in 1..Len(cells)
      BY <1>1, ListOfIs
    <2>2. DOMAIN s = 1..Len(s)
      BY <2>1, LenProperties
    <2>3. QED
      BY <2>1, <2>2 DEF ToSet
  <1> HIDE DEF W
  <1>7. DropsLists
    <2> SUFFICES ASSUME NEW p \in Objects, NEW u \in Types
                 PROVE  \/ /\ lists'[p][u] = lists[p][u]
                           /\ lists[p][u] # 0 =>
                                \A i \in 1..Len(ListIn(lists, arrays, p, u)) :
                                   cells'[ListIn(lists, arrays, p, u)[i]].live
                        \/ /\ lists'[p][u] = 0
                           /\ \A i \in 1..Len(ListIn(lists, arrays, p, u)) :
                                 \/ ~cells'[ListIn(lists, arrays, p, u)[i]].live
                                 \/ ListIn(lists, arrays, p, u)[i] \in wiped'
      BY <1>4 DEF DropsLists
    <2>1. CASE p = o
      BY <1>2, <1>4, <1>5, <2>1
    <2>2. CASE p # o
      BY <1>1, <1>2, <1>4, <2>2 DEF Heap, Alive
    <2>3. QED
      BY <2>1, <2>2
  <1>8. wiped \subseteq wiped' /\ wiped' \subseteq 1..Len(cells')
    BY <1>2, <1>6 DEF EventedInv
  <1>9. Heap(lists', arrays', cells') /\ ArraysKept /\ CellsKept
    BY <1>1, <1>2, <1>3, <1>7, <1>8, DropKeeps
  <1>10. QED
    BY <1>2, <1>8, <1>9, HeapMoves

(* The call on top goes on with the same array, a listener further or not. *)
LEMMA TopTells ==
  ASSUME EventedInv, stack # <<>>
  PROVE  /\ Top = stack[Len(stack)] /\ Len(stack) \in 1..Len(stack)
         /\ Top \in FireFrame
         /\ FrameIn(Top, lists, arrays, cells, firing, wiped)
  <1>1. stack \in Seq(FireFrame)
    BY DEF EventedInv, Stack
  <1>2. Len(stack) \in 1..Len(stack)
    BY <1>1, FrontTells
  <1>3. FrameIn(Top, lists, arrays, cells, firing, wiped) /\ Top = stack[Len(stack)]
    BY <1>2 DEF EventedInv, Stack, Top, Last
  <1>4. QED
    BY <1>2, <1>3 DEF FrameIn

(* A frame is another, but for where its loop is.                          *)
Follows(f, g) ==
    /\ f \in FireFrame /\ g.mode \in {"loop", "run", "handled"}
    /\ g.i \in {f.i, f.i + 1} /\ (g.mode # "loop" => g.i <= f.len)
    /\ f.mode # "up"
    /\ g.obj = f.obj /\ g.type = f.type /\ g.propagate = f.propagate
    /\ g.arr = f.arr /\ g.len = f.len /\ g.level = f.level
    /\ g.seen = f.seen /\ g.pending = f.pending

LEMMA FrameMoves ==
  ASSUME NEW f, NEW g \in FireFrame, Follows(f, g),
         NEW ls, NEW as, NEW cs, NEW fi, NEW wi, FrameIn(f, ls, as, cs, fi, wi)
  PROVE  FrameIn(g, ls, as, cs, fi, wi)
  <1>1. Walks(f, ls, as, cs, fi, wi)
    BY DEF FrameIn, Follows
  <1>2. f.i \in Nat /\ f.i >= 1 /\ g.i >= 1
    BY <1>1 DEF Walks, Follows, FireFrame
  <1>3. Walks(g, ls, as, cs, fi, wi)
    BY <1>1, <1>2 DEF Walks, Follows
  <1>4. QED
    BY <1>3 DEF FrameIn

LEMMA TopMoves ==
  ASSUME EventedInv, stack # <<>>, NEW g \in FireFrame, Follows(Top, g), SetTop(g)
  PROVE  Stack(stack', lists, arrays, cells, firing, wiped)
  <1>1. /\ Top = stack[Len(stack)]
        /\ FrameIn(Top, lists, arrays, cells, firing, wiped)
    BY TopTells
  <1>2. FrameIn(g, lists, arrays, cells, firing, wiped)
    BY <1>1, FrameMoves
  <1>3. /\ stack[Len(stack)].mode # "up"
        /\ g.obj = stack[Len(stack)].obj /\ g.level = stack[Len(stack)].level
    BY <1>1 DEF Follows
  <1>4. Stack([stack EXCEPT ![Len(stack)] = g],
              lists, arrays, cells, firing, wiped)
    BY <1>2, <1>3, StackSet DEF EventedInv
  <1>5. QED
    BY <1>4 DEF SetTop

LEMMA OnlyStackMoves ==
  ASSUME EventedInv, Stack(stack', lists, arrays, cells, firing, wiped),
         UNCHANGED <<lists, arrays, cells, firing, parents, wiped>>
  PROVE  EventedInv'
  BY DEF EventedInv

(* Where the loop may go on.                                               *)
LEMMA FramesOfTop ==
  ASSUME NEW f \in FireFrame, f.mode # "up",
         NEW mode \in {"loop", "run", "handled"},
         mode # "loop" => f.i <= f.len
  PROVE  /\ [f EXCEPT !.mode = mode] \in FireFrame
         /\ Follows(f, [f EXCEPT !.mode = mode])
  BY DEF FireFrame, Follows

LEMMA FramesFurther ==
  ASSUME NEW f \in FireFrame, f.mode # "up"
  PROVE  /\ [f EXCEPT !.mode = "loop", !.i = @ + 1] \in FireFrame
         /\ Follows(f, [f EXCEPT !.mode = "loop", !.i = @ + 1])
         /\ f.mode = "loop" =>
               [f EXCEPT !.i = @ + 1] = [f EXCEPT !.mode = "loop", !.i = @ + 1]
  <1> DEFINE n == f.i + 1
             g == [f EXCEPT !.mode = "loop", !.i = n]
  <1>1. n \in Nat /\ f.i \in Nat
    BY DEF FireFrame
  <1> HIDE DEF n
  <1>2. g \in FireFrame
    BY <1>1 DEF FireFrame
  <1>3. /\ g.mode = "loop" /\ g.i = n
        /\ g.obj = f.obj /\ g.type = f.type /\ g.propagate = f.propagate
        /\ g.arr = f.arr /\ g.len = f.len /\ g.level = f.level
        /\ g.seen = f.seen /\ g.pending = f.pending
    BY DEF FireFrame
  <1>4. f.mode = "loop" => [f EXCEPT !.i = n] = g
    BY DEF FireFrame
  <1> HIDE DEF g
  <1>5. Follows(f, g)
    BY <1>3 DEF Follows, n
  <1>6. QED
    BY <1>2, <1>4, <1>5 DEF g, n

LEMMA FireKeeps ==
  ASSUME EventedInv, NEW o \in Objects, NEW t \in Types, NEW propagate \in BOOLEAN,
         Fire(o, t, propagate)
  PROVE  EventedInv'
  <1>1. Stack(stack, lists, arrays, cells, firing, wiped)
    BY DEF EventedInv
  <1>2. QED
    BY <1>1, EnterFireKeeps DEF Fire

LEMMA CallListenerKeeps == ASSUME EventedInv, CallListener PROVE EventedInv'
  <1>1. stack # <<>> /\ Top.mode = "loop" /\ Top.i <= Top.len
    BY DEF CallListener, InLoop
  <1>2. Top \in FireFrame
    BY <1>1, TopTells
  <1>3. CASE cells[Current].live
    <2>1. SetTop([Top EXCEPT !.mode = "run"])
      BY <1>3 DEF CallListener
    <2>2. Stack(stack', lists, arrays, cells, firing, wiped)
      BY <1>1, <1>2, <2>1, FramesOfTop, TopMoves
    <2>3. QED
      BY <2>2, OnlyStackMoves DEF CallListener
  <1>4. CASE ~cells[Current].live
    <2>1. SetTop([Top EXCEPT !.i = @ + 1])
      BY <1>4 DEF CallListener
    <2>2. Stack(stack', lists, arrays, cells, firing, wiped)
      BY <1>1, <1>2, <2>1, FramesFurther, TopMoves
    <2>3. QED
      BY <2>2, OnlyStackMoves DEF CallListener
  <1>5. QED
    BY <1>3, <1>4

LEMMA ReturnKeeps == ASSUME EventedInv, Return PROVE EventedInv'
  <1>1. /\ stack # <<>> /\ Top.mode = "run"
        /\ SetTop([Top EXCEPT !.mode = "loop", !.i = @ + 1])
    BY DEF Return, Running
  <1>2. Top \in FireFrame
    BY <1>1, TopTells
  <1>3. Stack(stack', lists, arrays, cells, firing, wiped)
    BY <1>1, <1>2, FramesFurther, TopMoves
  <1>4. QED
    BY <1>3, OnlyStackMoves DEF Return

(* The function of once() removes what it finds, or nothing.               *)
LEMMA HeapRests ==
  ASSUME EventedInv, UNCHANGED <<lists, arrays, cells, wiped>>
  PROVE  /\ Heap(lists', arrays', cells') /\ ArraysKept /\ CellsKept
         /\ wiped' \subseteq 1..Len(cells')
  <1>1. /\ Heap(lists', arrays', cells') /\ wiped' \subseteq 1..Len(cells')
    BY DEF EventedInv
  <1>2. \A a \in 1..Len(arrays) : ArrayKept(a)
    <2> SUFFICES ASSUME NEW a \in 1..Len(arrays) PROVE ArrayKept(a)
      OBVIOUS
    <2>1. arrays[a] \in Seq(Nat)
      BY ElementOfSeq DEF EventedInv, Heap, HeapTyped
    <2>2. Len(arrays[a]) \in Nat
      BY <2>1, LenProperties
    <2>3. QED
      BY <2>2 DEF ArrayKept
  <1>3. QED
    BY <1>1, <1>2 DEF ArraysKept, CellsKept

LEMMA HandlerKeeps ==
  ASSUME EventedInv, stack # <<>>, NEW g \in FireFrame, Follows(Top, g), SetTop(g),
         Heap(lists', arrays', cells'), ArraysKept, CellsKept,
         wiped' \subseteq 1..Len(cells'), UNCHANGED <<firing, parents>>
  PROVE  EventedInv'
  <1>1. Stack(stack', lists, arrays, cells, firing, wiped)
    BY TopMoves
  <1>2. Stack(stack', lists', arrays', cells', firing', wiped')
    BY <1>1, StackStays
  <1>3. QED
    BY <1>2 DEF EventedInv

LEMMA HandlerRemovesListenerKeeps ==
  ASSUME EventedInv, HandlerRemovesListener PROVE EventedInv'
  <1> DEFINE o == Top.obj
             t == Top.type
             at == FoundAt(ListOf(o, t), cells[Current].listener)
  <1>1. /\ stack # <<>> /\ Top.mode = "run" /\ UNCHANGED <<firing, parents, wiped>>
        /\ SetTop([Top EXCEPT !.mode = "handled"])
    BY DEF HandlerRemovesListener, Running
  <1>2. /\ Top \in FireFrame /\ Top.i <= Top.len
    BY <1>1, TopTells DEF FrameIn, Walks
  <1>3. o \in Objects /\ t \in Types
    BY <1>2 DEF FireFrame
  <1>4. /\ Heap(lists', arrays', cells') /\ ArraysKept /\ CellsKept
        /\ wiped' \subseteq 1..Len(cells')
    <2>1. CASE at = {}
      <3>1. UNCHANGED <<lists, arrays, cells>>
        BY <2>1 DEF HandlerRemovesListener
      <3>2. QED
        BY <1>1, <3>1, HeapRests
    <2>2. CASE at # {}
      <3>1. PICK i \in at : Silence({ListOf(o, t)[i]}) /\ Splice(o, t, i)
        BY <2>2 DEF HandlerRemovesListener
      <3>2. i \in 1..Len(ListOf(o, t))
        BY <3>1, FoundTells
      <3> HIDE DEF o, t, at
      <3>3. QED
        BY <1>1, <1>3, <3>1, <3>2, SpliceMoves
    <2>3. QED
      BY <2>1, <2>2
  <1>5. /\ [Top EXCEPT !.mode = "handled"] \in FireFrame
        /\ Follows(Top, [Top EXCEPT !.mode = "handled"])
    BY <1>1, <1>2, FramesOfTop
  <1>6. QED
    BY <1>1, <1>4, <1>5, HandlerKeeps

LEMMA HandlerRemovesItselfKeeps ==
  ASSUME EventedInv, HandlerRemovesItself PROVE EventedInv'
  <1> DEFINE o == Top.obj
             t == Top.type
             at == {i \in 1..Len(ListOf(o, t)) : ListOf(o, t)[i] = Current}
  <1>1. /\ stack # <<>> /\ Top.mode = "handled"
        /\ UNCHANGED <<firing, parents, wiped>>
        /\ SetTop([Top EXCEPT !.mode = "loop", !.i = @ + 1])
    BY DEF HandlerRemovesItself
  <1>2. Top \in FireFrame
    BY <1>1, TopTells
  <1>3. o \in Objects /\ t \in Types
    BY <1>2 DEF FireFrame
  <1>4. /\ Heap(lists', arrays', cells') /\ ArraysKept /\ CellsKept
        /\ wiped' \subseteq 1..Len(cells')
    <2>1. CASE at = {}
      <3>1. UNCHANGED <<lists, arrays, cells>>
        BY <2>1 DEF HandlerRemovesItself
      <3>2. QED
        BY <1>1, <3>1, HeapRests
    <2>2. CASE at # {}
      <3>1. PICK i \in at : Silence({Current}) /\ Splice(o, t, i)
        BY <2>2 DEF HandlerRemovesItself
      <3>2. i \in 1..Len(ListOf(o, t)) /\ ListOf(o, t)[i] = Current
        BY <3>1
      <3>3. Silence({ListOf(o, t)[i]}) /\ Splice(o, t, i)
        BY <3>1, <3>2
      <3> HIDE DEF o, t, at
      <3>4. QED
        BY <1>1, <1>3, <3>2, <3>3, SpliceMoves
    <2>3. QED
      BY <2>1, <2>2
  <1>5. /\ [Top EXCEPT !.mode = "loop", !.i = @ + 1] \in FireFrame
        /\ Follows(Top, [Top EXCEPT !.mode = "loop", !.i = @ + 1])
    BY <1>1, <1>2, FramesFurther
  <1>6. QED
    BY <1>1, <1>4, <1>5, HandlerKeeps

(* The levels of one object rise with the stack, so that all below the top *)
(* are counted still when the top counts down.                             *)
LEMMA FireDoneKeeps == ASSUME EventedInv, FireDone PROVE EventedInv'
  <1> DEFINE o == Top.obj
             n == Len(stack)
             g == [Top EXCEPT !.mode = "up", !.pending = parents[o]]
  <1>1. /\ stack # <<>> /\ Top.mode = "loop"
        /\ firing' = [firing EXCEPT ![o] = @ - 1]
        /\ UNCHANGED <<lists, arrays, cells, parents, wiped>>
    BY DEF FireDone, InLoop
  <1>2. /\ Top = stack[n] /\ n \in Nat /\ n \in 1..n
        /\ Top \in FireFrame /\ o \in Objects
        /\ Top.level \in 1..firing[o]
        /\ Stack(stack, lists, arrays, cells, firing, wiped)
        /\ firing \in [Objects -> Nat] /\ parents[o] \in SUBSET Objects
    <2>1. Top = stack[n] /\ n \in 1..n /\ Top \in FireFrame
          /\ FrameIn(Top, lists, arrays, cells, firing, wiped)
      BY <1>1, TopTells
    <2>2. o \in Objects
      BY <2>1 DEF FireFrame
    <2>3. Top.level \in 1..firing[o]
      BY <1>1, <2>1 DEF FrameIn, Walks
    <2>4. n \in Nat
      BY LenProperties DEF EventedInv, Stack
    <2>5. QED
      BY <2>1, <2>2, <2>3, <2>4 DEF EventedInv
  <1>3. /\ firing' \in [Objects -> Nat] /\ firing'[o] = firing[o] - 1
        /\ \A p \in Objects : firing[p] \in Nat /\ (p # o => firing'[p] = firing[p])
    <2>1. firing[o] \in Nat /\ firing[o] # 0
      BY <1>2
    <2> DEFINE m == firing[o] - 1
    <2>2. m \in Nat
      BY <2>1
    <2>3. firing' = [firing EXCEPT ![o] = m]
      BY <1>1
    <2> HIDE DEF m
    <2>4. firing' \in [Objects -> Nat] /\ firing'[o] = m
          /\ \A p \in Objects : p # o => firing'[p] = firing[p]
      BY <1>2, <2>2, <2>3
    <2>5. QED
      BY <1>2, <2>4 DEF m
  <1>4. ASSUME NEW k \in 1..n, k # n, stack[k].mode # "up"
        PROVE  stack[k].level \in 1..firing'[stack[k].obj]
    <2>1. /\ stack[k] \in FireFrame
          /\ stack[k].level \in 1..firing[stack[k].obj]
      BY <1>2, <1>4 DEF Stack, FrameIn, Walks
    <2>2. stack[k].obj \in Objects
      BY <2>1 DEF FireFrame
    <2>3. CASE stack[k].obj = o
      <3>1. k < n /\ stack[n].mode # "up" /\ stack[n].obj = stack[k].obj
        BY <1>1, <1>2, <1>4, <2>3
      <3>2. stack[k].level < stack[n].level
        BY <1>2, <1>4, <3>1 DEF Stack, Nested
      <3>3. QED
        BY <1>2, <1>3, <2>1, <2>3, <3>2
    <2>4. CASE stack[k].obj # o
      BY <1>3, <2>1, <2>2, <2>4
    <2>5. QED
      BY <2>3, <2>4
  <1>5. Stack(stack', lists, arrays, cells, firing', wiped)
    <2>1. CASE Top.propagate
      <3>1. stack' = [stack EXCEPT ![n] = g]
        BY <2>1 DEF FireDone, SetTop
      <3>2. g \in FireFrame /\ g.mode = "up"
        <4> DEFINE up == parents[o]
        <4>1. up \in SUBSET Objects
          BY <1>2
        <4> HIDE DEF up
        <4>2. [Top EXCEPT !.mode = "up", !.pending = up] \in FireFrame
              /\ [Top EXCEPT !.mode = "up", !.pending = up].mode = "up"
          BY <1>2, <4>1 DEF FireFrame
        <4>3. QED
          BY <4>2 DEF up
      <3> HIDE DEF g
      <3>3. FrameIn(g, lists, arrays, cells, firing, wiped)
        BY <3>2 DEF FrameIn
      <3>4. Stack(stack', lists, arrays, cells, firing, wiped)
        BY <1>1, <1>2, <3>1, <3>2, <3>3, StackSet
      <3>5. /\ Len(stack') = n
            /\ \A k \in 1..n : stack'[k] = IF k = n THEN g ELSE stack[k]
        <4>1. stack \in Seq(FireFrame)
          BY <1>2 DEF Stack
        <4>2. QED
          BY <1>2, <3>1, <3>2, <4>1, ExceptSeq
      <3> HIDE DEF n
      <3>6. ASSUME NEW k \in 1..Len(stack'), stack'[k].mode # "up"
            PROVE  stack'[k].level \in 1..firing'[stack'[k].obj]
        <4>1. k \in 1..n /\ k # n /\ stack'[k] = stack[k]
          BY <3>2, <3>5, <3>6
        <4>2. QED
          BY <1>4, <3>6, <4>1
      <3>7. QED
        BY <3>4, <3>6, StackCounts
    <2>2. CASE ~Top.propagate
      <3>1. stack' = Front(stack)
        BY <2>2 DEF FireDone
      <3>2. Stack(stack', lists, arrays, cells, firing, wiped)
        BY <1>1, <1>2, <3>1, StackFront
      <3>3. Len(stack') = n - 1 /\ \A k \in 1..(n - 1) : stack'[k] = stack[k]
        BY <1>1, <1>2, <3>1, FrontTells DEF Stack
      <3> HIDE DEF n
      <3>4. ASSUME NEW k \in 1..Len(stack'), stack'[k].mode # "up"
            PROVE  stack'[k].level \in 1..firing'[stack'[k].obj]
        <4>1. k \in 1..n /\ k # n /\ stack'[k] = stack[k]
          BY <1>2, <3>3
        <4>2. QED
          BY <1>4, <3>4, <4>1
      <3>5. QED
        BY <3>2, <3>4, StackCounts
    <2>3. QED
      BY <2>1, <2>2
  <1>6. QED
    BY <1>1, <1>3, <1>5 DEF EventedInv

LEMMA PropagateEventKeeps == ASSUME EventedInv, PropagateEvent PROVE EventedInv'
  <1> DEFINE n == Len(stack)
  <1>1. /\ stack # <<>> /\ Top.mode = "up"
        /\ UNCHANGED <<lists, arrays, cells, parents, wiped>>
    BY DEF PropagateEvent
  <1>2. PICK p \in Top.pending \cap parents[Top.obj] :
          LET rest == [stack EXCEPT ![n].pending = @ \ {p}] IN
          IF Listens(p, Top.type, TRUE)
            THEN EnterFire(p, Top.type, TRUE, rest)
            ELSE stack' = rest /\ UNCHANGED firing
    BY DEF PropagateEvent
  <1> DEFINE rest == [stack EXCEPT ![n].pending = @ \ {p}]
             todo == Top.pending \ {p}
             g == [Top EXCEPT !.pending = todo]
  <1>3. /\ Top = stack[n] /\ n \in 1..n /\ Top \in FireFrame
        /\ Stack(stack, lists, arrays, cells, firing, wiped)
    BY <1>1, TopTells DEF EventedInv
  <1>4. p \in Objects /\ Top.type \in Types /\ todo \in SUBSET Objects
    BY <1>3 DEF FireFrame
  <1>5. rest = [stack EXCEPT ![n] = g]
    BY <1>3
  <1> HIDE DEF todo
  <1>6. g \in FireFrame /\ g.mode = "up"
    BY <1>1, <1>3, <1>4 DEF FireFrame
  <1> HIDE DEF g
  <1>7. FrameIn(g, lists, arrays, cells, firing, wiped)
    BY <1>6 DEF FrameIn
  <1>8. Stack(rest, lists, arrays, cells, firing, wiped)
    BY <1>1, <1>3, <1>5, <1>6, <1>7, StackSet
  <1>9. CASE Listens(p, Top.type, TRUE)
    <2>1. EnterFire(p, Top.type, TRUE, rest)
      BY <1>2, <1>9
    <2> HIDE DEF rest
    <2>2. QED
      BY <1>1, <1>4, <1>8, <2>1, EnterFireKeeps
  <1>10. CASE ~Listens(p, Top.type, TRUE)
    <2>1. stack' = rest /\ UNCHANGED firing
      BY <1>2, <1>10
    <2> HIDE DEF rest
    <2>2. QED
      BY <1>1, <1>8, <2>1, OnlyStackMoves
  <1>11. QED
    BY <1>9, <1>10

LEMMA PropagatedKeeps == ASSUME EventedInv, Propagated PROVE EventedInv'
  <1>1. /\ stack # <<>> /\ stack' = Front(stack)
        /\ UNCHANGED <<lists, arrays, cells, firing, parents, wiped>>
    BY DEF Propagated
  <1>2. Stack(stack', lists, arrays, cells, firing, wiped)
    BY <1>1, StackFront DEF EventedInv
  <1>3. QED
    BY <1>1, <1>2, OnlyStackMoves

LEMMA EmptyStack ==
  ASSUME NEW ls, NEW as, NEW cs, NEW fi, NEW wi
  PROVE  Stack(<<>>, ls, as, cs, fi, wi)
  <1>1. <<>> \in Seq(FireFrame) /\ Len(<<>>) = 0
    BY EmptySeq
  <1>2. QED
    BY <1>1 DEF Stack, Nested

LEMMA ThrowKeeps == ASSUME EventedInv, Throw PROVE EventedInv'
  <1>1. stack' = <<>> /\ UNCHANGED <<lists, arrays, cells, firing, parents, wiped>>
    BY DEF Throw
  <1>2. Stack(stack', lists, arrays, cells, firing, wiped)
    BY <1>1, EmptyStack
  <1>3. QED
    BY <1>1, <1>2, OnlyStackMoves

LEMMA ParentsKeep ==
  ASSUME EventedInv, NEW o \in Objects, NEW p \in Objects,
         AddEventParent(o, p) \/ RemoveEventParent(o, p)
  PROVE  EventedInv'
  <1>1. UNCHANGED <<lists, arrays, cells, firing, stack, wiped>>
    BY DEF AddEventParent, RemoveEventParent
  <1>2. parents' \in [Objects -> SUBSET Objects]
    BY DEF AddEventParent, RemoveEventParent, EventedInv
  <1>3. QED
    BY <1>1, <1>2 DEF EventedInv

LEMMA EventedStarts == EventedInit => EventedInv
  <1> SUFFICES ASSUME EventedInit PROVE EventedInv
    OBVIOUS
  <1>1. /\ arrays = <<>> /\ cells = <<>> /\ stack = <<>> /\ wiped = {}
        /\ lists \in [Objects -> [Types -> {0}]]
        /\ firing \in [Objects -> Nat] /\ parents \in [Objects -> SUBSET Objects]
    BY DEF EventedInit
  <1>2. /\ arrays \in Seq(Seq(Nat)) /\ Len(arrays) = 0
        /\ cells \in Seq(Cell) /\ Len(cells) = 0
    BY <1>1, EmptySeq
  <1>3. HeapTyped(lists, arrays, cells)
    BY <1>1, <1>2 DEF HeapTyped
  <1>4. \A o \in Objects, t \in Types :
           lists[o][t] = 0 /\ ListIn(lists, arrays, o, t) = <<>>
           /\ Len(ListIn(lists, arrays, o, t)) = 0
    BY <1>1, EmptySeq DEF ListIn
  <1>5. /\ OwnArrays(lists) /\ Alive(lists, arrays, cells)
        /\ Apart(lists, arrays) /\ Single(lists, arrays, cells)
    BY <1>4 DEF OwnArrays, Alive, Apart, Single
  <1>6. Stack(stack, lists, arrays, cells, firing, wiped)
    BY <1>1, EmptyStack
  <1>7. QED
    BY <1>1, <1>3, <1>5, <1>6 DEF EventedInv, Heap

LEMMA EventedInvHolds == EventedSpec => []EventedInv
  <1>1. EventedInv /\ [EventedNext]_eventedVars => EventedInv'
    <2> SUFFICES ASSUME EventedInv, [EventedNext]_eventedVars PROVE EventedInv'
      OBVIOUS
    <2>1. ASSUME NEW o \in Objects, NEW t \in Types, NEW l \in Listeners,
                 On(o, t, l) \/ Once(o, t, l) \/ Off(o, t, l)
          PROVE  EventedInv'
      BY <2>1, OnKeeps, OnceKeeps, OffKeeps
    <2>2. ASSUME NEW o \in Objects, NEW t \in Types, OffType(o, t)
          PROVE  EventedInv'
      BY <2>2, OffTypeKeeps
    <2>3. ASSUME NEW o \in Objects, NEW t \in Types, NEW propagate \in BOOLEAN,
                 Fire(o, t, propagate)
          PROVE  EventedInv'
      BY <2>3, FireKeeps
    <2>4. ASSUME NEW o \in Objects, OffAll(o) PROVE EventedInv'
      BY <2>4, OffAllKeeps
    <2>5. ASSUME NEW o \in Objects, NEW p \in Objects,
                 AddEventParent(o, p) \/ RemoveEventParent(o, p)
          PROVE  EventedInv'
      BY <2>5, ParentsKeep
    <2>6. CASE CallListener \/ Return \/ Throw
      BY <2>6, CallListenerKeeps, ReturnKeeps, ThrowKeeps
    <2>7. CASE HandlerRemovesListener \/ HandlerRemovesItself
      BY <2>7, HandlerRemovesListenerKeeps, HandlerRemovesItselfKeeps
    <2>8. CASE FireDone \/ PropagateEvent \/ Propagated
      BY <2>8, FireDoneKeeps, PropagateEventKeeps, PropagatedKeeps
    <2>9. CASE UNCHANGED eventedVars
      BY <2>9 DEF EventedInv, eventedVars
    <2>10. QED
      BY <2>1, <2>2, <2>3, <2>4, <2>5, <2>6, <2>7, <2>8, <2>9 DEF EventedNext
  <1>2. QED
    BY <1>1, EventedStarts, PTL DEF EventedSpec

-----------------------------------------------------------------------------
(* What the invariant says                                                 *)

ListenersAreRight == EventedTypeOK /\ FiresSnapshot /\ AttachedOnce

LEMMA EventedInvTells == EventedInv => ListenersAreRight
  <1> SUFFICES ASSUME EventedInv PROVE ListenersAreRight
    OBVIOUS
  <1>1. /\ HeapTyped(lists, arrays, cells) /\ Single(lists, arrays, cells)
        /\ Stack(stack, lists, arrays, cells, firing, wiped)
    BY DEF EventedInv, Heap
  <1>2. EventedTypeOK
    <2>1. ASSUME NEW a \in 1..Len(arrays)
          PROVE  ToSet(arrays[a]) \subseteq 1..Len(cells)
      <3>1. arrays[a] \in Seq(Nat)
        BY <1>1, ElementOfSeq DEF HeapTyped
      <3>2. DOMAIN arrays[a] = 1..Len(arrays[a])
        BY <3>1, LenProperties
      <3>3. QED
        BY <1>1, <3>2 DEF HeapTyped, ToSet
    <2>2. QED
      BY <1>1, <2>1 DEF EventedTypeOK, HeapTyped, Stack, EventedInv
  <1>3. FiresSnapshot
    <2> SUFFICES ASSUME NEW k \in 1..Len(stack), stack[k].mode # "up"
                 PROVE  IsPrefix(stack[k].seen, arrays[stack[k].arr])
      BY DEF FiresSnapshot
    <2>1. /\ stack[k] \in FireFrame
          /\ Walks(stack[k], lists, arrays, cells, firing, wiped)
      BY <1>1 DEF Stack, FrameIn
    <2>2. stack[k].seen \in Seq(Nat)
      BY <2>1 DEF FireFrame
    <2>3. /\ stack[k].arr \in 1..Len(arrays)
          /\ Len(stack[k].seen) <= Len(arrays[stack[k].arr])
          /\ \A i \in 1..Len(stack[k].seen) :
                stack[k].seen[i] = arrays[stack[k].arr][i]
      BY <2>1 DEF Walks
    <2>4. arrays[stack[k].arr] \in Seq(Nat)
      BY <1>1, <2>3, ElementOfSeq DEF HeapTyped
    <2>5. QED
      BY <2>2, <2>3, <2>4, PrefixOf
  <1>4. AttachedOnce
    <2> SUFFICES ASSUME NEW o \in Objects, NEW t \in Types,
                        NEW i \in 1..Len(ListOf(o, t)), NEW j \in 1..Len(ListOf(o, t)),
                        cells[ListOf(o, t)[i]].listener = cells[ListOf(o, t)[j]].listener,
                        ~cells[ListOf(o, t)[i]].once, ~cells[ListOf(o, t)[j]].once
                 PROVE  i = j
      BY DEF AttachedOnce
    <2>1. ListOf(o, t) = ListIn(lists, arrays, o, t)
      BY <1>1, ListOfIs
    <2>2. QED
      BY <1>1, <2>1 DEF Single
  <1>5. QED
    BY <1>2, <1>3, <1>4 DEF ListenersAreRight

(* Only fire() calls a listener, and what it calls is in its list.         *)
LEMMA AttachedIsCalled ==
  ASSUME EventedInv, EventedNext PROVE CalledIsAttached
  <1> SUFFICES ASSUME stack # <<>>, Len(stack') = Len(stack),
                      Top.mode = "loop", Last(stack').mode = "run"
               PROVE  Current \in ToSet(ListOf(Top.obj, Top.type)) \cup wiped
    BY DEF CalledIsAttached
  <1>1. /\ Top \in FireFrame /\ stack \in Seq(FireFrame)
        /\ Len(stack) \in Nat /\ Len(stack) # 0
        /\ Walks(Top, lists, arrays, cells, firing, wiped)
    BY TopTells, FrontTells DEF FrameIn, EventedInv, Stack
  <1>2. stack' # stack
    BY DEF Top
  <1>3. ~MayCall
    BY DEF MayCall
  <1>4. CallListener
    <2>1. \A o \in Objects, t \in Types :
             /\ \A l \in Listeners : ~On(o, t, l) /\ ~Once(o, t, l) /\ ~Off(o, t, l)
             /\ ~OffType(o, t) /\ ~OffAll(o)
             /\ \A propagate \in BOOLEAN : ~Fire(o, t, propagate)
      BY <1>3, ZenonT(40) DEF On, Once, Off, OffType, OffAll, Fire
    <2>2. \A o \in Objects : ~OffAll(o)
      BY <1>3 DEF OffAll
    <2>3. \A o, p \in Objects : ~AddEventParent(o, p) /\ ~RemoveEventParent(o, p)
      BY <1>3 DEF AddEventParent, RemoveEventParent
    <2>4. /\ ~Return /\ ~Throw /\ ~HandlerRemovesListener /\ ~HandlerRemovesItself
          /\ ~PropagateEvent /\ ~Propagated
      BY DEF Return, Throw, HandlerRemovesListener, HandlerRemovesItself,
             PropagateEvent, Propagated, Running
    <2>5. ASSUME FireDone PROVE FALSE
      <3>1. CASE ~Top.propagate
        <4>1. stack' = Front(stack)
          BY <2>5, <3>1 DEF FireDone
        <4>2. Len(stack') = Len(stack) - 1
          BY <1>1, <4>1, FrontTells
        <4>3. QED
          BY <1>1, <4>2
      <3>2. CASE Top.propagate
        <4> DEFINE g == [Top EXCEPT !.mode = "up", !.pending = parents[Top.obj]]
        <4>1. stack' = [stack EXCEPT ![Len(stack)] = g]
          BY <2>5, <3>2 DEF FireDone, SetTop
        <4>2. g.mode = "up"
          BY <1>1 DEF FireFrame
        <4> HIDE DEF g
        <4>3. Len(stack) \in DOMAIN stack
          BY <1>1, LenProperties
        <4>4. stack'[Len(stack)] = g
          BY <4>1, <4>3
        <4>5. QED
          BY <4>2, <4>4 DEF Last
      <3>3. QED
        BY <3>1, <3>2
    <2>6. QED
      BY <2>1, <2>2, <2>3, <2>4, <2>5 DEF EventedNext
  <1>5. Top.i <= Top.len /\ Top.i \in 1..Len(arrays[Top.arr])
    <2>1. /\ Top.i <= Top.len /\ Top.i >= 1 /\ Top.len <= Len(arrays[Top.arr])
          /\ Top.arr \in 1..Len(arrays)
      BY <1>1, <1>4 DEF CallListener, Walks
    <2>2. arrays[Top.arr] \in Seq(Nat)
      BY <2>1, ElementOfSeq DEF EventedInv, Heap, HeapTyped
    <2>3. Top.i \in Nat /\ Top.len \in Nat /\ Len(arrays[Top.arr]) \in Nat
      BY <1>1, <2>2, LenProperties DEF FireFrame
    <2>4. QED
      BY <2>1, <2>3
  <1>6. cells[Current].live
    <2> SUFFICES ASSUME ~cells[Current].live PROVE FALSE
      OBVIOUS
    <2> DEFINE g == [Top EXCEPT !.i = @ + 1]
    <2>1. stack' = [stack EXCEPT ![Len(stack)] = g]
      BY <1>4 DEF CallListener, SetTop
    <2>2. g.mode = "loop"
      BY <1>1 DEF FireFrame
    <2> HIDE DEF g
    <2>3. Len(stack) \in DOMAIN stack
      BY <1>1, LenProperties
    <2>4. stack'[Len(stack)] = g
      BY <2>1, <2>3
    <2>5. QED
      BY <2>2, <2>4 DEF Last
  <1>7. \/ Among(ListIn(lists, arrays, Top.obj, Top.type), Current)
        \/ Current \in wiped
    BY <1>1, <1>5, <1>6 DEF Walks, Current
  <1>8. CASE Among(ListIn(lists, arrays, Top.obj, Top.type), Current)
    <2> DEFINE s == ListIn(lists, arrays, Top.obj, Top.type)
    <2>1. Top.obj \in Objects /\ Top.type \in Types
      BY <1>1 DEF FireFrame
    <2>2. ListOf(Top.obj, Top.type) = s /\ s \in Seq(Nat)
      BY <2>1, ListOfIs DEF EventedInv, Heap
    <2>3. DOMAIN s = 1..Len(s)
      BY <2>2, LenProperties
    <2>4. QED
      BY <1>8, <2>2, <2>3 DEF Among, ToSet
  <1>9. QED
    BY <1>7, <1>8

(* Every listener that is attached when an event is fired is called, in    *)
(* the order of attaching and only if it is attached still, and no listener*)
(* is attached twice: whatever listeners attach, remove, fire or fail.     *)
THEOREM ListenersCalled == EventedSpec => ListenersAreCalled
  <1>1. EventedInv /\ EventedNext => CalledIsAttached
    BY AttachedIsCalled
  <1>2. /\ EventedInv /\ ListenersAreRight' /\ [EventedNext]_eventedVars
        => [eventedVars' # eventedVars =>
              /\ EventedTypeOK' /\ FiresSnapshot' /\ AttachedOnce'
              /\ CalledIsAttached]_eventedVars
    BY <1>1 DEF ListenersAreRight
  <1>3. QED
    BY <1>2, EventedInvHolds, EventedInvTells, PTL DEF ListenersAreCalled, EventedSpec

-----------------------------------------------------------------------------
(* Boxes, taps, wheel and keys *)

Box == [enabled : BOOLEAN, listening : BOOLEAN, moved : BOOLEAN,
        boxes : 0..MaxBoxes, own : BOOLEAN, timer : BOOLEAN,
        pressed : BOOLEAN, drew : BOOLEAN, clickDue : BOOLEAN,
        ignored : BOOLEAN, again : BOOLEAN, escaped : BOOLEAN]

(* Of the elements: what is being drawn has its own.                       *)
BoxesCounted(b) ==
    /\ ~b.again => b.boxes = IF b.listening /\ b.moved THEN 1 ELSE 0
    /\ b.own => b.boxes > 0
    /\ b.listening /\ b.moved => b.own

(* Of the reset of the state: it is due only when the drawing is over, and *)
(* nothing has been drawn by a press since; moved is left without it only  *)
(* by Escape.                                                              *)
ResetInTime(b) ==
    /\ b.timer => ~b.listening
    /\ b.timer /\ b.pressed => ~b.drew
    /\ b.moved /\ ~b.timer /\ ~b.listening => b.escaped

(* Of the click that is to come: whether it will be ignored.               *)
ClickKnown(b) ==
    /\ (b.pressed \/ b.clickDue) /\ b.drew /\ ~b.escaped /\ ~b.again => b.moved
    /\ b.listening /\ b.moved => b.drew \/ b.again
    /\ b.clickDue /\ b.moved => b.drew \/ b.escaped \/ b.again

BoxSound(b) == b \in Box /\ BoxesCounted(b) /\ ResetInTime(b) /\ ClickKnown(b)

LEMMA FinishBoxKeeps ==
  ASSUME NEW b \in Box, BoxesCounted(b), NEW f, f = FinishBox(b)
  PROVE  /\ f \in Box /\ ~f.listening
         /\ f.moved = b.moved /\ f.timer = b.timer /\ f.pressed = b.pressed
         /\ f.drew = b.drew /\ f.clickDue = b.clickDue /\ f.again = b.again
         /\ f.escaped = b.escaped /\ f.enabled = b.enabled /\ f.ignored = b.ignored
         /\ f.own => f.boxes > 0
         /\ ~b.again /\ b.listening => f.boxes = 0
  <1> DEFINE n == IF b.moved /\ b.own THEN b.boxes - 1 ELSE b.boxes
             o == b.own /\ ~b.moved
  <1>1. /\ n \in 0..MaxBoxes /\ o \in BOOLEAN
        /\ o => n > 0
        /\ ~b.again /\ b.listening => n = 0
    BY DEF Box, BoxesCounted, MaxBoxes
  <1>2. f = [b EXCEPT !.listening = FALSE, !.boxes = n, !.own = o]
    BY DEF FinishBox, Box
  <1> HIDE DEF n, o
  <1>3. /\ f \in Box /\ ~f.listening /\ f.boxes = n /\ f.own = o
        /\ f.moved = b.moved /\ f.timer = b.timer /\ f.pressed = b.pressed
    BY <1>1, <1>2 DEF Box
  <1>4. /\ f.drew = b.drew /\ f.clickDue = b.clickDue /\ f.again = b.again
        /\ f.escaped = b.escaped /\ f.enabled = b.enabled /\ f.ignored = b.ignored
    BY <1>1, <1>2 DEF Box
  <1>5. QED
    BY <1>1, <1>3, <1>4

LEMMA BoxInitSound == BoxInit => BoxSound(box)
  BY DEF BoxInit, BoxSound, Box, BoxesCounted, ResetInTime, ClickKnown, MaxBoxes

LEMMA PressKeeps ==
  ASSUME BoxSound(box), NEW shift \in BOOLEAN, BoxPress(shift)
  PROVE  BoxSound(box')
  <1> DEFINE g == (box.again /\ box.boxes > 0) \/ box.own
             e == box.escaped /\ ~(shift /\ box.enabled)
             b == [box EXCEPT !.pressed = TRUE, !.drew = FALSE,
                              !.again = g, !.escaped = e]
  <1>1. box \in Box /\ g \in BOOLEAN /\ e \in BOOLEAN
    BY DEF BoxSound, Box
  <1>2. box' = IF shift /\ box.enabled THEN BoxDown(b) ELSE b
    BY DEF BoxPress
  <1>3. ~box.clickDue
    BY DEF BoxPress
  <1>g. g = ((box.again /\ box.boxes > 0) \/ box.own)
    OBVIOUS
  <1>e. e = (box.escaped /\ ~(shift /\ box.enabled))
    OBVIOUS
  <1> HIDE DEF g, e
  <1>4. /\ b \in Box /\ b.pressed /\ ~b.drew /\ b.again = g /\ b.escaped = e
        /\ b.listening = box.listening /\ b.moved = box.moved
        /\ b.boxes = box.boxes /\ b.own = box.own /\ b.timer = box.timer
        /\ ~b.clickDue
    BY <1>1, <1>3 DEF Box
  <1> HIDE DEF b
  <1>5. CASE ~(shift /\ box.enabled)
    <2>1. box' = b /\ e = box.escaped
      BY <1>1, <1>2, <1>5, <1>e DEF Box
    <2>2. BoxesCounted(b)
      BY <1>1, <1>4, <1>g DEF BoxSound, BoxesCounted, Box
    <2>3. ResetInTime(b)
      BY <1>4, <2>1 DEF BoxSound, ResetInTime
    <2>4. ClickKnown(b)
      BY <1>1, <1>4, <1>g DEF BoxSound, BoxesCounted, ClickKnown, Box
    <2>5. QED
      BY <1>4, <2>1, <2>2, <2>3, <2>4 DEF BoxSound
  <1>6. CASE shift /\ box.enabled
    <2>1. box' = [b EXCEPT !.timer = FALSE, !.moved = FALSE, !.listening = TRUE]
      BY <1>2, <1>6 DEF BoxDown
    <2>2. /\ box' \in Box /\ ~box'.timer /\ ~box'.moved /\ box'.listening
          /\ ~box'.drew /\ box'.again = g /\ box'.boxes = box.boxes
          /\ box'.own = box.own /\ ~box'.clickDue
      BY <1>4, <2>1 DEF Box
    <2>3. BoxesCounted(box')
      BY <1>1, <2>2, <1>g DEF BoxSound, BoxesCounted, Box
    <2>4. ResetInTime(box') /\ ClickKnown(box')
      BY <2>2 DEF ResetInTime, ClickKnown
    <2>5. QED
      BY <2>2, <2>3, <2>4 DEF BoxSound
  <1>7. QED
    BY <1>5, <1>6

LEMMA BoxMoveKeeps ==
  ASSUME BoxSound(box), BoxMove
  PROVE  BoxSound(box')
  <1>1. box \in Box /\ box.listening /\ box.boxes < MaxBoxes
    BY DEF BoxSound, BoxMove
  <1>2. CASE box.moved
    <2>1. box' = [box EXCEPT !.drew = TRUE]
      BY <1>2 DEF BoxMove
    <2>2. QED
      BY <1>1, <1>2, <2>1 DEF BoxSound, Box, BoxesCounted, ResetInTime, ClickKnown
  <1>3. CASE ~box.moved
    <2> DEFINE n == box.boxes + 1
    <2>1. box' = [box EXCEPT !.moved = TRUE, !.drew = TRUE, !.own = TRUE, !.boxes = n]
      BY <1>3 DEF BoxMove
    <2>2. n \in 0..MaxBoxes /\ n > 0 /\ (~box.again => n = 1)
      BY <1>1, <1>3 DEF BoxSound, BoxesCounted, Box, MaxBoxes
    <2> HIDE DEF n
    <2>3. /\ box' \in Box /\ box'.moved /\ box'.drew /\ box'.own /\ box'.boxes = n
          /\ box'.listening = box.listening /\ box'.timer = box.timer
          /\ box'.again = box.again
      BY <1>1, <2>1, <2>2 DEF Box
    <2>4. QED
      BY <1>1, <2>2, <2>3 DEF BoxSound, BoxesCounted, ResetInTime, ClickKnown
  <1>4. QED
    BY <1>2, <1>3

LEMMA BoxReleaseKeeps ==
  ASSUME BoxSound(box), BoxRelease
  PROVE  BoxSound(box')
  <1> DEFINE b == IF box.listening THEN BoxUp(box) ELSE box
  <1>1. box \in Box /\ box.pressed /\ ~box.timer
    BY DEF BoxSound, BoxRelease
  <1>2. /\ b \in Box /\ ~b.listening /\ (b.moved <=> box.moved)
        /\ (b.timer <=> box.listening /\ box.moved)
        /\ b.drew = box.drew /\ b.again = box.again /\ b.escaped = box.escaped
        /\ b.own => b.boxes > 0
        /\ ~b.again => b.boxes = 0
    <2>1. CASE ~box.listening
      BY <1>1, <2>1 DEF BoxSound, BoxesCounted, Box
    <2>2. CASE box.listening
      <3> DEFINE f == FinishBox(box)
                 t == f.timer \/ box.moved
      <3>1. /\ f \in Box /\ ~f.listening /\ f.moved = box.moved
            /\ f.timer = box.timer /\ f.drew = box.drew /\ f.again = box.again
            /\ f.escaped = box.escaped /\ (f.own => f.boxes > 0)
            /\ (~box.again => f.boxes = 0)
        BY <2>2, FinishBoxKeeps DEF BoxSound
      <3>2. b = [f EXCEPT !.timer = t] /\ t \in BOOLEAN /\ (t <=> box.moved)
        BY <1>1, <2>2, <3>1 DEF BoxUp, Box
      <3> HIDE DEF f, t, b
      <3>3. QED
        BY <2>2, <3>1, <3>2 DEF Box
    <2>3. QED
      BY <2>1, <2>2
  <1>3. box' = [b EXCEPT !.pressed = FALSE, !.clickDue = TRUE]
    BY DEF BoxRelease
  <1> HIDE DEF b
  <1>4. /\ box' \in Box /\ ~box'.listening /\ box'.moved = b.moved
        /\ box'.timer = b.timer /\ box'.drew = box.drew /\ box'.again = box.again
        /\ box'.escaped = box.escaped /\ box'.own = b.own /\ box'.boxes = b.boxes
        /\ ~box'.pressed
    BY <1>2, <1>3 DEF Box
  <1>5. BoxesCounted(box')
    BY <1>2, <1>4 DEF BoxesCounted
  <1>6. ResetInTime(box') /\ ClickKnown(box')
    BY <1>1, <1>2, <1>4 DEF BoxSound, ResetInTime, ClickKnown
  <1>7. QED
    BY <1>4, <1>5, <1>6 DEF BoxSound

LEMMA BoxEscapeKeeps ==
  ASSUME BoxSound(box), BoxEscape
  PROVE  BoxSound(box')
  <1> DEFINE f == FinishBox(box)
             e == f.escaped \/ box.moved
  <1>1. box \in Box /\ box.listening
    BY DEF BoxSound, BoxEscape
  <1>2. /\ f \in Box /\ ~f.listening /\ f.moved = box.moved
        /\ f.timer = box.timer /\ f.drew = box.drew /\ f.again = box.again
        /\ f.escaped = box.escaped /\ (f.own => f.boxes > 0)
        /\ f.pressed = box.pressed /\ f.clickDue = box.clickDue
        /\ (~box.again => f.boxes = 0)
    BY <1>1, FinishBoxKeeps DEF BoxSound
  <1>3. box' = [f EXCEPT !.escaped = e]
    BY DEF BoxEscape
  <1>4. e \in BOOLEAN /\ (e <=> box.escaped \/ box.moved)
    BY <1>1, <1>2 DEF Box
  <1> HIDE DEF f, e
  <1>5. /\ box' \in Box /\ ~box'.listening /\ box'.moved = box.moved
        /\ box'.timer = box.timer /\ box'.drew = box.drew /\ box'.again = box.again
        /\ box'.escaped = e /\ (box'.own => box'.boxes > 0)
        /\ box'.pressed = box.pressed /\ box'.clickDue = box.clickDue
        /\ (~box.again => box'.boxes = 0)
    BY <1>2, <1>3, <1>4 DEF Box
  <1>6. QED
    BY <1>1, <1>4, <1>5 DEF BoxSound, BoxesCounted, ResetInTime, ClickKnown

(* What changes one or two flags.                                          *)
LEMMA BoxFlagsKeep ==
  ASSUME BoxSound(box), BoxReleaseUnseen \/ BoxClick \/ BoxReset \/ BoxToggle
  PROVE  BoxSound(box')
  <1>1. box \in Box
    BY DEF BoxSound
  <1>2. CASE BoxReleaseUnseen
    BY <1>1, <1>2 DEF BoxReleaseUnseen, BoxSound, Box, BoxesCounted, ResetInTime, ClickKnown
  <1>3. CASE BoxClick
    BY <1>1, <1>3 DEF BoxClick, BoxSound, Box, BoxesCounted, ResetInTime, ClickKnown
  <1>4. CASE BoxReset
    BY <1>1, <1>4 DEF BoxReset, BoxSound, Box, BoxesCounted, ResetInTime, ClickKnown
  <1>5. CASE BoxToggle
    <2> DEFINE e == ~box.enabled
    <2>1. box' = [box EXCEPT !.enabled = e] /\ e \in BOOLEAN
      BY <1>5 DEF BoxToggle
    <2> HIDE DEF e
    <2>2. QED
      BY <1>1, <2>1 DEF BoxSound, Box, BoxesCounted, ResetInTime, ClickKnown
  <1>6. QED
    BY <1>2, <1>3, <1>4, <1>5

LEMMA BoxKeeps ==
  ASSUME BoxSound(box), BoxNext
  PROVE  BoxSound(box')
  BY PressKeeps, BoxMoveKeeps, BoxReleaseKeeps, BoxEscapeKeeps, BoxFlagsKeep
     DEF BoxNext

LEMMA ClickIsTold == BoxSound(box) => BoxClicksAreTold
  <1> SUFFICES ASSUME BoxSound(box), BoxClick PROVE BoxClicksAreTold
    BY DEF BoxClicksAreTold
  <1>1. box \in Box /\ box.clickDue
        /\ box' = [box EXCEPT !.clickDue = FALSE, !.ignored = box.moved]
    BY DEF BoxSound, BoxClick
  <1>2. box'.ignored = box.moved
    BY <1>1 DEF Box
  <1>3. QED
    BY <1>1, <1>2 DEF BoxSound, ClickKnown, BoxClicksAreTold

-----------------------------------------------------------------------------
Tap == [touch : 0..MaxTouches, fingers : 0..2, fireClick : BOOLEAN,
        near : BOOLEAN, timers : SUBSET Touches,
        current : 0..MaxTouches, listening : BOOLEAN,
        clicked : SUBSET Touches, menued : SUBSET Touches]

(* A touch that can become a click has begun, is the last, is timed as the *)
(* current one if at all, and was no contextmenu; what is timed was no     *)
(* click.                                                                  *)
TapSound(t) ==
    /\ t \in Tap
    /\ t.fireClick => /\ t.touch \in Touches /\ t.current = t.touch
                      /\ t.touch \notin t.menued
    /\ t.timers \cap t.clicked = {}
    /\ t.clicked \cap t.menued = {}
    /\ \A u \in t.timers \cup t.clicked \cup t.menued : u <= t.touch

LEMMA TapInitSound == TapInit => TapSound(tap)
  BY HandlersAssumption DEF TapInit, TapSound, Tap, Touches

LEMMA TapUpKeeps ==
  ASSUME NEW t, TapSound(t), NEW seen \in BOOLEAN, NEW n, n = TapUp(t, seen)
  PROVE  /\ TapSound(n) /\ n.menued = t.menued /\ n.fireClick = t.fireClick
         /\ n.touch = t.touch
         /\ ~t.fireClick => n.clicked = t.clicked
  <1> DEFINE s == t.timers \ {t.current}
             c == IF t.fireClick /\ seen /\ t.near
                    THEN t.clicked \cup {t.touch} ELSE t.clicked
  <1>1. t \in Tap
    BY DEF TapSound
  <1>2. n = [t EXCEPT !.timers = s, !.listening = FALSE, !.clicked = c]
    BY <1>1 DEF TapUp, Tap
  <1>3. /\ s \subseteq t.timers /\ c \in SUBSET Touches
        /\ t.clicked \subseteq c /\ (~t.fireClick => c = t.clicked)
        /\ c \subseteq t.clicked \cup {t.touch}
        /\ s \cap c = {} /\ c \cap t.menued = {}
    BY <1>1 DEF TapSound, Tap
  <1> HIDE DEF s, c
  <1>4. /\ n \in Tap /\ n.timers = s /\ n.clicked = c /\ n.menued = t.menued
        /\ n.fireClick = t.fireClick /\ n.touch = t.touch /\ n.current = t.current
    BY <1>1, <1>2, <1>3 DEF Tap
  <1>5. \A u \in s \cup c \cup t.menued : u <= t.touch
    BY <1>1, <1>3 DEF TapSound, Tap
  <1>6. QED
    BY <1>3, <1>4, <1>5 DEF TapSound

LEMMA TouchStartKeeps ==
  ASSUME TapSound(tap), TouchStart
  PROVE  TapSound(tap')
  <1> DEFINE k == tap.fingers + 1
             u == tap.touch + 1
             t == [tap EXCEPT !.fingers = k, !.touch = u]
  <1>1. tap \in Tap /\ tap' = TapDown(t)
    BY DEF TapSound, TouchStart
  <1>2. /\ k \in 0..2 /\ u \in Touches /\ u \in 0..MaxTouches /\ u \in Int
        /\ \A v \in tap.timers \cup tap.clicked \cup tap.menued : v <= u /\ v # u
    BY <1>1, HandlersAssumption DEF TapSound, TouchStart, Tap, Touches
  <1> HIDE DEF k, u
  <1>3. /\ t \in Tap /\ t.touch = u /\ t.timers = tap.timers
        /\ t.clicked = tap.clicked /\ t.menued = tap.menued
        /\ t.current = tap.current
    BY <1>1, <1>2 DEF Tap
  <1> HIDE DEF t
  <1>4. CASE t.fingers > 1
    <2> DEFINE s == t.timers \ {t.current}
    <2>1. tap' = [t EXCEPT !.fireClick = FALSE, !.timers = s]
      BY <1>1, <1>3, <1>4 DEF TapDown, Tap
    <2>2. s \subseteq tap.timers /\ s \in SUBSET Touches
      BY <1>1, <1>3 DEF Tap
    <2> HIDE DEF s
    <2>3. /\ tap' \in Tap /\ ~tap'.fireClick /\ tap'.timers = s
          /\ tap'.clicked = tap.clicked /\ tap'.menued = tap.menued
          /\ tap'.touch = u
      BY <1>3, <2>1, <2>2 DEF Tap
    <2>4. QED
      BY <1>2, <2>2, <2>3 DEF TapSound
  <1>5. CASE ~(t.fingers > 1)
    <2> DEFINE s == t.timers \cup {t.touch}
               m == [t EXCEPT !.fireClick = TRUE, !.near = TRUE]
    <2>1. tap' = [m EXCEPT !.listening = TRUE, !.timers = s, !.current = u]
      BY <1>1, <1>3, <1>5 DEF TapDown, Tap
    <2>2. s = tap.timers \cup {u} /\ s \in SUBSET Touches
      BY <1>1, <1>2, <1>3 DEF Tap
    <2>3. /\ m \in Tap /\ m.fireClick /\ m.clicked = tap.clicked
          /\ m.menued = tap.menued /\ m.touch = u
      BY <1>3 DEF Tap
    <2> HIDE DEF s, m
    <2>4. /\ tap' \in Tap /\ tap'.timers = s /\ tap'.current = u
          /\ tap'.clicked = tap.clicked /\ tap'.menued = tap.menued
          /\ tap'.touch = u
      BY <1>2, <2>1, <2>2, <2>3 DEF Tap
    <2>5. /\ s \cap tap.clicked = {} /\ u \notin tap.menued
          /\ \A v \in s \cup tap.clicked \cup tap.menued : v <= u
      BY <1>2, <2>2 DEF TapSound
    <2>6. QED
      BY <1>2, <2>4, <2>5 DEF TapSound
  <1>6. QED
    BY <1>4, <1>5

LEMMA TouchEndKeeps ==
  ASSUME TapSound(tap), TouchEnd
  PROVE  TapSound(tap')
  <1> DEFINE k == tap.fingers - 1
             t == [tap EXCEPT !.fingers = k]
  <1>1. tap \in Tap /\ tap.fingers > 0
    BY DEF TapSound, TouchEnd
  <1>2. k \in 0..2
    BY <1>1 DEF Tap
  <1>3. tap' = IF tap.listening THEN TapUp(t, TRUE) ELSE t
    BY DEF TouchEnd
  <1> HIDE DEF k
  <1>4. TapSound(t)
    BY <1>1, <1>2 DEF TapSound, Tap
  <1> HIDE DEF t
  <1>5. TapSound(TapUp(t, TRUE))
    BY <1>4, TapUpKeeps
  <1>6. QED
    BY <1>3, <1>4, <1>5

LEMMA HoldKeeps ==
  ASSUME TapSound(tap), NEW touch \in Touches, Hold(touch)
  PROVE  TapSound(tap')
  <1> DEFINE s == tap.timers \ {touch}
             t == [tap EXCEPT !.timers = s]
             f == [t EXCEPT !.fireClick = FALSE]
             n == TapUp(f, FALSE)
             m == n.menued \cup {touch}
  <1>1. tap \in Tap /\ touch \in tap.timers
    BY DEF TapSound, Hold
  <1>2. tap' = IF tap.near THEN [n EXCEPT !.menued = m] ELSE t
    BY DEF Hold
  <1>3. s \in SUBSET Touches /\ s \subseteq tap.timers
    BY <1>1 DEF Tap
  <1> HIDE DEF s
  <1>4. /\ TapSound(t) /\ t \in Tap /\ t.clicked = tap.clicked
        /\ t.menued = tap.menued /\ t.touch = tap.touch
    BY <1>1, <1>3 DEF TapSound, Tap
  <1> HIDE DEF t
  <1>5. /\ TapSound(f) /\ ~f.fireClick /\ f.clicked = tap.clicked
        /\ f.menued = tap.menued /\ f.touch = tap.touch
    BY <1>4 DEF TapSound, Tap
  <1> HIDE DEF f
  <1>n. n = TapUp(f, FALSE)
    OBVIOUS
  <1>m. m = n.menued \cup {touch}
    OBVIOUS
  <1> HIDE DEF n, m
  <1>6. /\ TapSound(n) /\ ~n.fireClick /\ n.clicked = tap.clicked
        /\ n.menued = tap.menued /\ n.touch = tap.touch
    BY <1>5, <1>n, TapUpKeeps, ZenonT(40)
  <1>7. /\ n \in Tap /\ m \in SUBSET Touches /\ m = tap.menued \cup {touch}
        /\ touch \notin tap.clicked /\ touch <= tap.touch
    BY <1>1, <1>6, <1>m DEF TapSound, Tap
  <1>8. TapSound([n EXCEPT !.menued = m])
    <2> DEFINE p == [n EXCEPT !.menued = m]
    <2>1. /\ p \in Tap /\ ~p.fireClick /\ p.timers = n.timers
          /\ p.clicked = n.clicked /\ p.menued = m /\ p.touch = n.touch
      BY <1>6, <1>7 DEF Tap
    <2> HIDE DEF p
    <2>2. TapSound(p)
      BY <2>1, <1>6, <1>7 DEF TapSound
    <2>3. QED
      BY <2>2 DEF p
  <1>9. QED
    BY <1>2, <1>4, <1>8

LEMMA TapKeeps ==
  ASSUME TapSound(tap), TapNext
  PROVE  TapSound(tap')
  <1>1. tap \in Tap
    BY DEF TapSound
  <1>2. CASE TouchCancel
    BY <1>1, <1>2 DEF TouchCancel, TapSound, Tap
  <1>3. ASSUME NEW near \in BOOLEAN, TouchMove(near)
        PROVE  TapSound(tap')
    BY <1>1, <1>3 DEF TouchMove, TapSound, Tap
  <1>4. QED
    BY <1>2, <1>3, TouchStartKeeps, TouchEndKeeps, HoldKeeps DEF TapNext

-----------------------------------------------------------------------------
Wheel == [enabled : BOOLEAN, now : 0..MaxTicks, delta : -2..2,
          start : Int, due : Int]

(* The zoom was asked for no later than now.                               *)
WheelSound ==
    /\ wheel \in Wheel /\ WheelIsServed
    /\ wheel.start \in {NoTime} \cup 0..wheel.now

LEMMA WheelInitSound == WheelInit => WheelSound
  BY HandlersAssumption DEF WheelInit, WheelSound, Wheel, WheelIsServed, NoTime

LEMMA ScrollKeeps ==
  ASSUME WheelSound, NEW delta \in {-1, 1}, Scroll(delta)
  PROVE  WheelSound'
  <1> DEFINE d == wheel.delta + delta
             s == IF wheel.start = NoTime THEN wheel.now ELSE wheel.start
             w == [wheel EXCEPT !.delta = d, !.start = s]
             u == w.now + TimeLeft(w)
  <1>1. /\ wheel \in Wheel /\ d \in -2..2
        /\ wheel.now \in Nat /\ wheel.start \in Int /\ Debounce \in Nat
    BY HandlersAssumption DEF WheelSound, Scroll, Wheel
  <1>2. s \in 0..wheel.now /\ wheel.now <= s + Debounce /\ s \in Int
    BY <1>1 DEF WheelSound, WheelIsServed, NoTime, Wheel
  <1>3. wheel' = [w EXCEPT !.due = u]
    BY <1>1 DEF Scroll, Wheel
  <1> HIDE DEF d, s
  <1>4. w \in Wheel /\ w.now = wheel.now /\ w.start = s
    BY <1>1, <1>2 DEF Wheel
  <1> HIDE DEF w
  <1>5. u \in Int /\ u \in wheel.now..(s + Debounce)
    BY <1>1, <1>2, <1>4 DEF TimeLeft
  <1> HIDE DEF u
  <1>6. wheel' \in Wheel /\ wheel'.due = u /\ wheel'.start = s /\ wheel'.now = wheel.now
    BY <1>3, <1>4, <1>5 DEF Wheel
  <1>7. QED
    BY <1>1, <1>2, <1>5, <1>6 DEF WheelSound, WheelIsServed, NoTime

LEMMA WheelKeeps ==
  ASSUME WheelSound, WheelNext
  PROVE  WheelSound'
  <1>1. wheel \in Wheel
    BY DEF WheelSound
  <1>2. CASE PerformZoom
    <2>1. wheel' = [wheel EXCEPT !.delta = 0, !.start = NoTime, !.due = NoTime]
      BY <1>2 DEF PerformZoom
    <2>a. NoTime \in Int /\ 0 \in -2..2
      BY DEF NoTime
    <2>2. /\ wheel' \in Wheel /\ wheel'.delta = 0 /\ wheel'.start = NoTime
      BY <1>1, <2>1, <2>a DEF Wheel
    <2>3. QED
      BY <2>2 DEF WheelSound, WheelIsServed
  <1>3. CASE Tick
    <2> DEFINE n == wheel.now + 1
    <2>1. wheel' = [wheel EXCEPT !.now = n] /\ n \in 0..MaxTicks
      BY <1>1, <1>3, HandlersAssumption DEF Tick, Wheel
    <2>2. /\ wheel.now \in Nat /\ wheel.due \in Int /\ wheel.start \in Int
          /\ Debounce \in Nat
      BY <1>1, HandlersAssumption DEF Wheel
    <2>3. wheel.start # NoTime => wheel.due \in n..(wheel.start + Debounce)
      BY <1>3, <2>2 DEF Tick, WheelSound, WheelIsServed, NoTime
    <2>4. wheel.start \in {NoTime} \cup 0..n
      BY <2>2 DEF WheelSound, NoTime
    <2> HIDE DEF n
    <2>5. /\ wheel' \in Wheel /\ wheel'.now = n /\ wheel'.start = wheel.start
          /\ wheel'.due = wheel.due /\ wheel'.delta = wheel.delta
      BY <1>1, <2>1 DEF Wheel
    <2>6. QED
      BY <1>1, <2>3, <2>4, <2>5 DEF WheelSound, WheelIsServed
  <1>4. CASE WheelToggle
    <2>1. /\ wheel' \in Wheel /\ wheel'.now = wheel.now /\ wheel'.start = wheel.start
          /\ wheel'.due = wheel.due /\ wheel'.delta \in {0, wheel.delta}
      <3>1. CASE wheel.enabled
        BY <1>1, <1>4, <3>1 DEF WheelToggle, Wheel
      <3>2. CASE ~wheel.enabled
        <4>1. wheel' = [wheel EXCEPT !.enabled = TRUE, !.delta = 0] /\ 0 \in -2..2
          BY <1>4, <3>2 DEF WheelToggle
        <4>2. QED
          BY <1>1, <4>1 DEF Wheel
      <3>3. QED
        BY <3>1, <3>2
    <2>2. QED
      BY <2>1 DEF WheelSound, WheelIsServed
  <1>5. QED
    BY <1>2, <1>3, <1>4, ScrollKeeps DEF WheelNext

-----------------------------------------------------------------------------
Keys == [enabled : BOOLEAN, inFocus : BOOLEAN, focused : BOOLEAN,
         listening : BOOLEAN, missed : BOOLEAN]

KeysSound(k) ==
    /\ k \in Keys
    /\ k.listening => k.enabled /\ k.inFocus
    /\ k.enabled /\ k.inFocus /\ ~k.missed => k.listening

LEMMA KeysInitSound == KeysInit => KeysSound(keys)
  BY DEF KeysInit, KeysSound, Keys

LEMMA FocusKeeps ==
  ASSUME NEW k, KeysSound(k)
  PROVE  KeysSound(FocusMap(k))
  <1>1. k \in Keys
    BY DEF KeysSound
  <1>2. CASE k.inFocus
    BY <1>2 DEF FocusMap
  <1>3. CASE ~k.inFocus /\ k.enabled
    <2> DEFINE f == [k EXCEPT !.inFocus = TRUE]
    <2>1. f \in Keys /\ f.inFocus /\ f.enabled
      BY <1>1, <1>3 DEF Keys
    <2>2. FocusMap(k) = [f EXCEPT !.focused = TRUE, !.listening = TRUE, !.missed = FALSE]
      BY <1>3 DEF FocusMap, OnFocus
    <2> HIDE DEF f
    <2>3. QED
      BY <2>1, <2>2 DEF KeysSound, Keys
  <1>4. CASE ~k.inFocus /\ ~k.enabled
    <2>1. FocusMap(k) = [k EXCEPT !.inFocus = TRUE, !.missed = TRUE]
      BY <1>4 DEF FocusMap
    <2>2. QED
      BY <1>1, <1>4, <2>1 DEF KeysSound, Keys
  <1>5. QED
    BY <1>2, <1>3, <1>4

LEMMA KeysKeep ==
  ASSUME KeysSound(keys), KeysNext
  PROVE  KeysSound(keys')
  <1>1. keys \in Keys
    BY DEF KeysSound
  <1>2. CASE KeysFocus
    BY <1>2, FocusKeeps DEF KeysFocus
  <1>3. CASE KeysBlur
    <2> DEFINE k == [keys EXCEPT !.inFocus = FALSE]
    <2>1. k \in Keys /\ ~k.inFocus /\ k.enabled = keys.enabled /\ k.listening = keys.listening
      BY <1>1 DEF Keys
    <2>2. keys' = IF keys.enabled THEN OnBlur(k) ELSE [k EXCEPT !.missed = TRUE]
      BY <1>3 DEF KeysBlur
    <2> HIDE DEF k
    <2>3. QED
      BY <2>1, <2>2 DEF OnBlur, KeysSound, Keys
  <1>4. CASE KeysMouseDown
    BY <1>4, FocusKeeps DEF KeysMouseDown
  <1>5. CASE KeysEnable
    <2> DEFINE m == keys.missed \/ keys.inFocus
    <2>1. /\ keys' = [keys EXCEPT !.enabled = TRUE, !.missed = m] /\ m \in BOOLEAN
          /\ ~keys.enabled /\ (keys.inFocus => m)
      BY <1>1, <1>5 DEF KeysEnable, Keys
    <2> HIDE DEF m
    <2>2. QED
      BY <1>1, <2>1 DEF KeysSound, Keys
  <1>6. CASE KeysDisable
    BY <1>1, <1>6 DEF KeysDisable, KeysRemoveHooks, KeysSound, Keys
  <1>7. QED
    BY <1>2, <1>3, <1>4, <1>5, <1>6 DEF KeysNext

-----------------------------------------------------------------------------
HandlersInv == BoxSound(box) /\ TapSound(tap) /\ WheelSound /\ KeysSound(keys)

LEMMA HandlersInvHolds == HandlersSpec => []HandlersInv
  <1>1. HandlersInit => HandlersInv
    BY BoxInitSound, TapInitSound, WheelInitSound, KeysInitSound
       DEF HandlersInit, HandlersInv
  <1>2. HandlersInv /\ [HandlersNext]_handlerVars => HandlersInv'
    <2> SUFFICES ASSUME HandlersInv, [HandlersNext]_handlerVars
                 PROVE  HandlersInv'
      OBVIOUS
    <2> USE DEF HandlersInv
    <2>1. UNCHANGED box => BoxSound(box')
      OBVIOUS
    <2>2. UNCHANGED tap => TapSound(tap')
      OBVIOUS
    <2>3. UNCHANGED wheel => WheelSound'
      BY DEF WheelSound, WheelIsServed
    <2>4. UNCHANGED keys => KeysSound(keys')
      OBVIOUS
    <2>5. BoxSound(box)' = BoxSound(box') /\ TapSound(tap)' = TapSound(tap')
          /\ KeysSound(keys)' = KeysSound(keys')
      BY DEF BoxSound, BoxesCounted, ResetInTime, ClickKnown, TapSound, KeysSound,
             Box, Tap, Keys, Touches
    <2>6. CASE HandlersNext
      BY <2>1, <2>2, <2>3, <2>4, <2>5, <2>6, BoxKeeps, TapKeeps, WheelKeeps, KeysKeep
         DEF HandlersNext
    <2>7. CASE UNCHANGED handlerVars
      BY <2>1, <2>2, <2>3, <2>4, <2>5, <2>7 DEF handlerVars
    <2>8. QED
      BY <2>6, <2>7
  <1>3. QED
    BY <1>1, <1>2, PTL DEF HandlersSpec

(* What the invariant says of one state.                                   *)
HandsAreRight ==
    /\ HandlersTypeOK /\ NoOrphanBox /\ OneGesturePerTouch
    /\ WheelIsServed /\ KeysFollowFocus

LEMMA HandlersInvTells == HandlersInv => HandsAreRight
  <1> SUFFICES ASSUME HandlersInv PROVE HandsAreRight
    OBVIOUS
  <1> USE DEF HandlersInv
  <1>1. HandlersTypeOK
    BY DEF HandlersTypeOK, BoxSound, Box, TapSound, Tap, WheelSound, Wheel,
           KeysSound, Keys
  <1>2. NoOrphanBox
    BY DEF BoxSound, BoxesCounted, NoOrphanBox
  <1>3. OneGesturePerTouch
    BY DEF TapSound, OneGesturePerTouch
  <1>4. WheelIsServed
    BY DEF WheelSound
  <1>5. KeysFollowFocus
    BY DEF KeysSound, KeysFollowFocus
  <1>6. QED
    BY <1>1, <1>2, <1>3, <1>4, <1>5 DEF HandsAreRight

(* What the user does with a box, a finger, the wheel or the keyboard is   *)
(* told to the map as what it is.                                          *)
THEOREM GesturesTold == HandlersSpec => GesturesAreTold
  <1>1. HandlersInv => BoxClicksAreTold
    BY ClickIsTold DEF HandlersInv
  <1>2. /\ HandlersInv /\ HandsAreRight'
        => [handlerVars' # handlerVars =>
              /\ HandlersTypeOK' /\ NoOrphanBox' /\ OneGesturePerTouch'
              /\ WheelIsServed' /\ KeysFollowFocus'
              /\ BoxClicksAreTold]_handlerVars
    BY <1>1 DEF HandsAreRight
  <1>3. QED
    BY <1>2, HandlersInvHolds, HandlersInvTells, PTL DEF GesturesAreTold

-----------------------------------------------------------------------------
(* Pointers: what is known are the fingers that are down, if none was down *)
(* before anybody listened.                                                *)

Pointers ==
                 [listening : BOOLEAN, known : SUBSET Fingers, count : Int,
                  down : SUBSET Fingers, touches : SUBSET Fingers,
                  early : BOOLEAN]

PointersSound ==
    /\ pointers \in Pointers
    /\ IsFiniteSet(pointers.down)
    /\ ~pointers.listening =>
          pointers.known = {} /\ pointers.count = 0 /\ pointers.touches = {}
    /\ PointersAreFingers

LEMMA PointersStart == PointersInit => PointersSound
  BY FS_EmptySet DEF PointersInit, PointersSound, Pointers, PointersAreFingers

(* A finger comes or goes: d are the fingers then, k those that are known. *)
LEMMA FingersKeep ==
  ASSUME PointersSound, pointers.listening,
         NEW d \in SUBSET Fingers, IsFiniteSet(d), NEW k \in SUBSET Fingers,
         NEW n \in Int, NEW p, p = [pointers EXCEPT !.down = d],
         NEW q, q = [p EXCEPT !.known = k, !.count = n],
         pointers' = [q EXCEPT !.touches = k],
         ~pointers.early => k = d /\ n = Cardinality(d)
  PROVE  PointersSound'
  <1>1. pointers \in Pointers
    BY DEF PointersSound
  <1>2. /\ p \in Pointers /\ p.listening = pointers.listening
        /\ p.early = pointers.early /\ p.down = d
    BY <1>1 DEF Pointers
  <1>3. /\ q \in Pointers /\ q.listening = pointers.listening
        /\ q.early = pointers.early /\ q.down = d /\ q.known = k /\ q.count = n
    BY <1>2 DEF Pointers
  <1>4. /\ pointers' \in Pointers /\ pointers'.listening = pointers.listening
        /\ pointers'.early = pointers.early /\ pointers'.down = d
        /\ pointers'.known = k /\ pointers'.count = n /\ pointers'.touches = k
    BY <1>3 DEF Pointers
  <1>5. QED
    BY <1>4 DEF PointersSound, PointersAreFingers

(* Nobody listens.                                                         *)
LEMMA FingersUnseen ==
  ASSUME PointersSound, ~pointers.listening,
         NEW d \in SUBSET Fingers, IsFiniteSet(d),
         pointers' = [pointers EXCEPT !.down = d]
  PROVE  PointersSound'
  BY DEF PointersSound, Pointers, PointersAreFingers

LEMMA AddPointerStartKeeps ==
  ASSUME PointersSound, AddPointerStart
  PROVE  PointersSound'
  <1> DEFINE e == pointers.down # {}
  <1>1. /\ pointers \in Pointers /\ ~pointers.listening /\ e \in BOOLEAN
        /\ ~e => pointers.down = {}
        /\ pointers' = [pointers EXCEPT !.listening = TRUE, !.early = e]
    BY DEF PointersSound, AddPointerStart
  <1> HIDE DEF e
  <1>2. /\ pointers' \in Pointers /\ pointers'.listening /\ pointers'.early = e
        /\ pointers'.known = pointers.known /\ pointers'.down = pointers.down
        /\ pointers'.count = pointers.count /\ pointers'.touches = pointers.touches
    BY <1>1 DEF Pointers
  <1>3. QED
    BY <1>1, <1>2, FS_EmptySet DEF PointersSound, PointersAreFingers

LEMMA PointerDownKeeps ==
  ASSUME PointersSound, NEW f \in Fingers, PointerDown(f)
  PROVE  PointersSound'
  <1> DEFINE d == pointers.down \cup {f}
             k == pointers.known \cup {f}
             n == pointers.count + 1
             p == [pointers EXCEPT !.down = d]
             q == [p EXCEPT !.known = k, !.count = n]
  <1>1. /\ IsFiniteSet(pointers.down) /\ f \notin pointers.down
        /\ pointers \in Pointers
    BY DEF PointersSound, PointerDown
  <1>2. /\ IsFiniteSet(d) /\ d \in SUBSET Fingers
        /\ Cardinality(d) = Cardinality(pointers.down) + 1
        /\ k \in SUBSET Fingers /\ n \in Int
    BY <1>1, FS_AddElement DEF Pointers
  <1>3. CASE ~pointers.listening
    <2>1. pointers' = [pointers EXCEPT !.down = d]
      BY <1>1, <1>3 DEF PointerDown, Pointers
    <2>2. QED
      BY <1>2, <1>3, <2>1, FingersUnseen
  <1>4. CASE pointers.listening
    <2>1. pointers' = [q EXCEPT !.touches = k]
      BY <1>1, <1>4 DEF PointerDown, Pointers
    <2>2. ~pointers.early => k = d /\ n = Cardinality(d)
      BY <1>2, <1>4 DEF PointersSound, PointersAreFingers
    <2> HIDE DEF d, k, n, p, q
    <2>3. p = [pointers EXCEPT !.down = d] /\ q = [p EXCEPT !.known = k, !.count = n]
      BY DEF p, q
    <2>4. QED
      BY <1>2, <1>4, <2>1, <2>2, <2>3, FingersKeep
  <1>5. QED
    BY <1>3, <1>4

LEMMA PointerUpKeeps ==
  ASSUME PointersSound, NEW f \in Fingers, NEW cancelled \in BOOLEAN,
         PointerUp(f, cancelled)
  PROVE  PointersSound'
  <1> DEFINE d == pointers.down \ {f}
             k == pointers.known \ {f}
             n == pointers.count - 1
             p == [pointers EXCEPT !.down = d]
             q == [p EXCEPT !.known = k, !.count = n]
  <1>1. /\ IsFiniteSet(pointers.down) /\ f \in pointers.down
        /\ pointers \in Pointers
    BY DEF PointersSound, PointerUp
  <1>2. /\ IsFiniteSet(d) /\ d \in SUBSET Fingers
        /\ Cardinality(d) = Cardinality(pointers.down) - 1
        /\ k \in SUBSET Fingers /\ n \in Int
    BY <1>1, FS_RemoveElement DEF Pointers
  <1>3. CASE ~pointers.listening
    <2>1. pointers' = [pointers EXCEPT !.down = d]
      BY <1>1, <1>3 DEF PointerUp, Pointers
    <2>2. QED
      BY <1>2, <1>3, <2>1, FingersUnseen
  <1>4. CASE pointers.listening
    <2>1. p.listening /\ q = GlobalPointerUp(p, f, cancelled) /\ q.known = k
      BY <1>1, <1>4 DEF GlobalPointerUp, Pointers
    <2>2. pointers' = [q EXCEPT !.touches = k]
      BY <2>1 DEF PointerUp
    <2>3. ~pointers.early => k = d /\ n = Cardinality(d)
      BY <1>2, <1>4 DEF PointersSound, PointersAreFingers
    <2> HIDE DEF d, k, n, p, q
    <2>4. p = [pointers EXCEPT !.down = d] /\ q = [p EXCEPT !.known = k, !.count = n]
      BY DEF p, q
    <2>5. QED
      BY <1>2, <1>4, <2>2, <2>3, <2>4, FingersKeep
  <1>5. QED
    BY <1>3, <1>4

LEMMA PointersKeep ==
  ASSUME PointersSound, PointersNext \/ UNCHANGED pointers
  PROVE  PointersSound'
  <1>1. CASE UNCHANGED pointers
    BY <1>1 DEF PointersSound, Pointers, PointersAreFingers
  <1>2. QED
    BY <1>1, AddPointerStartKeeps, PointerDownKeeps, PointerUpKeeps
       DEF PointersNext

-----------------------------------------------------------------------------
(* Double taps: what was told as double forgot when the tap before was, so *)
(* that the next is none; and a tap of one finger is told once.            *)

Taps == [now : 1..MaxTime, fingers : 0..2, last : 0..MaxTime,
         doubleTap : BOOLEAN, times : Nat, apart : Nat,
         before : BOOLEAN, second : BOOLEAN]

TapsSound ==
    /\ taps \in Taps
    /\ taps.last <= taps.now
    /\ taps.doubleTap => taps.apart \in 1..TapDelay /\ ~taps.before
    /\ taps.times > 0 => taps.doubleTap /\ taps.last = NoTap
    /\ ~taps.second => taps.fingers + taps.times <= 1

LEMMA TapsStart == TapsInit => TapsSound
  BY DomAssumption DEF TapsInit, TapsSound, Taps, NoTap

LEMMA TapStartsKeeps == ASSUME TapsSound, TapStarts PROVE TapsSound'
  <1>0. taps \in Taps
    BY DEF TapsSound
  <1>1. CASE taps.fingers = 1
    <2> DEFINE n == 2
               another == TRUE
    <2>1. /\ taps' = [taps EXCEPT !.fingers = n, !.second = another]
          /\ n \in 0..2 /\ another \in BOOLEAN /\ another
      BY <1>1 DEF TapStarts
    <2> HIDE DEF n, another
    <2>2. /\ taps' \in Taps /\ taps'.last = taps.last
          /\ taps'.now = taps.now /\ taps'.times = taps.times
      BY <1>0, <2>1 DEF Taps
    <2>3. /\ taps'.apart = taps.apart /\ taps'.before = taps.before
          /\ taps'.doubleTap = taps.doubleTap /\ taps'.second
      BY <1>0, <2>1 DEF Taps
    <2>4. QED
      BY <2>2, <2>3 DEF TapsSound
  <1>2. CASE taps.fingers # 1
    <2> DEFINE delta == IF taps.last = NoTap THEN 0 ELSE taps.now - taps.last
               double == delta \in 1..TapDelay
               before == taps.times > 0
               n == 1
               another == FALSE
               fresh == [taps EXCEPT !.fingers = n, !.second = another, !.doubleTap = double,
                                     !.last = taps.now]
    <2>1. /\ taps.fingers = 0 /\ delta \in Nat /\ double \in BOOLEAN
          /\ before \in BOOLEAN /\ (double => delta \in 1..TapDelay)
          /\ (double => ~before)
          /\ n = 1 /\ n \in 0..2 /\ another \in BOOLEAN
      BY <1>0, <1>2 DEF TapStarts, TapsSound, Taps, NoTap
    <2>2. taps' = [fresh EXCEPT !.times = 0, !.apart = delta, !.before = before]
      BY <1>0, <1>2 DEF TapStarts, Taps
    <2> HIDE DEF delta, double, before, n, another
    <2>a. taps.now \in 0..MaxTime
      BY <1>0, DomAssumption DEF Taps
    <2>3. /\ fresh \in Taps /\ fresh.fingers = n /\ fresh.last = taps.now
          /\ fresh.now = taps.now /\ fresh.doubleTap = double
      BY <1>0, <2>1, <2>a DEF Taps
    <2> HIDE DEF fresh
    <2>4. /\ taps' \in Taps /\ taps'.fingers = 1 /\ taps'.last = fresh.last
          /\ taps'.now = fresh.now /\ taps'.doubleTap = double
          /\ taps'.times = 0 /\ taps'.apart = delta /\ taps'.before = before
      BY <2>1, <2>2, <2>3 DEF Taps
    <2>5. taps'.last <= taps'.now
      BY <1>0, <2>3, <2>4 DEF Taps
    <2>6. QED
      BY <2>1, <2>4, <2>5 DEF TapsSound
  <1>3. QED
    BY <1>1, <1>2

LEMMA TapFinishesKeeps == ASSUME TapsSound, TapFinishes PROVE TapsSound'
  <1> DEFINE n == taps.fingers - 1
             t == [taps EXCEPT !.fingers = n]
  <1>1. /\ taps \in Taps /\ n \in 0..2 /\ n + 1 = taps.fingers
        /\ taps.times \in Nat /\ taps.now \in Nat
        /\ taps' = IF t.doubleTap THEN TapEnds(t) ELSE t
    BY DEF TapFinishes, TapsSound, Taps
  <1> HIDE DEF n
  <1>2. /\ t \in Taps /\ t.fingers = n /\ t.doubleTap = taps.doubleTap
        /\ t.now = taps.now /\ t.last = taps.last /\ t.times = taps.times
        /\ t.apart = taps.apart /\ t.before = taps.before /\ t.second = taps.second
    BY <1>1 DEF Taps
  <1> HIDE DEF t
  <1>3. CASE ~t.doubleTap
    BY <1>1, <1>2, <1>3 DEF TapsSound
  <1>4. CASE t.doubleTap
    <2> DEFINE m == t.times + 1
    <2>1. taps' = [t EXCEPT !.times = m, !.last = 0] /\ m \in Nat /\ 0 \in 0..MaxTime
      BY <1>1, <1>2, <1>4, DomAssumption DEF TapEnds, NoTap
    <2>2. m = taps.times + 1
      BY <1>2
    <2> HIDE DEF m
    <2>3. /\ taps' \in Taps /\ taps'.fingers = n /\ taps'.doubleTap = taps.doubleTap
          /\ taps'.now = taps.now /\ taps'.last = 0 /\ taps'.times = m
          /\ taps'.apart = taps.apart /\ taps'.before = taps.before
          /\ taps'.second = taps.second
      BY <1>2, <2>1 DEF Taps
    <2>4. QED
      <3>1. taps'.second \/ (taps'.fingers \in Nat /\ taps'.fingers + taps'.times <= 1)
        <4>1. CASE taps.second
          BY <2>3, <4>1
        <4>2. CASE ~taps.second
          BY <1>1, <2>2, <2>3, <4>2 DEF TapsSound
        <4>3. QED
          BY <4>1, <4>2
      <3>2. taps'.doubleTap /\ taps'.last <= taps'.now
        <4>1. taps'.doubleTap
          BY <1>2, <1>4, <2>3, Zenon
        <4>2. taps'.last <= taps'.now
          BY <1>1, <2>3
        <4>3. QED
          BY <4>1, <4>2
      <3>3. QED
        BY <2>3, <3>1, <3>2 DEF TapsSound, NoTap
  <1>5. QED
    BY <1>3, <1>4

LEMMA TapsKeep ==
  ASSUME TapsSound, TapsNext \/ UNCHANGED taps
  PROVE  TapsSound'
  <1>0. taps \in Taps
    BY DEF TapsSound
  <1>1. CASE UNCHANGED taps
    BY <1>1 DEF TapsSound
  <1>2. CASE TapCancelled
    <2>1. taps' = [taps EXCEPT !.fingers = 0] /\ taps.fingers > 0
      BY <1>2 DEF TapCancelled
    <2>2. /\ taps' \in Taps /\ taps'.fingers = 0 /\ taps'.doubleTap = taps.doubleTap
          /\ taps'.now = taps.now /\ taps'.last = taps.last
          /\ taps'.times = taps.times /\ taps'.apart = taps.apart
          /\ taps'.before = taps.before /\ taps'.second = taps.second
      BY <1>0, <2>1 DEF Taps
    <2>3. taps.times \in Nat /\ taps.fingers \in Nat
      BY <1>0 DEF Taps
    <2>4. QED
      BY <2>1, <2>2, <2>3 DEF TapsSound
  <1>3. CASE TapTick
    <2> DEFINE n == taps.now + 1
    <2>1. /\ taps' = [taps EXCEPT !.now = n] /\ n \in 1..MaxTime
          /\ taps.last <= n
      BY <1>0, <1>3, DomAssumption DEF TapTick, TapsSound, Taps
    <2> HIDE DEF n
    <2>2. /\ taps' \in Taps /\ taps'.fingers = taps.fingers
          /\ taps'.doubleTap = taps.doubleTap /\ taps'.now = n
          /\ taps'.last = taps.last /\ taps'.times = taps.times
          /\ taps'.apart = taps.apart /\ taps'.before = taps.before
          /\ taps'.second = taps.second
      BY <1>0, <2>1 DEF Taps
    <2>3. QED
      BY <2>1, <2>2 DEF TapsSound
  <1>4. QED
    BY <1>1, <1>2, <1>3, TapStartsKeeps, TapFinishesKeeps DEF TapsNext

LEMMA DoubleTapsTold == TapsSound => DoubleTapsAreTwo
  BY DEF TapsSound, Taps, DoubleTapsAreTwo

-----------------------------------------------------------------------------
(* The listeners of an element: what is attached are the handlers that are *)
(* known, each made for its function.                                      *)

DomType ==
    dom \in [handlers : [Fns -> 0..MaxHandlers], made : Seq(Fns),
             attached : SUBSET (1..MaxHandlers), emptied : BOOLEAN]

DomSound ==
    /\ DomType
    /\ Len(dom.made) <= MaxHandlers
    /\ dom.attached \subseteq 1..Len(dom.made)
    /\ ~dom.emptied =>
          /\ dom.attached = {dom.handlers[f] : f \in Fns} \ {0}
          /\ \A f \in Fns : dom.handlers[f] # 0 => dom.made[dom.handlers[f]] = f

LEMMA DomStarts == DomInit => DomSound
  BY DomAssumption DEF DomInit, DomSound, DomType

LEMMA DomKeeps ==
  ASSUME DomSound, DomNext \/ UNCHANGED dom
  PROVE  DomSound'
  <1> USE DomAssumption
  <1>0. /\ dom.made \in Seq(Fns) /\ Len(dom.made) \in Nat
        /\ dom.handlers \in [Fns -> 0..MaxHandlers]
    BY LenProperties DEF DomSound, DomType
  <1>1. CASE UNCHANGED dom
    BY <1>1 DEF DomSound, DomType
  <1>2. ASSUME NEW f \in Fns, AddOne(f)
        PROVE  DomSound'
    <2> DEFINE n == Len(dom.made) + 1
               h == [dom.handlers EXCEPT ![f] = n]
               m == Append(dom.made, f)
    <2>1. /\ n \in 1..MaxHandlers /\ dom.handlers[f] = 0
          /\ dom' = [dom EXCEPT !.handlers = h, !.attached = @ \cup {n}, !.made = m]
      BY <1>0, <1>2 DEF AddOne
    <2>2. /\ m \in Seq(Fns) /\ Len(m) = n /\ m[n] = f
          /\ \A i \in 1..(n - 1) : m[i] = dom.made[i]
      BY <1>0, AppendProperties
    <2>3. /\ h \in [Fns -> 0..MaxHandlers] /\ h[f] = n
          /\ \A g \in Fns \ {f} : h[g] = dom.handlers[g]
      BY <1>0, <2>1
    <2>4. n - 1 = Len(dom.made)
      BY <1>0
    <2> HIDE DEF n, h, m
    <2>5. /\ dom'.handlers = h /\ dom'.made = m /\ dom'.emptied = dom.emptied
          /\ dom'.attached = dom.attached \cup {n}
      BY <2>1 DEF DomSound, DomType
    <2>6. DomType'
      BY <2>1, <2>2, <2>3 DEF DomSound, DomType
    <2>7. dom.attached \subseteq 1..(n - 1) /\ n \in Nat
      BY <2>1, <2>4 DEF DomSound
    <2>8. dom'.attached \subseteq 1..Len(dom'.made)
      <3>1. \A i \in dom.attached \cup {n} : i \in 1..n
        BY <2>7, <2>1
      <3>2. QED
        BY <2>2, <2>5, <3>1
    <2>9. ASSUME ~dom.emptied
          PROVE  /\ dom'.attached = {dom'.handlers[g] : g \in Fns} \ {0}
                 /\ \A g \in Fns : dom'.handlers[g] # 0
                                   => dom'.made[dom'.handlers[g]] = g
      <3>1. /\ dom.attached = {dom.handlers[g] : g \in Fns} \ {0}
            /\ \A g \in Fns : dom.handlers[g] # 0 => dom.made[dom.handlers[g]] = g
        BY <2>9 DEF DomSound
      <3>2. {h[g] : g \in Fns} \ {0} = dom.attached \cup {n}
        BY <2>1, <2>3, <3>1
      <3>3. ASSUME NEW g \in Fns, h[g] # 0
            PROVE  m[h[g]] = g
        <4>1. CASE g = f
          BY <4>1, <2>2, <2>3
        <4>2. CASE g # f
          <5>1. h[g] = dom.handlers[g] /\ dom.handlers[g] \in dom.attached
            BY <2>3, <3>1, <3>3, <4>2
          <5>2. QED
            BY <2>2, <2>7, <3>1, <3>3, <5>1
        <4>3. QED
          BY <4>1, <4>2
      <3>4. QED
        BY <2>5, <3>2, <3>3
    <2>10. QED
      BY <2>1, <2>2, <2>5, <2>6, <2>8, <2>9 DEF DomSound
  <1>3. ASSUME NEW f \in Fns, RemoveOne(f)
        PROVE  DomSound'
    <2> DEFINE h == [dom.handlers EXCEPT ![f] = 0]
               k == dom.handlers[f]
    <2>1. /\ k # 0
          /\ dom' = [dom EXCEPT !.attached = @ \ {k}, !.handlers = h]
      BY <1>3 DEF RemoveOne
    <2>2. /\ h \in [Fns -> 0..MaxHandlers] /\ h[f] = 0
          /\ \A g \in Fns \ {f} : h[g] = dom.handlers[g]
      BY <1>0
    <2> HIDE DEF h
    <2>3. /\ dom'.handlers = h /\ dom'.made = dom.made
          /\ dom'.emptied = dom.emptied
          /\ dom'.attached = dom.attached \ {k}
      BY <2>1 DEF DomSound, DomType
    <2>4. DomType'
      BY <2>1, <2>2 DEF DomSound, DomType
    <2>5. ASSUME ~dom.emptied
          PROVE  /\ dom'.attached = {dom'.handlers[g] : g \in Fns} \ {0}
                 /\ \A g \in Fns : dom'.handlers[g] # 0
                                   => dom'.made[dom'.handlers[g]] = g
      <3>1. /\ dom.attached = {dom.handlers[g] : g \in Fns} \ {0}
            /\ \A g \in Fns : dom.handlers[g] # 0 => dom.made[dom.handlers[g]] = g
        BY <2>5 DEF DomSound
      <3>2. \A g \in Fns \ {f} : dom.handlers[g] # k
        BY <2>1, <3>1
      <3>3. {h[g] : g \in Fns} \ {0} = dom.attached \ {k}
        BY <2>1, <2>2, <3>1, <3>2
      <3>4. ASSUME NEW g \in Fns, h[g] # 0
            PROVE  dom.made[h[g]] = g
        <4>1. g # f
          BY <2>2, <3>4
        <4>2. h[g] = dom.handlers[g]
          BY <2>2, <4>1
        <4>3. dom.handlers[g] # 0
          BY <3>4, <4>2
        <4>4. dom.made[dom.handlers[g]] = g
          BY <2>5, <4>3 DEF DomSound
        <4>5. QED
          BY <4>2, <4>4
      <3>5. QED
        <4>1. dom'.attached = {dom'.handlers[g] : g \in Fns} \ {0}
          BY <2>3, <3>3
        <4>2. QED
          BY <2>3, <3>4, <4>1
    <2>6. QED
      BY <2>3, <2>4, <2>5 DEF DomSound
  <1>4. CASE OffElement
    <2> DEFINE h == [f \in Fns |-> 0]
               e == TRUE
    <2>1. /\ h \in [Fns -> 0..MaxHandlers] /\ e \in BOOLEAN /\ e
          /\ dom' = [dom EXCEPT !.handlers = h, !.emptied = e]
      BY <1>4 DEF OffElement
    <2> HIDE DEF h, e
    <2>2. /\ DomType' /\ dom'.emptied
          /\ dom'.made = dom.made /\ dom'.attached = dom.attached
      BY <2>1 DEF DomSound, DomType
    <2>3. QED
      BY <2>2 DEF DomSound
  <1>5. QED
    BY <1>1, <1>2, <1>3, <1>4 DEF DomNext

LEMMA ListenersKnown == DomSound => ListenersAreKnown
  <1> SUFFICES ASSUME DomSound, ~dom.emptied, NEW f \in Fns
               PROVE  Cardinality({n \in dom.attached : dom.made[n] = f}) <= 1
    BY DEF DomSound, ListenersAreKnown
  <1> DEFINE N == {n \in dom.attached : dom.made[n] = f}
  <1>1. N \subseteq {dom.handlers[f]}
    BY DEF DomSound
  <1>2. IsFiniteSet({dom.handlers[f]}) /\ Cardinality({dom.handlers[f]}) = 1
    BY FS_Singleton
  <1>3. QED
    BY <1>1, <1>2, FS_Subset

-----------------------------------------------------------------------------
(* Clicks on Android: listeners that share lastClick hear a click all or   *)
(* not at all. Of a touch with no other near it, the click that comes      *)
(* second finds lastClick as the first left it.                            *)

Androids == [now : 1..MaxTime, lastClick : 0..MaxTime, simulated : BOOLEAN,
             at : Seq(1..MaxTime), ghosts : SUBSET (1..MaxTaps),
             told : Seq(Nat)]

LEMMA WholeNumbers ==
  ASSUME NEW n \in Nat \ {0}
  PROVE  0 % n = 0 /\ n % n = 0 /\ (n + n) % n = 0
  <1>1. 0 % n = 0
    OBVIOUS
  <1>2. n % n = 0
    OBVIOUS
  <1>3. (n + n) % n = 0
    OBVIOUS
  <1>4. QED
    BY <1>1, <1>2, <1>3

LEMMA SameAndroid ==
  ASSUME NEW a \in Androids, NEW b \in Androids,
         a.now = b.now, a.lastClick = b.lastClick, a.simulated = b.simulated,
         a.at = b.at, a.ghosts = b.ghosts, a.told = b.told
  PROVE  a = b
  BY DEF Androids

(* All listeners hear it, one by one, or none.                             *)
LEMMA ClickTells ==
  ASSUME NEW a \in Androids, NEW t \in 1..Len(a.told), NEW simulated \in BOOLEAN
  PROVE  AndroidClick(a, t, simulated) =
            IF Filtered(a, simulated) THEN a
            ELSE [a EXCEPT !.lastClick = a.now, !.told[t] = @ + Hearers]
  <1> DEFINE H == Hearers
             Told(n) == [a.told EXCEPT ![t] = @ + n]
             Heard(n) == [a EXCEPT !.lastClick = a.now, !.told = Told(n)]
             Body(f) == [n \in 0..H |->
                           IF n = 0 THEN a ELSE FilterClick(f[n - 1], t, simulated)]
             g == [n \in 0..H |->
                     IF n = 0 \/ Filtered(a, simulated) THEN a ELSE Heard(n)]
  <1>1. H \in Nat \ {0}
    BY DomAssumption
  <1>2. AndroidClick(a, t, simulated) = (CHOOSE f : f = Body(f))[H]
    BY DEF AndroidClick
  <1>3. /\ a.now \in 1..MaxTime /\ a.lastClick \in 0..MaxTime
        /\ a.now \in 0..MaxTime /\ a.told \in Seq(Nat) /\ a.told[t] \in Nat
        /\ t \in DOMAIN a.told
    <2>1. a.told \in Seq(Nat) /\ MaxTime \in Nat /\ a.now \in 1..MaxTime
      BY DomAssumption DEF Androids
    <2>2. t \in DOMAIN a.told /\ a.told[t] \in Nat
      BY <2>1, LenProperties, ElementOfSeq
    <2>3. QED
      BY <2>1, <2>2 DEF Androids
  <1>4. ASSUME NEW n \in Nat
        PROVE  /\ Told(n) \in Seq(Nat) /\ Told(n)[t] = a.told[t] + n
               /\ DOMAIN Told(n) = DOMAIN a.told
               /\ \A u \in DOMAIN a.told \ {t} : Told(n)[u] = a.told[u]
    <2>1. Told(n) \in Seq(Nat)
      BY <1>3, ExceptSeq
    <2>2. QED
      BY <1>3, <2>1
  <1>5. ASSUME NEW n \in Nat
        PROVE  /\ Heard(n) \in Androids /\ Heard(n).now = a.now
               /\ Heard(n).lastClick = a.now /\ Heard(n).simulated = a.simulated
               /\ Heard(n).at = a.at /\ Heard(n).ghosts = a.ghosts
               /\ Heard(n).told = Told(n)
    <2>1. Told(n) \in Seq(Nat)
      BY <1>4
    <2> HIDE DEF Told
    <2>2. QED
      BY <1>3, <2>1 DEF Androids
  <1> HIDE DEF H
  <1>6. g = Body(g)
    <2>1. ASSUME NEW n \in 0..H
          PROVE  g[n] = IF n = 0 THEN a ELSE FilterClick(g[n - 1], t, simulated)
      <3>1. CASE n = 0
        BY <3>1
      <3>2. CASE n # 0 /\ Filtered(a, simulated)
        <4>1. n - 1 \in 0..H
          BY <1>1, <3>2
        <4>2. g[n] = a /\ g[n - 1] = a
          BY <3>2, <4>1
        <4>3. QED
          BY <3>2, <4>2 DEF FilterClick
      <3>3. CASE n # 0 /\ ~Filtered(a, simulated)
        <4> DEFINE m == n - 1
                   b == g[m]
        <4>1. m \in 0..H /\ m \in Nat /\ n = m + 1
          BY <1>1, <3>3
        <4> HIDE DEF m
        <4>2. /\ ~Filtered(b, simulated) /\ b \in Androids /\ b.now = a.now
              /\ b.simulated = a.simulated /\ b.at = a.at /\ b.ghosts = a.ghosts
              /\ DOMAIN b.told = DOMAIN a.told /\ b.told[t] = a.told[t] + m
              /\ \A u \in DOMAIN a.told \ {t} : b.told[u] = a.told[u]
          <5>1. CASE m = 0
            <6>1. b = a
              BY <4>1, <5>1
            <6> HIDE DEF b
            <6>2. a.told[t] = a.told[t] + m
              BY <1>3, <5>1
            <6>3. QED
              BY <1>3, <3>3, <6>1, <6>2
          <5>2. CASE m # 0
            <6>1. b = Heard(m)
              BY <3>3, <4>1, <5>2
            <6>2. /\ b \in Androids /\ b.now = a.now /\ b.lastClick = a.now
                  /\ b.simulated = a.simulated /\ b.at = a.at
                  /\ b.ghosts = a.ghosts /\ b.told = Told(m)
              BY <1>5, <4>1, <6>1
            <6> HIDE DEF b
            <6>3. b.now - b.lastClick = 0
              BY <1>3, <6>2
            <6>4. ~Filtered(b, simulated)
              BY <3>3, <6>2, <6>3 DEF Filtered
            <6>5. QED
              BY <1>4, <4>1, <6>2, <6>4
          <5>3. QED
            BY <5>1, <5>2
        <4> HIDE DEF b
        <4> DEFINE s == [b.told EXCEPT ![t] = @ + 1]
                   c == [b EXCEPT !.lastClick = b.now, !.told = s]
        <4>3. FilterClick(b, t, simulated) = c
          BY <4>2 DEF FilterClick
        <4>4. s = Told(n)
          <5>1. b.told \in Seq(Nat) /\ t \in DOMAIN b.told
            BY <1>3, <4>2 DEF Androids
          <5>2. s[t] = b.told[t] + 1 /\ DOMAIN s = DOMAIN b.told
            BY <5>1
          <5>3. Told(n)[t] = a.told[t] + n /\ n \in Nat
            BY <1>3, <4>1
          <5>5. \A u \in DOMAIN a.told \ {t} : s[u] = Told(n)[u]
            BY <4>2, <5>1
          <5>6. s \in Seq(Nat) /\ Told(n) \in Seq(Nat) /\ DOMAIN Told(n) = DOMAIN a.told
            <6>1. b.told[t] + 1 \in Nat
              BY <1>3, <4>1, <4>2
            <6>2. Told(n) \in Seq(Nat)
              BY <1>4, <5>3
            <6>3. s \in Seq(Nat)
              BY <5>1, <6>1, ExceptSeq
            <6>4. QED
              BY <6>2, <6>3
          <5> HIDE DEF s, Told
          <5>9. s[t] = Told(n)[t]
            <6>1. a.told[t] \in Nat /\ b.told[t] = a.told[t] + m
              BY <1>3, <4>2
            <6>2. b.told[t] + 1 = a.told[t] + n
              BY <4>1, <6>1
            <6>3. QED
              BY <5>2, <5>3, <6>2
          <5>7. \A u \in DOMAIN s : s[u] = Told(n)[u]
            BY <4>2, <5>2, <5>5, <5>9
          <5>8. Len(s) = Len(Told(n)) /\ DOMAIN s = 1..Len(s)
            BY <4>2, <5>2, <5>6, LenProperties
          <5>10. QED
            BY <5>6, <5>7, <5>8, SeqEqual
        <4>5. n \in Nat
          BY <4>1
        <4>6. /\ Told(n) \in Seq(Nat) /\ Heard(n) \in Androids
              /\ Heard(n).now = a.now /\ Heard(n).lastClick = a.now
              /\ Heard(n).simulated = a.simulated /\ Heard(n).at = a.at
              /\ Heard(n).ghosts = a.ghosts /\ Heard(n).told = Told(n)
          BY <1>4, <1>5, <4>5
        <4>7. b.now \in 0..MaxTime
          BY <1>3, <4>2
        <4> HIDE DEF s, Told, Heard
        <4>8. /\ c \in Androids /\ c.now = b.now /\ c.lastClick = b.now
              /\ c.simulated = b.simulated /\ c.at = b.at
              /\ c.ghosts = b.ghosts /\ c.told = s
          BY <4>2, <4>4, <4>6, <4>7 DEF Androids
        <4> HIDE DEF c
        <4>9. c = Heard(n)
          BY <4>2, <4>4, <4>6, <4>8, SameAndroid
        <4>10. g[n] = Heard(n)
          BY <3>3
        <4>11. FilterClick(g[n - 1], t, simulated) = c
          BY <4>3 DEF b, m
        <4>12. QED
          BY <3>3, <4>9, <4>10, <4>11
      <3>4. QED
        BY <3>1, <3>2, <3>3
    <2>2. QED
      BY <2>1
  <1> DEFINE h == CHOOSE f : f = Body(f)
  <1>7. h = Body(h)
    BY <1>6
  <1> HIDE DEF h
  <1>9. g[H] = IF Filtered(a, simulated) THEN a ELSE Heard(H)
    <2> HIDE DEF Heard
    <2>1. H \in 0..H /\ H # 0
      BY <1>1
    <2>2. QED
      BY <2>1
  <1>12. /\ \A n \in 0..H : h[n] = IF n = 0 THEN a ELSE FilterClick(h[n - 1], t, simulated)
         /\ \A n \in 0..H : g[n] = IF n = 0 THEN a ELSE FilterClick(g[n - 1], t, simulated)
    BY <1>6, <1>7
  <1> HIDE DEF g, Body
  <1>8. h[H] = g[H]
    <2> DEFINE Differ == {n \in 0..H : h[n] # g[n]}
    <2>1. SUFFICES Differ = {}
      BY <1>1
    <2>2. SUFFICES ASSUME Differ # {} PROVE FALSE
      OBVIOUS
    <2>3. IsWellFoundedOn(OpToRel(<, Nat), Nat)
      BY NatLessThanWellFounded
    <2>4. Differ \in SUBSET Nat
      BY <1>1
    <2>5. PICK n \in Differ : \A m \in Differ : ~(<<m, n>> \in OpToRel(<, Nat))
      BY <2>2, <2>3, <2>4, WFMin
    <2>6. n \in 0..H /\ h[n] # g[n]
      BY <2>5
    <2>7. h[n] = IF n = 0 THEN a ELSE FilterClick(h[n - 1], t, simulated)
      BY <1>12, <2>6
    <2>8. g[n] = IF n = 0 THEN a ELSE FilterClick(g[n - 1], t, simulated)
      BY <1>12, <2>6
    <2>9. n # 0 /\ h[n - 1] # g[n - 1]
      BY <2>6, <2>7, <2>8
    <2>10. n - 1 \in Differ
      BY <1>1, <2>6, <2>9
    <2>11. <<n - 1, n>> \in OpToRel(<, Nat)
      <3>1. n \in Nat /\ n - 1 \in Nat /\ n - 1 < n
        BY <2>4, <2>6, <2>10
      <3>2. QED
        BY <3>1 DEF OpToRel
    <2>12. QED
      BY <2>5, <2>10, <2>11
  <1>10. Heard(H) = [a EXCEPT !.lastClick = a.now, !.told[t] = @ + Hearers]
    BY DEF H
  <1>11. QED
    BY <1>2, <1>8, <1>9, <1>10 DEF h, Body

(* No other touch less than a second away.                                 *)
Alone(at, t) == \A u \in DOMAIN at \ {t} : at[u] - at[t] \notin -8..8

(* The second clicks come while they may; what was clicked last was a      *)
(* touch, or the second click of one.                                      *)
InTime(a) ==
    /\ a.lastClick <= a.now
    /\ \A t \in 1..Len(a.at) : a.at[t] <= a.now
    /\ \A t \in a.ghosts : a.now - a.at[t] <= 4
    /\ a.lastClick # 0 => \E u \in 1..Len(a.at) : a.lastClick - a.at[u] \in 0..4

(* What a touch has told, and what was clicked last if its second click is *)
(* to come.                                                                *)
TouchTold(a, t) ==
    /\ a.told[t] \in {0, Hearers, Hearers + Hearers}
    /\ t \in a.ghosts => a.told[t] \in {0, Hearers}
    /\ Alone(a.at, t) =>
          \/ a.told[t] = Hearers /\ (t \in a.ghosts => a.lastClick = a.at[t])
          \/ a.told[t] = 0 /\ a.simulated

AndroidSound(a) ==
    /\ a \in Androids
    /\ Len(a.told) = Len(a.at) /\ Len(a.at) <= MaxTaps
    /\ a.ghosts \subseteq 1..Len(a.at)
    /\ InTime(a)
    /\ \A t \in 1..Len(a.at) : TouchTold(a, t)

LEMMA AndroidStarts == AndroidInit => AndroidSound(android)
  BY DomAssumption
     DEF AndroidInit, AndroidSound, Androids, InTime

LEMMA AndroidParts ==
  ASSUME NEW a, AndroidSound(a)
  PROVE  /\ a \in Androids /\ a.at \in Seq(1..MaxTime) /\ a.told \in Seq(Nat)
         /\ DOMAIN a.at = 1..Len(a.at) /\ DOMAIN a.told = 1..Len(a.at)
         /\ Len(a.at) \in Nat /\ Len(a.told) = Len(a.at)
         /\ \A t \in 1..Len(a.at) : a.at[t] \in 1..MaxTime /\ a.told[t] \in Nat
         /\ a.now \in 1..MaxTime /\ a.lastClick \in 0..MaxTime
         /\ MaxTime \in Nat /\ Hearers \in Nat \ {0}
  <1>1. a \in Androids /\ Len(a.told) = Len(a.at)
    BY DEF AndroidSound
  <1>2. /\ a.at \in Seq(1..MaxTime) /\ a.told \in Seq(Nat)
        /\ a.now \in 1..MaxTime /\ a.lastClick \in 0..MaxTime
    BY <1>1 DEF Androids
  <1>3. /\ DOMAIN a.at = 1..Len(a.at) /\ DOMAIN a.told = 1..Len(a.told)
        /\ Len(a.at) \in Nat
        /\ \A t \in 1..Len(a.at) : a.at[t] \in 1..MaxTime
        /\ \A t \in 1..Len(a.told) : a.told[t] \in Nat
    BY <1>2, LenProperties, ElementOfSeq
  <1>4. MaxTime \in Nat /\ Hearers \in Nat \ {0}
    BY DomAssumption
  <1>5. QED
    BY <1>1, <1>2, <1>3, <1>4

(* A click that is heard.                                                  *)
Heard(a, t) == [a EXCEPT !.lastClick = a.now, !.told[t] = @ + Hearers]

HeardBy(a, t, b) ==
    /\ b \in Androids /\ b.now = a.now /\ b.lastClick = a.now
    /\ b.simulated = a.simulated /\ b.at = a.at /\ b.ghosts = a.ghosts
    /\ Len(b.told) = Len(a.told) /\ b.told[t] = a.told[t] + Hearers
    /\ \A u \in DOMAIN a.told \ {t} : b.told[u] = a.told[u]

LEMMA HeardTells ==
  ASSUME NEW a \in Androids, NEW t \in DOMAIN a.told
  PROVE  HeardBy(a, t, Heard(a, t))
  <1> DEFINE b == Heard(a, t)
  <1> DEFINE s == [a.told EXCEPT ![t] = @ + Hearers]
  <1>1. /\ a.told \in Seq(Nat) /\ a.now \in 0..MaxTime
        /\ b = [a EXCEPT !.lastClick = a.now, !.told = s]
    BY DomAssumption DEF Androids, Heard
  <1>2. a.told[t] + Hearers \in Nat
    BY <1>1, DomAssumption, LenProperties, ElementOfSeq
  <1>3. s \in Seq(Nat) /\ Len(s) = Len(a.told)
    BY <1>1, <1>2, ExceptSeq
  <1>4. s[t] = a.told[t] + Hearers /\ \A u \in DOMAIN a.told \ {t} : s[u] = a.told[u]
    BY <1>1
  <1> HIDE DEF s, b
  <1>5. /\ b \in Androids /\ b.now = a.now /\ b.lastClick = a.now
        /\ b.simulated = a.simulated /\ b.at = a.at /\ b.ghosts = a.ghosts
        /\ b.told = s
    BY <1>1, <1>3 DEF Androids
  <1>6. QED
    BY <1>3, <1>4, <1>5 DEF HeardBy, b

LEMMA GhostKeeps ==
  ASSUME AndroidSound(android), NEW t \in 1..MaxTaps, AndroidGhost(t)
  PROVE  AndroidSound(android')
  <1> DEFINE g == android.ghosts \ {t}
             a == [android EXCEPT !.ghosts = g]
             m == Len(android.at)
  <1>1. /\ t \in android.ghosts /\ android.now - android.at[t] \in 2..4
        /\ android' = AndroidClick(a, t, FALSE)
    BY DEF AndroidGhost
  <1>2. /\ android \in Androids /\ DOMAIN android.told = 1..m
        /\ DOMAIN android.at = 1..m /\ m \in Nat /\ Len(android.told) = m
        /\ \A u \in 1..m : android.at[u] \in 1..MaxTime /\ android.told[u] \in Nat
        /\ android.now \in 1..MaxTime /\ android.lastClick \in 0..MaxTime
        /\ MaxTime \in Nat /\ Hearers \in Nat \ {0}
    BY AndroidParts
  <1>3. /\ t \in 1..m /\ m <= MaxTaps /\ android.ghosts \subseteq 1..m
        /\ InTime(android) /\ \A u \in 1..m : TouchTold(android, u)
    BY <1>1 DEF AndroidSound
  <1> HIDE DEF m
  <1>4. /\ a \in Androids /\ a.now = android.now /\ a.lastClick = android.lastClick
        /\ a.simulated = android.simulated /\ a.at = android.at
        /\ a.told = android.told /\ a.ghosts = g
    BY <1>2 DEF Androids
  <1> HIDE DEF a
  <1>5. t \in 1..Len(a.told)
    BY <1>2, <1>3, <1>4
  <1>6. android' = IF Filtered(a, FALSE) THEN a ELSE Heard(a, t)
    BY <1>1, <1>4, <1>5, ClickTells DEF Heard
  <1>7. Alone(android.at, t) => Filtered(a, FALSE)
    <2>1. SUFFICES ASSUME Alone(android.at, t) PROVE Filtered(a, FALSE)
      OBVIOUS
    <2>2. \/ android.lastClick = android.at[t]
          \/ android.simulated
      BY <1>1, <1>3, <2>1 DEF TouchTold
    <2>3. CASE android.simulated
      BY <1>4, <2>3 DEF Filtered
    <2>4. CASE android.lastClick = android.at[t]
      BY <1>1, <1>2, <1>3, <1>4, <2>4 DEF Filtered
    <2>5. QED
      BY <2>2, <2>3, <2>4
  <1>8. ASSUME NEW u \in g
        PROVE  ~Alone(android.at, u)
    <2>1. /\ u \in 1..m /\ t # u /\ t \in DOMAIN android.at
          /\ android.now - android.at[u] <= 4 /\ android.at[u] <= android.now
      BY <1>2, <1>3 DEF InTime
    <2>2. android.at[t] - android.at[u] \in -8..8
      <3>1. /\ android.at[t] \in Int /\ android.at[u] \in Int /\ android.now \in Int
        BY <1>2, <1>3, <2>1
      <3>2. android.now - android.at[t] >= 2 /\ android.now - android.at[t] <= 4
        BY <1>1
      <3>3. QED
        BY <2>1, <3>1, <3>2
    <2>3. QED
      BY <2>1, <2>2 DEF Alone
  <1>9. CASE Filtered(a, FALSE)
    <2>1. android' = a
      BY <1>6, <1>9
    <2>2. InTime(android')
      BY <1>3, <1>4, <2>1 DEF InTime
    <2>3. ASSUME NEW u \in 1..m
          PROVE  TouchTold(android', u)
      BY <1>3, <1>4, <2>1 DEF TouchTold
    <2>4. QED
      BY <1>2, <1>3, <1>4, <2>1, <2>2, <2>3 DEF AndroidSound, m
  <1>10. CASE ~Filtered(a, FALSE)
    <2>1. android' = Heard(a, t)
      BY <1>6, <1>10
    <2>2. t \in DOMAIN a.told
      BY <1>2, <1>3, <1>4
    <2>3. /\ android' \in Androids /\ android'.now = android.now
          /\ android'.lastClick = android.now
          /\ android'.simulated = android.simulated /\ android'.at = android.at
          /\ android'.ghosts = g /\ Len(android'.told) = m
          /\ android'.told[t] = android.told[t] + Hearers
          /\ \A u \in 1..m \ {t} : android'.told[u] = android.told[u]
      <3>1. /\ android' \in Androids /\ android'.now = a.now
            /\ android'.lastClick = a.now
            /\ android'.simulated = a.simulated /\ android'.at = a.at
            /\ android'.ghosts = a.ghosts /\ Len(android'.told) = Len(a.told)
            /\ android'.told[t] = a.told[t] + Hearers
            /\ \A u \in DOMAIN a.told \ {t} : android'.told[u] = a.told[u]
        BY <1>4, <2>1, <2>2, HeardTells DEF HeardBy
      <3>2. QED
        BY <1>2, <1>4, <3>1
    <2>4. InTime(android')
      <3>1. /\ android'.lastClick <= android'.now
            /\ android'.lastClick - android'.at[t] \in 0..4 /\ t \in 1..m
        <4>1. android.now \in Int /\ android.now - android.at[t] \in 0..4
          BY <1>1, <1>2
        <4>2. android'.lastClick - android'.at[t] = android.now - android.at[t]
          BY <2>3
        <4>3. android'.lastClick <= android'.now
          BY <2>3, <4>1
        <4>4. QED
          BY <1>3, <4>1, <4>2, <4>3
      <3>2. \A u \in 1..m : android'.at[u] <= android'.now
        BY <1>3, <2>3 DEF InTime, m
      <3>3. \A u \in g : android'.now - android'.at[u] <= 4
        BY <1>3, <2>3 DEF InTime
      <3>4. QED
        BY <2>3, <3>1, <3>2, <3>3 DEF InTime, m
    <2>5. ASSUME NEW u \in 1..m
          PROVE  TouchTold(android', u)
      <3>1. CASE u = t
        <4>1. ~Alone(android'.at, u) /\ u \notin android'.ghosts
          BY <1>7, <1>10, <2>3, <3>1
        <4>2. android.told[t] \in {0, Hearers}
          BY <1>1, <1>3 DEF TouchTold
        <4>3. android'.told[u] \in {0, Hearers, Hearers + Hearers}
          <5>1. 0 + Hearers = Hearers
            BY <1>2
          <5>2. android'.told[u] = android.told[t] + Hearers
            BY <2>3, <3>1
          <5>3. QED
            BY <4>2, <5>1, <5>2
        <4>4. QED
          BY <4>1, <4>3 DEF TouchTold
      <3>2. CASE u # t
        <4>1. android'.told[u] = android.told[u]
          BY <2>3, <3>2
        <4>2. Alone(android.at, u) => u \notin g
          BY <1>8
        <4>3. TouchTold(android, u)
          BY <1>3
        <4>4. u \in android'.ghosts => u \in android.ghosts /\ ~Alone(android'.at, u)
          BY <2>3, <4>2
        <4>5. QED
          BY <2>3, <4>1, <4>3, <4>4 DEF TouchTold
      <3>3. QED
        BY <3>1, <3>2
    <2>6. QED
      BY <1>3, <2>3, <2>4, <2>5 DEF AndroidSound, m
  <1>11. QED
    BY <1>9, <1>10

LEMMA TouchKeeps ==
  ASSUME AndroidSound(android), NEW simulated \in BOOLEAN, AndroidTouch(simulated)
  PROVE  AndroidSound(android')
  <1> DEFINE m == Len(android.at)
             n == m + 1
             at == Append(android.at, android.now)
             told == Append(android.told, 0)
             ghosts == android.ghosts \cup {n}
             sim == android.simulated \/ simulated
             p == [android EXCEPT !.at = at, !.told = told]
             a == [p EXCEPT !.ghosts = ghosts, !.simulated = sim]
  <1>1. /\ android \in Androids /\ DOMAIN android.told = 1..m
        /\ DOMAIN android.at = 1..m /\ m \in Nat /\ Len(android.told) = m
        /\ android.at \in Seq(1..MaxTime) /\ android.told \in Seq(Nat)
        /\ \A u \in 1..m : android.at[u] \in 1..MaxTime /\ android.told[u] \in Nat
        /\ android.now \in 1..MaxTime /\ android.lastClick \in 0..MaxTime
        /\ MaxTime \in Nat /\ Hearers \in Nat \ {0}
    BY AndroidParts
  <1>2. /\ android.ghosts \subseteq 1..m
        /\ InTime(android) /\ \A u \in 1..m : TouchTold(android, u)
        /\ m < MaxTaps /\ MaxTaps \in Nat
    BY DomAssumption DEF AndroidSound, AndroidTouch
  <1>3. n \in Nat /\ n \in 1..n /\ n <= MaxTaps /\ 1..n = 1..m \cup {n} /\ n \notin 1..m
    BY <1>1, <1>2
  <1>4. /\ at \in Seq(1..MaxTime) /\ Len(at) = n /\ at[n] = android.now
        /\ \A u \in 1..m : at[u] = android.at[u]
        /\ told \in Seq(Nat) /\ Len(told) = n /\ told[n] = 0
        /\ \A u \in 1..m : told[u] = android.told[u]
    <2>1. android.now \in 1..MaxTime /\ 0 \in Nat
      BY <1>1
    <2>2. /\ at \in Seq(1..MaxTime) /\ Len(at) = n /\ at[n] = android.now
          /\ \A u \in 1..m : at[u] = android.at[u]
      BY <1>1, <2>1, AppendProperties
    <2>3. /\ told \in Seq(Nat) /\ Len(told) = n /\ told[n] = 0
          /\ \A u \in 1..m : told[u] = android.told[u]
      BY <1>1, <2>1, AppendProperties
    <2>4. QED
      BY <2>2, <2>3
  <1>5. sim \in BOOLEAN /\ ghosts \subseteq 1..n /\ ghosts \in SUBSET (1..MaxTaps)
        /\ (sim <=> android.simulated \/ simulated)
    BY <1>1, <1>2, <1>3 DEF Androids
  <1>6. android' = AndroidClick(a, n, simulated)
    <2>1. a = [android EXCEPT !.at = Append(@, android.now),
                              !.told = Append(@, 0),
                              !.ghosts = @ \cup {Len(android.at) + 1},
                              !.simulated = @ \/ simulated]
      BY <1>1 DEF Androids
    <2>2. Len(a.at) = n
      BY <1>1, <1>4 DEF Androids
    <2> HIDE DEF a
    <2>3. QED
      BY <2>1, <2>2 DEF AndroidTouch
  <1> HIDE DEF sim, at, told
  <1>7. /\ p \in Androids /\ p.now = android.now /\ p.lastClick = android.lastClick
        /\ p.at = at /\ p.told = told
    BY <1>1, <1>4 DEF Androids
  <1> HIDE DEF p, ghosts
  <1>8. /\ a \in Androids /\ a.now = android.now /\ a.lastClick = android.lastClick
        /\ a.at = at /\ a.told = told /\ a.ghosts = ghosts /\ a.simulated = sim
    BY <1>5, <1>7 DEF Androids
  <1> HIDE DEF a, n
  <1>9. DOMAIN at = 1..n /\ DOMAIN told = 1..n
    BY <1>4, LenProperties
  <1>10. android' = IF Filtered(a, simulated) THEN a ELSE Heard(a, n)
    BY <1>3, <1>4, <1>6, <1>8, ClickTells DEF Heard
  <1>11. n \in DOMAIN a.told
    BY <1>3, <1>8, <1>9
  <1>12. HeardBy(a, n, Heard(a, n))
    BY <1>8, <1>11, HeardTells
  <1>13. /\ ghosts = android.ghosts \cup {n}
         /\ \A u \in 1..n : at[u] \in 1..MaxTime /\ at[u] <= android.now
         /\ android.now <= MaxTime
    <2>1. \A u \in 1..m : at[u] \in 1..MaxTime /\ at[u] <= android.now
      BY <1>1, <1>2, <1>4 DEF InTime
    <2>2. at[n] \in 1..MaxTime /\ at[n] <= android.now
      BY <1>1, <1>4
    <2>3. ASSUME NEW u \in 1..n PROVE at[u] \in 1..MaxTime /\ at[u] <= android.now
      BY <1>3, <2>1, <2>2
    <2>4. ghosts = android.ghosts \cup {n} /\ android.now <= MaxTime
      BY <1>1 DEF ghosts
    <2>5. QED
      BY <2>3, <2>4
  <1> HIDE DEF m
  <1>14. \A u \in ghosts : android.now - at[u] <= 4
    <2>1. \A u \in android.ghosts : android.now - at[u] <= 4
      BY <1>2, <1>4 DEF InTime
    <2>2. android.now - at[n] <= 4
      BY <1>1, <1>4
    <2>3. QED
      BY <1>13, <2>1, <2>2
  \* A touch that is still alone was alone, and its second click has been.
  <1>15. ASSUME NEW u \in 1..m, Alone(at, u)
         PROVE  Alone(android.at, u) /\ u \notin ghosts
    <2>1. u \in 1..n /\ u # n
      BY <1>3
    <2>2. ASSUME NEW v \in DOMAIN android.at \ {u}
          PROVE  android.at[v] - android.at[u] \notin -8..8
      <3>1. v \in 1..m /\ v \in DOMAIN at \ {u}
        BY <1>1, <1>3, <1>9
      <3>2. at[v] - at[u] \notin -8..8
        BY <1>15, <3>1 DEF Alone
      <3>3. QED
        BY <1>4, <3>1, <3>2
    <2>3. at[n] - at[u] \notin -8..8
      BY <1>3, <1>9, <1>15, <2>1 DEF Alone
    <2>4. at[u] \in Int /\ android.now \in Int /\ at[u] <= android.now
      BY <1>1, <1>13, <2>1
    <2>5. ~(android.now - at[u] <= 4)
      <3>1. at[n] = android.now
        BY <1>4
      <3>2. android.now - at[u] \notin -8..8
        BY <2>3, <3>1
      <3>3. android.now - at[u] \in Nat
        BY <2>4
      <3>4. QED
        BY <3>2, <3>3
    <2>6. QED
      BY <1>14, <2>2, <2>5 DEF Alone
  \* What was clicked before, if n is alone, was long ago.
  <1>16. ASSUME Alone(at, n)
         PROVE  a.lastClick = 0 \/ a.now - a.lastClick \notin 2..4
    <2>1. SUFFICES ASSUME android.lastClick # 0
                   PROVE  android.now - android.lastClick \notin 2..4
      BY <1>8
    <2>2. PICK u \in 1..m : android.lastClick - android.at[u] \in 0..4
      BY <1>2, <2>1 DEF InTime, m
    <2>3. u \in DOMAIN at \ {n} /\ at[u] = android.at[u] /\ u \in 1..n
      BY <1>3, <1>4, <1>9
    <2>4. at[u] - at[n] \notin -8..8
      BY <1>16, <2>3 DEF Alone
    <2>5. /\ at[u] \in Int /\ at[n] = android.now /\ android.now \in Int
          /\ at[u] <= android.now /\ android.lastClick \in Int
      <3>1. at[u] \in 1..MaxTime /\ at[u] <= android.now
        BY <1>13, <2>3
      <3>2. at[n] = android.now
        BY <1>4
      <3>4. android.now \in Int /\ android.lastClick \in Int
        <4>1. android.now \in 1..MaxTime /\ android.lastClick \in 0..MaxTime
          BY <1>1
        <4>2. QED
          BY <4>1
      <3>3. QED
        BY <3>1, <3>2, <3>4
    <2>6. android.now - at[u] > 8
      BY <2>4, <2>5
    <2>7. android.lastClick - at[u] <= 4
      BY <2>2, <2>3, <2>5
    <2>8. QED
      BY <2>5, <2>6, <2>7
  \* The touches before.
  <1>17. ASSUME NEW b, NEW u \in 1..m,
                b.at = at, b.ghosts = ghosts, b.simulated = sim,
                b.told[u] = android.told[u]
         PROVE  TouchTold(b, u)
    <2>1. TouchTold(android, u) /\ (u \in ghosts <=> u \in android.ghosts)
      BY <1>2, <1>3, <1>13
    <2>2. CASE Alone(at, u)
      <3>1. Alone(android.at, u) /\ u \notin ghosts
        BY <1>15, <2>2
      <3>2. android.told[u] = Hearers \/ (android.told[u] = 0 /\ android.simulated)
        BY <2>1, <3>1 DEF TouchTold
      <3>3. QED
        BY <1>5, <1>17, <3>1, <3>2 DEF TouchTold
    <2>3. CASE ~Alone(at, u)
      BY <1>17, <2>1, <2>3 DEF TouchTold
    <2>4. QED
      BY <2>2, <2>3
  <1>18. CASE Filtered(a, simulated)
    <2>1. android' = a
      BY <1>10, <1>18
    <2>2. InTime(android')
      <3>1. android.lastClick <= android.now
        BY <1>2 DEF InTime
      <3>2. ASSUME android.lastClick # 0
            PROVE  \E u \in 1..n : android.lastClick - at[u] \in 0..4
        <4>1. PICK u \in 1..m : android.lastClick - android.at[u] \in 0..4
          BY <1>2, <3>2 DEF InTime, m
        <4>2. QED
          BY <1>3, <1>4, <4>1
      <3>3. QED
        BY <1>4, <1>8, <1>13, <1>14, <2>1, <3>1, <3>2 DEF InTime
    <2>3. ASSUME NEW u \in 1..n
          PROVE  TouchTold(android', u)
      <3>1. CASE u \in 1..m
        <4>1. a.told[u] = android.told[u]
          BY <1>4, <1>8, <3>1
        <4>2. QED
          BY <1>8, <1>17, <2>1, <3>1, <4>1
      <3>2. CASE u = n
        <4>1. a.told[u] = 0
          BY <1>4, <1>8, <3>2
        <4>2. Alone(at, n) => sim
          BY <1>8, <1>16, <1>18 DEF Filtered
        <4>3. QED
          BY <1>8, <2>1, <3>2, <4>1, <4>2 DEF TouchTold
      <3>3. QED
        BY <1>3, <3>1, <3>2
    <2>4. QED
      BY <1>3, <1>4, <1>5, <1>8, <2>1, <2>2, <2>3 DEF AndroidSound
  <1>19. CASE ~Filtered(a, simulated)
    <2>1. android' = Heard(a, n)
      BY <1>10, <1>19
    <2>2. /\ android' \in Androids /\ android'.now = android.now
          /\ android'.lastClick = android.now
          /\ android'.simulated = sim /\ android'.at = at
          /\ android'.ghosts = ghosts /\ Len(android'.told) = n
          /\ android'.told[n] = Hearers
          /\ \A u \in 1..m : android'.told[u] = android.told[u]
      <3>1. /\ android' \in Androids /\ android'.now = a.now
            /\ android'.lastClick = a.now
            /\ android'.simulated = a.simulated /\ android'.at = a.at
            /\ android'.ghosts = a.ghosts /\ Len(android'.told) = Len(a.told)
            /\ android'.told[n] = a.told[n] + Hearers
            /\ \A u \in DOMAIN a.told \ {n} : android'.told[u] = a.told[u]
        BY <1>12, <2>1 DEF HeardBy
      <3>2. a.told[n] + Hearers = Hearers
        BY <1>1, <1>4, <1>8
      <3>3. \A u \in 1..m : u \in DOMAIN a.told \ {n} /\ a.told[u] = android.told[u]
        BY <1>3, <1>4, <1>8, <1>9
      <3>4. QED
        BY <1>4, <1>8, <3>1, <3>2, <3>3
    <2>3. InTime(android')
      <3>1. android.now - at[n] \in 0..4 /\ android.now <= android.now
        BY <1>1, <1>4
      <3>2. \E u \in 1..n : android.now - at[u] \in 0..4
        BY <1>3, <3>1
      <3>3. QED
        BY <1>4, <1>13, <1>14, <2>2, <3>1, <3>2 DEF InTime
    <2>4. ASSUME NEW u \in 1..n
          PROVE  TouchTold(android', u)
      <3>1. CASE u \in 1..m
        <4>1. android'.told[u] = android.told[u]
          BY <2>2, <3>1
        <4>2. QED
          BY <1>17, <2>2, <3>1, <4>1
      <3>2. CASE u = n
        BY <1>4, <2>2, <3>2 DEF TouchTold
      <3>3. QED
        BY <1>3, <3>1, <3>2
    <2>5. QED
      BY <1>3, <1>4, <1>5, <2>2, <2>3, <2>4 DEF AndroidSound
  <1>20. QED
    BY <1>18, <1>19

LEMMA AndroidTickKeeps ==
  ASSUME AndroidSound(android), AndroidTick
  PROVE  AndroidSound(android')
  <1> DEFINE n == android.now + 1
             m == Len(android.at)
  <1>1. /\ android \in Androids /\ m \in Nat
        /\ \A u \in 1..m : android.at[u] \in 1..MaxTime
        /\ android.now \in 1..MaxTime /\ android.lastClick \in 0..MaxTime
        /\ MaxTime \in Nat
    BY AndroidParts
  <1>2. /\ Len(android.told) = m /\ m <= MaxTaps /\ android.ghosts \subseteq 1..m
        /\ InTime(android) /\ \A u \in 1..m : TouchTold(android, u)
    BY DEF AndroidSound
  <1>3. /\ n \in 1..MaxTime /\ android' = [android EXCEPT !.now = n]
        /\ \A u \in android.ghosts : android.now - android.at[u] < 4
    BY <1>1 DEF AndroidTick
  <1>4. /\ android.lastClick <= n
        /\ \A u \in 1..m : android.at[u] <= n
        /\ \A u \in android.ghosts : n - android.at[u] <= 4
    <2>1. android.lastClick <= n
      BY <1>1, <1>2 DEF InTime
    <2>2. ASSUME NEW u \in 1..m PROVE android.at[u] <= n
      BY <1>1, <1>2 DEF InTime
    <2>3. ASSUME NEW u \in android.ghosts PROVE n - android.at[u] <= 4
      <3>1. android.at[u] \in Int /\ android.now \in Int
        BY <1>1, <1>2
      <3>2. QED
        BY <1>3, <3>1
    <2>4. QED
      BY <2>1, <2>2, <2>3
  <1> HIDE DEF n
  <1>5. /\ android' \in Androids /\ android'.now = n
        /\ android'.lastClick = android.lastClick
        /\ android'.simulated = android.simulated /\ android'.at = android.at
        /\ android'.ghosts = android.ghosts /\ android'.told = android.told
    BY <1>1, <1>3 DEF Androids
  <1>6. InTime(android')
    BY <1>2, <1>4, <1>5 DEF InTime
  <1>7. \A u \in 1..m : TouchTold(android', u)
    BY <1>2, <1>5 DEF TouchTold
  <1>8. QED
    BY <1>2, <1>5, <1>6, <1>7 DEF AndroidSound

LEMMA AndroidKeeps ==
  ASSUME AndroidSound(android), AndroidNext \/ UNCHANGED android
  PROVE  AndroidSound(android')
  <1>1. CASE UNCHANGED android
    BY <1>1
  <1>2. QED
    BY <1>1, TouchKeeps, GhostKeeps, AndroidTickKeeps DEF AndroidNext

LEMMA TouchesClick == AndroidSound(android) => TouchIsOneClick
  <1> SUFFICES ASSUME AndroidSound(android), NEW t \in DOMAIN android.told
               PROVE  /\ android.told[t] % Hearers = 0
                      /\ Alone(android.at, t) =>
                            \/ android.told[t] = Hearers
                            \/ android.told[t] = 0 /\ android.simulated
    BY DEF TouchIsOneClick, Alone
  <1>1. Hearers \in Nat \ {0} /\ t \in 1..Len(android.at)
    BY AndroidParts
  <1>2. TouchTold(android, t)
    BY <1>1 DEF AndroidSound
  <1>3. 0 % Hearers = 0 /\ Hearers % Hearers = 0 /\ (Hearers + Hearers) % Hearers = 0
    BY <1>1, WholeNumbers
  <1>4. QED
    BY <1>2, <1>3 DEF TouchTold

-----------------------------------------------------------------------------
(* Clicks: of one or two targets, the layer first.                         *)

Targets == {"map", "marker", "path"}

Clicks == [loaded : BOOLEAN, skip : BOOLEAN, draggable : BOOLEAN,
           bubbles : BOOLEAN, stops : BOOLEAN, markerMoved : BOOLEAN,
           mapMoved : BOOLEAN, pressed : Elements, moved : BOOLEAN,
           stopped : BOOLEAN, early : BOOLEAN,
           told : Seq(Targets \X {"preclick", "click"})]

Few(s) ==
    /\ s \in Seq(Targets) /\ Len(s) \in 0..2
    /\ \A i, j \in 1..Len(s) : s[i] = s[j] => i = j

(* The flags that no click changes.                                        *)
SameGesture(c, d) ==
    /\ d.loaded = c.loaded /\ d.draggable = c.draggable /\ d.bubbles = c.bubbles
    /\ d.stops = c.stops /\ d.markerMoved = c.markerMoved
    /\ d.mapMoved = c.mapMoved /\ d.pressed = c.pressed /\ d.moved = c.moved
    /\ d.early = c.early

LEMMA FoundTargets ==
  ASSUME NEW c, NEW els, Few(els), Len(els) > 0, NEW simulated \in BOOLEAN,
         NEW s, s = FindEventTargets(c, els, simulated)
  PROVE  /\ Few(s) /\ Len(s) <= Len(els)
         /\ \A i \in 1..Len(s) : s[i] = els[i]
         /\ Len(s) = 0 <=> ~simulated /\ DraggableMoved(c, els[1])
  <1> DEFINE Dragged(i) == ~simulated /\ DraggableMoved(c, els[i])
             m == Len(els)
             Ends(n) == /\ \A i \in 1..n : ~Dragged(i)
                        /\ n < m => Dragged(n + 1)
             last == CHOOSE n \in 0..m : Ends(n)
  <1>1. s = SubSeq(els, 1, last)
    BY DEF FindEventTargets
  <1>2. (m = 1 \/ m = 2) /\ m = Len(els)
    BY DEF Few
  <1>a. els \in Seq(Targets)
    BY DEF Few
  <1> HIDE DEF m
  <1>3. \E k \in 0..m : Ends(k)
    <2>1. CASE Dragged(1)
      <3>1. Ends(0) /\ 0 \in 0..m
        BY <1>2, <2>1
      <3>2. QED
        BY <3>1
    <2>2. CASE ~Dragged(1) /\ (m = 1 \/ Dragged(2))
      <3>1. Ends(1) /\ 1 \in 0..m
        BY <1>2, <2>2
      <3>2. QED
        BY <3>1
    <2>3. CASE ~Dragged(1) /\ m = 2 /\ ~Dragged(2)
      <3>1. Ends(2) /\ 2 \in 0..m
        BY <2>3
      <3>2. QED
        BY <3>1
    <2>4. QED
      BY <1>2, <2>1, <2>2, <2>3
  <1>4. last \in 0..m /\ Ends(last)
    <2> HIDE DEF Ends
    <2>1. last = CHOOSE n \in 0..m : Ends(n)
      BY DEF m, Ends
    <2> HIDE DEF last
    <2>2. QED
      BY <1>3, <2>1
  <1> HIDE DEF last
  <1>5. last \in Nat /\ last <= m /\ last <= 2
    <2>1. last \in 0..m
      BY <1>4
    <2>2. QED
      BY <1>2, <2>1
  <1>6. /\ s \in Seq(Targets) /\ Len(s) = last
        /\ \A i \in 1..last : s[i] = els[i]
    <2>1. \A i \in 1..last : els[i] \in Targets
      BY <1>2, <1>5, <1>a, ElementOfSeq
    <2>2. /\ s \in Seq(Targets)
          /\ Len(s) = IF 1 <= last THEN last - 1 + 1 ELSE 0
          /\ \A i \in 1..(last - 1 + 1) : s[i] = els[1 + i - 1]
      BY <1>1, <1>2, <1>5, <1>a, <2>1, SubSeqProperties
    <2>3. Len(s) = last /\ last - 1 + 1 = last
      BY <1>5, <2>2
    <2>4. \A i \in 1..last : s[i] = els[i]
      BY <1>5, <2>2, <2>3
    <2>5. QED
      BY <2>2, <2>3, <2>4
  <1>7. last = 0 <=> Dragged(1)
    <2>1. CASE last = 0
      <3>1. 0 < m
        BY <1>2
      <3>2. Dragged(0 + 1)
        BY <1>4, <2>1, <3>1
      <3>3. QED
        BY <2>1, <3>2
    <2>2. CASE last # 0
      <3>1. 1 \in 1..last
        BY <1>5, <2>2
      <3>2. QED
        BY <1>4, <2>2, <3>1
    <2>3. QED
      BY <2>1, <2>2
  <1> HIDE DEF Dragged
  <1>8. Few(s)
    <2>1. Len(s) \in 0..2
      BY <1>5, <1>6
    <2>2. ASSUME NEW i \in 1..Len(s), NEW j \in 1..Len(s), s[i] = s[j]
          PROVE  i = j
      <3>1. i \in 1..m /\ j \in 1..m /\ els[i] = els[j]
        BY <1>5, <1>6, <2>2, <1>2
      <3>2. QED
        BY <1>2, <3>1 DEF Few
    <2>3. QED
      BY <1>6, <2>1, <2>2 DEF Few
  <1>9. QED
    BY <1>2, <1>5, <1>6, <1>7, <1>8 DEF Dragged

-----------------------------------------------------------------------------
(* What is told of a click: to each target preclick, then to the first of  *)
(* them click.                                                             *)
Tells(told, s, k) ==
    /\ told \in Seq(Targets \X {"preclick", "click"})
    /\ Len(told) = Len(s) + k
    /\ \A i \in 1..Len(s) : told[i] = <<s[i], "preclick">>
    /\ \A i \in 1..k : told[Len(s) + i] = <<s[i], "click">>

LEMMA Preclick ==
  ASSUME NEW c \in Clicks, c.told = <<>>, NEW s, Few(s),
         NEW d, d = Deliver(c, "preclick", s)
  PROVE  /\ d \in Clicks /\ SameGesture(c, d) /\ Tells(d.told, s, 0)
         /\ d.skip = c.skip /\ d.stopped = c.stopped
  <1> DEFINE p == [i \in 1..Len(s) |-> <<s[i], "preclick">>]
  <1>1. /\ s \in Seq(Targets) /\ Len(s) \in Nat /\ DOMAIN s = 1..Len(s)
        /\ \A i \in 1..Len(s) : s[i] \in Targets
    BY LenProperties, ElementOfSeq DEF Few
  <1>2. /\ p \in Seq(Targets \X {"preclick", "click"}) /\ Len(p) = Len(s)
        /\ \A i \in 1..Len(s) : p[i] = <<s[i], "preclick">>
    BY <1>1
  <1>3. <<>> \o p = p
    BY <1>2
  <1>4. d = [c EXCEPT !.told = c.told \o p]
    BY <1>1 DEF Deliver, Clicks
  <1>5. d = [c EXCEPT !.told = p]
    BY <1>3, <1>4
  <1> HIDE DEF p
  <1>6. d \in Clicks /\ d.told = p
    BY <1>2, <1>5 DEF Clicks
  <1>7. SameGesture(c, d) /\ d.skip = c.skip /\ d.stopped = c.stopped
    BY <1>5 DEF Clicks, SameGesture
  <1>8. Tells(p, s, 0)
    BY <1>1, <1>2 DEF Tells
  <1>9. QED
    BY <1>6, <1>7, <1>8

(* Who hears it last, and whether it is stopped.                           *)
LEMMA Click ==
  ASSUME NEW c \in Clicks, NEW s, Few(s), Tells(c.told, s, 0),
         NEW d, d = Deliver(c, "click", s)
  PROVE  /\ d \in Clicks /\ SameGesture(c, d)
         /\ \E k \in 0..Len(s) :
               /\ Tells(d.told, s, k)
               /\ k = 0 => Len(s) = 0
               /\ Len(s) > 0 /\ c.stops /\ s[1] # "map"
                  => k = 1 /\ d.stopped /\ ~d.skip
         /\ ~c.skip => ~d.skip
         /\ c.skip => d.skip \/ d.stopped
  <1> DEFINE Final(o) == o # "map" /\ (c.stops \/ (o = "marker" /\ ~c.bubbles))
             ends == {i \in DOMAIN s : Final(s[i])}
             n == IF ends = {} THEN Len(s)
                  ELSE CHOOSE i \in ends : \A j \in ends : i <= j
             halted == ends # {} /\ c.stops
             t == c.told \o [i \in 1..n |-> <<s[i], "click">>]
             stopped == c.stopped \/ halted
             skip == c.skip /\ ~halted
             e == [c EXCEPT !.told = t]
  <1>1. /\ s \in Seq(Targets) /\ Len(s) \in 0..2 /\ DOMAIN s = 1..Len(s)
        /\ \A i \in 1..Len(s) : s[i] \in Targets
    BY LenProperties, ElementOfSeq DEF Few
  <1>2. d = [e EXCEPT !.stopped = stopped, !.skip = skip]
    BY DEF Deliver, Clicks
  <1>3. /\ ends \subseteq 1..Len(s)
        /\ stopped \in BOOLEAN /\ skip \in BOOLEAN
        /\ (stopped <=> c.stopped \/ halted) /\ (skip <=> c.skip /\ ~halted)
        /\ (halted <=> ends # {} /\ c.stops)
    BY <1>1 DEF Clicks
  <1>4. Len(s) > 0 /\ c.stops /\ s[1] # "map" => 1 \in ends
    BY <1>1
  <1> HIDE DEF ends, stopped, skip
  <1>5. /\ n \in 0..Len(s)
        /\ n = 0 => Len(s) = 0
        /\ 1 \in ends => n = 1
    <2>1. CASE ends = {}
      BY <1>1, <2>1
    <2>2. CASE 1 \in ends
      <3>1. \A j \in ends : j \in Int /\ 1 <= j
        BY <1>1, <1>3
      <3>2. \A i \in ends : (\A j \in ends : i <= j) => i = 1
        BY <2>2, <3>1
      <3>3. n = 1
        BY <2>2, <3>1, <3>2
      <3>4. 1 \in 1..Len(s)
        BY <1>3, <2>2
      <3>5. Len(s) \in 0..2
        BY <1>1
      <3>6. 1 \in 0..Len(s)
        BY <3>4, <3>5
      <3> HIDE DEF n
      <3>7. QED
        BY <3>3, <3>6
    <2>3. CASE ends # {} /\ 1 \notin ends
      <3>1. ends = {2} /\ Len(s) = 2
        <4>1. ASSUME NEW i \in ends PROVE i = 2 /\ Len(s) = 2
          <5>1. i \in 1..Len(s) /\ i # 1
            BY <1>3, <2>3
          <5>2. QED
            BY <1>1, <5>1
        <4>2. QED
          BY <2>3, <4>1
      <3>2. n = 2
        BY <3>1
      <3>3. QED
        BY <2>3, <3>1, <3>2
    <2>4. QED
      BY <2>1, <2>2, <2>3
  <1> HIDE DEF n
  <1>6. t \in Seq(Targets \X {"preclick", "click"}) /\ Tells(t, s, n)
    <2> DEFINE h == [i \in 1..n |-> <<s[i], "click">>]
    <2>1. n \in Nat /\ Len(s) \in Nat /\ \A i \in 1..n : s[i] \in Targets
      BY <1>1, <1>5
    <2>2. /\ h \in Seq(Targets \X {"preclick", "click"}) /\ Len(h) = n
          /\ \A i \in 1..n : h[i] = <<s[i], "click">>
      BY <2>1
    <2> HIDE DEF h
    <2>3. /\ c.told \in Seq(Targets \X {"preclick", "click"})
          /\ Len(c.told) = Len(s)
          /\ \A i \in 1..Len(s) : c.told[i] = <<s[i], "preclick">>
      BY <2>1 DEF Tells
    <2>4. /\ t \in Seq(Targets \X {"preclick", "click"})
          /\ Len(t) = Len(s) + n
          /\ \A i \in 1..(Len(s) + n) :
                t[i] = IF i <= Len(s) THEN c.told[i] ELSE h[i - Len(s)]
      <3>1. t = c.told \o h
        BY DEF h
      <3> HIDE DEF t
      <3> DEFINE S == Targets \X {"preclick", "click"}
                 u == c.told
      <3>4. u \in Seq(S) /\ h \in Seq(S) /\ t = u \o h
        BY <2>2, <2>3, <3>1
      <3> HIDE DEF S, u
      <3>5. /\ u \o h \in Seq(S)
            /\ Len(u \o h) = Len(u) + Len(h)
            /\ \A i \in 1..(Len(u) + Len(h)) :
                  (u \o h)[i] = IF i <= Len(u) THEN u[i] ELSE h[i - Len(u)]
        BY <3>4, ConcatProperties
      <3>2. /\ t \in Seq(Targets \X {"preclick", "click"})
            /\ Len(t) = Len(c.told) + Len(h)
            /\ \A i \in 1..(Len(c.told) + Len(h)) :
                  t[i] = IF i <= Len(c.told) THEN c.told[i] ELSE h[i - Len(c.told)]
        BY <3>4, <3>5 DEF S, u
      <3>3. QED
        BY <2>2, <2>3, <3>2
    <2> HIDE DEF t
    <2>5. ASSUME NEW i \in 1..Len(s)
          PROVE  t[i] = <<s[i], "preclick">>
      BY <2>1, <2>3, <2>4
    <2>6. ASSUME NEW i \in 1..n
          PROVE  t[Len(s) + i] = <<s[i], "click">>
      <3>1. /\ Len(s) + i \in 1..(Len(s) + n) /\ ~(Len(s) + i <= Len(s))
            /\ Len(s) + i - Len(s) = i
        BY <2>1
      <3>2. t[Len(s) + i] = h[Len(s) + i - Len(s)]
        BY <2>4, <3>1
      <3>3. QED
        BY <2>2, <3>1, <3>2
    <2>7. QED
      BY <2>4, <2>5, <2>6 DEF Tells
  <1> HIDE DEF t
  <1>7. e \in Clicks /\ SameGesture(c, e) /\ e.told = t
    <2>1. e \in Clicks /\ e.told = t
      BY <1>6 DEF Clicks
    <2>2. SameGesture(c, e)
      BY DEF Clicks, SameGesture
    <2>3. QED
      BY <2>1, <2>2
  <1> HIDE DEF e
  <1>8. d \in Clicks /\ d.told = t /\ d.stopped = stopped /\ d.skip = skip
    BY <1>2, <1>3, <1>7 DEF Clicks
  <1>9. SameGesture(e, d)
    BY <1>2, <1>7 DEF Clicks, SameGesture
  <1>10. SameGesture(c, d)
    BY <1>7, <1>9 DEF SameGesture
  <1> HIDE DEF halted
  <1>11. Len(s) > 0 /\ c.stops /\ s[1] # "map" => n = 1 /\ d.stopped /\ ~d.skip
    BY <1>3, <1>4, <1>5, <1>8
  <1>12. (~c.skip => ~d.skip) /\ (c.skip => d.skip \/ d.stopped)
    BY <1>3, <1>8
  <1>13. QED
    BY <1>5, <1>6, <1>8, <1>10, <1>11, <1>12

Hears(told, o, type) == Contains(told, <<o, type>>)

ToldOnce(told) ==
    /\ IsInjective(told)
    /\ \A o \in Targets : Hears(told, o, "click") => Hears(told, o, "preclick")

LEMMA NobodyHears ==
  /\ ToldOnce(<<>>)
  /\ \A o, type : ~Hears(<<>>, o, type)
  BY DEF ToldOnce, IsInjective, Hears, Contains

LEMMA Pairs ==
  \A o, p, t, u : <<o, t>> = <<p, u>> => o = p /\ t = u
  OBVIOUS

LEMMA TellsOnce ==
  ASSUME NEW s, Few(s), NEW k \in 0..Len(s), NEW told, Tells(told, s, k)
  PROVE  /\ ToldOnce(told)
         /\ \A o, type : Hears(told, o, type) => \E i \in 1..Len(s) : s[i] = o
         /\ \A o : Hears(told, o, "click") => \E i \in 1..k : s[i] = o
         /\ Len(s) = 0 => told = <<>>
         /\ k > 0 => Hears(told, s[1], "click")
  <1> DEFINE n == Len(s)
  <1>1. /\ n \in Nat /\ k \in Nat /\ k <= n
        /\ \A i, j \in 1..n : s[i] = s[j] => i = j
    BY DEF Few
  <1>2. /\ Len(told) = n + k /\ told \in Seq(Targets \X {"preclick", "click"})
        /\ \A i \in 1..n : told[i] = <<s[i], "preclick">>
        /\ \A i \in 1..k : told[n + i] = <<s[i], "click">>
    BY DEF Tells
  <1> HIDE DEF n
  <1>3. DOMAIN told = 1..(n + k)
    BY <1>1, <1>2, LenProperties
  <1>4. ASSUME NEW i \in 1..(n + k)
        PROVE  \/ i \in 1..n /\ told[i] = <<s[i], "preclick">>
               \/ i - n \in 1..k /\ i - n \in 1..n /\ told[i] = <<s[i - n], "click">>
    <2>1. CASE i <= n
      BY <1>1, <1>2, <2>1
    <2>2. CASE i > n
      <3>1. i - n \in 1..k /\ i - n \in 1..n /\ n + (i - n) = i
        BY <1>1, <2>2
      <3>2. told[n + (i - n)] = <<s[i - n], "click">>
        BY <1>2, <3>1
      <3>3. QED
        BY <3>1, <3>2
    <2>3. QED
      BY <1>1, <2>1, <2>2
  <1>5. ASSUME NEW i \in 1..(n + k), NEW j \in 1..(n + k), told[i] = told[j]
        PROVE  i = j
    <2>1. CASE i \in 1..n /\ told[i] = <<s[i], "preclick">>
      <3>1. j \in 1..n /\ told[j] = <<s[j], "preclick">>
        <4>1. \/ j \in 1..n /\ told[j] = <<s[j], "preclick">>
              \/ told[j] = <<s[j - n], "click">>
          BY <1>4
        <4>2. told[j] # <<s[j - n], "click">>
          BY <1>5, <2>1, Pairs
        <4>3. QED
          BY <4>1, <4>2
      <3>2. s[i] = s[j]
        BY <1>5, <2>1, <3>1, Pairs
      <3>3. QED
        BY <1>1, <2>1, <3>1, <3>2
    <2>2. CASE i - n \in 1..n /\ told[i] = <<s[i - n], "click">>
      <3>1. j - n \in 1..n /\ told[j] = <<s[j - n], "click">>
        <4>1. \/ told[j] = <<s[j], "preclick">>
              \/ j - n \in 1..n /\ told[j] = <<s[j - n], "click">>
          BY <1>4
        <4>2. told[j] # <<s[j], "preclick">>
          BY <1>5, <2>2, Pairs
        <4>3. QED
          BY <4>1, <4>2
      <3>2. s[i - n] = s[j - n]
        BY <1>5, <2>2, <3>1, Pairs, ZenonT(40)
      <3>3. i - n = j - n
        BY <1>1, <2>2, <3>1, <3>2
      <3>4. QED
        BY <1>1, <3>3
    <2>3. QED
      BY <1>4, <2>1, <2>2
  <1>6. IsInjective(told)
    BY <1>3, <1>5 DEF IsInjective
  <1>7. ASSUME NEW o, Hears(told, o, "click")
        PROVE  (\E i \in 1..k : s[i] = o) /\ Hears(told, o, "preclick")
    <2>1. PICK i \in 1..(n + k) : told[i] = <<o, "click">>
      BY <1>2, <1>7 DEF Hears, Contains
    <2>2. i - n \in 1..k /\ i - n \in 1..n /\ s[i - n] = o
      BY <1>4, <2>1
    <2>3. i - n \in 1..(n + k) /\ told[i - n] = <<o, "preclick">>
      BY <1>1, <1>2, <2>2
    <2>4. QED
      BY <1>2, <2>2, <2>3 DEF Hears, Contains
  <1>8. ASSUME NEW o, NEW type, Hears(told, o, type)
        PROVE  \E i \in 1..n : s[i] = o
    <2>1. PICK i \in 1..(n + k) : told[i] = <<o, type>>
      BY <1>2, <1>8 DEF Hears, Contains
    <2>2. QED
      BY <1>4, <2>1
  <1>9. n = 0 => told = <<>>
    <2>1. SUFFICES ASSUME n = 0 PROVE told = <<>>
      OBVIOUS
    <2>2. Len(told) = 0
      BY <1>1, <1>2, <2>1
    <2>3. QED
      BY <1>2, <2>2, EmptySeq
  <1>10. k > 0 => Hears(told, s[1], "click")
    <2>1. SUFFICES ASSUME k > 0 PROVE Hears(told, s[1], "click")
      OBVIOUS
    <2>2. 1 \in 1..k /\ n + 1 \in 1..(n + k)
      BY <1>1, <2>1
    <2>3. told[n + 1] = <<s[1], "click">>
      BY <1>2, <2>2
    <2>4. QED
      BY <1>2, <2>2, <2>3 DEF Hears, Contains
  <1>11. QED
    BY <1>6, <1>7, <1>8, <1>9, <1>10 DEF ToldOnce, n

(* What an event that has not been stopped and was told to nobody becomes. *)
FiredBy(c, s, r) ==
    /\ r \in Clicks /\ SameGesture(c, r)
    /\ ToldOnce(r.told)
    /\ \A o, type : Hears(r.told, o, type) => \E i \in 1..Len(s) : s[i] = o
    /\ Len(s) = 0 => r.told = <<>>
    /\ Len(s) > 0 => Hears(r.told, s[1], "click")
    /\ Len(s) > 0 /\ c.stops /\ s[1] # "map"
       => \A o : Hears(r.told, o, "click") => o = s[1]
    /\ ~c.skip => ~r.skip
    /\ c.skip => r.skip \/ r.stopped

LEMMA Fires ==
  ASSUME NEW c \in Clicks, c.told = <<>>, ~c.stopped, NEW s, Few(s)
  PROVE  FiredBy(c, s, FireDOMEvent(c, s))
  <1> DEFINE d == Deliver(c, "preclick", s)
             r == Deliver(d, "click", s)
  <1>1. FireDOMEvent(c, s) = r
    BY DEF FireDOMEvent
  <1>2. /\ d \in Clicks /\ SameGesture(c, d) /\ Tells(d.told, s, 0)
        /\ d.skip = c.skip
    BY Preclick
  <1> HIDE DEF d
  <1>3. /\ r \in Clicks /\ SameGesture(d, r)
        /\ \E k \in 0..Len(s) :
              /\ Tells(r.told, s, k)
              /\ k = 0 => Len(s) = 0
              /\ Len(s) > 0 /\ d.stops /\ s[1] # "map"
                 => k = 1 /\ r.stopped /\ ~r.skip
        /\ ~d.skip => ~r.skip
        /\ d.skip => r.skip \/ r.stopped
    BY <1>2, Click
  <1> HIDE DEF r
  <1>4. PICK k \in 0..Len(s) :
              /\ Tells(r.told, s, k)
              /\ k = 0 => Len(s) = 0
              /\ Len(s) > 0 /\ d.stops /\ s[1] # "map"
                 => k = 1 /\ r.stopped /\ ~r.skip
    BY <1>3
  <1>5. /\ ToldOnce(r.told)
        /\ \A o, type : Hears(r.told, o, type) => \E i \in 1..Len(s) : s[i] = o
        /\ \A o : Hears(r.told, o, "click") => \E i \in 1..k : s[i] = o
        /\ Len(s) = 0 => r.told = <<>>
        /\ k > 0 => Hears(r.told, s[1], "click")
    BY <1>4, TellsOnce
  <1>6. SameGesture(c, r) /\ d.stops = c.stops
    BY <1>2, <1>3 DEF SameGesture
  <1>7. Len(s) \in Nat /\ k \in Nat
    BY DEF Few
  <1>8. Len(s) > 0 => Hears(r.told, s[1], "click")
    BY <1>4, <1>5, <1>7
  <1>9. ASSUME Len(s) > 0, c.stops, s[1] # "map"
        PROVE  \A o : Hears(r.told, o, "click") => o = s[1]
    <2>1. k = 1
      BY <1>4, <1>6, <1>9
    <2>2. \A i \in 1..1 : i = 1
      OBVIOUS
    <2>3. QED
      BY <1>5, <2>1, <2>2
  <1>10. (~c.skip => ~r.skip) /\ (c.skip => r.skip \/ r.stopped)
    BY <1>2, <1>3
  <1>11. QED
    BY <1>1, <1>3, <1>5, <1>6, <1>8, <1>9, <1>10 DEF FiredBy

(* What comes of a click on the first of els.                              *)
HandledBy(c, els, simulated, r) ==
    /\ r \in Clicks /\ SameGesture(c, r)
    /\ ToldOnce(r.told)
    /\ \A o, type : Hears(r.told, o, type) => \E i \in 1..Len(els) : els[i] = o
    /\ c.loaded => ~r.skip
    /\ ~c.loaded => r.skip = c.skip /\ r.told = <<>>
    /\ c.skip => r.told = <<>>
    /\ ~simulated /\ DraggableMoved(c, els[1]) => r.told = <<>>
    /\ c.loaded /\ ~c.skip /\ (simulated \/ ~DraggableMoved(c, els[1]))
       => Hears(r.told, els[1], "click")
    /\ c.stops /\ els[1] # "map"
       => \A o : Hears(r.told, o, "click") => o = els[1]

LEMMA Handles ==
  ASSUME NEW c \in Clicks, c.told = <<>>, ~c.stopped, NEW simulated \in BOOLEAN,
         NEW els, Few(els), Len(els) > 0
  PROVE  HandledBy(c, els, simulated, HandleDOMEvent(c, els, simulated))
  <1> DEFINE r == HandleDOMEvent(c, els, simulated)
  <1>1. CASE ~c.loaded
    <2>1. r = c
      BY <1>1 DEF HandleDOMEvent
    <2>2. SameGesture(c, c)
      BY DEF SameGesture
    <2> HIDE DEF r
    <2>3. HandledBy(c, els, simulated, r)
      BY <1>1, <2>1, <2>2, NobodyHears DEF HandledBy
    <2>4. QED
      BY <2>3 DEF r
  <1>2. CASE c.loaded /\ c.skip
    <2> DEFINE none == FALSE
    <2>1. r = [c EXCEPT !.skip = none] /\ none \in BOOLEAN /\ ~none
      BY <1>2 DEF HandleDOMEvent
    <2> HIDE DEF none, r
    <2>2. r \in Clicks /\ r.told = <<>> /\ r.skip = none
      BY <2>1 DEF Clicks
    <2>3. SameGesture(c, r)
      BY <2>1 DEF Clicks, SameGesture
    <2>4. HandledBy(c, els, simulated, r)
      BY <1>2, <2>1, <2>2, <2>3, NobodyHears DEF HandledBy
    <2>5. QED
      BY <2>4 DEF r
  <1>3. CASE c.loaded /\ ~c.skip
    <2> DEFINE s == FindEventTargets(c, els, simulated)
    <2>1. r = FireDOMEvent(c, s)
      BY <1>3 DEF HandleDOMEvent
    <2>2. /\ Few(s) /\ Len(s) <= Len(els)
          /\ \A i \in 1..Len(s) : s[i] = els[i]
          /\ Len(s) = 0 <=> ~simulated /\ DraggableMoved(c, els[1])
      BY FoundTargets
    <2> HIDE DEF s, r
    <2>3. FiredBy(c, s, r)
      BY <2>1, <2>2, Fires
    <2>4. Len(s) \in Nat /\ Len(els) \in Nat
      BY <2>2 DEF Few
    <2>5. \A o, type : Hears(r.told, o, type) => \E i \in 1..Len(els) : els[i] = o
      <3>1. \A i \in 1..Len(s) : i \in 1..Len(els)
        BY <2>2, <2>4
      <3>2. QED
        BY <2>2, <2>3, <3>1 DEF FiredBy
    <2>6. Len(s) > 0 => s[1] = els[1]
      BY <2>2, <2>4
    <2>7. ~simulated /\ DraggableMoved(c, els[1]) => r.told = <<>>
      BY <2>2, <2>3 DEF FiredBy
    <2>8. simulated \/ ~DraggableMoved(c, els[1]) => Hears(r.told, els[1], "click")
      <3>1. SUFFICES ASSUME simulated \/ ~DraggableMoved(c, els[1])
                     PROVE  Hears(r.told, els[1], "click")
        OBVIOUS
      <3>2. Len(s) > 0
        BY <2>2, <2>4, <3>1
      <3>3. QED
        BY <2>3, <2>6, <3>2 DEF FiredBy
    <2>9. ASSUME c.stops, els[1] # "map", NEW o, Hears(r.told, o, "click")
          PROVE  o = els[1]
      <3>1. CASE Len(s) > 0
        BY <2>3, <2>6, <2>9, <3>1 DEF FiredBy
      <3>2. CASE Len(s) = 0
        BY <2>3, <2>9, <3>2, NobodyHears DEF FiredBy
      <3>3. QED
        BY <2>4, <3>1, <3>2
    <2>10. HandledBy(c, els, simulated, r)
      BY <1>3, <2>3, <2>5, <2>7, <2>8, <2>9 DEF HandledBy, FiredBy
    <2>11. QED
      BY <2>10 DEF r
  <1>4. QED
    BY <1>1, <1>2, <1>3 DEF Clicks

(* The targets there are.                                                  *)
LEMMA FewTargets ==
  /\ Few(<<"map">>) /\ Len(<<"map">>) = 1 /\ <<"map">>[1] = "map"
  /\ Few(<<"marker", "map">>) /\ Len(<<"marker", "map">>) = 2
  /\ <<"marker", "map">>[1] = "marker"
  <1>1. /\ Few(<<"map">>) /\ Len(<<"map">>) = 1 /\ <<"map">>[1] = "map"
    BY DEF Few, Targets
  <1>2. /\ Len(<<"marker", "map">>) = 2
        /\ <<"marker", "map">>[1] = "marker" /\ <<"marker", "map">>[2] = "map"
        /\ <<"marker", "map">> \in Seq(Targets)
    BY DEF Targets
  <1>3. Few(<<"marker", "map">>)
    <2> DEFINE s == <<"marker", "map">>
    <2>1. ASSUME NEW i \in 1..2, NEW j \in 1..2, s[i] = s[j] PROVE i = j
      <3>1. (i = 1 \/ i = 2) /\ (j = 1 \/ j = 2)
        OBVIOUS
      <3> HIDE DEF s
      <3>2. s[1] = "marker" /\ s[2] = "map"
        BY <1>2 DEF s
      <3>3. QED
        BY <2>1, <3>1, <3>2
    <2>2. QED
      BY <1>2, <2>1 DEF Few
  <1>4. QED
    BY <1>1, <1>2, <1>3

(* A path drawn on the canvas is told first, and the map by its bubbling.  *)
LEMMA PathTargets ==
  ASSUME NEW t, Few(t), Len(t) <= 1, \A i \in 1..Len(t) : t[i] = "map"
  PROVE  /\ Few(<<"path">> \o t) /\ Len(<<"path">> \o t) > 0
         /\ (<<"path">> \o t)[1] = "path"
         /\ \A i \in 1..Len(<<"path">> \o t) : (<<"path">> \o t)[i] \in {"path", "map"}
  <1> DEFINE p == <<"path">>
             s == p \o t
             n == Len(t)
  <1>1. p \in Seq(Targets) /\ Len(p) = 1 /\ p[1] = "path"
    BY DEF Targets
  <1>2. t \in Seq(Targets) /\ (n = 0 \/ n = 1)
    BY DEF Few
  <1> HIDE DEF p
  <1>3. /\ s \in Seq(Targets) /\ Len(s) = 1 + n
        /\ \A i \in 1..(1 + n) : s[i] = IF i <= 1 THEN p[i] ELSE t[i - 1]
    BY <1>1, <1>2, ConcatProperties
  <1> HIDE DEF s
  <1>4. CASE n = 0
    <2>1. Len(s) = 1 /\ s[1] = "path"
      BY <1>1, <1>3, <1>4
    <2>2. \A i \in 1..1 : i = 1
      OBVIOUS
    <2>3. QED
      BY <1>3, <2>1, <2>2 DEF Few, s, p
  <1>5. CASE n = 1
    <2>1. Len(s) = 2 /\ s[1] = "path" /\ s[2] = t[1] /\ t[1] = "map"
      BY <1>1, <1>3, <1>5
    <2>2. \A i \in 1..2 : i = 1 \/ i = 2
      OBVIOUS
    <2>3. \A i, j \in 1..2 : s[i] = s[j] => i = j
      BY <2>1, <2>2
    <2>4. \A i \in 1..2 : s[i] \in {"path", "map"}
      BY <2>1, <2>2
    <2>5. Few(s)
      BY <1>3, <2>1, <2>3 DEF Few
    <2>6. QED
      BY <2>1, <2>4, <2>5 DEF s, p
  <1>6. QED
    BY <1>2, <1>4, <1>5

(* A click on a path comes to the map from the canvas, and then again.     *)
PathHandledBy(c, simulated, r) ==
    /\ r \in Clicks /\ SameGesture(c, r) /\ ToldOnce(r.told) /\ ~r.skip
    /\ \A o, type : Hears(r.told, o, type) => o \in {"path", "map"}
    /\ c.mapMoved /\ ~simulated => r.told = <<>>
    /\ ~c.mapMoved => Hears(r.told, "path", "click")
    /\ c.stops /\ Hears(r.told, "path", "click") => ~Hears(r.told, "map", "click")

LEMMA PathHandles ==
  ASSUME NEW c \in Clicks, c.told = <<>>, ~c.stopped, c.loaded,
         NEW simulated \in BOOLEAN
  PROVE  PathHandledBy(c, simulated,
            HandleDOMEvent(CanvasClick(c, simulated), <<"map">>, simulated))
  <1> DEFINE m == <<"map">>
             d == CanvasClick(c, simulated)
             r == HandleDOMEvent(d, m, simulated)
  <1>1. Few(m) /\ Len(m) = 1 /\ m[1] = "map" /\ Len(m) > 0
    BY FewTargets
  <1>2. /\ DraggableMoved(c, "path") = c.mapMoved
        /\ DraggableMoved(c, "map") = c.mapMoved
    BY DEF DraggableMoved
  <1> HIDE DEF m
  <1>3. CASE c.mapMoved
    <2>1. d = c
      BY <1>2, <1>3 DEF CanvasClick
    <2> HIDE DEF d
    <2>2. HandledBy(c, m, simulated, r)
      BY <1>1, <2>1, Handles
    <2> HIDE DEF r
    <2>3. \A o, type : Hears(r.told, o, type) => o = "map"
      BY <1>1, <2>2 DEF HandledBy
    <2>4. ~Hears(r.told, "path", "click")
      BY <2>3
    <2>5. QED
      BY <1>1, <1>2, <1>3, <2>2, <2>3, <2>4 DEF HandledBy, PathHandledBy, r, d, m
  <1>4. CASE ~c.mapMoved
    <2> DEFINE yes == TRUE
               e == [c EXCEPT !.skip = yes]
               t == FindEventTargets(c, m, simulated)
               s == <<"path">> \o t
    <2>1. d = FireDOMEvent(e, s)
      <3>1. ~DraggableMoved(c, "path")
        BY <1>4 DEF DraggableMoved
      <3> DEFINE u == FireDOMEvent(e, s)
      <3>2. d = IF DraggableMoved(c, "path") THEN c ELSE u
        BY DEF CanvasClick, m
      <3> HIDE DEF u, d
      <3>3. d = u
        BY <3>1, <3>2
      <3>4. QED
        BY <3>3 DEF u
    <2>2. yes \in BOOLEAN /\ yes
      OBVIOUS
    <2> HIDE DEF yes
    <2>3. /\ e \in Clicks /\ e.skip /\ e.told = <<>> /\ ~e.stopped
          /\ e.stops = c.stops
      BY <2>2 DEF Clicks
    <2>4. SameGesture(c, e)
      BY DEF Clicks, SameGesture
    <2> HIDE DEF e
    <2>5. Few(t) /\ Len(t) <= 1 /\ \A i \in 1..Len(t) : t[i] = "map"
      <3>1. /\ Few(t) /\ Len(t) <= Len(m)
            /\ \A i \in 1..Len(t) : t[i] = m[i]
        <4>1. Few(m) /\ Len(m) > 0
          BY <1>1
        <4>2. /\ Few(t) /\ Len(t) <= Len(m)
              /\ \A i \in 1..Len(t) : t[i] = m[i]
              /\ Len(t) = 0 <=> ~simulated /\ DraggableMoved(c, m[1])
          BY <4>1, FoundTargets
        <4>3. QED
          BY <4>2
      <3>2. Len(t) \in Nat
        BY <3>1 DEF Few
      <3>3. \A i \in 1..Len(t) : i = 1
        BY <1>1, <3>1, <3>2
      <3>4. QED
        BY <1>1, <3>1, <3>3
    <2> HIDE DEF t
    <2>6. /\ Few(s) /\ Len(s) > 0 /\ s[1] = "path"
          /\ \A i \in 1..Len(s) : s[i] \in {"path", "map"}
      BY <2>5, PathTargets
    <2> HIDE DEF s, d
    <2>7. FiredBy(e, s, d)
      BY <2>1, <2>3, <2>6, Fires
    <2>8. d \in Clicks /\ SameGesture(e, d) /\ (d.skip \/ d.stopped) /\ d.loaded
      BY <2>3, <2>4, <2>7 DEF FiredBy, SameGesture
    <2>9. r \in Clicks /\ SameGesture(d, r) /\ r.told = d.told /\ ~r.skip
      <3>1. CASE d.skip
        <4> DEFINE none == FALSE
        <4>1. r = [d EXCEPT !.skip = none] /\ none \in BOOLEAN /\ ~none
          BY <2>8, <3>1 DEF HandleDOMEvent
        <4> HIDE DEF none, r
        <4>2. r \in Clicks /\ r.told = d.told /\ r.skip = none
          BY <2>8, <4>1 DEF Clicks
        <4>3. SameGesture(d, r)
          BY <2>8, <4>1 DEF Clicks, SameGesture
        <4>4. QED
          BY <4>1, <4>2, <4>3
      <3>2. CASE ~d.skip
        <4>1. r = d
          BY <2>8, <3>2 DEF HandleDOMEvent, FireDOMEvent
        <4>2. QED
          BY <2>8, <3>2, <4>1 DEF SameGesture
      <3>3. QED
        BY <3>1, <3>2
    <2> HIDE DEF r
    <2>10. SameGesture(c, r)
      BY <2>4, <2>8, <2>9 DEF SameGesture
    <2>11. \A o, type : Hears(r.told, o, type) => o \in {"path", "map"}
      BY <2>6, <2>7, <2>9 DEF FiredBy
    <2>12. Hears(r.told, "path", "click") /\ ToldOnce(r.told)
      BY <2>6, <2>7, <2>9 DEF FiredBy
    <2>13. c.stops => ~Hears(r.told, "map", "click")
      BY <2>3, <2>6, <2>7, <2>9 DEF FiredBy
    <2>14. QED
      BY <1>4, <2>9, <2>10, <2>11, <2>12, <2>13 DEF PathHandledBy, r, d, m
  <1>5. QED
    BY <1>3, <1>4

(* What was pressed was dragged if there was a movement; and a flag that   *)
(* is left set was set before the first view.                              *)
ClicksSound ==
    /\ clicks \in Clicks
    /\ clicks.skip => clicks.early
    /\ clicks.pressed \in {"marker", "path"} => clicks.loaded
    /\ clicks.pressed \in Targets =>
          (DraggableMoved(clicks, clicks.pressed) <=> clicks.moved)

LEMMA ClicksStart == ClicksInit => ClicksSound
  BY DEF ClicksInit, ClicksSound, Clicks, Targets, Elements, DraggableMoved

LEMMA LoadMapKeeps ==
  ASSUME ClicksSound, LoadMap
  PROVE  ClicksSound'
  <1> DEFINE yes == TRUE
  <1>1. /\ clicks \in Clicks /\ yes \in BOOLEAN /\ yes
        /\ clicks' = [clicks EXCEPT !.loaded = yes]
    BY DEF ClicksSound, LoadMap
  <1> HIDE DEF yes
  <1>2. /\ clicks' \in Clicks /\ clicks'.loaded /\ clicks'.skip = clicks.skip
        /\ clicks'.early = clicks.early /\ clicks'.pressed = clicks.pressed
        /\ clicks'.moved = clicks.moved
    BY <1>1 DEF Clicks
  <1>3. /\ clicks'.draggable = clicks.draggable
        /\ clicks'.markerMoved = clicks.markerMoved
        /\ clicks'.mapMoved = clicks.mapMoved
    BY <1>1 DEF Clicks
  <1>4. QED
    BY <1>2, <1>3 DEF ClicksSound, DraggableMoved

LEMMA PressOnKeeps ==
  ASSUME ClicksSound, NEW on \in Elements, NEW moves \in BOOLEAN, PressOn(on, moves)
  PROVE  ClicksSound'
  <1> DEFINE c == [clicks EXCEPT !.pressed = on, !.moved = moves]
  <1>1. clicks \in Clicks /\ (on \in {"marker", "path"} \/ moves => clicks.loaded)
    BY DEF ClicksSound, PressOn
  <1>2. /\ c \in Clicks /\ c.pressed = on /\ c.moved = moves
        /\ c.loaded = clicks.loaded /\ c.draggable = clicks.draggable
        /\ c.skip = clicks.skip /\ c.early = clicks.early
    BY <1>1 DEF Clicks
  <1>3. clicks' = CASE on \in {"control", "button"} -> c
                    [] on = "marker" /\ c.draggable ->
                         [c EXCEPT !.markerMoved = moves, !.mapMoved = FALSE]
                    [] OTHER -> [c EXCEPT !.mapMoved = moves]
    BY DEF PressOn
  <1>4. clicks.skip => clicks.early
    BY DEF ClicksSound
  <1> HIDE DEF c
  <1>5. CASE on \in {"control", "button"}
    <2>1. clicks' = c
      BY <1>3, <1>5
    <2>2. on \notin Targets /\ on \notin {"marker", "path"}
      BY <1>5 DEF Targets
    <2>3. QED
      BY <1>2, <1>4, <2>1, <2>2 DEF ClicksSound
  <1>6. CASE on = "marker" /\ c.draggable
    <2> DEFINE none == FALSE
    <2>1. clicks' = [c EXCEPT !.markerMoved = moves, !.mapMoved = none]
      BY <1>3, <1>6
    <2>2. none \in BOOLEAN
      OBVIOUS
    <2> HIDE DEF none
    <2>3. /\ clicks' \in Clicks /\ clicks'.pressed = on /\ clicks'.moved = moves
          /\ clicks'.loaded = c.loaded /\ clicks'.skip = c.skip
          /\ clicks'.early = c.early
      BY <1>2, <2>1, <2>2 DEF Clicks
    <2>4. clicks'.draggable = c.draggable /\ clicks'.markerMoved = moves
      BY <1>2, <2>1, <2>2 DEF Clicks
    <2>5. DraggableMoved(clicks', on) <=> moves
      BY <1>6, <2>4 DEF DraggableMoved
    <2>6. clicks'.loaded
      BY <1>1, <1>2, <1>6, <2>3
    <2>7. QED
      BY <1>2, <1>4, <2>3, <2>5, <2>6 DEF ClicksSound
  <1>7. CASE on \notin {"control", "button"} /\ ~(on = "marker" /\ c.draggable)
    <2>1. clicks' = [c EXCEPT !.mapMoved = moves]
      BY <1>3, <1>7
    <2>2. /\ clicks' \in Clicks /\ clicks'.pressed = on /\ clicks'.moved = moves
          /\ clicks'.loaded = c.loaded /\ clicks'.skip = c.skip
          /\ clicks'.early = c.early
      BY <1>2, <2>1 DEF Clicks
    <2>3. clicks'.draggable = c.draggable /\ clicks'.mapMoved = moves
      BY <1>2, <2>1 DEF Clicks
    <2>4. DraggableMoved(clicks', on) <=> moves
      BY <1>7, <2>3 DEF DraggableMoved
    <2>5. on \in {"marker", "path"} => clicks'.loaded
      BY <1>1, <1>2, <2>2
    <2>6. QED
      BY <1>2, <1>4, <2>2, <2>4, <2>5 DEF ClicksSound
  <1>8. QED
    BY <1>5, <1>6, <1>7

(* What comes of a click on an element, given as it was pressed.           *)
ClickedRight(c, simulated, r) ==
    /\ r \in Clicks /\ SameGesture(c, r) /\ ToldOnce(r.told)
    /\ r.skip => ~c.loaded /\ (c.pressed = "control" \/ (c.pressed = "map" /\ c.skip))
    /\ c.pressed \notin Targets => r.told = <<>>
    /\ c.moved /\ ~simulated => r.told = <<>>
    /\ c.stops /\ Hears(r.told, c.pressed, "click") /\ c.pressed # "map"
       => ~Hears(r.told, "map", "click")
    /\ c.loaded /\ ~c.moved /\ ~c.skip /\ c.pressed \in Targets
       => Hears(r.told, c.pressed, "click")

LEMMA ElementClicked ==
  ASSUME NEW c \in Clicks, c.told = <<>>, ~c.stopped, NEW simulated \in BOOLEAN,
         c.pressed \in {"marker", "path"} => c.loaded,
         c.pressed \in Targets => (DraggableMoved(c, c.pressed) <=> c.moved)
  PROVE  ClickedRight(c, simulated, Handled(c, c.pressed, simulated))
  <1> DEFINE on == c.pressed
             r == Handled(c, on, simulated)
  <1>0. on \in Elements /\ c.moved \in BOOLEAN /\ c.skip \in BOOLEAN
    BY DEF Clicks
  <1>1. CASE on = "map"
    <2> DEFINE m == <<"map">>
    <2>1. Few(m) /\ Len(m) > 0 /\ m[1] = "map"
      BY FewTargets
    <2>2. r = HandleDOMEvent(c, m, simulated)
      BY <1>1 DEF Handled
    <2> HIDE DEF m, r
    <2>3. HandledBy(c, m, simulated, r)
      BY <2>1, <2>2, Handles
    <2>4. "map" \in Targets /\ (DraggableMoved(c, "map") <=> c.moved)
      BY <1>1 DEF Targets
    <2>5. r.skip => ~c.loaded /\ c.skip
      BY <1>0, <2>3 DEF HandledBy
    <2>6. QED
      BY <1>1, <2>1, <2>3, <2>4, <2>5 DEF HandledBy, ClickedRight, r
  <1>2. CASE on = "marker"
    <2> DEFINE m == <<"marker", "map">>
    <2>1. Few(m) /\ Len(m) > 0 /\ m[1] = "marker"
      BY FewTargets
    <2>2. r = HandleDOMEvent(c, m, simulated)
      BY <1>2 DEF Handled
    <2> HIDE DEF m, r
    <2>3. HandledBy(c, m, simulated, r)
      BY <2>1, <2>2, Handles
    <2>4. "marker" \in Targets /\ (DraggableMoved(c, "marker") <=> c.moved) /\ c.loaded
      BY <1>2 DEF Targets
    <2>5. ~r.skip
      BY <2>3, <2>4 DEF HandledBy
    <2>6. c.stops => ~Hears(r.told, "map", "click")
      BY <2>1, <2>3 DEF HandledBy
    <2>7. QED
      BY <1>2, <2>1, <2>3, <2>4, <2>5, <2>6 DEF HandledBy, ClickedRight, r
  <1>3. CASE on = "path"
    <2>1. r = HandleDOMEvent(CanvasClick(c, simulated), <<"map">>, simulated)
      BY <1>3 DEF Handled
    <2>2. "path" \in Targets /\ (DraggableMoved(c, "path") <=> c.moved) /\ c.loaded
      BY <1>3 DEF Targets
    <2>3. c.mapMoved <=> c.moved
      BY <2>2 DEF DraggableMoved
    <2> HIDE DEF r
    <2>4. PathHandledBy(c, simulated, r)
      BY <2>1, <2>2, PathHandles
    <2>5. QED
      BY <1>3, <2>2, <2>3, <2>4 DEF PathHandledBy, ClickedRight, r
  <1>4. CASE on = "control"
    <2> DEFINE m == <<"map">>
               yes == TRUE
               d == [c EXCEPT !.skip = yes]
    <2>1. Few(m) /\ Len(m) > 0 /\ m[1] = "map"
      BY FewTargets
    <2>2. r = HandleDOMEvent(d, m, simulated) /\ yes \in BOOLEAN /\ yes
      BY <1>4 DEF Handled
    <2> HIDE DEF m, r, yes
    <2>3. d \in Clicks /\ d.skip /\ d.told = <<>> /\ ~d.stopped /\ d.loaded = c.loaded
      BY <2>2 DEF Clicks
    <2>4. SameGesture(c, d)
      BY DEF Clicks, SameGesture
    <2> HIDE DEF d
    <2>5. HandledBy(d, m, simulated, r)
      BY <2>1, <2>2, <2>3, Handles
    <2>6. "control" \notin Targets
      BY DEF Targets
    <2>7. r \in Clicks /\ SameGesture(c, r) /\ r.told = <<>>
      BY <2>3, <2>4, <2>5 DEF HandledBy, SameGesture
    <2>8. r.skip => ~c.loaded
      BY <2>3, <2>5 DEF HandledBy
    <2>9. QED
      BY <1>4, <2>6, <2>7, <2>8, NobodyHears DEF ClickedRight, r
  <1>5. CASE on = "button"
    <2> DEFINE none == FALSE
    <2>1. r = [c EXCEPT !.skip = none] /\ none \in BOOLEAN /\ ~none
      BY <1>5 DEF Handled
    <2> HIDE DEF none, r
    <2>2. r \in Clicks /\ r.told = <<>> /\ r.skip = none
      BY <2>1 DEF Clicks
    <2>3. SameGesture(c, r)
      BY <2>1 DEF Clicks, SameGesture
    <2>4. "button" \notin Targets
      BY DEF Targets
    <2>5. QED
      BY <1>5, <2>1, <2>2, <2>3, <2>4, NobodyHears DEF ClickedRight, r
  <1>6. QED
    BY <1>0, <1>1, <1>2, <1>3, <1>4, <1>5 DEF Elements

LEMMA ClickElementTells ==
  ASSUME ClicksSound, NEW simulated \in BOOLEAN, ClickElement(simulated)
  PROVE  /\ ClicksSound'
         /\ clicks'.told = Handled([clicks EXCEPT !.told = <<>>, !.stopped = FALSE],
                                   clicks.pressed, simulated).told
         /\ ToldOnce(clicks'.told)
         /\ clicks.pressed \notin Targets => clicks'.told = <<>>
         /\ clicks.moved /\ ~simulated => clicks'.told = <<>>
         /\ clicks.stops /\ Hears(clicks'.told, clicks.pressed, "click")
               /\ clicks.pressed # "map" => ~Hears(clicks'.told, "map", "click")
         /\ clicks.loaded /\ ~clicks.moved /\ ~clicks.early /\ clicks.pressed \in Targets
            => Hears(clicks'.told, clicks.pressed, "click")
  <1> DEFINE none == FALSE
             c == [clicks EXCEPT !.told = <<>>, !.stopped = none]
             h == Handled(c, clicks.pressed, simulated)
             e == \/ ~clicks.loaded /\ clicks.pressed = "control"
                  \/ clicks.early /\ ~clicks.loaded /\ clicks.pressed # "button"
  <1>1. /\ clicks \in Clicks /\ none \in BOOLEAN /\ ~none
        /\ <<>> \in Seq(Targets \X {"preclick", "click"})
        /\ clicks' = [h EXCEPT !.early = e] /\ e \in BOOLEAN
    BY DEF ClicksSound, ClickElement
  <1>2. /\ (clicks.skip => clicks.early)
        /\ (clicks.pressed \in {"marker", "path"} => clicks.loaded)
        /\ (clicks.pressed \in Targets =>
              (DraggableMoved(clicks, clicks.pressed) <=> clicks.moved))
    BY DEF ClicksSound
  <1>e. e <=> \/ ~clicks.loaded /\ clicks.pressed = "control"
              \/ clicks.early /\ ~clicks.loaded /\ clicks.pressed # "button"
    OBVIOUS
  <1> HIDE DEF none, e
  <1>3. c \in Clicks /\ c.told = <<>> /\ c.stopped = none /\ c.skip = clicks.skip
    BY <1>1 DEF Clicks
  <1>4. SameGesture(clicks, c)
    BY <1>1 DEF Clicks, SameGesture
  <1>h. h = Handled([clicks EXCEPT !.told = <<>>, !.stopped = FALSE],
                    clicks.pressed, simulated)
    BY DEF none
  <1> HIDE DEF c
  <1>5. /\ c.pressed = clicks.pressed /\ c.loaded = clicks.loaded
        /\ c.moved = clicks.moved /\ c.stops = clicks.stops
        /\ (DraggableMoved(c, c.pressed) <=> DraggableMoved(clicks, clicks.pressed))
    BY <1>4 DEF SameGesture, DraggableMoved
  <1>6. ClickedRight(c, simulated, h)
    BY <1>1, <1>2, <1>3, <1>5, ElementClicked
  <1> HIDE DEF h
  <1>7. h \in Clicks /\ SameGesture(clicks, h)
    BY <1>4, <1>6 DEF ClickedRight, SameGesture
  <1>8. /\ clicks' \in Clicks /\ clicks'.told = h.told /\ clicks'.skip = h.skip
        /\ clicks'.early = e /\ clicks'.loaded = h.loaded
        /\ clicks'.pressed = h.pressed /\ clicks'.moved = h.moved
    BY <1>1, <1>7 DEF Clicks
  <1>9. /\ clicks'.draggable = h.draggable /\ clicks'.mapMoved = h.mapMoved
        /\ clicks'.markerMoved = h.markerMoved
    BY <1>1, <1>7 DEF Clicks
  <1>10. /\ clicks'.loaded = clicks.loaded /\ clicks'.pressed = clicks.pressed
         /\ clicks'.moved = clicks.moved
         /\ (DraggableMoved(clicks', clicks'.pressed)
              <=> DraggableMoved(clicks, clicks.pressed))
    BY <1>7, <1>8, <1>9 DEF SameGesture, DraggableMoved
  <1>11. clicks'.skip => clicks'.early
    BY <1>2, <1>3, <1>5, <1>6, <1>8, <1>e DEF ClickedRight
  <1>12. ClicksSound'
    BY <1>2, <1>8, <1>10, <1>11 DEF ClicksSound
  <1>13. QED
    BY <1>2, <1>3, <1>5, <1>6, <1>8, <1>12, <1>h DEF ClickedRight

LEMMA ClicksKeep ==
  ASSUME ClicksSound, ClicksNext \/ UNCHANGED clicks
  PROVE  ClicksSound'
  <1>1. CASE UNCHANGED clicks
    BY <1>1 DEF ClicksSound, DraggableMoved
  <1>2. QED
    BY <1>1, LoadMapKeeps, PressOnKeeps, ClickElementTells DEF ClicksNext

LEMMA ClicksReach == ClicksSound => ClicksReachOnce
  <1> SUFFICES ASSUME ClicksSound, NEW simulated \in BOOLEAN, ClickElement(simulated)
               PROVE
        /\ IsInjective(clicks'.told)
        /\ Hears(clicks'.told, "map", "click") => Hears(clicks'.told, "map", "preclick")
        /\ clicks.pressed \in {"control", "button"} => clicks'.told = <<>>
        /\ clicks.moved /\ ~simulated => clicks'.told = <<>>
        /\ clicks.stops /\ Hears(clicks'.told, clicks.pressed, "click")
             /\ clicks.pressed # "map" => ~Hears(clicks'.told, "map", "click")
        /\ clicks.loaded /\ ~clicks.moved /\ ~clicks.early
             /\ clicks.pressed \in {"map", "marker", "path"}
           => Hears(clicks'.told, clicks.pressed, "click")
    BY DEF ClicksReachOnce, Hears
  <1>1. /\ ToldOnce(clicks'.told)
        /\ clicks.pressed \notin Targets => clicks'.told = <<>>
        /\ clicks.moved /\ ~simulated => clicks'.told = <<>>
        /\ clicks.stops /\ Hears(clicks'.told, clicks.pressed, "click")
               /\ clicks.pressed # "map" => ~Hears(clicks'.told, "map", "click")
        /\ clicks.loaded /\ ~clicks.moved /\ ~clicks.early /\ clicks.pressed \in Targets
            => Hears(clicks'.told, clicks.pressed, "click")
    BY ClickElementTells
  <1>2. "map" \in Targets /\ "control" \notin Targets /\ "button" \notin Targets
    BY DEF Targets
  <1>3. /\ IsInjective(clicks'.told)
        /\ Hears(clicks'.told, "map", "click") => Hears(clicks'.told, "map", "preclick")
    BY <1>1, <1>2 DEF ToldOnce
  <1>4. clicks.pressed \in {"control", "button"} => clicks'.told = <<>>
    BY <1>1, <1>2
  <1>5. QED
    BY <1>1, <1>3, <1>4 DEF Targets

-----------------------------------------------------------------------------
DomEventsInv ==
    ClicksSound /\ PointersSound /\ TapsSound /\ AndroidSound(android) /\ DomSound

DomEventsAreRight ==
    /\ DomTypeOK /\ PointersAreFingers /\ DoubleTapsAreTwo
    /\ TouchIsOneClick /\ ListenersAreKnown

LEMMA DomEventsInvHolds == DomEventsSpec => []DomEventsInv
  <1>1. DomEventsInit => DomEventsInv
    BY ClicksStart, PointersStart, TapsStart, AndroidStarts, DomStarts
       DEF DomEventsInit, DomEventsInv
  <1>2. DomEventsInv /\ [DomEventsNext]_domVars => DomEventsInv'
    <2> SUFFICES ASSUME DomEventsInv, [DomEventsNext]_domVars
                 PROVE  DomEventsInv'
      OBVIOUS
    <2>1. /\ ClicksNext \/ UNCHANGED clicks
          /\ PointersNext \/ UNCHANGED pointers
          /\ TapsNext \/ UNCHANGED taps
          /\ AndroidNext \/ UNCHANGED android
          /\ DomNext \/ UNCHANGED dom
      BY DEF DomEventsNext, domVars
    <2>2. ClicksSound' /\ PointersSound' /\ TapsSound'
      BY <2>1, ClicksKeep, PointersKeep, TapsKeep DEF DomEventsInv
    <2>3. AndroidSound(android') /\ DomSound'
      BY <2>1, AndroidKeeps, DomKeeps DEF DomEventsInv
    <2>4. AndroidSound(android)'
      BY <2>3 DEF AndroidSound, InTime, TouchTold, Alone
    <2>5. QED
      BY <2>2, <2>3, <2>4 DEF DomEventsInv
  <1>3. QED
    BY <1>1, <1>2, PTL DEF DomEventsSpec

LEMMA DomEventsInvTells == DomEventsInv => DomEventsAreRight
  <1> SUFFICES ASSUME DomEventsInv PROVE DomEventsAreRight
    OBVIOUS
  <1>1. DomTypeOK
    BY DEF DomEventsInv, ClicksSound, PointersSound, TapsSound, AndroidSound,
           DomSound, DomType, Clicks, Targets, Pointers, Taps, Androids, DomTypeOK
  <1>2. PointersAreFingers /\ DoubleTapsAreTwo
    BY DoubleTapsTold DEF DomEventsInv, PointersSound
  <1>3. TouchIsOneClick /\ ListenersAreKnown
    BY TouchesClick, ListenersKnown DEF DomEventsInv
  <1>4. QED
    BY <1>1, <1>2, <1>3 DEF DomEventsAreRight

(* However a user touches, presses, drags and clicks, on whatever browser: *)
(* a click reaches nobody twice and the layer it is on once, the fingers   *)
(* that handlers are shown are those on the screen, two taps are told as   *)
(* one double tap, a touch is one click on Android, and a listener of an   *)
(* element is called once (leaflet.js 2008-2180, 2623-2758, 2842-2890,    *)
(* 4288-4443).                                                              *)
THEOREM EventsToldOnce == DomEventsSpec => EventsAreToldOnce
  <1>1. DomEventsInv => ClicksReachOnce
    BY ClicksReach DEF DomEventsInv
  <1>2. DomEventsInv /\ DomEventsAreRight'
        => [domVars' # domVars =>
              /\ DomTypeOK' /\ PointersAreFingers' /\ DoubleTapsAreTwo'
              /\ TouchIsOneClick' /\ ListenersAreKnown'
              /\ clicks' # clicks => ClicksReachOnce]_domVars
    BY <1>1 DEF DomEventsAreRight
  <1>3. QED
    BY <1>2, DomEventsInvHolds, DomEventsInvTells, PTL DEF EventsAreToldOnce

=============================================================================
