------------------------------ MODULE Confetti ------------------------------
(***************************************************************************)
(* app/assets/javascripts/happy_birthday.js: confetti that fall over the   *)
(* page, each along a line through points that were thrown at random, and  *)
(* the keys that start them. The unit interval has Unit steps; the setting *)
(* onlyOnKonami is off, as it is in the file.                              *)
(***************************************************************************)
EXTENDS Integers, SequencesExt

CONSTANTS
    Unit,           \* steps of the interval the points are thrown at
    Radius,         \* a tenth of it (eccentricity)
    Fall,           \* frames until a confetto has left the page
    MaxConfetti     \* bound: confetti on the page

ASSUME ConfettiAssumption ==
    /\ {Unit, Radius, Fall, MaxConfetti} \subseteq Nat \ {0}
    /\ Unit > 2 * Radius

VARIABLES
    disc,       \* domain and spline of createPoisson
    party       \* pointer, frame, container and confetti of the page

-----------------------------------------------------------------------------
(* createPoisson                                                           *)

DiscInit == disc = [domain |-> <<<<Radius, Unit - Radius>>>>, spline |-> {0, Unit}]

(* Mutant: of an interval that is split only the left half stays. *)
CutInterval_Left(a, b, c, d) ==
    IF a >= c /\ a < d THEN IF b > d THEN <<<<d, b>>>> ELSE <<>>
    ELSE IF a < c /\ b > c THEN <<<<a, c>>>>
    ELSE <<<<a, b>>>>

(* What a dart that takes everything from c to d leaves of an interval.    *)
CutInterval(a, b, c, d) ==
    IF a >= c /\ a < d THEN IF b > d THEN <<<<d, b>>>> ELSE <<>>
    ELSE IF a < c /\ b > c
         THEN IF b <= d THEN <<<<a, c>>>> ELSE <<<<a, c>>, <<d, b>>>>
    ELSE <<<<a, b>>>>

ThrowDart ==
    \E i \in DOMAIN disc.domain :
    \E dart \in disc.domain[i][1]..(disc.domain[i][2] - 1) :
        disc' = [domain |-> FlattenSeq(
                    [j \in DOMAIN disc.domain |->
                        CutInterval(disc.domain[j][1], disc.domain[j][2],
                                    dart - Radius, dart + Radius)]),
                 spline |-> disc.spline \cup {dart}]

(* Bound of the model: a finished line is the end; there is another one    *)
(* for the next confetto.                                                  *)
NextDisc ==
    /\ disc.domain = <<>>
    /\ disc' = [domain |-> <<<<Radius, Unit - Radius>>>>, spline |-> {0, Unit}]

DiscNext == ThrowDart \/ NextDisc

-----------------------------------------------------------------------------
(* Keys and frames                                                         *)

konami == <<38, 38, 40, 40, 37, 39, 37, 39, 66, 65>>

OtherKey == 0

(* The longest beginning of the code that the keys end with, when before   *)
(* the key they ended with the first n of it.                              *)
Typed(n, key) ==
    LET keys == Append(SubSeq(konami, 1, n), key)
        fits == {k \in 0..Len(konami) : IsSuffix(SubSeq(konami, 1, k), keys)}
    IN  CHOOSE k \in fits : \A l \in fits : l <= k

(* The page is ready: the first confetti are on their way.                 *)
PartyInit ==
    party = [pointer |-> 0,
             typed |-> 0,          \* history: how much of the code was typed
             due |-> FALSE,        \* history: the code was typed with this key
             frame |-> FALSE,      \* `frame`, which the loop sets
             loops |-> 1,          \* loops that wait for their frame
             timers |-> 1,
             early |-> FALSE,      \* history: begun again before a frame
             falls |-> <<0>>]      \* how far each confetto has fallen

(* Mutant: whether there is a loop is not looked at. *)
Poof_Always(p) ==
    [p EXCEPT !.loops = @ + 1, !.timers = @ + 1, !.falls = Append(@, 0)]

(* The container is on the page while there is a loop; `frame` is not set  *)
(* before the first one has run.                                           *)
Poof(p) ==
    IF p.frame THEN p
    ELSE [p EXCEPT !.loops = @ + 1, !.timers = @ + 1, !.falls = Append(@, 0),
                   !.early = TRUE]

(* Mutant: a wrong key leaves the pointer where it is. *)
Pointer_Kept(pointer, key) ==
    IF konami[pointer + 1] = key THEN pointer + 1 ELSE pointer

Pointer(pointer, key) ==
    IF konami[pointer + 1] = key THEN pointer + 1
    ELSE IF key = konami[1] THEN 1 ELSE 0

PressKey(key) ==
    LET pointer == Pointer(party.pointer, key)
        full == pointer = Len(konami)
        p == [party EXCEPT !.pointer = IF full THEN 0 ELSE pointer,
                           !.typed = Typed(@, key), !.due = full]
    IN  /\ full => Len(party.falls) < MaxConfetti
        /\ party' = IF full THEN Poof(p) ELSE p

TimerFires ==
    /\ Len(party.falls) < MaxConfetti
    /\ party' = [party EXCEPT !.falls = Append(@, 0), !.due = FALSE]

(* Those that have left the page are taken away.                           *)
MoveOn(falls) ==
    FoldLeft(LAMBDA s, y : IF y < Fall THEN Append(s, y + 1) ELSE s, <<>>, falls)

(* The timers go on for ever, and so do the loops, each of which moves all *)
(* confetti in a frame of its own.                                         *)
PartyFrame ==
    \E loop \in 1..party.loops :
        party' = [party EXCEPT !.falls = MoveOn(@), !.frame = TRUE, !.due = FALSE]

PartyNext ==
    \/ \E key \in ToSet(konami) \cup {OtherKey} : PressKey(key)
    \/ TimerFires \/ PartyFrame

ConfettiNext ==
    \/ DiscNext /\ UNCHANGED party
    \/ PartyNext /\ UNCHANGED disc

ConfettiSpec ==
    DiscInit /\ PartyInit /\ [][ConfettiNext]_<<disc, party>>

-----------------------------------------------------------------------------
(* The points of a line keep their distance, what is left of the domain    *)
(* keeps its distance from them, and a line is only done when no point has *)
(* room any more: no two neighbours are further apart than twice that.     *)
LineIsFull ==
    LET Apart(p, q) == p >= q + Radius \/ q >= p + Radius IN
    /\ \A p, q \in disc.spline : p # q => Apart(p, q)
    /\ \A i \in DOMAIN disc.domain :
          \A x \in disc.domain[i][1]..(disc.domain[i][2] - 1), q \in disc.spline : Apart(x, q)
    /\ disc.domain = <<>> =>
          \A p \in disc.spline \ {Unit} : \E q \in disc.spline : q > p /\ q <= p + 2 * Radius

(* Confetti begin with the key that completes the code, and with no other; *)
(* what was typed counts towards one code only. (The code is not noticed   *)
(* when an arrow too many comes first.)                                    *)
CodeStartsParty ==
    party'.due => party'.typed = Len(konami)

(* There is one loop, which moves each confetto once in a frame, unless    *)
(* the code is typed before the first frame; and none falls past the page. *)
OneLoop ==
    /\ party.loops = 1 \/ party.early
    /\ party.loops = party.timers
    /\ \A i \in DOMAIN party.falls : party.falls[i] <= Fall

(* The line of confetti is full, and they fall once, when the code is      *)
(* complete.                                                               *)
PartyInOrder ==
    [][/\ disc' # disc => LineIsFull'
       /\ party' # party => OneLoop' /\ CodeStartsParty]_<<disc, party>>

=============================================================================
