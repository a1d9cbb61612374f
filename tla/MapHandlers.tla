------------------------------ MODULE MapHandlers ------------------------------
(***************************************************************************)
(* Handlers of the map of app/assets/javascripts/leaflet.js that keep a    *)
(* state of their own between the events of the browser: the box that is   *)
(* zoomed to, the taps of a finger, the mouse wheel and the keyboard. Each *)
(* is a part of `handlers`; they do not know each other.                   *)
(***************************************************************************)
EXTENDS Integers

CONSTANTS
    MaxTouches,   \* bound: touches told apart
    Debounce,     \* wheelDebounceTime, in ticks
    MaxTicks      \* bound: ticks of the clock

ASSUME HandlersAssumption ==
    MaxTouches \in Nat /\ Debounce \in Nat \ {0} /\ MaxTicks \in Nat

VARIABLES box, tap, wheel, keys

handlerVars == <<box, tap, wheel, keys>>

-----------------------------------------------------------------------------
(* L.Map.BoxZoom: the mouse is pressed with shift and draws a box.         *)

BoxInit ==
    box = [enabled |-> TRUE, listening |-> FALSE, moved |-> FALSE,
           boxes |-> 0,            \* elements in the container
           own |-> FALSE,          \* _box is one of them
           timer |-> FALSE,        \* _resetStateTimeout
           pressed |-> FALSE,
           drew |-> FALSE,         \* this press has drawn a box
           clickDue |-> FALSE,     \* the browser's click after the release
           ignored |-> FALSE,      \* the last click, by the map
           again |-> FALSE,        \* pressed again before a release was seen
           escaped |-> FALSE]      \* Escape has been used since the last press

MaxBoxes == 2    \* bound: boxes left behind

(* Mutant: the reset that is due is not cleared. *)
BoxDown_KeepTimer(b) == [b EXCEPT !.moved = FALSE, !.listening = TRUE]

BoxDown(b) ==
    [b EXCEPT !.timer = FALSE, !.moved = FALSE, !.listening = TRUE]

(* Also without shift: then the handler does not care.                     *)
BoxPress(shift) ==
    /\ ~box.clickDue
    /\ ~box.pressed \/ shift
    /\ LET b == [box EXCEPT !.pressed = TRUE, !.drew = FALSE,
                            !.again = (@ /\ box.boxes > 0) \/ box.own,
                            !.escaped = @ /\ ~(shift /\ box.enabled)] IN
       box' = IF shift /\ box.enabled THEN BoxDown(b) ELSE b

BoxMove ==
    /\ box.listening
    /\ box.boxes < MaxBoxes
    /\ box' = IF box.moved THEN [box EXCEPT !.drew = TRUE]
              ELSE [box EXCEPT !.moved = TRUE, !.drew = TRUE, !.own = TRUE,
                               !.boxes = @ + 1]

FinishBox(b) ==
    [b EXCEPT !.listening = FALSE,
              !.boxes = IF b.moved /\ b.own THEN @ - 1 ELSE @,
              !.own = @ /\ ~b.moved]

(* Mutant: the state is reset at once. *)
BoxUp_AtOnce(b) == [FinishBox(b) EXCEPT !.moved = FALSE]

BoxUp(b) == [FinishBox(b) EXCEPT !.timer = @ \/ b.moved]

(* A click follows in the same turn of the browser's loop. The reset, due  *)
(* at once, may come after the next press but not after its release.       *)
BoxRelease ==
    /\ box.pressed /\ ~box.timer
    /\ box' = [(IF box.listening THEN BoxUp(box) ELSE box)
                 EXCEPT !.pressed = FALSE, !.clickDue = TRUE]

(* The release is not seen, outside the window.                            *)
BoxReleaseUnseen ==
    /\ box.pressed
    /\ box' = [box EXCEPT !.pressed = FALSE]

(* _draggableMoved: a click that ended a movement is none.                 *)
BoxClick ==
    /\ box.clickDue
    /\ box' = [box EXCEPT !.clickDue = FALSE, !.ignored = box.moved]

BoxReset ==
    /\ box.timer /\ ~box.clickDue
    /\ box' = [box EXCEPT !.timer = FALSE, !.moved = FALSE]

(* Escape takes the box away but does not reset the state.                 *)
BoxEscape ==
    /\ box.listening
    /\ box' = [FinishBox(box) EXCEPT !.escaped = @ \/ box.moved]

BoxToggle ==
    /\ ~box.clickDue
    /\ box' = [box EXCEPT !.enabled = ~@]

BoxNext ==
    \/ \E shift \in BOOLEAN : BoxPress(shift)
    \/ BoxMove \/ BoxRelease \/ BoxReleaseUnseen \/ BoxClick
    \/ BoxReset \/ BoxEscape \/ BoxToggle

-----------------------------------------------------------------------------
(* L.Map.Tap: quick taps and long holds of a finger become click and       *)
(* contextmenu. Touches are numbered.                                      *)

Touches == 1..MaxTouches

TapInit ==
    tap = [touch |-> 0,            \* the last one that began
           fingers |-> 0, fireClick |-> FALSE, near |-> TRUE,
           timers |-> {},          \* touches whose hold is still timed
           current |-> 0,          \* _holdTimeout, as the touch it is of
           listening |-> FALSE,
           clicked |-> {}, menued |-> {}]

(* A second finger is no tap.                                              *)
TapDown(t) ==
    IF t.fingers > 1
      THEN [t EXCEPT !.fireClick = FALSE, !.timers = @ \ {t.current}]
      ELSE [t EXCEPT !.fireClick = TRUE, !.near = TRUE, !.listening = TRUE,
                     !.timers = @ \cup {t.touch}, !.current = t.touch]

TouchStart ==
    /\ tap.touch < MaxTouches /\ tap.fingers < 2
    /\ tap' = TapDown([tap EXCEPT !.fingers = @ + 1, !.touch = @ + 1])

TouchMove(near) ==
    /\ tap.listening /\ tap.fingers > 0
    /\ tap' = [tap EXCEPT !.near = near]

(* Mutant: the hold goes on being timed. *)
TapUp_KeepTimer(t, seen) ==
    [t EXCEPT !.listening = FALSE,
              !.clicked = IF t.fireClick /\ seen /\ t.near
                            THEN @ \cup {t.touch} ELSE @]

(* seen: called with the event, not by the hold.                           *)
TapUp(t, seen) ==
    [t EXCEPT !.timers = @ \ {t.current}, !.listening = FALSE,
              !.clicked = IF t.fireClick /\ seen /\ t.near
                            THEN @ \cup {t.touch} ELSE @]

TouchEnd ==
    /\ tap.fingers > 0
    /\ LET t == [tap EXCEPT !.fingers = @ - 1] IN
       tap' = IF tap.listening THEN TapUp(t, TRUE) ELSE t

(* Nobody listens to touchcancel.                                          *)
TouchCancel ==
    /\ tap.fingers > 0
    /\ tap' = [tap EXCEPT !.fingers = 0]

(* A second long: a hold, if the finger is still where it was.             *)
Hold(touch) ==
    /\ touch \in tap.timers
    /\ LET t == [tap EXCEPT !.timers = @ \ {touch}] IN
       tap' = IF tap.near
                THEN [TapUp([t EXCEPT !.fireClick = FALSE], FALSE)
                        EXCEPT !.menued = @ \cup {touch}]
                ELSE t

TapNext ==
    \/ TouchStart \/ TouchEnd \/ TouchCancel
    \/ \E near \in BOOLEAN : TouchMove(near)
    \/ \E touch \in Touches : Hold(touch)

-----------------------------------------------------------------------------
(* L.Map.ScrollWheelZoom                                                   *)

NoTime == -1

WheelInit ==
    wheel = [enabled |-> TRUE, now |-> 0, delta |-> 0, start |-> NoTime,
             due |-> NoTime]      \* when _performZoom runs

(* Mutant: every turn waits anew. *)
TimeLeft_Anew(w) == Debounce

TimeLeft(w) ==
    LET left == Debounce - (w.now - w.start) IN IF left < 0 THEN 0 ELSE left

Scroll(delta) ==
    /\ wheel.enabled
    /\ wheel.delta + delta \in -2..2
    /\ LET w == [wheel EXCEPT !.delta = @ + delta,
                              !.start = IF @ = NoTime THEN wheel.now ELSE @] IN
       wheel' = [w EXCEPT !.due = w.now + TimeLeft(w)]

PerformZoom ==
    /\ wheel.due # NoTime /\ wheel.due <= wheel.now
    /\ wheel' = [wheel EXCEPT !.delta = 0, !.start = NoTime, !.due = NoTime]

(* Timers come when they are due.                                          *)
Tick ==
    /\ wheel.now < MaxTicks
    /\ wheel.due # NoTime => wheel.now < wheel.due
    /\ wheel' = [wheel EXCEPT !.now = @ + 1]

(* addHooks forgets how far the wheel was turned, not since when.          *)
WheelToggle ==
    wheel' = IF wheel.enabled THEN [wheel EXCEPT !.enabled = FALSE]
             ELSE [wheel EXCEPT !.enabled = TRUE, !.delta = 0]

WheelNext ==
    \/ \E delta \in {-1, 1} : Scroll(delta)
    \/ PerformZoom \/ Tick \/ WheelToggle

-----------------------------------------------------------------------------
(* L.Map.Keyboard                                                          *)

KeysInit ==
    keys = [enabled |-> TRUE, inFocus |-> FALSE,   \* the container, by the browser
            focused |-> FALSE,                     \* _focused
            listening |-> FALSE,                   \* to keydown
            missed |-> FALSE]                      \* focus changed unheard, or
                                                   \* the handler came while in focus

OnFocus(k) == [k EXCEPT !.focused = TRUE, !.listening = TRUE, !.missed = FALSE]

OnBlur(k) == [k EXCEPT !.focused = FALSE, !.listening = FALSE, !.missed = FALSE]

FocusMap(k) ==
    CASE k.inFocus -> k
      [] ~k.inFocus /\ k.enabled -> OnFocus([k EXCEPT !.inFocus = TRUE])
      [] OTHER -> [k EXCEPT !.inFocus = TRUE, !.missed = TRUE]

KeysFocus == keys' = FocusMap(keys)

KeysBlur ==
    /\ keys.inFocus
    /\ LET k == [keys EXCEPT !.inFocus = FALSE] IN
       keys' = IF keys.enabled THEN OnBlur(k) ELSE [k EXCEPT !.missed = TRUE]

(* A click gives the map the focus unless it believes to have it.          *)
KeysMouseDown ==
    /\ keys.enabled
    /\ keys' = IF keys.focused THEN keys ELSE FocusMap(keys)

KeysEnable ==
    /\ ~keys.enabled
    /\ keys' = [keys EXCEPT !.enabled = TRUE, !.missed = @ \/ keys.inFocus]

(* Mutant: keys go on being listened to. *)
KeysRemoveHooks_Keep(k) == [k EXCEPT !.enabled = FALSE]

KeysRemoveHooks(k) == [k EXCEPT !.enabled = FALSE, !.listening = FALSE]

KeysDisable ==
    /\ keys.enabled
    /\ keys' = KeysRemoveHooks(keys)

KeysNext == KeysFocus \/ KeysBlur \/ KeysMouseDown \/ KeysEnable \/ KeysDisable

-----------------------------------------------------------------------------
HandlersInit == BoxInit /\ TapInit /\ WheelInit /\ KeysInit

HandlersNext ==
    \/ BoxNext /\ UNCHANGED <<tap, wheel, keys>>
    \/ TapNext /\ UNCHANGED <<box, wheel, keys>>
    \/ WheelNext /\ UNCHANGED <<box, tap, keys>>
    \/ KeysNext /\ UNCHANGED <<box, tap, wheel>>

HandlersSpec == HandlersInit /\ [][HandlersNext]_handlerVars

-----------------------------------------------------------------------------
HandlersTypeOK ==
    /\ box \in [enabled : BOOLEAN, listening : BOOLEAN, moved : BOOLEAN,
                boxes : 0..MaxBoxes, own : BOOLEAN, timer : BOOLEAN,
                pressed : BOOLEAN, drew : BOOLEAN, clickDue : BOOLEAN,
                ignored : BOOLEAN, again : BOOLEAN, escaped : BOOLEAN]
    /\ tap \in [touch : 0..MaxTouches, fingers : 0..2, fireClick : BOOLEAN,
                near : BOOLEAN, timers : SUBSET Touches,
                current : 0..MaxTouches, listening : BOOLEAN,
                clicked : SUBSET Touches, menued : SUBSET Touches]
    /\ wheel \in [enabled : BOOLEAN, now : 0..MaxTicks, delta : -2..2,
                  start : Int, due : Int]
    /\ keys \in [enabled : BOOLEAN, inFocus : BOOLEAN, focused : BOOLEAN,
                 listening : BOOLEAN, missed : BOOLEAN]

(* A box stands in the container only while it is being drawn, though the  *)
(* reset of the box before is deferred (comment at leaflet.js:13038),      *)
(* unless a press came before the release of the last was seen.            *)
NoOrphanBox == ~box.again => box.boxes = IF box.listening /\ box.moved THEN 1 ELSE 0

(* The click that ends the drawing of a box is not taken for a click on    *)
(* the map (comment at leaflet.js:13101), and, unless Escape was used, no  *)
(* other click is lost.                                                    *)
BoxClicksAreTold ==
    BoxClick => /\ box.drew /\ ~box.escaped /\ ~box.again => box'.ignored
                /\ box'.ignored => box.drew \/ box.escaped \/ box.again

(* A touch is a click or a contextmenu, never both, and a contextmenu      *)
(* comes while its finger is down; also with two fingers, unless the       *)
(* system cancelled a touch.                                               *)
OneGesturePerTouch == tap.clicked \cap tap.menued = {}

(* However the wheel is turned, the zoom it asks for happens no later than *)
(* the debounce time after the first turn.                                 *)
WheelIsServed ==
    /\ wheel.delta # 0 => wheel.due # NoTime
    /\ wheel.start # NoTime => wheel.due \in wheel.now..(wheel.start + Debounce)

(* The map listens to keys only while it is enabled and in focus; and then *)
(* it does, unless it was enabled while in focus or lost the focus while   *)
(* disabled.                                                               *)
KeysFollowFocus ==
    /\ keys.listening => keys.enabled /\ keys.inFocus
    /\ keys.enabled /\ keys.inFocus /\ ~keys.missed => keys.listening

(* What the user does is told to the map as what it is: box, tap, wheel    *)
(* and keys, each by the step that must and no other.                      *)
GesturesAreTold ==
    [][handlerVars' # handlerVars =>
          /\ HandlersTypeOK' /\ NoOrphanBox' /\ OneGesturePerTouch'
          /\ WheelIsServed' /\ KeysFollowFocus'
          /\ BoxClicksAreTold]_handlerVars

=============================================================================
