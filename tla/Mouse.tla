-------------------------------- MODULE Mouse --------------------------------
(***************************************************************************)
(* The mouse and the keyboard of the player page: MouseController.ts and   *)
(* its two schemes, MouseControllerHovering.ts and MouseControllerLocked.ts,*)
(* KeyboardController.ts, and their registration.  Unreal is external: it  *)
(* keeps the buttons and the keys the messages of the page leave down.     *)
(* Coordinates, the wheel and the pointer's motion are left out.           *)
(***************************************************************************)
EXTENDS Integers, FiniteSets

CONSTANTS
  Buttons,     \* the mouse's buttons
  Primary,     \* the one that makes clicks and double clicks
  Keys         \* the keys

\* A definition whose comment says "Mutant" is a faulty variant of the one below it.

VARIABLES
  mouse,  \* the mouse controller: its scheme, its listeners, its pressedButtons
  page,   \* the pointer, the lock, the video, what the user holds down
  keys,   \* the keyboard controller and the shared ActiveKeys
  ue      \* Unreal: [buttons, keys]; with what the page could not tell it

vars == <<mouse, page, keys, ue>>

\* `up`: where the listener of mouseup hangs.
Mouse ==
  [scheme: {"hovering", "locked"}, releases: BOOLEAN, registered: BOOLEAN,
   up: SUBSET {"element", "window"}, pressed: SUBSET Buttons]

\* `aimed`: Primary went down over the element, which the pointer has not left.
Page ==
  [inside: BOOLEAN, locked: BOOLEAN, ready: BOOLEAN, held: SUBSET Buttons,
   aimed: BOOLEAN, clicks: 0 .. 2]

Keyboard ==
  [registered: BOOLEAN, held: SUBSET Keys, active: SUBSET Keys]

\* `untold`: buttons down for which the page may have missed a release, because
\* the video was not ready or the controller was gone.
Unreal == [buttons: SUBSET Buttons, keys: SUBSET Keys, untold: SUBSET Buttons]

Told(u, down, up) ==
  [u EXCEPT !.buttons = (@ \cup down) \ up, !.untold = @ \ (down \cup up)]

\* Whether an event at the pointer reaches the element.
Over == page.inside \/ page.locked

Hears == mouse.registered /\ page.ready

-----------------------------------------------------------------------------
(* Registration.                                                           *)

\* register
Listening(m) == [m EXCEPT !.up = {"element"}, !.pressed = {}]

\* registerMouse: a new controller of the scheme.
Registered(m, scheme) ==
  Listening([m EXCEPT !.scheme = scheme, !.registered = TRUE])

\* unregister
Unregistered(m) ==
  [m EXCEPT !.registered = FALSE, !.up = {}, !.pressed = {}]

\* unregister of the locked scheme gives the lock back, and no longer listens
\* for the change.
GivenBack(p) == [p EXCEPT !.locked = FALSE]

\* setMouseInputEnabled
SetMouseInputEnabled(enabled, scheme) ==
  /\ enabled \/ mouse.registered
  /\ mouse' = IF enabled THEN Registered(Unregistered(mouse), scheme)
              ELSE Unregistered(mouse)
  /\ page' = GivenBack(page)
  /\ ue' = [ue EXCEPT !.untold = IF mouse.registered THEN @ \cup ue.buttons
                                 ELSE @]
  /\ UNCHANGED keys

\* setKeyboardInputEnabled
SetKeyboardInputEnabled(enabled) ==
  /\ keys.registered # enabled
  /\ keys' = [keys EXCEPT !.registered = enabled]
  /\ UNCHANGED <<mouse, page, ue>>

\* The media element has, or loses, the video's data.
VideoReady(ready) ==
  /\ page.ready # ready
  /\ page' = [page EXCEPT !.ready = ready]
  /\ ue' = [ue EXCEPT !.untold = IF ready THEN @ ELSE @ \cup ue.buttons]
  /\ UNCHANGED <<mouse, keys>>

-----------------------------------------------------------------------------
(* The pointer.                                                            *)

\* pressMouseButtons and releaseMouseButtons
Pressed(u, bs) == Told(u, bs, {})

Released(u, bs) == Told(u, {}, bs)

\* onMouseEnter: every button that is held is pressed.
MouseEnter ==
  /\ ~page.inside /\ ~page.locked
  /\ page' = [page EXCEPT !.inside = TRUE, !.aimed = FALSE, !.clicks = 0]
  /\ ue' = IF Hears THEN Pressed(ue, page.held) ELSE ue
  /\ UNCHANGED <<mouse, keys>>

\* onMouseLeave: every button that is held is released.
MouseLeave ==
  /\ page.inside /\ ~page.locked
  /\ page' = [page EXCEPT !.inside = FALSE, !.aimed = FALSE, !.clicks = 0]
  /\ ue' = IF Hears THEN Released(ue, page.held) ELSE ue
  /\ UNCHANGED <<mouse, keys>>

\* startCapturing and stopCapturing
Captured(m) == [m EXCEPT !.up = {"window"}]

Let(m) == [m EXCEPT !.up = {"element"}]

\* onMouseDown and onMouseUp of the hovering scheme keep pressedButtons.
HoveringDown(m, b) ==
  [(IF m.pressed = {} THEN Captured(m) ELSE m) EXCEPT !.pressed = @ \cup {b}]

HoveringUp(m, b) ==
  IF m.pressed \subseteq {b} THEN Let([m EXCEPT !.pressed = {}])
  ELSE [m EXCEPT !.pressed = @ \ {b}]

\* onMouseDown of both schemes
MouseDown(b) ==
  /\ b \notin page.held
  /\ page' = [page EXCEPT !.held = @ \cup {b}, !.aimed = b = Primary /\ Over,
                          !.clicks = IF b = Primary /\ Over THEN @ ELSE 0]
  /\ IF Over /\ Hears
     THEN /\ ue' = Pressed(ue, {b})
          /\ mouse' = IF mouse.scheme = "locked" THEN mouse
                      ELSE HoveringDown(mouse, b)
     ELSE UNCHANGED <<mouse, ue>>
  /\ UNCHANGED keys

\* Whether a listener of mouseup gets the event: it bubbles to the window.
Delivered == "window" \in mouse.up \/ ("element" \in mouse.up /\ Over)

\* onMouseUp of both schemes
MouseUp(b) ==
  /\ b \in page.held
  /\ page' = [page EXCEPT !.held = @ \ {b}, !.aimed = FALSE,
                          !.clicks = IF b # Primary \/ ~page.aimed THEN 0
                                     ELSE IF @ = 2 THEN 1 ELSE @ + 1]
  /\ IF Delivered /\ Hears
     THEN /\ ue' = Released(ue, {b})
          /\ mouse' = IF mouse.scheme = "locked" THEN mouse
                      ELSE HoveringUp(mouse, b)
     ELSE UNCHANGED <<mouse, ue>>
  /\ UNCHANGED keys

\* Mutant: the press of a double click is never released.
PressedTwice(u) == Told(u, {Primary}, {})

\* MouseDouble, a press to Unreal, and the MouseUp the flag asks for.
DoublyClicked(u) ==
  Told(u, {Primary}, IF mouse.releases THEN {Primary} ELSE {})

\* onMouseDblClick of both schemes
DoubleClick ==
  /\ page.clicks = 2 /\ Primary \notin page.held /\ Over
  /\ page' = [page EXCEPT !.clicks = 0]
  /\ ue' = IF Hears THEN DoublyClicked(ue) ELSE ue
  /\ UNCHANGED <<mouse, keys>>

-----------------------------------------------------------------------------
(* The pointer lock and the keyboard.                                      *)

\* onRequestLock, on a click, and the locked half of onLockStateChange
Lock ==
  /\ mouse.scheme = "locked" /\ mouse.registered
  /\ page.inside /\ ~page.locked /\ page.clicks # 0
  /\ page' = [page EXCEPT !.locked = TRUE]
  /\ UNCHANGED <<mouse, keys, ue>>

\* onLockStateChange: a KeyUp for every active key.
Unlock ==
  /\ page.locked
  /\ page' = [page EXCEPT !.locked = FALSE, !.clicks = 0]
  /\ ue' = [ue EXCEPT !.keys = @ \ keys.active]
  /\ UNCHANGED <<mouse, keys>>

\* handleOnKeyDown; nothing takes a key out of activeKeys again.
KeyDown(k) ==
  /\ k \notin keys.held
  /\ keys' = [keys EXCEPT !.held = @ \cup {k},
                          !.active = IF keys.registered THEN @ \cup {k} ELSE @]
  /\ ue' = [ue EXCEPT !.keys = IF keys.registered THEN @ \cup {k} ELSE @]
  /\ UNCHANGED <<mouse, page>>

\* handleOnKeyUp; a document that lost the focus does not hear it.
KeyUp(k, focused) ==
  /\ k \in keys.held
  /\ keys' = [keys EXCEPT !.held = @ \ {k}]
  /\ ue' = [ue EXCEPT !.keys = IF keys.registered /\ focused THEN @ \ {k} ELSE @]
  /\ UNCHANGED <<mouse, page>>

-----------------------------------------------------------------------------
Init ==
  /\ \E releases \in BOOLEAN :
       mouse = [scheme |-> "hovering", releases |-> releases, registered |-> FALSE,
                up |-> {}, pressed |-> {}]
  /\ page = [inside |-> FALSE, locked |-> FALSE, ready |-> FALSE, held |-> {},
             aimed |-> FALSE, clicks |-> 0]
  /\ keys = [registered |-> FALSE, held |-> {}, active |-> {}]
  /\ ue = [buttons |-> {}, keys |-> {}, untold |-> {}]

Next ==
  \/ \E b \in BOOLEAN, scheme \in {"hovering", "locked"} :
       SetMouseInputEnabled(b, scheme)
  \/ \E b \in BOOLEAN :
       SetKeyboardInputEnabled(b) \/ VideoReady(b)
  \/ MouseEnter \/ MouseLeave \/ DoubleClick \/ Lock \/ Unlock
  \/ \E b \in Buttons : MouseDown(b) \/ MouseUp(b)
  \/ \E k \in Keys, focused \in BOOLEAN : KeyDown(k) \/ KeyUp(k, focused)

Spec == Init /\ [][Next]_vars

-----------------------------------------------------------------------------
(* Properties.                                                             *)

\* Unreal never holds a button the user has let go of, through any order of
\* presses, double clicks, leaving with a button down and coming back, with the
\* exceptions the code makes: a video that stopped being ready or a controller
\* that was replaced while the button was down.
NothingSticks ==
  mouse.releases => ue.buttons \subseteq page.held \cup ue.untold

\* MouseControllerHovering.ts:23-25 says the move and up listeners hang on the
\* window "so the press is tracked even when the cursor leaves the element": a
\* button in pressedButtons that is still held is down in Unreal.
PressIsTracked ==
  Hears => mouse.pressed \cap page.held \subseteq ue.buttons \cup ue.untold
=============================================================================
