------------------------------- MODULE Touches -------------------------------
(***************************************************************************)
(* Touch input of the player page: TouchController.ts, which gives every   *)
(* touch a finger number, and TouchControllerFake.ts, which turns one touch*)
(* into the mouse's main button.  Unreal is external: it keeps what the    *)
(* messages leave down.  Positions and forces are left out.                *)
(***************************************************************************)
EXTENDS Integers, FiniteSets, Functions

CONSTANTS
  Touch,       \* touch identifiers of the browser
  Fingers,     \* finger numbers: 0 .. 9
  MaxMisses    \* bound: times the video stops being ready, touches cancelled

\* A definition whose comment says "Mutant" is a faulty variant of the one below it.

VARIABLES
  screen,  \* the touches on the element, and whether the video is ready
  table,   \* the TouchController: fingers and fingerIds
  fake,    \* the TouchControllerFake: fakeTouchFinger
  ue,      \* Unreal: the fingers and the main button that are down
  left     \* what may still go wrong

vars == <<screen, table, fake, ue, left>>

None == -1  \* undefined

Screen == [touches: SUBSET Touch, ready: BOOLEAN]

\* `holes`: entries of the array `fingers` that are undefined; sort puts them
\* last, where the next pop finds them.  `ids` is the map fingerIds.
Table ==
  [registered: BOOLEAN, fingers: SUBSET Fingers, holes: Nat,
   ids: UNION {[T -> Fingers \cup {None}] : T \in SUBSET Touch}]

Fake == [registered: BOOLEAN, finger: Touch \cup {None}]

Unreal == [fingers: SUBSET Fingers, button: BOOLEAN]

New == [registered |-> TRUE, fingers |-> Fingers, holes |-> 0, ids |-> << >>]

\* What a finger number becomes in its byte of the message.
Wire(finger) == IF finger = None THEN 0 ELSE finger

Id(t) == IF t \in DOMAIN table.ids THEN table.ids[t] ELSE None

Lowest(F) == CHOOSE f \in F : \A g \in F : f <= g

\* Mutant: the finger stays among those that can be given.
Peeked(c) == [finger |-> Lowest(c.fingers), left |-> c]

\* The end of the array `fingers`: the lowest number, behind any hole.
Popped(c) ==
  CASE c.holes > 0 -> [finger |-> None, left |-> [c EXCEPT !.holes = @ - 1]]
    [] c.holes = 0 /\ c.fingers = {} -> [finger |-> None, left |-> c]
    [] OTHER -> [finger |-> Lowest(c.fingers),
                 left |-> [c EXCEPT !.fingers = @ \ {Lowest(c.fingers)}]]

\* rememberTouch
Remembered(c, t) ==
  LET p == Popped(c)
  IN  [p.left EXCEPT !.ids =
        [u \in DOMAIN c.ids \cup {t} |-> IF u = t THEN p.finger ELSE c.ids[u]]]

\* forgetTouch
Forgotten(c, t) ==
  LET f == Id(t)
      d == IF f = None THEN [c EXCEPT !.holes = @ + 1]
           ELSE [c EXCEPT !.fingers = @ \cup {f}]
  IN  [d EXCEPT !.ids = Restrict(@, DOMAIN c.ids \ {t})]

\* onTouchStart and onTouchEnd of TouchControllerFake.ts
Faked(f, t) == IF f.registered /\ f.finger = None THEN [f EXCEPT !.finger = t] ELSE f

Unfaked(f, t) == IF f.registered /\ f.finger = t THEN [f EXCEPT !.finger = None] ELSE f

\* emitTouchData: what Unreal has down once it has the message of one touch.
Emitted(type, finger) ==
  IF type = "TouchStart" THEN ue.fingers \cup {Wire(finger)} ELSE ue.fingers \ {Wire(finger)}

-----------------------------------------------------------------------------
\* setTouchInputEnabled: a new controller, of the kind the flag asks for.
SetTouchInputEnabled(enabled, kind) ==
  /\ table' = IF enabled /\ kind = "real" THEN New
              ELSE [table EXCEPT !.registered = FALSE]
  /\ fake' = IF enabled /\ kind = "fake"
             THEN [registered |-> TRUE, finger |-> None]
             ELSE [fake EXCEPT !.registered = FALSE]
  /\ UNCHANGED <<screen, ue, left>>

VideoReady(ready) ==
  /\ screen.ready # ready
  /\ ready \/ left > 0
  /\ left' = IF ready THEN left ELSE left - 1
  /\ screen' = [screen EXCEPT !.ready = ready]
  /\ UNCHANGED <<table, fake, ue>>

\* onTouchStart of both
TouchStart(t) ==
  /\ t \notin screen.touches
  /\ screen' = [screen EXCEPT !.touches = @ \cup {t}]
  /\ IF ~screen.ready THEN UNCHANGED <<table, fake, ue>>
     ELSE LET c == IF table.registered THEN Remembered(table, t) ELSE table
          IN  /\ table' = c
              /\ fake' = Faked(fake, t)
              /\ ue' = [fingers |-> IF table.registered
                                    THEN Emitted("TouchStart", c.ids[t])
                                    ELSE ue.fingers,
                        button |-> ue.button \/ fake' # fake]
  /\ UNCHANGED left

\* onTouchEnd of both; the other end of a touch, touchcancel, has no listener.
TouchEnd(t, cancelled) ==
  /\ t \in screen.touches
  /\ cancelled => left > 0
  /\ left' = IF cancelled THEN left - 1 ELSE left
  /\ screen' = [screen EXCEPT !.touches = @ \ {t}]
  /\ IF ~screen.ready \/ cancelled THEN UNCHANGED <<table, fake, ue>>
     ELSE /\ table' = IF table.registered THEN Forgotten(table, t) ELSE table
          /\ fake' = Unfaked(fake, t)
          /\ ue' = [fingers |-> IF table.registered
                                THEN Emitted("TouchEnd", Id(t))
                                ELSE ue.fingers,
                    button |-> ue.button /\ fake' = fake]

-----------------------------------------------------------------------------
Init ==
  /\ screen = [touches |-> {}, ready |-> FALSE]
  /\ table = [New EXCEPT !.registered = FALSE]
  /\ fake = [registered |-> FALSE, finger |-> None]
  /\ ue = [fingers |-> {}, button |-> FALSE]
  /\ left = MaxMisses

Next ==
  \/ \E enabled \in BOOLEAN, kind \in {"real", "fake"} :
       SetTouchInputEnabled(enabled, kind)
  \/ \E ready \in BOOLEAN : VideoReady(ready)
  \/ \E t \in Touch : TouchStart(t)
  \/ \E t \in Touch, cancelled \in BOOLEAN : TouchEnd(t, cancelled)

Spec == Init /\ [][Next]_vars

-----------------------------------------------------------------------------
(* Properties.                                                             *)

Named == {t \in screen.touches : t \in DOMAIN table.ids}

\* Two touches on the element never have the same finger number, whatever was
\* lost while the video was not ready, cancelled, or left over from a touch of
\* the same identifier.
NumbersAreDistinct ==
  \A t, u \in Named :
    t # u /\ table.ids[t] # None => table.ids[t] # table.ids[u]

\* TouchController.ts:88 calls the numbers "unique identifiers previously
\* assigned to each touch": as long as there are as many numbers as touches, two
\* touches the page reported reach Unreal as two fingers.
FingersAreUnique ==
  \A t, u \in Named : t # u => Wire(table.ids[t]) # Wire(table.ids[u])
=============================================================================
