---------------------------- MODULE BrowserProofs ----------------------------
(***************************************************************************)
(* The player page's invariants, for any values of its components'         *)
(* parameters.  Each component's invariant is kept by its steps; a step of *)
(* the page is one of its components', and a stutter of the others.        *)
(***************************************************************************)
EXTENDS Browser, Sequences, FiniteSetTheorems, WellFoundedInduction, TLAPS

-----------------------------------------------------------------------------
(* Mouse: what Unreal has down, the user holds or the page could not tell. *)

MouseTypes ==
  /\ mouse = [scheme |-> mouse.scheme, releases |-> mouse.releases,
              registered |-> mouse.registered, up |-> mouse.up, pressed |-> mouse.pressed]
  /\ mouse.up \subseteq {"element", "window"}
  /\ mousePage =
       [inside |-> mousePage.inside, locked |-> mousePage.locked, ready |-> mousePage.ready,
        held |-> mousePage.held, aimed |-> mousePage.aimed, clicks |-> mousePage.clicks]
  /\ mouseUe = [buttons |-> mouseUe.buttons, keys |-> mouseUe.keys, untold |-> mouseUe.untold]

\* A listener hangs somewhere while the mouse is registered; a locked pointer stays over
\* the element; and what is down when the page does not hear of it, or while the pointer
\* is away, is what it could not tell.
MouseInv ==
  /\ MouseTypes
  /\ mouse.registered => mouse.up # {}
  /\ mousePage.locked => mousePage.inside
  /\ ~Rodent!Hears => mouseUe.buttons \subseteq mouseUe.untold
  /\ mouse.releases =>
       /\ Rodent!NothingSticks
       /\ ~mousePage.inside => mouseUe.buttons \subseteq mouseUe.untold

LEMMA MouseInit == Rodent!Init => MouseInv
BY DEF Rodent!Init, MouseInv, MouseTypes, Rodent!Hears, Rodent!NothingSticks

\* What the schemes keep of the buttons does not change where the page listens but for
\* the window in place of the element.
LEMMA HoveringFacts ==
  ASSUME MouseTypes, NEW c,
         NEW m \in {mouse, Rodent!HoveringDown(mouse, c), Rodent!HoveringUp(mouse, c)}
  PROVE  /\ m = [scheme |-> m.scheme, releases |-> m.releases,
                 registered |-> m.registered, up |-> m.up, pressed |-> m.pressed]
         /\ m.releases = mouse.releases /\ m.registered = mouse.registered
         /\ m.up \subseteq {"element", "window"} /\ (mouse.up # {} => m.up # {})
BY DEF MouseTypes, Rodent!HoveringDown, Rodent!HoveringUp, Rodent!Captured, Rodent!Let

LEMMA MouseStep ==
  ASSUME MouseInv, [Rodent!Next]_mouseVars
  PROVE  MouseInv'
<1> USE DEF MouseInv, MouseTypes, Rodent!Hears, Rodent!NothingSticks
<1>1. ASSUME NEW e \in BOOLEAN, NEW scheme \in {"hovering", "locked"},
             Rodent!SetMouseInputEnabled(e, scheme)
      PROVE  MouseInv'
  BY <1>1 DEF Rodent!SetMouseInputEnabled, Rodent!Registered, Rodent!Unregistered,
              Rodent!Listening, Rodent!GivenBack
<1>2. ASSUME NEW e \in BOOLEAN, Rodent!SetKeyboardInputEnabled(e) PROVE MouseInv'
  BY <1>2 DEF Rodent!SetKeyboardInputEnabled
<1>3. ASSUME NEW ready \in BOOLEAN, Rodent!VideoReady(ready) PROVE MouseInv'
  BY <1>3 DEF Rodent!VideoReady
<1>4. CASE Rodent!MouseEnter
  BY <1>4 DEF Rodent!MouseEnter, Rodent!Pressed, Rodent!Told
<1>5. CASE Rodent!MouseLeave
  BY <1>5 DEF Rodent!MouseLeave, Rodent!Released, Rodent!Told
<1>6. CASE Rodent!DoubleClick
  BY <1>6 DEF Rodent!DoubleClick, Rodent!DoublyClicked, Rodent!Told, Rodent!Over
<1>7. CASE Rodent!Lock
  BY <1>7 DEF Rodent!Lock
<1>8. CASE Rodent!Unlock
  BY <1>8 DEF Rodent!Unlock
<1>9. ASSUME NEW c \in MouseButtons, Rodent!MouseDown(c) PROVE MouseInv'
  <2>1. mouse' \in {mouse, Rodent!HoveringDown(mouse, c), Rodent!HoveringUp(mouse, c)}
    BY <1>9 DEF Rodent!MouseDown
  <2>2. /\ mousePage'.held = mousePage.held \cup {c}
        /\ mousePage' = [mousePage EXCEPT !.held = mousePage'.held,
                          !.aimed = mousePage'.aimed, !.clicks = mousePage'.clicks]
    BY <1>9 DEF Rodent!MouseDown
  <2>3. IF Rodent!Over /\ Rodent!Hears
        THEN mouseUe' = Rodent!Pressed(mouseUe, {c}) ELSE mouse' = mouse /\ mouseUe' = mouseUe
    BY <1>9 DEF Rodent!MouseDown
  <2>b. mouse' = [scheme |-> mouse'.scheme, releases |-> mouse'.releases,
                  registered |-> mouse'.registered, up |-> mouse'.up,
                  pressed |-> mouse'.pressed]
        /\ mouse'.up \subseteq {"element", "window"}
    BY <2>1, HoveringFacts
  <2>c. mousePage' =
          [inside |-> mousePage'.inside, locked |-> mousePage'.locked,
           ready |-> mousePage'.ready, held |-> mousePage'.held,
           aimed |-> mousePage'.aimed, clicks |-> mousePage'.clicks]
    BY <2>2
  <2>d. mouseUe' = [buttons |-> mouseUe'.buttons, keys |-> mouseUe'.keys,
                    untold |-> mouseUe'.untold]
    BY <2>3 DEF Rodent!Pressed, Rodent!Told
  <2>4. MouseTypes'
    BY <2>b, <2>c, <2>d
  <2>5. mouse'.releases = mouse.releases /\ mouse'.registered = mouse.registered
        /\ (mouse.up # {} => mouse'.up # {})
    BY <2>1, HoveringFacts
  <2>6. IF Rodent!Over /\ Rodent!Hears
        THEN /\ mouseUe'.buttons = mouseUe.buttons \cup {c}
             /\ mouseUe'.untold = mouseUe.untold \ {c}
        ELSE mouseUe' = mouseUe
    BY <2>3 DEF Rodent!Pressed, Rodent!Told
  <2>7. /\ mousePage'.locked = mousePage.locked /\ mousePage'.inside = mousePage.inside
        /\ mousePage'.ready = mousePage.ready /\ mousePage'.held = mousePage.held \cup {c}
    BY <2>2
  <2> QED BY <2>4, <2>5, <2>6, <2>7 DEF Rodent!Over
<1>10. ASSUME NEW c \in MouseButtons, Rodent!MouseUp(c) PROVE MouseInv'
  <2>1. mouse' \in {mouse, Rodent!HoveringDown(mouse, c), Rodent!HoveringUp(mouse, c)}
    BY <1>10 DEF Rodent!MouseUp
  <2>2. ~(Rodent!Delivered /\ Rodent!Hears) /\ mouse.releases =>
          mouseUe.buttons \subseteq mouseUe.untold
    BY DEF Rodent!Delivered, Rodent!Over
  <2>3. /\ mousePage'.held = mousePage.held \ {c}
        /\ mousePage' = [mousePage EXCEPT !.held = mousePage'.held,
                          !.aimed = mousePage'.aimed, !.clicks = mousePage'.clicks]
    BY <1>10 DEF Rodent!MouseUp
  <2>4. IF Rodent!Delivered /\ Rodent!Hears
        THEN mouseUe' = Rodent!Released(mouseUe, {c}) ELSE mouse' = mouse /\ mouseUe' = mouseUe
    BY <1>10 DEF Rodent!MouseUp
  <2>b. mouse' = [scheme |-> mouse'.scheme, releases |-> mouse'.releases,
                  registered |-> mouse'.registered, up |-> mouse'.up,
                  pressed |-> mouse'.pressed]
        /\ mouse'.up \subseteq {"element", "window"}
    BY <2>1, HoveringFacts
  <2>c. mousePage' =
          [inside |-> mousePage'.inside, locked |-> mousePage'.locked,
           ready |-> mousePage'.ready, held |-> mousePage'.held,
           aimed |-> mousePage'.aimed, clicks |-> mousePage'.clicks]
    BY <2>3
  <2>d. mouseUe' = [buttons |-> mouseUe'.buttons, keys |-> mouseUe'.keys,
                    untold |-> mouseUe'.untold]
    BY <2>4 DEF Rodent!Released, Rodent!Told
  <2>5. MouseTypes'
    BY <2>b, <2>c, <2>d
  <2>6. mouse'.releases = mouse.releases /\ mouse'.registered = mouse.registered
        /\ (mouse.up # {} => mouse'.up # {})
    BY <2>1, HoveringFacts
  <2>a. IF Rodent!Delivered /\ Rodent!Hears
        THEN /\ mouseUe'.buttons = mouseUe.buttons \ {c}
             /\ mouseUe'.untold = mouseUe.untold \ {c}
        ELSE mouseUe' = mouseUe
    BY <2>4 DEF Rodent!Released, Rodent!Told
  <2>7. /\ mouseUe.buttons \subseteq mouseUe.untold =>
             mouseUe'.buttons \subseteq mouseUe'.untold
        /\ mouse.releases => mouseUe'.buttons \subseteq mousePage'.held \cup mouseUe'.untold
    BY <2>2, <2>3, <2>a
  <2>8. /\ mousePage'.locked = mousePage.locked /\ mousePage'.inside = mousePage.inside
        /\ mousePage'.ready = mousePage.ready
    BY <2>3
  <2> QED BY <2>5, <2>6, <2>7, <2>8
<1>11. ASSUME NEW k \in Keys, Rodent!KeyDown(k) PROVE MouseInv'
  BY <1>11 DEF Rodent!KeyDown
<1>12. ASSUME NEW k \in Keys, NEW focused \in BOOLEAN, Rodent!KeyUp(k, focused)
       PROVE  MouseInv'
  BY <1>12 DEF Rodent!KeyUp
<1>13. CASE UNCHANGED mouseVars
  BY <1>13 DEF mouseVars
<1> QED
  BY <1>1, <1>2, <1>3, <1>4, <1>5, <1>6, <1>7, <1>8, <1>9, <1>10, <1>11, <1>12, <1>13
  DEF Rodent!Next

-----------------------------------------------------------------------------
(* Touches: who has a finger number.                                       *)

\* Any touch the table knows has a number of its own, which it cannot give.
TouchInv ==
  /\ table = [registered |-> table.registered, fingers |-> table.fingers,
              holes |-> table.holes, ids |-> table.ids]
  /\ table.fingers \subseteq Fingers /\ table.holes \in Nat
  /\ \A t \in DOMAIN table.ids :
       table.ids[t] # Fingering!None =>
         /\ table.ids[t] \in Fingers \ table.fingers
         /\ \A u \in DOMAIN table.ids : t # u => table.ids[t] # table.ids[u]

\* Some number is the least of a set of them.
LEMMA Least == ASSUME NEW S \in SUBSET Nat, S # {} PROVE \E m \in S : \A k \in S : m <= k
<1> DEFINE T == {0 .. k - 1 : k \in S}
<1>1. T \subseteq FiniteSubsetsOf(Nat) /\ T # {}
  <2>1. ASSUME NEW k \in S PROVE IsFiniteSet(0 .. k - 1) /\ 0 .. k - 1 \subseteq Nat
    BY FS_Interval
  <2> QED BY <2>1 DEF FiniteSubsetsOf
<1>2. PICK t \in T : \A s \in T : <<s, t>> \notin StrictSubsetOrdering(Nat)
  BY <1>1, WFMin, FS_StrictSubsetOrderingWellFounded
<1>3. PICK m \in S : t = 0 .. m - 1
  OBVIOUS
<1>4. ASSUME NEW k \in S, k < m PROVE FALSE
  <2>1. 0 .. k - 1 \subseteq 0 .. m - 1 /\ k \in 0 .. m - 1 /\ k \notin 0 .. k - 1
    BY <1>4
  <2>2. <<0 .. k - 1, t>> \in StrictSubsetOrdering(Nat)
    BY <2>1, <1>3, <1>1 DEF StrictSubsetOrdering
  <2> QED BY <2>2, <1>2
<1> QED BY <1>3, <1>4

LEMMA TouchInit == Fingering!Init => TouchInv
<1>1. DOMAIN << >> = {}
  OBVIOUS
<1>2. ASSUME Fingering!Init
      PROVE  table = [registered |-> FALSE, fingers |-> Fingers, holes |-> 0, ids |-> << >>]
  BY <1>2 DEF Fingering!Init, Fingering!New
<1> QED BY <1>1, <1>2 DEF TouchInv

LEMMA TouchStep ==
  ASSUME TouchInv, [Fingering!Next]_touchVars
  PROVE  TouchInv'
<1> USE DEF TouchInv, Fingering!None
<1>1. ASSUME NEW e \in BOOLEAN, NEW kind \in {"real", "fake"},
             Fingering!SetTouchInputEnabled(e, kind)
      PROVE  TouchInv'
  <2>1. DOMAIN << >> = {}
    OBVIOUS
  <2> QED BY <1>1, <2>1 DEF Fingering!SetTouchInputEnabled, Fingering!New
<1>2. ASSUME NEW ready \in BOOLEAN, Fingering!VideoReady(ready) PROVE TouchInv'
  BY <1>2 DEF Fingering!VideoReady
<1>3. ASSUME NEW t \in Touch, Fingering!TouchStart(t) PROVE TouchInv'
  <2>1. CASE table' = table
    BY <2>1
  <2>2. CASE table' = Fingering!Remembered(table, t)
    <3> DEFINE p == Fingering!Popped(table)
               D == DOMAIN table.ids \cup {t}
    <3>1. /\ p.left = [registered |-> p.left.registered, fingers |-> p.left.fingers,
                       holes |-> p.left.holes, ids |-> table.ids]
          /\ p.left.fingers \subseteq table.fingers
          /\ p.left.holes \in Nat
          /\ p.finger # -1 => p.finger \in table.fingers \ p.left.fingers
      <4>1. table.fingers # {} => Fingering!Lowest(table.fingers) \in table.fingers
        <5>1. ASSUME table.fingers # {}
              PROVE  \E m \in table.fingers : \A k \in table.fingers : m <= k
          BY <5>1, Least, FingerAssumption
        <5> QED BY <5>1 DEF Fingering!Lowest
      <4>2. CASE table.holes > 0
        BY <4>2 DEF Fingering!Popped
      <4>3. CASE table.holes = 0 /\ table.fingers = {}
        BY <4>3 DEF Fingering!Popped
      <4>4. CASE table.holes = 0 /\ table.fingers # {}
        <5> DEFINE f == Fingering!Lowest(table.fingers)
        <5>1. p = [finger |-> f, left |-> [table EXCEPT !.fingers = @ \ {f}]]
          BY <4>4 DEF Fingering!Popped
        <5> HIDE DEF f, p
        <5>2. f \in table.fingers
          BY <4>1, <4>4 DEF f
        <5> QED BY <5>1, <5>2
      <4> QED BY <4>2, <4>3, <4>4
    <3> HIDE DEF p
    <3>2. table' = [p.left EXCEPT !.ids =
                      [u \in D |-> IF u = t THEN p.finger ELSE table.ids[u]]]
      BY <2>2 DEF Fingering!Remembered, p
    <3>3. /\ table' = [registered |-> table'.registered, fingers |-> table'.fingers,
                       holes |-> table'.holes, ids |-> table'.ids]
          /\ table'.fingers = p.left.fingers /\ table'.holes = p.left.holes
          /\ table'.ids = [u \in D |-> IF u = t THEN p.finger ELSE table.ids[u]]
      BY <3>1, <3>2
    <3>4. DOMAIN table'.ids = D
      BY <3>3
    <3>5. \A u \in D : table'.ids[u] = IF u = t THEN p.finger ELSE table.ids[u]
      BY <3>3
    <3> QED BY <3>1, <3>3, <3>4, <3>5
  <2> QED BY <1>3, <2>1, <2>2 DEF Fingering!TouchStart
<1>4. ASSUME NEW t \in Touch, NEW cancelled \in BOOLEAN, Fingering!TouchEnd(t, cancelled)
      PROVE  TouchInv'
  <2>1. CASE table' = table
    BY <2>1
  <2>2. CASE table' = Fingering!Forgotten(table, t)
    <3> DEFINE D == DOMAIN table.ids \ {t}
    <3>0. Fingering!Restrict(table.ids, D) = [u \in D |-> table.ids[u]]
      BY DEF Fingering!Restrict
    <3>1. /\ table' = [registered |-> table'.registered, fingers |-> table'.fingers,
                       holes |-> table'.holes, ids |-> table'.ids]
          /\ table'.holes \in Nat
          /\ table'.fingers = IF Fingering!Id(t) = -1 THEN table.fingers
                              ELSE table.fingers \cup {Fingering!Id(t)}
          /\ table'.ids = [u \in D |-> table.ids[u]]
      <4>1. CASE Fingering!Id(t) = -1
        <5> DEFINE ids == Fingering!Restrict(table.ids, D)
        <5>1. table' = [[table EXCEPT !.holes = @ + 1] EXCEPT !.ids = ids]
          BY <2>2, <4>1 DEF Fingering!Forgotten
        <5> HIDE DEF ids
        <5>2. table' = [registered |-> table.registered, fingers |-> table.fingers,
                        holes |-> table.holes + 1, ids |-> ids]
          BY <5>1
        <5> QED BY <5>2, <3>0, <4>1 DEF ids
      <4>2. CASE Fingering!Id(t) # -1
        BY <2>2, <3>0, <4>2 DEF Fingering!Forgotten
      <4> QED BY <4>1, <4>2
    <3>2. DOMAIN table'.ids = D /\ \A u \in D : table'.ids[u] = table.ids[u]
      BY <3>1
    <3>3. Fingering!Id(t) # -1 =>
            t \in DOMAIN table.ids /\ Fingering!Id(t) = table.ids[t]
      BY DEF Fingering!Id
    <3> QED BY <3>1, <3>2, <3>3
  <2> QED BY <1>4, <2>1, <2>2 DEF Fingering!TouchEnd
<1>5. CASE UNCHANGED touchVars
  BY <1>5 DEF touchVars
<1> QED BY <1>1, <1>2, <1>3, <1>4, <1>5 DEF Fingering!Next

LEMMA TouchSound == TouchInv => Fingering!NumbersAreDistinct
BY DEF TouchInv, Fingering!NumbersAreDistinct, Fingering!Named

-----------------------------------------------------------------------------
(* Gamepads: the frame the polling waits for.                              *)

Shaped(x) ==
  x = [registered |-> x.registered, gen |-> x.gen, handle |-> x.handle, pads |-> x.pads,
       prev |-> x.prev]

PadInv ==
  /\ Shaped(ctl)
  /\ ctl.pads = [p \in Indices |-> ctl.pads[p]]
  /\ ctl.handle => ctl.registered /\ ctl.gen \in frames
  /\ ctl.registered /\ Padding!Some(ctl) => ctl.handle

LEMMA PadInit == Padding!Init => PadInv
BY DEF Padding!Init, PadInv, Padding!Empty, Padding!Some, Shaped

\* scheduleUpdate asks for the frame that is missing.
LEMMA Scheduled ==
  ASSUME NEW c, NEW fs, Padding!Schedule(c, fs), Shaped(c),
         c.pads = [p \in Indices |-> c.pads[p]],
         c.handle => c.registered /\ c.gen \in fs
  PROVE  PadInv'
BY DEF Padding!Schedule, PadInv, Padding!Wanted, Padding!Some, Shaped

LEMMA PadStep ==
  ASSUME PadInv, [Padding!Next]_gamepadVars
  PROVE  PadInv'
<1>0. Shaped(ctl) /\ ctl.pads = [p \in Indices |-> ctl.pads[p]]
  BY DEF PadInv
<1>1. CASE Padding!Register
  <2> DEFINE there == [p \in Indices |-> IF p \in hw.there THEN Padding!Asked
                                         ELSE Padding!None]
             down == hw.there \cap hw.down
             c == [ctl EXCEPT !.registered = TRUE, !.gen = @ + 1, !.pads = there,
                              !.prev = down]
  <2>1. Padding!Schedule(c, frames)
    BY <1>1 DEF Padding!Register
  <2>2. there = [p \in Indices |-> there[p]]
    OBVIOUS
  <2>3. ~ctl.handle
    BY <1>1 DEF PadInv, Padding!Register
  <2> HIDE DEF there, down
  <2>4. c = [ctl EXCEPT !.registered = TRUE, !.gen = @ + 1, !.pads = there, !.prev = down]
    OBVIOUS
  <2> HIDE DEF c
  <2>5. Shaped(c) /\ c.pads = there /\ c.handle = ctl.handle
    BY <1>0, <2>4 DEF Shaped
  <2> QED BY <2>1, <2>2, <2>3, <2>5, Scheduled
<1>2. CASE Padding!Unregister
  BY <1>2 DEF Padding!Unregister, Padding!Closed, Padding!Empty, PadInv, Shaped
<1>3. CASE Padding!BeforeUnload
  BY <1>3 DEF Padding!BeforeUnload, PadInv, Padding!Some, Shaped
<1>4. ASSUME NEW id, Padding!Response(id) PROVE PadInv'
  <2>1. CASE ctl' = ctl
    BY <1>4, <2>1 DEF Padding!Response, PadInv, Padding!Some, Shaped
  <2>2. CASE ctl' # ctl
    <3> DEFINE waiting == {p \in Indices : ctl.pads[p] = Padding!Asked}
               w == CHOOSE p \in waiting : \A q \in waiting : p <= q
    <3>1. waiting # {} /\ ctl' = [ctl EXCEPT !.pads[w] = id] /\ frames' = frames
      BY <1>4, <2>2 DEF Padding!Response
    <3>2. Padding!Some(ctl)
      BY <3>1 DEF Padding!Some, Padding!Asked, Padding!None
    <3> HIDE DEF waiting, w
    <3> QED BY <3>1, <3>2 DEF PadInv, Shaped
  <2> QED BY <2>1, <2>2
<1>5. ASSUME NEW p \in Indices, Padding!PluggedIn(p) PROVE PadInv'
  <2> DEFINE c == Padding!Added(ctl, p)
  <2>1. /\ Shaped(c)
        /\ c.pads = [q \in Indices |-> c.pads[q]]
        /\ c.handle => c.registered /\ c.gen \in frames
    BY DEF PadInv, Padding!Added, Shaped
  <2> HIDE DEF c
  <2> QED BY <1>5, <2>1, Scheduled DEF Padding!PluggedIn, c
<1>6. ASSUME NEW p \in Indices, Padding!PulledOut(p) PROVE PadInv'
  BY <1>6 DEF Padding!PulledOut, PadInv, Padding!Some, Shaped
<1>7. ASSUME NEW p \in Indices, Padding!Button(p) PROVE PadInv'
  BY <1>7 DEF Padding!Button, PadInv, Padding!Some, Shaped
<1>8. ASSUME NEW gen, Padding!Frame(gen) PROVE PadInv'
  <2>1. CASE ~ctl.registered \/ gen # ctl.gen
    BY <1>8, <2>1 DEF Padding!Frame, PadInv, Padding!Some, Shaped
  <2>2. CASE ~(~ctl.registered \/ gen # ctl.gen)
    <3> DEFINE down == {p \in hw.down : ctl.pads[p] # Padding!None}
               c == [ctl EXCEPT !.handle = FALSE, !.prev = down]
    <3>1. Padding!Schedule(c, frames \ {gen})
      BY <1>8, <2>2 DEF Padding!Frame
    <3> HIDE DEF down
    <3>2. c = [ctl EXCEPT !.handle = FALSE, !.prev = down]
      OBVIOUS
    <3> HIDE DEF c
    <3>3. Shaped(c) /\ c.pads = ctl.pads /\ c.handle = FALSE
      BY <1>0, <3>2 DEF Shaped
    <3> QED BY <1>0, <3>1, <3>3, Scheduled
  <2> QED BY <2>1, <2>2
<1>9. CASE UNCHANGED gamepadVars
  BY <1>9 DEF gamepadVars, PadInv, Padding!Some, Shaped
<1> QED BY <1>1, <1>2, <1>3, <1>4, <1>5, <1>6, <1>7, <1>8, <1>9 DEF Padding!Next

LEMMA PadSound == PadInv => Padding!PadsArePolled
BY DEF PadInv, Padding!PadsArePolled

-----------------------------------------------------------------------------
(* XrSession: the controllers as they were last seen.                      *)

Held == [down: SUBSET XrButtons, axis: {0, 1}]

XrInv ==
  /\ pads \in [Hands -> Held] /\ shown \in [Hands -> Held]
  /\ seen \in [Hands -> Held \cup {Nil}]
  /\ \A h \in Hands :
       /\ seen[h] # Nil => shown[h].down = seen[h].down
       /\ seen[h] = Nil => shown[h].down = {}
  /\ Xr!LoopLives

LEMMA XrInit == Xr!Init => XrInv
BY DEF Xr!Init, XrInv, Xr!Resting, Held, Xr!LoopLives

LEMMA StatusFacts ==
  ASSUME XrInv, NEW h \in Hands
  PROVE  Xr!UpdateStatus(h) \in Held /\ Xr!UpdateStatus(h).down = pads[h].down
<1>1. pads[h] \in Held /\ shown[h] \in Held /\ seen[h] \in Held \cup {Nil}
  BY DEF XrInv
<1>2. Xr!Previous(h) \in Held
  BY <1>1 DEF Xr!Previous
<1>3. seen[h] # Nil => Xr!Previous(h).down = shown[h].down
  BY DEF Xr!Previous, XrInv
<1>4. seen[h] = Nil => Xr!Previous(h).down = pads[h].down /\ shown[h].down = {}
  BY DEF Xr!Previous, XrInv
<1>5. Xr!UpdateStatus(h).down =
        (shown[h].down \cup pads[h].down) \ (Xr!Previous(h).down \ pads[h].down)
  BY DEF Xr!UpdateStatus
<1>6. Xr!UpdateStatus(h).down = pads[h].down
  BY <1>3, <1>4, <1>5
<1>7. Xr!UpdateStatus(h) \in Held
  BY <1>1, <1>2 DEF Xr!UpdateStatus, Held
<1> QED BY <1>6, <1>7

LEMMA XrStep ==
  ASSUME XrInv, [Xr!Next]_xrVars
  PROVE  XrInv'
<1>1. ASSUME UNCHANGED <<pads, seen, shown>>, Xr!LoopLives' PROVE XrInv'
  BY <1>1 DEF XrInv
<1>2. CASE Xr!XrClicked \/ Xr!Refused \/ Xr!OnXrSessionStarted \/ Xr!SpaceOpens
             \/ Xr!OnXrSessionEnded \/ Xr!FlagChanges
  BY <1>1, <1>2 DEF XrInv, Xr!LoopLives, Xr!XrClicked, Xr!Refused, Xr!OnXrSessionStarted,
                    Xr!SpaceOpens, Xr!OnXrSessionEnded, Xr!FlagChanges
<1>3. ASSUME NEW size, Xr!VideoChanges(size) PROVE XrInv'
  BY <1>1, <1>3 DEF XrInv, Xr!LoopLives, Xr!VideoChanges
<1>4. ASSUME NEW pose \in Xr!Poses, NEW tracked \in SUBSET Hands, Xr!OnXrFrame(pose, tracked)
      PROVE  XrInv'
  <2>1. Xr!LoopLives'
    BY <1>4, HeadsetAssumption DEF Xr!OnXrFrame, Xr!Returns, Xr!UpdateViews, Xr!LoopLives,
                                   Xr!Poses
  <2>2. CASE UNCHANGED <<shown, seen>>
    BY <1>1, <1>4, <2>1, <2>2 DEF Xr!OnXrFrame
  <2>3. CASE Xr!UpdateControllers(tracked)
    <3>1. pads' = pads BY <1>4 DEF Xr!OnXrFrame
    <3>2. /\ shown' = [h \in Hands |-> IF h \in tracked THEN Xr!UpdateStatus(h) ELSE shown[h]]
          /\ seen' = [h \in Hands |-> IF h \in tracked THEN pads[h] ELSE seen[h]]
      BY <2>3 DEF Xr!UpdateControllers
    <3>3. ASSUME NEW h \in Hands
          PROVE  /\ shown'[h] \in Held /\ seen'[h] \in Held \cup {Nil}
                 /\ seen'[h] # Nil => shown'[h].down = seen'[h].down
                 /\ seen'[h] = Nil => shown'[h].down = {}
      BY <3>2, StatusFacts, HeadsetAssumption DEF XrInv, Held
    <3> QED BY <2>1, <3>1, <3>2, <3>3 DEF XrInv
  <2> QED BY <1>4, <2>2, <2>3 DEF Xr!OnXrFrame
<1>5. ASSUME NEW h \in Hands, NEW k \in XrButtons, Xr!PadChanges(h, k) PROVE XrInv'
  <2>1. pads' \in [Hands -> Held]
    BY <1>5 DEF Xr!PadChanges, XrInv, Held
  <2> QED BY <2>1, <1>5 DEF Xr!PadChanges, XrInv, Xr!LoopLives
<1>6. ASSUME NEW h \in Hands, Xr!AxisMoves(h) PROVE XrInv'
  <2>1. pads' \in [Hands -> Held]
    BY <1>6 DEF Xr!AxisMoves, XrInv, Held
  <2> QED BY <2>1, <1>6 DEF Xr!AxisMoves, XrInv, Xr!LoopLives
<1>7. CASE UNCHANGED xrVars
  BY <1>7 DEF xrVars, XrInv, Xr!LoopLives
<1> QED BY <1>2, <1>3, <1>4, <1>5, <1>6, <1>7 DEF Xr!Next

LEMMA XrSound == XrInv => Xr!PadsAreShown /\ Xr!LoopLives
BY DEF XrInv, Xr!PadsAreShown

-----------------------------------------------------------------------------
(* NetworkPath: the path that is held back is under way.                   *)

PathInv ==
  /\ requests \in [Path!Request -> Nat]
  /\ pending # Path!None => \E r \in Path!Request : requests[r] > 0 /\ r.path = pending

LEMMA PathInit == Path!Init => PathInv
BY DEF Path!Init, PathInv

\* What a report is about is a path.
LEMMA PathDerived ==
  ASSUME NEW s \in Path!Stats
  PROVE  Path!DeriveSessionNetworkPathReport(s) \in Path!Kinds \cup {Path!None}
<1>1. s.local \in Path!Ends /\ s.remote \in Path!Ends
  BY DEF Path!Stats
<1>2. ASSUME NEW end \in Path!Ends
      PROVE  Path!CandidateType(end) \in Path!Kinds \cup {Path!None}
  BY DEF Path!CandidateType, Path!Ends
<1>3. s.own \in Path!Kinds \cup {Path!None}
  BY DEF Path!Stats
<1> QED BY <1>1, <1>2, <1>3
        DEF Path!DeriveSessionNetworkPathReport, Path!Known, Path!Kinds

LEMMA PathStep ==
  ASSUME PathInv, [Path!Next]_pathVars
  PROVE  PathInv'
<1>1. ASSUME NEW s \in Path!Stats, Path!StatsReceived(s) PROVE PathInv'
  <2> DEFINE path == Path!DeriveSessionNetworkPathReport(s)
             r == [path |-> path, at |-> "server"]
  <2>1. pending' = path /\ path # Path!None
        /\ requests' = [requests EXCEPT ![r] = @ + 1]
    BY <1>1 DEF Path!StatsReceived, Path!With
  <2>2. path \in Path!Kinds
    BY <2>1, PathDerived
  <2> HIDE DEF path
  <2>3. r \in Path!Request /\ r.path = path
    BY <2>2 DEF Path!Request
  <2> HIDE DEF r
  <2> QED BY <2>1, <2>3 DEF PathInv
<1>2. ASSUME NEW ok \in BOOLEAN, Path!Resolve(ok) PROVE PathInv'
  <2>1. pending' = pending
    BY <1>2 DEF Path!Resolve
  <2>2. CASE requests' = requests
    BY <2>1, <2>2 DEF PathInv
  <2>3. CASE requests' = Path!Failed(requests)
    <3>1. ASSUME NEW r \in Path!Request
          PROVE  /\ [r EXCEPT !.at = "server"] \in Path!Request
                 /\ [r EXCEPT !.at = "failed"] \in Path!Request
                 /\ [r EXCEPT !.at = "failed"].path = r.path
                 /\ [r EXCEPT !.at = "failed"].at = "failed"
                 /\ r.at = "server" => [[r EXCEPT !.at = "failed"] EXCEPT !.at = "server"] = r
                 /\ r.at \in {"server", "ok", "failed"}
      BY DEF Path!Request
    <3>2. ASSUME NEW r \in Path!Request
          PROVE  /\ requests'[r] \in Nat
                 /\ r.at = "ok" => requests'[r] = requests[r]
                 /\ r.at = "failed" =>
                      requests'[r] = requests[r] + requests[[r EXCEPT !.at = "server"]]
      <4> DEFINE w == [r EXCEPT !.at = "server"]
      <4>1. requests'[r] = CASE r.at = "server" -> 0
                             [] r.at = "failed" -> requests[r] + requests[w]
                             [] OTHER -> requests[r]
        BY <2>3 DEF Path!Failed
      <4>2. w \in Path!Request
        BY <3>1
      <4> HIDE DEF w
      <4>3. requests[r] \in Nat /\ requests[w] \in Nat
        BY <4>2 DEF PathInv
      <4>4. CASE r.at = "server"
        BY <4>1, <4>4
      <4>5. CASE r.at = "failed"
        BY <4>1, <4>3, <4>5 DEF w
      <4>6. CASE r.at = "ok"
        BY <4>1, <4>3, <4>6
      <4> QED BY <3>1, <4>4, <4>5, <4>6
    <3>3. requests' \in [Path!Request -> Nat]
      BY <2>3, <3>2 DEF Path!Failed
    <3>4. ASSUME NEW r \in Path!Request, requests[r] > 0
          PROVE  \E q \in Path!Request : requests'[q] > 0 /\ q.path = r.path
      <4>1. CASE r.at = "ok"
        BY <3>2, <3>4, <4>1
      <4>2. CASE r.at = "failed"
        <5>1. requests[r] \in Nat /\ requests[[r EXCEPT !.at = "server"]] \in Nat
          BY <3>1 DEF PathInv
        <5> QED BY <3>2, <3>4, <4>2, <5>1
      <4>3. CASE r.at = "server"
        <5> DEFINE q == [r EXCEPT !.at = "failed"]
        <5>1. q \in Path!Request /\ q.path = r.path /\ q.at = "failed"
              /\ [q EXCEPT !.at = "server"] = r
          BY <3>1, <4>3
        <5> HIDE DEF q
        <5>2. requests'[q] = requests[q] + requests[r] /\ requests[q] \in Nat
              /\ requests[r] \in Nat
          BY <3>2, <5>1 DEF PathInv
        <5> QED BY <3>4, <5>1, <5>2
      <4> QED BY <3>1, <4>1, <4>2, <4>3
    <3> QED BY <2>1, <3>3, <3>4 DEF PathInv
  <2> QED BY <1>2, <2>2, <2>3 DEF Path!Resolve
<1>3. ASSUME NEW r \in Path!UnderWay, NEW ok \in BOOLEAN, Path!WriteInstanceTags(r, ok)
      PROVE  PathInv'
  <2> DEFINE q == [r EXCEPT !.at = IF ok THEN "ok" ELSE "failed"]
  <2>1. pending' = pending
        /\ requests' = [[requests EXCEPT ![r] = @ - 1] EXCEPT ![q] = @ + 1]
    BY <1>3 DEF Path!WriteInstanceTags, Path!With, Path!Without
  <2>2. r \in Path!Request /\ requests[r] > 0 /\ r.at = "server"
    BY <1>3 DEF Path!WriteInstanceTags, Path!UnderWay
  <2>3. q \in Path!Request /\ q.path = r.path /\ q # r
    BY <2>2 DEF Path!Request
  <2> HIDE DEF q
  <2>4. /\ requests' \in [Path!Request -> Nat]
        /\ \A x \in Path!Request : x # r => requests'[x] >= requests[x]
        /\ requests'[q] > 0
    BY <2>1, <2>2, <2>3 DEF PathInv
  <2>5. ASSUME NEW x \in Path!Request, requests[x] > 0, x.path = pending
        PROVE  \E y \in Path!Request : requests'[y] > 0 /\ y.path = pending
    <3>1. requests'[x] \in Nat /\ requests[x] \in Nat
      BY <2>4 DEF PathInv
    <3> QED BY <2>3, <2>4, <2>5, <3>1
  <2> QED BY <2>1, <2>4, <2>5 DEF PathInv
<1>4. ASSUME NEW r \in Path!UnderWay, NEW outcome \in {"ok", "failed", "lost"},
             Path!Answered(r, outcome)
      PROVE  PathInv'
  <2>1. r \in Path!Request /\ requests[r] > 0
    BY DEF Path!UnderWay
  <2>2. requests' = [requests EXCEPT ![r] = @ - 1]
    BY <1>4 DEF Path!Answered, Path!Without
  <2>3. /\ requests' \in [Path!Request -> Nat]
        /\ \A x \in Path!Request : x # r => requests'[x] = requests[x]
    BY <2>1, <2>2 DEF PathInv
  <2>4. pending' = Path!None \/ (pending' = pending /\ pending # r.path)
    BY <1>4 DEF Path!Answered, Path!Settled
  <2> QED BY <2>3, <2>4 DEF PathInv
<1>5. CASE UNCHANGED pathVars
  BY <1>5 DEF pathVars, PathInv
<1> QED BY <1>1, <1>2, <1>3, <1>4, <1>5 DEF Path!Next

LEMMA PathSound == PathInv => Path!PendingIsInFlight
BY DEF PathInv, Path!PendingIsInFlight, Path!UnderWay

-----------------------------------------------------------------------------
(* MediaEvidence: what the page counts, and what it says of its frames.    *)

Message ==
  [type: {"capability", "received"}]
    \cup [type: {"quality"}, time: Nat, video: Nat, covered: Int]
    \cup [type: {"flow"}, frame: BOOLEAN, video: Nat]

Event == {"capability", "received", "confirmed", "not_confirmed"}

Quality(q) ==
  /\ q = [connected |-> q.connected, baseline |-> q.baseline, lastReport |-> q.lastReport,
          latency |-> q.latency, time |-> q.time, video |-> q.video, covered |-> q.covered]
  /\ q.time \in Nat /\ q.video \in Nat /\ q.covered \in Int
  /\ q.baseline.at \in Int /\ q.baseline.video \in Int

EvidenceTypes ==
  /\ evidenceB =
       [open |-> evidenceB.open, gen |-> evidenceB.gen, peer |-> evidenceB.peer,
        quality |-> evidenceB.quality, received |-> evidenceB.received,
        flowGen |-> evidenceB.flowGen, flowAt |-> evidenceB.flowAt,
        flowVideo |-> evidenceB.flowVideo, flowReported |-> evidenceB.flowReported]
  /\ evidenceB.peer = [n |-> evidenceB.peer.n, id |-> evidenceB.peer.id,
                       up |-> evidenceB.peer.up, video |-> evidenceB.peer.video]
  /\ Quality(evidenceB.quality)
  /\ evidenceB.gen \in Nat /\ evidenceB.received \in Int /\ evidenceB.peer.video \in Nat
  /\ evidenceB.flowVideo \in Nat
  /\ net \in Seq(Message)
  /\ conn = [startedAt |-> conn.startedAt, lastAt |-> conn.lastAt, time |-> conn.time,
             video |-> conn.video, covered |-> conn.covered, flowSeen |-> conn.flowSeen,
             events |-> conn.events, summary |-> conn.summary]
  /\ conn.time \in Nat /\ conn.video \in Nat /\ conn.covered \in Int
  /\ conn.events \in Seq(Event)
  /\ truth = [ticks |-> truth.ticks, video |-> truth.video, frame |-> truth.frame]
  /\ truth.ticks \in Nat /\ truth.video \in Nat
  /\ now \in Nat

\* What q counts is covered; and so is what it will count, from its baseline on.
Covered(q) == q.time <= truth.ticks /\ q.video <= truth.video

Based(q) ==
  q.baseline # Evidence!NoSample =>
    /\ q.time + (now - q.baseline.at) <= truth.ticks
    /\ q.video + (evidenceB.peer.video - q.baseline.video) <= truth.video

\* The first frame is told of before the k-th message of s.
FrameTold(s, k, c) ==
  \/ Evidence!Contains(c.events, "received")
  \/ \E j \in 1 .. k : s[j].type = "received"

\* The message m, after the first k of s, claims what is true.
Claim(m, s, k, c, t) ==
  /\ m.type = "quality" => m.time <= t.ticks /\ m.video <= t.video
  /\ m.type = "received" => t.frame
  /\ m.type = "flow" /\ m.frame => t.frame /\ FrameTold(s, k, c)
  /\ m.type = "flow" /\ m.video > 0 => t.video > 0

Claims(s, c, t) == \A i \in 1 .. Len(s) : Claim(s[i], s, i - 1, c, t)

EvidenceInv ==
  /\ EvidenceTypes
  /\ evidenceB.peer.up => evidenceB.open
  /\ ~evidenceB.open => evidenceB.peer.video = 0
  /\ evidenceB.peer.video <= truth.video
  /\ evidenceB.open => Covered(evidenceB.quality)
  /\ evidenceB.peer.up => Based(evidenceB.quality)
  /\ conn.time <= truth.ticks /\ conn.video <= truth.video /\ conn.covered <= conn.time
  /\ Claims(net, conn, truth)
  /\ evidenceB.received <= evidenceB.gen
  /\ evidenceB.open /\ evidenceB.received = evidenceB.gen =>
       truth.frame /\ FrameTold(net, Len(net), conn)
  /\ Evidence!Contains(conn.events, "confirmed") => truth.frame /\ truth.video > 0
  /\ conn.events # << >> /\ Evidence!Last(conn.events) = "confirmed" =>
       Evidence!Contains(Evidence!Front(conn.events), "received")

LEMMA EvidenceInit == Evidence!Init => EvidenceInv
<1> SUFFICES ASSUME Evidence!Init PROVE EvidenceInv
  OBVIOUS
<1>1. << >> \in Seq(Message) /\ << >> \in Seq(Event) /\ Len(<< >>) = 0
  OBVIOUS
<1>2. EvidenceTypes
  BY <1>1 DEF EvidenceTypes, Evidence!Init, Evidence!NoPeer, Evidence!NewQuality, Quality,
              Evidence!NewConnection, Evidence!Nothing, Evidence!NoSample, Evidence!None
<1>3. net = << >> /\ conn.events = << >> /\ evidenceB.open = FALSE /\ evidenceB.gen = 0
      /\ evidenceB.received = -1 /\ evidenceB.peer.up = FALSE /\ evidenceB.peer.video = 0
      /\ truth.ticks = 0 /\ truth.video = 0 /\ conn.time = 0 /\ conn.video = 0
      /\ conn.covered = 0
  BY DEF Evidence!Init, Evidence!NoPeer, Evidence!NewConnection, Evidence!Nothing,
         Evidence!None
<1>4. Claims(net, conn, truth)
  BY <1>3, <1>1 DEF Claims
<1>5. ~Evidence!Contains(conn.events, "confirmed")
  BY <1>3, <1>1 DEF Evidence!Contains
<1> QED BY <1>2, <1>3, <1>4, <1>5 DEF EvidenceInv

\* One more message, if any, that claims what is true.
LEMMA Longer ==
  ASSUME NEW s \in Seq(Message), NEW c, NEW t, Claims(s, c, t), NEW o,
         o # << >> => \E m \in Message : o = <<m>> /\ Claim(m, s, Len(s), c, t)
  PROVE  /\ s \o o \in Seq(Message) /\ Claims(s \o o, c, t)
         /\ Len(s) <= Len(s \o o) /\ \A i \in 1 .. Len(s) : (s \o o)[i] = s[i]
<1>1. CASE o = << >>
  <2>1. s \o o = s
    BY <1>1
  <2> QED BY <2>1
<1>2. ASSUME NEW m \in Message, o = <<m>>, Claim(m, s, Len(s), c, t)
      PROVE  /\ s \o o \in Seq(Message) /\ Claims(s \o o, c, t)
             /\ Len(s) <= Len(s \o o) /\ \A i \in 1 .. Len(s) : (s \o o)[i] = s[i]
  <2> DEFINE u == s \o o
  <2>1. /\ u \in Seq(Message) /\ Len(u) = Len(s) + 1 /\ Len(s) \in Nat
        /\ \A i \in 1 .. Len(s) : u[i] = s[i]
        /\ u[Len(s) + 1] = m
    BY <1>2
  <2> HIDE DEF u
  <2>2. ASSUME NEW i \in 1 .. Len(s) PROVE Claim(u[i], u, i - 1, c, t)
    <3>1. Claim(s[i], s, i - 1, c, t) /\ u[i] = s[i]
      BY <2>1 DEF Claims
    <3>2. \A j \in 1 .. i - 1 : u[j] = s[j]
      BY <2>1
    <3> QED BY <3>1, <3>2 DEF Claim, FrameTold
  <2>3. Claim(u[Len(s) + 1], u, Len(s), c, t)
    BY <1>2, <2>1 DEF Claim, FrameTold
  <2>4. Claims(u, c, t)
    <3> SUFFICES ASSUME NEW i \in 1 .. Len(u) PROVE Claim(u[i], u, i - 1, c, t)
      BY DEF Claims
    <3>1. i \in 1 .. Len(s) \/ i = Len(s) + 1
      BY <2>1
    <3>2. i = Len(s) + 1 => i - 1 = Len(s)
      BY <2>1
    <3> QED BY <2>2, <2>3, <3>1, <3>2
  <2> QED BY <2>1, <2>4 DEF u
<1> QED BY <1>1, <1>2

\* What was claimed stays so when time passes and frames come.
LEMMA StillTrue ==
  ASSUME NEW s, NEW c, NEW t, NEW u, Claims(s, c, t), s \in Seq(Message),
         t.ticks \in Nat, t.video \in Nat, u.ticks \in Nat, u.video \in Nat,
         t.ticks <= u.ticks, t.video <= u.video, t.frame => u.frame
  PROVE  Claims(s, c, u)
<1> SUFFICES ASSUME NEW i \in 1 .. Len(s) PROVE Claim(s[i], s, i - 1, c, u)
  BY DEF Claims
<1>1. Claim(s[i], s, i - 1, c, t) /\ s[i] \in Message
  BY DEF Claims
<1>2. /\ s[i].type = "quality" => s[i].time \in Nat /\ s[i].video \in Nat
      /\ s[i].type = "flow" => s[i].video \in Nat
  BY <1>1 DEF Message
<1> QED BY <1>1, <1>2 DEF Claim

\* A report of the quality counts what is covered.
LEMMA Reported ==
  ASSUME NEW q, Quality(q), Covered(q), NEW final, truth.ticks \in Nat, truth.video \in Nat
  PROVE  LET r == Evidence!ReportSessionQuality(q, final)
         IN  /\ Quality(r.quality) /\ Covered(r.quality)
             /\ r.quality.baseline = q.baseline /\ r.quality.connected = q.connected
             /\ r.quality.time = q.time /\ r.quality.video = q.video
             /\ r.out # << >> => r.out = <<Evidence!Summary(q)>>
             /\ Evidence!Summary(q) \in Message
             /\ \A s, k, c : Claim(Evidence!Summary(q), s, k, c, truth)
<1> DEFINE m == Evidence!Summary(q)
<1>1. m \in Message /\ m.type = "quality" /\ m.time = q.time /\ m.video = q.video
  BY DEF Evidence!Summary, Message, Quality
<1> HIDE DEF m
<1>2. \A s, k, c : Claim(m, s, k, c, truth)
  BY <1>1 DEF Claim, Covered
<1>3. CASE Evidence!ReportIsDue(q, final)
  <2> DEFINE p == [q EXCEPT !.lastReport = now]
  <2>1. p = [q EXCEPT !.lastReport = now]
    OBVIOUS
  <2> HIDE DEF p
  <2>2. Quality(p) /\ Covered(p) /\ p.baseline = q.baseline /\ p.connected = q.connected
        /\ p.time = q.time /\ p.video = q.video
    BY <2>1 DEF Quality, Covered
  <2>3. Evidence!ReportSessionQuality(q, final) = [quality |-> p, out |-> <<m>>]
    BY <1>3, <2>1 DEF Evidence!ReportSessionQuality, m
  <2> QED BY <1>1, <1>2, <2>2, <2>3 DEF m
<1>4. CASE ~Evidence!ReportIsDue(q, final)
  <2>1. Evidence!ReportSessionQuality(q, final) = [quality |-> q, out |-> << >>]
    BY <1>4 DEF Evidence!ReportSessionQuality
  <2> QED BY <1>1, <1>2, <2>1 DEF m
<1> QED BY <1>3, <1>4

\* A sample counts what went by since the baseline, and is the next one.
LEMMA Observed ==
  ASSUME EvidenceInv, evidenceB.open, evidenceB.peer.up
  PROVE  LET q == Evidence!Observe(evidenceB.quality,
                    [id |-> evidenceB.peer.id, at |-> now, video |-> evidenceB.peer.video])
         IN  Quality(q) /\ Covered(q) /\ Based(q)
<1> DEFINE o == evidenceB.quality
           s == [id |-> evidenceB.peer.id, at |-> now, video |-> evidenceB.peer.video]
           q == Evidence!Observe(o, s)
<1>1. Quality(o) /\ Covered(o) /\ Based(o) /\ truth.ticks \in Nat /\ truth.video \in Nat
      /\ now \in Nat /\ evidenceB.peer.video \in Nat
  BY DEF EvidenceInv, EvidenceTypes
<1>2. s.at = now /\ s.video = evidenceB.peer.video
  OBVIOUS
<1>3. q = Evidence!Observe(o, s)
  OBVIOUS
<1> HIDE DEF o, s, q
<1>4. ASSUME ~o.connected PROVE Quality(q) /\ Covered(q) /\ Based(q)
  BY <1>1, <1>3, <1>4 DEF Evidence!Observe
<1>5. ASSUME o.connected, ~Evidence!Paired(o, s) PROVE Quality(q) /\ Covered(q) /\ Based(q)
  <2>1. q = [o EXCEPT !.baseline = s]
    BY <1>3, <1>5 DEF Evidence!Observe
  <2> QED BY <1>1, <1>2, <2>1 DEF Quality, Covered, Based
<1>6. ASSUME o.connected, Evidence!Paired(o, s) PROVE Quality(q) /\ Covered(q) /\ Based(q)
  <2>1. PICK v0 : v0 \in {o.covered, o.covered + (s.at - o.baseline.at)} /\
          q = [[o EXCEPT !.baseline = s] EXCEPT
                 !.time = o.time + (s.at - o.baseline.at),
                 !.video = o.video + (s.video - o.baseline.video), !.covered = v0]
    BY <1>1, <1>3, <1>6 DEF Evidence!Observe, Quality
  <2>2. v0 \in Int
    BY <1>1, <1>2, <2>1 DEF Quality
  <2>3. q = [connected |-> o.connected, baseline |-> s, lastReport |-> o.lastReport,
             latency |-> o.latency, time |-> o.time + (s.at - o.baseline.at),
             video |-> o.video + (s.video - o.baseline.video), covered |-> v0]
    BY <1>1, <2>1 DEF Quality
  <2>4. /\ o.baseline # Evidence!NoSample /\ s.at > o.baseline.at
        /\ s.video >= o.baseline.video
    BY <1>6 DEF Evidence!Paired
  <2>5. Quality(q)
    BY <1>1, <1>2, <2>2, <2>3, <2>4 DEF Quality
  <2>6. Covered(q)
    BY <1>1, <1>2, <2>3, <2>4 DEF Quality, Covered, Based
  <2>7. Based(q)
    BY <1>1, <1>2, <2>3, <2>4 DEF Quality, Based
  <2> QED BY <2>5, <2>6, <2>7
<1>7. Quality(q) /\ Covered(q) /\ Based(q)
  BY <1>4, <1>5, <1>6
<1> QED BY <1>7 DEF q, o, s

\* A frame told of stays so in a longer stream of messages.
LEMMA ToldStays ==
  ASSUME NEW s \in Seq(Message), NEW u \in Seq(Message), NEW c, Len(s) <= Len(u),
         \A i \in 1 .. Len(s) : u[i] = s[i], FrameTold(s, Len(s), c)
  PROVE  FrameTold(u, Len(u), c)
BY DEF FrameTold

LEMMA EvidenceOpens == EvidenceInv /\ Evidence!Open => EvidenceInv'
<1> SUFFICES ASSUME EvidenceInv, Evidence!Open PROVE EvidenceInv'
  OBVIOUS
<1>1. EvidenceTypes /\ evidenceB.received <= evidenceB.gen /\ evidenceB.gen \in Nat
      /\ evidenceB.received \in Int /\ evidenceB.open = FALSE /\ ~evidenceB.peer.up
      /\ evidenceB.peer.video = 0
  BY DEF EvidenceInv, EvidenceTypes, Evidence!Open
<1>2. /\ evidenceB' = [evidenceB EXCEPT !.open = TRUE, !.quality = Evidence!NewQuality,
                         !.gen = evidenceB.gen + 1, !.flowGen = Evidence!None,
                         !.flowReported = Evidence!None]
      /\ net' = <<[type |-> "capability"]>> /\ conn' = Evidence!NewConnection
      /\ truth' = Evidence!Nothing /\ now' = now
  BY DEF Evidence!Open
<1>3. /\ evidenceB'.open /\ evidenceB'.peer = evidenceB.peer
      /\ evidenceB'.quality = Evidence!NewQuality /\ evidenceB'.received = evidenceB.received
      /\ evidenceB'.gen = evidenceB.gen + 1 /\ evidenceB'.flowVideo = evidenceB.flowVideo
      /\ evidenceB' =
           [open |-> evidenceB'.open, gen |-> evidenceB'.gen, peer |-> evidenceB'.peer,
            quality |-> evidenceB'.quality, received |-> evidenceB'.received,
            flowGen |-> evidenceB'.flowGen, flowAt |-> evidenceB'.flowAt,
            flowVideo |-> evidenceB'.flowVideo, flowReported |-> evidenceB'.flowReported]
  BY <1>1, <1>2 DEF EvidenceTypes
<1>4. net' \in Seq(Message) /\ Len(net') = 1 /\ net'[1].type = "capability"
  <2>1. [type |-> "capability"] \in Message
    BY DEF Message
  <2> QED BY <1>2, <2>1
<1>5. << >> \in Seq(Event)
  OBVIOUS
<1>6. /\ conn'.time = 0 /\ conn'.video = 0 /\ conn'.covered = 0 /\ conn'.events = << >>
      /\ truth'.ticks = 0 /\ truth'.video = 0
  BY <1>2 DEF Evidence!NewConnection, Evidence!Nothing
<1>7. EvidenceTypes'
  <2>1. evidenceB'.peer = [n |-> evidenceB'.peer.n, id |-> evidenceB'.peer.id,
                           up |-> evidenceB'.peer.up, video |-> evidenceB'.peer.video]
        /\ evidenceB'.peer.video \in Nat /\ evidenceB'.gen \in Nat /\ now' \in Nat
        /\ evidenceB'.received \in Int /\ evidenceB'.flowVideo \in Nat
    BY <1>1, <1>2, <1>3 DEF EvidenceTypes
  <2>2. Quality(evidenceB'.quality)
    BY <1>3 DEF Quality, Evidence!NewQuality, Evidence!NoSample, Evidence!None
  <2>3. conn' = [startedAt |-> conn'.startedAt, lastAt |-> conn'.lastAt, time |-> conn'.time,
             video |-> conn'.video, covered |-> conn'.covered, flowSeen |-> conn'.flowSeen,
             events |-> conn'.events, summary |-> conn'.summary]
    BY <1>2 DEF Evidence!NewConnection
  <2>4. truth' = [ticks |-> truth'.ticks, video |-> truth'.video, frame |-> truth'.frame]
    BY <1>2 DEF Evidence!Nothing
  <2> QED BY <1>3, <1>4, <1>5, <1>6, <2>1, <2>2, <2>3, <2>4 DEF EvidenceTypes
<1>8. Claims(net', conn', truth')
  BY <1>4 DEF Claims, Claim
<1>9. Covered(evidenceB.quality)'
  BY <1>3, <1>6 DEF Covered, Evidence!NewQuality
<1>10. ~Evidence!Contains(conn'.events, "confirmed")
  BY <1>6 DEF Evidence!Contains
<1> QED BY <1>1, <1>3, <1>6, <1>7, <1>8, <1>9, <1>10 DEF EvidenceInv

\* A peer, and the quality that goes on with it from no baseline, if it is up.
LEMMA PeerTaken ==
  ASSUME EvidenceInv, evidenceB.open, UNCHANGED <<net, conn, truth, now>>, NEW p, NEW q,
         evidenceB' = [evidenceB EXCEPT !.peer = p, !.quality = q],
         p = [n |-> p.n, id |-> p.id, up |-> p.up, video |-> p.video],
         p.video \in Nat, p.video <= truth.video, Quality(q),
         q.time = evidenceB.quality.time, q.video = evidenceB.quality.video,
         p.up => q.baseline = Evidence!NoSample
  PROVE  EvidenceInv'
<1>1. /\ evidenceB'.open = evidenceB.open /\ evidenceB'.peer = p
      /\ evidenceB'.quality = q /\ evidenceB'.received = evidenceB.received
      /\ evidenceB'.gen = evidenceB.gen /\ evidenceB'.flowVideo = evidenceB.flowVideo
      /\ evidenceB' =
           [open |-> evidenceB'.open, gen |-> evidenceB'.gen, peer |-> evidenceB'.peer,
            quality |-> evidenceB'.quality, received |-> evidenceB'.received,
            flowGen |-> evidenceB'.flowGen, flowAt |-> evidenceB'.flowAt,
            flowVideo |-> evidenceB'.flowVideo, flowReported |-> evidenceB'.flowReported]
  BY DEF EvidenceInv, EvidenceTypes
<1>2. EvidenceTypes'
  BY <1>1 DEF EvidenceInv, EvidenceTypes
<1>3. Covered(evidenceB.quality)' /\ (evidenceB'.peer.up => Based(evidenceB.quality)')
  BY <1>1 DEF EvidenceInv, Covered, Based
<1> QED BY <1>1, <1>2, <1>3 DEF EvidenceInv

LEMMA PeersStart ==
  ASSUME EvidenceInv, (\E id \in PeerIds : Evidence!NewPeer(id)) \/ Evidence!Connected
  PROVE  EvidenceInv'
<1>1. /\ UNCHANGED <<net, conn, truth, now>> /\ evidenceB.open
      /\ Quality(evidenceB.quality) /\ evidenceB.peer.video <= truth.video
      /\ evidenceB.peer.video \in Nat /\ truth.video \in Nat
  BY DEF Evidence!NewPeer, Evidence!Connected, EvidenceInv, EvidenceTypes
<1>2. ASSUME NEW id \in PeerIds, Evidence!NewPeer(id) PROVE EvidenceInv'
  <2> DEFINE p == [n |-> evidenceB.peer.n + 1, id |-> id, up |-> FALSE, video |-> 0]
  <2>1. evidenceB' = [evidenceB EXCEPT !.peer = p]
    BY <1>2 DEF Evidence!NewPeer
  <2>2. p = [n |-> p.n, id |-> p.id, up |-> p.up, video |-> p.video]
        /\ p.up = FALSE /\ p.video = 0
    OBVIOUS
  <2> HIDE DEF p
  <2>3. evidenceB' = [evidenceB EXCEPT !.peer = p, !.quality = evidenceB.quality]
    BY <2>1 DEF EvidenceInv, EvidenceTypes
  <2>4. p.video \in Nat /\ p.video <= truth.video /\ ~p.up
    BY <1>1, <2>2
  <2> QED BY <1>1, <2>2, <2>3, <2>4, PeerTaken
<1>3. ASSUME Evidence!Connected PROVE EvidenceInv'
  <2> DEFINE p == [evidenceB.peer EXCEPT !.up = TRUE]
             o == evidenceB.quality
             q == Evidence!SetConnected(o, TRUE)
  <2>1. evidenceB' = [evidenceB EXCEPT !.peer.up = TRUE, !.quality = q]
    BY <1>3 DEF Evidence!Connected
  <2>2. p = [evidenceB.peer EXCEPT !.up = TRUE]
    OBVIOUS
  <2>3. q = [o EXCEPT !.connected = TRUE, !.baseline = Evidence!NoSample,
                      !.latency = Evidence!None]
    BY DEF Evidence!SetConnected
  <2>4. evidenceB' = [evidenceB EXCEPT !.peer = p, !.quality = q]
    BY <2>1
  <2> HIDE DEF p, q
  <2>5. evidenceB.peer = [n |-> evidenceB.peer.n, id |-> evidenceB.peer.id,
                          up |-> evidenceB.peer.up, video |-> evidenceB.peer.video]
    BY DEF EvidenceInv, EvidenceTypes
  <2>6. p = [n |-> p.n, id |-> p.id, up |-> p.up, video |-> p.video]
        /\ p.video = evidenceB.peer.video
    BY <2>2, <2>5
  <2>7. Quality(o)
    BY <1>1 DEF o
  <2> HIDE DEF o
  <2>8. Quality(q) /\ q.time = o.time /\ q.video = o.video /\ q.baseline = Evidence!NoSample
    <3>1. q = [connected |-> TRUE, baseline |-> Evidence!NoSample,
               lastReport |-> o.lastReport, latency |-> Evidence!None, time |-> o.time,
               video |-> o.video, covered |-> o.covered]
      BY <2>3, <2>7 DEF Quality
    <3>2. Evidence!NoSample.at \in Int /\ Evidence!NoSample.video \in Int
      BY DEF Evidence!NoSample
    <3> QED BY <2>7, <3>1, <3>2 DEF Quality
  <2>9. p.video \in Nat /\ p.video <= truth.video
    BY <1>1, <2>6
  <2>10. q.time = evidenceB.quality.time /\ q.video = evidenceB.quality.video
    BY <2>8 DEF o
  <2> QED BY <1>1, <2>4, <2>6, <2>8, <2>9, <2>10, PeerTaken
<1> QED BY <1>2, <1>3

LEMMA FramesCount == EvidenceInv /\ Evidence!FramePresented => EvidenceInv'
<1> SUFFICES ASSUME EvidenceInv, Evidence!FramePresented PROVE EvidenceInv'
  OBVIOUS
<1> DEFINE m == [type |-> "received"]
<1>1. /\ evidenceB' = [evidenceB EXCEPT !.received = evidenceB.gen]
      /\ net' = net \o <<m>> /\ truth' = [truth EXCEPT !.frame = TRUE]
      /\ conn' = conn /\ now' = now /\ evidenceB.open
  BY DEF Evidence!FramePresented, EvidenceInv, EvidenceTypes
<1>2. /\ evidenceB'.open = evidenceB.open /\ evidenceB'.peer = evidenceB.peer
      /\ evidenceB'.quality = evidenceB.quality /\ evidenceB'.received = evidenceB.gen
      /\ evidenceB'.gen = evidenceB.gen /\ evidenceB'.flowVideo = evidenceB.flowVideo
      /\ evidenceB' =
           [open |-> evidenceB'.open, gen |-> evidenceB'.gen, peer |-> evidenceB'.peer,
            quality |-> evidenceB'.quality, received |-> evidenceB'.received,
            flowGen |-> evidenceB'.flowGen, flowAt |-> evidenceB'.flowAt,
            flowVideo |-> evidenceB'.flowVideo, flowReported |-> evidenceB'.flowReported]
  BY <1>1 DEF EvidenceInv, EvidenceTypes
<1>3. /\ truth'.ticks = truth.ticks /\ truth'.video = truth.video /\ truth'.frame = TRUE
      /\ truth' = [ticks |-> truth'.ticks, video |-> truth'.video, frame |-> truth'.frame]
      /\ truth.ticks \in Nat /\ truth.video \in Nat
  BY <1>1 DEF EvidenceInv, EvidenceTypes
<1>4. net \in Seq(Message) /\ Claims(net, conn, truth)
  BY DEF EvidenceInv, EvidenceTypes
<1>5. Claims(net, conn, truth')
  BY <1>3, <1>4, StillTrue
<1>6. m \in Message /\ m.type = "received"
  BY DEF Message
<1> HIDE DEF m
<1>7. Claim(m, net, Len(net), conn, truth')
  BY <1>3, <1>6 DEF Claim
<1>8. net' \in Seq(Message) /\ Claims(net', conn, truth')
  <2>1. <<m>> # << >> => \E n \in Message : <<m>> = <<n>> /\ Claim(n, net, Len(net), conn, truth')
    BY <1>6, <1>7
  <2>2. net \o <<m>> \in Seq(Message) /\ Claims(net \o <<m>>, conn, truth')
    BY <1>4, <1>5, <2>1, Longer
  <2> QED BY <1>1, <2>2
<1>9. Len(net') = Len(net) + 1 /\ net'[Len(net) + 1] = m /\ Len(net) \in Nat
  BY <1>1, <1>4
<1>10. FrameTold(net', Len(net'), conn')
  BY <1>6, <1>9 DEF FrameTold
<1>11. EvidenceTypes'
  BY <1>1, <1>2, <1>3, <1>8 DEF EvidenceInv, EvidenceTypes
<1>12. /\ evidenceB.open => Covered(evidenceB.quality)'
       /\ evidenceB.peer.up => Based(evidenceB.quality)'
  BY <1>1, <1>2, <1>3 DEF EvidenceInv, Covered, Based
<1>13. evidenceB.gen \in Nat
  BY DEF EvidenceInv, EvidenceTypes
<1> QED BY <1>1, <1>2, <1>3, <1>8, <1>10, <1>11, <1>12, <1>13 DEF EvidenceInv

\* The quality is another, the window of video too, and messages follow.
LEMMA ReportsGo ==
  ASSUME EvidenceInv, evidenceB.open, UNCHANGED <<conn, truth, now>>, NEW q,
         Quality(q), Covered(q), evidenceB.peer.up => Based(q),
         NEW f1, NEW f2, NEW f3 \in Nat, NEW f4,
         evidenceB' = [evidenceB EXCEPT !.quality = q, !.flowGen = f1, !.flowAt = f2,
                                        !.flowVideo = f3, !.flowReported = f4],
         net' \in Seq(Message), Claims(net', conn, truth), Len(net) <= Len(net'),
         \A i \in 1 .. Len(net) : net'[i] = net[i]
  PROVE  EvidenceInv'
<1>1. /\ evidenceB'.open = evidenceB.open /\ evidenceB'.peer = evidenceB.peer
      /\ evidenceB'.quality = q /\ evidenceB'.received = evidenceB.received
      /\ evidenceB'.gen = evidenceB.gen /\ evidenceB'.flowVideo \in Nat
      /\ evidenceB' =
           [open |-> evidenceB'.open, gen |-> evidenceB'.gen, peer |-> evidenceB'.peer,
            quality |-> evidenceB'.quality, received |-> evidenceB'.received,
            flowGen |-> evidenceB'.flowGen, flowAt |-> evidenceB'.flowAt,
            flowVideo |-> evidenceB'.flowVideo, flowReported |-> evidenceB'.flowReported]
  BY DEF EvidenceInv, EvidenceTypes
<1>2. EvidenceTypes'
  BY <1>1 DEF EvidenceInv, EvidenceTypes
<1>3. Covered(evidenceB.quality)' /\ (evidenceB'.peer.up => Based(evidenceB.quality)')
  BY <1>1 DEF EvidenceInv, Covered, Based
<1>4. net \in Seq(Message)
  BY DEF EvidenceInv, EvidenceTypes
<1>5. evidenceB.received = evidenceB.gen => truth.frame /\ FrameTold(net, Len(net), conn)
  BY DEF EvidenceInv
<1>6. evidenceB.received = evidenceB.gen => truth.frame /\ FrameTold(net', Len(net'), conn)
  BY <1>4, <1>5, ToldStays
<1> QED BY <1>1, <1>2, <1>3, <1>6 DEF EvidenceInv

LEMMA HiddenReports == EvidenceInv /\ Evidence!PageHidden => EvidenceInv'
<1> SUFFICES ASSUME EvidenceInv, Evidence!PageHidden PROVE EvidenceInv'
  OBVIOUS
<1> DEFINE o == evidenceB.quality
           r == Evidence!ReportSessionQuality(o, TRUE)
           q == r.quality
           out == r.out
           m == Evidence!Summary(o)
<1>1. /\ UNCHANGED <<conn, truth, now>> /\ evidenceB.open /\ Quality(o) /\ Covered(o)
      /\ (evidenceB.peer.up => Based(o)) /\ truth.ticks \in Nat /\ truth.video \in Nat
      /\ evidenceB.flowVideo \in Nat /\ net \in Seq(Message) /\ Claims(net, conn, truth)
  BY DEF Evidence!PageHidden, EvidenceInv, EvidenceTypes
<1>2. /\ Quality(q) /\ Covered(q) /\ q.baseline = o.baseline /\ q.time = o.time
      /\ q.video = o.video /\ (out # << >> => out = <<m>>) /\ m \in Message
      /\ \A s, k, c : Claim(m, s, k, c, truth)
  BY <1>1, Reported
<1>3. evidenceB' = [evidenceB EXCEPT !.quality = q] /\ net' = net \o out
  BY DEF Evidence!PageHidden
<1> HIDE DEF o, r, q, out, m
<1>4. evidenceB' = [evidenceB EXCEPT !.quality = q, !.flowGen = evidenceB.flowGen,
        !.flowAt = evidenceB.flowAt, !.flowVideo = evidenceB.flowVideo,
        !.flowReported = evidenceB.flowReported]
  BY <1>3 DEF EvidenceInv, EvidenceTypes
<1>5. evidenceB.peer.up => Based(q)
  BY <1>1, <1>2 DEF Based
<1>6. out # << >> => \E n \in Message : out = <<n>> /\ Claim(n, net, Len(net), conn, truth)
  BY <1>2
<1>7. /\ net \o out \in Seq(Message) /\ Claims(net \o out, conn, truth)
      /\ Len(net) <= Len(net \o out) /\ \A i \in 1 .. Len(net) : (net \o out)[i] = net[i]
  BY <1>1, <1>6, Longer
<1>8. /\ net' \in Seq(Message) /\ Claims(net', conn, truth) /\ Len(net) <= Len(net')
      /\ \A i \in 1 .. Len(net) : net'[i] = net[i]
  <2> DEFINE u == net \o out
  <2>1. net' = u /\ u \in Seq(Message) /\ Claims(u, conn, truth) /\ Len(net) <= Len(u)
        /\ \A i \in 1 .. Len(net) : u[i] = net[i]
    BY <1>3, <1>7
  <2> HIDE DEF u
  <2> QED BY <2>1
<1> QED BY <1>1, <1>2, <1>4, <1>5, <1>8, ReportsGo

LEMMA PageLeaves ==
  ASSUME EvidenceInv, NEW reported \in BOOLEAN, Evidence!Disconnected(reported)
  PROVE  EvidenceInv'
<1> DEFINE o == evidenceB.quality
           r == Evidence!ReportSessionQuality(o, TRUE)
           q == r.quality
           out == r.out
           m == Evidence!Summary(o)
           z == Evidence!SetConnected(q, FALSE)
           p == [Evidence!NoPeer EXCEPT !.n = evidenceB.peer.n]
<1>1. /\ UNCHANGED <<conn, truth, now>> /\ Quality(o) /\ Covered(o) /\ evidenceB.open
      /\ truth.ticks \in Nat /\ truth.video \in Nat
      /\ net \in Seq(Message) /\ Claims(net, conn, truth)
  BY DEF Evidence!Disconnected, EvidenceInv, EvidenceTypes
<1>2. /\ Quality(q) /\ (out # << >> => out = <<m>>) /\ m \in Message
      /\ \A s, k, c : Claim(m, s, k, c, truth)
  BY <1>1, Reported
<1>3. /\ evidenceB' = [evidenceB EXCEPT !.open = FALSE, !.quality = z, !.peer = p]
      /\ net' = net \o out \/ net' = << >>
  BY DEF Evidence!Disconnected
<1>4. z = [q EXCEPT !.connected = FALSE, !.baseline = Evidence!NoSample,
                    !.latency = Evidence!None]
  BY DEF Evidence!SetConnected
<1>5. p = [Evidence!NoPeer EXCEPT !.n = evidenceB.peer.n]
  OBVIOUS
<1> HIDE DEF o, r, q, out, m, z, p
<1>10. p = [n |-> evidenceB.peer.n, id |-> Evidence!None, up |-> FALSE, video |-> 0]
  BY <1>5 DEF Evidence!NoPeer
<1>6. Quality(z)
  <2>1. z = [connected |-> FALSE, baseline |-> Evidence!NoSample,
             lastReport |-> q.lastReport, latency |-> Evidence!None, time |-> q.time,
             video |-> q.video, covered |-> q.covered]
    BY <1>2, <1>4 DEF Quality
  <2>2. Evidence!NoSample.at \in Int /\ Evidence!NoSample.video \in Int
    BY DEF Evidence!NoSample
  <2> QED BY <1>2, <2>1, <2>2 DEF Quality
<1>7. /\ evidenceB'.open = FALSE /\ evidenceB'.peer = p
      /\ evidenceB'.quality = z /\ evidenceB'.received = evidenceB.received
      /\ evidenceB'.gen = evidenceB.gen /\ evidenceB'.flowVideo = evidenceB.flowVideo
      /\ evidenceB' =
           [open |-> evidenceB'.open, gen |-> evidenceB'.gen, peer |-> evidenceB'.peer,
            quality |-> evidenceB'.quality, received |-> evidenceB'.received,
            flowGen |-> evidenceB'.flowGen, flowAt |-> evidenceB'.flowAt,
            flowVideo |-> evidenceB'.flowVideo, flowReported |-> evidenceB'.flowReported]
  BY <1>3 DEF EvidenceInv, EvidenceTypes
<1>8. net' \in Seq(Message) /\ Claims(net', conn, truth)
  <2>1. out # << >> => \E n \in Message : out = <<n>> /\ Claim(n, net, Len(net), conn, truth)
    BY <1>2
  <2>2. net \o out \in Seq(Message) /\ Claims(net \o out, conn, truth)
    BY <1>1, <2>1, Longer
  <2>3. << >> \in Seq(Message) /\ Claims(<< >>, conn, truth)
    BY DEF Claims
  <2> QED BY <1>3, <2>2, <2>3
<1>9. EvidenceTypes'
  BY <1>1, <1>6, <1>7, <1>8, <1>10 DEF EvidenceInv, EvidenceTypes
<1> QED BY <1>1, <1>7, <1>8, <1>9, <1>10 DEF EvidenceInv

LEMMA StatsCount ==
  ASSUME EvidenceInv, NEW latency \in BOOLEAN, Evidence!StatsReceived(latency)
  PROVE  EvidenceInv'
<1> DEFINE o == Evidence!Observe(evidenceB.quality,
                  [id |-> evidenceB.peer.id, at |-> now, video |-> evidenceB.peer.video])
           r == Evidence!ReportSessionQuality(o, FALSE)
           q == r.quality
           out == r.out
           m == Evidence!Summary(o)
           z == Evidence!ObserveLatency(q, latency)
           w == [gen |-> evidenceB.flowGen, at |-> evidenceB.flowAt,
                 video |-> evidenceB.flowVideo, reported |-> evidenceB.flowReported]
           f == Evidence!FlowObserved(w)
           g == f.flow
           told == f.out
<1>1. /\ UNCHANGED <<conn, truth, now>> /\ evidenceB.open /\ evidenceB.peer.up
      /\ truth.ticks \in Nat /\ truth.video \in Nat /\ now \in Nat
      /\ evidenceB.flowVideo \in Nat /\ evidenceB.peer.video \in Nat
      /\ evidenceB.peer.video <= truth.video
      /\ net \in Seq(Message) /\ Claims(net, conn, truth)
  BY DEF Evidence!StatsReceived, EvidenceInv, EvidenceTypes
<1>2. Quality(o) /\ Covered(o) /\ Based(o)
  BY <1>1, Observed
<1> HIDE DEF o
<1>3. /\ Quality(q) /\ Covered(q) /\ q.baseline = o.baseline /\ q.time = o.time
      /\ q.video = o.video /\ (out # << >> => out = <<m>>) /\ m \in Message
      /\ \A s, k, c : Claim(m, s, k, c, truth)
  BY <1>1, <1>2, Reported
<1>4. /\ evidenceB' = [evidenceB EXCEPT !.quality = z, !.flowGen = g.gen, !.flowAt = g.at,
                                        !.flowVideo = g.video, !.flowReported = g.reported]
      /\ net' = net \o out \o told
  BY DEF Evidence!StatsReceived, o
<1>5. g.video \in Nat /\ (told # << >> => \E n \in Message : told = <<n>>
        /\ n.type = "flow" /\ (n.frame => evidenceB.received = evidenceB.gen)
        /\ (n.video > 0 => truth.video > 0))
  <2> DEFINE fw == [gen |-> evidenceB.gen, at |-> now, video |-> evidenceB.peer.video,
                    reported |-> Evidence!None]
             x == IF evidenceB.peer.video > evidenceB.flowVideo
                  THEN evidenceB.peer.video - evidenceB.flowVideo ELSE 0
             n == [type |-> "flow", frame |-> Evidence!FirstFramePresented, video |-> x]
             wr == [w EXCEPT !.reported = evidenceB.gen]
  <2>1. f \in {[flow |-> w, out |-> << >>], [flow |-> fw, out |-> << >>],
               [flow |-> wr, out |-> <<n>>]}
    BY DEF Evidence!FlowObserved
  <2>2. w.video \in Nat /\ fw.video \in Nat /\ wr.video \in Nat
    BY <1>1
  <2>3. x \in Nat /\ (x > 0 => truth.video > 0)
    BY <1>1
  <2> HIDE DEF x
  <2>4. /\ n \in Message /\ n.type = "flow" /\ n.video = x
        /\ n.frame = (evidenceB.received = evidenceB.gen)
    BY <2>3 DEF Message, Evidence!FirstFramePresented
  <2> HIDE DEF w, fw, n, wr, f
  <2>5. g.video \in Nat /\ told \in {<< >>, <<n>>}
    BY <2>1, <2>2
  <2> HIDE DEF g, told
  <2>6. n.video > 0 => truth.video > 0
    BY <2>3, <2>4
  <2>7. n.frame => evidenceB.received = evidenceB.gen
    BY <2>4
  <2> QED BY <2>4, <2>5, <2>6, <2>7
<1> HIDE DEF r, q, out, m, w, f, g, told
<1>6. z = [q EXCEPT !.latency = z.latency]
  BY <1>3 DEF Evidence!ObserveLatency, Quality
<1> HIDE DEF z
<1>7. Quality(z) /\ Covered(z) /\ Based(z)
  <2>1. z = [connected |-> q.connected, baseline |-> q.baseline,
             lastReport |-> q.lastReport, latency |-> z.latency, time |-> q.time,
             video |-> q.video, covered |-> q.covered]
    BY <1>3, <1>6 DEF Quality
  <2> QED BY <1>2, <1>3, <2>1 DEF Quality, Covered, Based
<1> DEFINE s == net \o out
<1>8. /\ s \in Seq(Message) /\ Claims(s, conn, truth)
      /\ Len(net) <= Len(s) /\ \A i \in 1 .. Len(net) : s[i] = net[i]
  <2>1. out # << >> => \E n \in Message : out = <<n>> /\ Claim(n, net, Len(net), conn, truth)
    BY <1>3
  <2> QED BY <1>1, <2>1, Longer
<1> HIDE DEF s
<1>9. told # << >> => \E n \in Message : told = <<n>> /\ Claim(n, s, Len(s), conn, truth)
  <2>1. evidenceB.received = evidenceB.gen => truth.frame /\ FrameTold(net, Len(net), conn)
    BY <1>1 DEF EvidenceInv
  <2>2. evidenceB.received = evidenceB.gen => truth.frame /\ FrameTold(s, Len(s), conn)
    BY <1>1, <1>8, <2>1, ToldStays
  <2> QED BY <1>5, <2>2 DEF Claim
<1>10. /\ s \o told \in Seq(Message) /\ Claims(s \o told, conn, truth)
       /\ Len(s) <= Len(s \o told) /\ \A i \in 1 .. Len(s) : (s \o told)[i] = s[i]
  BY <1>8, <1>9, Longer
<1>11. net' = s \o told
  BY <1>4 DEF s
<1> DEFINE u == s \o told
<1>12. net' = u /\ u \in Seq(Message) /\ Claims(u, conn, truth) /\ Len(s) <= Len(u)
       /\ \A i \in 1 .. Len(s) : u[i] = s[i]
  BY <1>10, <1>11
<1> HIDE DEF u
<1>13. /\ net' \in Seq(Message) /\ Claims(net', conn, truth) /\ Len(net) <= Len(net')
       /\ \A i \in 1 .. Len(net) : net'[i] = net[i]
  BY <1>1, <1>8, <1>12
<1> QED BY <1>1, <1>4, <1>5, <1>7, <1>13, ReportsGo

\* One more event.
LEMMA Queues ==
  ASSUME NEW s \in Seq(Event), NEW e \in Event
  PROVE  LET u == Append(s, e)
         IN  /\ u \in Seq(Event) /\ u # << >> /\ Evidence!Last(u) = e
             /\ Evidence!Front(u) = s
             /\ \A x : Evidence!Contains(u, x) <=> Evidence!Contains(s, x) \/ x = e
<1> DEFINE u == Append(s, e)
<1>1. /\ u \in Seq(Event) /\ u # << >> /\ Len(u) = Len(s) + 1 /\ u[Len(u)] = e
      /\ \A i \in 1 .. Len(s) : u[i] = s[i]
      /\ Len(s) \in Nat
  OBVIOUS
<1>2. s = [i \in 1 .. Len(s) |-> s[i]]
  OBVIOUS
<1> HIDE DEF u
<1>3. Evidence!Last(u) = e
  BY <1>1 DEF Evidence!Last
<1>4. Evidence!Front(u) = s
  <2>1. Evidence!Front(u) = [i \in 1 .. (Len(u) - 1) |-> u[i]]
    BY DEF Evidence!Front
  <2>2. Len(u) - 1 = Len(s)
    BY <1>1
  <2> QED BY <1>1, <1>2, <2>1, <2>2
<1>5. ASSUME NEW x PROVE Evidence!Contains(u, x) <=> Evidence!Contains(s, x) \/ x = e
  <2>1. Evidence!Contains(s, x) => Evidence!Contains(u, x)
    BY <1>1 DEF Evidence!Contains
  <2>2. Evidence!Contains(u, e)
    BY <1>1 DEF Evidence!Contains
  <2>3. ASSUME Evidence!Contains(u, x) PROVE Evidence!Contains(s, x) \/ x = e
    <3>1. PICK i \in 1 .. Len(u) : u[i] = x
      BY <2>3 DEF Evidence!Contains
    <3>2. i \in 1 .. Len(s) \/ i = Len(u)
      BY <1>1
    <3> QED BY <1>1, <3>1, <3>2 DEF Evidence!Contains
  <2> QED BY <2>1, <2>2, <2>3
<1>6. /\ u \in Seq(Event) /\ u # << >> /\ Evidence!Last(u) = e /\ Evidence!Front(u) = s
      /\ \A x : Evidence!Contains(u, x) <=> Evidence!Contains(s, x) \/ x = e
  BY <1>1, <1>3, <1>4, <1>5
<1> QED BY <1>6 DEF u

\* The connection after the message m, with the same events or one more.
ConnTypes(c) ==
  /\ c = [startedAt |-> c.startedAt, lastAt |-> c.lastAt, time |-> c.time,
          video |-> c.video, covered |-> c.covered, flowSeen |-> c.flowSeen,
          events |-> c.events, summary |-> c.summary]
  /\ c.time \in Nat /\ c.video \in Nat /\ c.covered \in Int
  /\ c.events \in Seq(Event)

LEMMA Handled ==
  ASSUME ConnTypes(conn), NEW m \in Message, m.type # "quality"
  PROVE  LET c == Evidence!HandleMediaEvidence(m)
         IN  /\ ConnTypes(c) /\ c.time = conn.time /\ c.video = conn.video
             /\ c.covered = conn.covered
             /\ \/ c.events = conn.events
                \/ \E e \in Event :
                     /\ c.events = Append(conn.events, e)
                     /\ e = "confirmed" => m.type = "flow" /\ m.frame /\ m.video > 0
             /\ m.type = "received" => Evidence!Contains(c.events, "received")
<1> DEFINE c == Evidence!HandleMediaEvidence(m)
<1>1. ASSUME m.type = "flow", ~conn.flowSeen
      PROVE  /\ ConnTypes(c) /\ c.time = conn.time /\ c.video = conn.video
             /\ c.covered = conn.covered
             /\ c.events = Append(conn.events, Evidence!FlowStatus(m))
  <2> DEFINE d == [conn EXCEPT !.flowSeen = TRUE]
  <2>2. c = Evidence!Queued(d, Evidence!FlowStatus(m))
    BY <1>1 DEF Evidence!HandleMediaEvidence
  <2>5. d = [conn EXCEPT !.flowSeen = TRUE]
    OBVIOUS
  <2> HIDE DEF d, c
  <2>1. d = [startedAt |-> conn.startedAt, lastAt |-> conn.lastAt, time |-> conn.time,
             video |-> conn.video, covered |-> conn.covered, flowSeen |-> TRUE,
             events |-> conn.events, summary |-> conn.summary]
    BY <2>5 DEF ConnTypes
  <2>3. c = [d EXCEPT !.events = Append(d.events, Evidence!FlowStatus(m))]
    BY <2>2 DEF Evidence!Queued
  <2>4. Append(conn.events, Evidence!FlowStatus(m)) \in Seq(Event)
    BY DEF ConnTypes, Evidence!FlowStatus, Event
  <2> QED BY <2>1, <2>3, <2>4 DEF ConnTypes
<1>2. ASSUME m.type \in {"capability", "received"}, ~Evidence!Contains(conn.events, m.type)
      PROVE  /\ ConnTypes(c) /\ c.time = conn.time /\ c.video = conn.video
             /\ c.covered = conn.covered /\ c.events = Append(conn.events, m.type)
  <2>1. c = Evidence!Queued(conn, m.type)
    BY <1>2 DEF Evidence!HandleMediaEvidence
  <2> HIDE DEF c
  <2>2. c = [conn EXCEPT !.events = Append(conn.events, m.type)]
    BY <2>1 DEF Evidence!Queued
  <2>3. Append(conn.events, m.type) \in Seq(Event)
    BY <1>2 DEF ConnTypes, Event
  <2> QED BY <2>2, <2>3 DEF ConnTypes
<1>3. ASSUME m.type # "flow" \/ conn.flowSeen,
             m.type \notin {"capability", "received"} \/ Evidence!Contains(conn.events, m.type)
      PROVE  c = conn
  BY <1>3 DEF Evidence!HandleMediaEvidence
<1> HIDE DEF c
<1>4. /\ ConnTypes(c) /\ c.time = conn.time /\ c.video = conn.video
      /\ c.covered = conn.covered
  BY <1>1, <1>2, <1>3
<1>5. Evidence!FlowStatus(m) \in Event
      /\ (Evidence!FlowStatus(m) = "confirmed" => m.frame /\ m.video > 0)
  BY DEF Evidence!FlowStatus, Event
<1>6. \/ c.events = conn.events
      \/ \E e \in Event :
           /\ c.events = Append(conn.events, e)
           /\ e = "confirmed" => m.type = "flow" /\ m.frame /\ m.video > 0
  <2>1. m.type \in {"capability", "received"} => m.type \in Event /\ m.type # "confirmed"
    BY DEF Event
  <2> QED BY <1>1, <1>2, <1>3, <1>5, <2>1
<1>7. m.type = "received" => Evidence!Contains(c.events, "received")
  <2>1. SUFFICES ASSUME m.type = "received" PROVE Evidence!Contains(c.events, "received")
    OBVIOUS
  <2>2. CASE Evidence!Contains(conn.events, "received")
    BY <2>1, <2>2, <1>3
  <2>3. CASE ~Evidence!Contains(conn.events, "received")
    <3>1. conn.events \in Seq(Event) /\ "received" \in Event
      BY DEF ConnTypes, Event
    <3>2. Evidence!Contains(Append(conn.events, "received"), "received")
      BY <3>1, Queues
    <3> QED BY <1>2, <2>1, <2>3, <3>2
  <2> QED BY <2>2, <2>3
<1> QED BY <1>4, <1>6, <1>7 DEF c

LEMMA MessagesCount == EvidenceInv /\ Evidence!Receive => EvidenceInv'
<1> SUFFICES ASSUME EvidenceInv, Evidence!Receive PROVE EvidenceInv'
  OBVIOUS
<1> DEFINE m == Head(net)
<1>1. /\ net # << >> /\ net' = Tail(net) /\ evidenceB' = evidenceB /\ truth' = truth
      /\ now' = now /\ net \in Seq(Message) /\ Claims(net, conn, truth)
      /\ truth.ticks \in Nat /\ truth.video \in Nat
  BY DEF Evidence!Receive, EvidenceInv, EvidenceTypes
<1>2. /\ m \in Message /\ m = net[1] /\ net' \in Seq(Message)
      /\ Len(net') = Len(net) - 1 /\ Len(net) \in Nat /\ Len(net) > 0
      /\ \A i \in 1 .. Len(net') : net'[i] = net[i + 1]
  BY <1>1
<1>3. Claim(m, net, 0, conn, truth)
  BY <1>1, <1>2 DEF Claims
<1>4. conn' = IF m.type # "quality" THEN Evidence!HandleMediaEvidence(m)
              ELSE IF ~Evidence!Accept(m) THEN conn
              ELSE [Evidence!Summarised(conn) EXCEPT !.lastAt = now, !.time = m.time,
                                            !.video = m.video, !.covered = m.covered]
  BY DEF Evidence!Receive
<1> HIDE DEF m
<1>5. ConnTypes(conn)
  BY DEF EvidenceInv, EvidenceTypes, ConnTypes
<1>6. conn.time <= truth.ticks /\ conn.video <= truth.video /\ conn.covered <= conn.time
  BY DEF EvidenceInv
\* What the new connection is.
<1>7. /\ ConnTypes(conn') /\ conn'.time <= truth.ticks /\ conn'.video <= truth.video
      /\ conn'.covered <= conn'.time
      /\ \/ conn'.events = conn.events
         \/ \E e \in Event :
              /\ conn'.events = Append(conn.events, e)
              /\ e = "confirmed" => m.type = "flow" /\ m.frame /\ m.video > 0
      /\ m.type = "received" => Evidence!Contains(conn'.events, "received")
  <2>1. CASE m.type # "quality"
    <3> DEFINE c == Evidence!HandleMediaEvidence(m)
    <3>1. /\ ConnTypes(c) /\ c.time = conn.time /\ c.video = conn.video
          /\ c.covered = conn.covered
          /\ \/ c.events = conn.events
             \/ \E e \in Event :
                  /\ c.events = Append(conn.events, e)
                  /\ e = "confirmed" => m.type = "flow" /\ m.frame /\ m.video > 0
          /\ m.type = "received" => Evidence!Contains(c.events, "received")
      BY <1>2, <1>5, <2>1, Handled
    <3>2. conn' = c
      BY <1>4, <2>1
    <3> HIDE DEF c
    <3> QED BY <1>6, <3>1, <3>2
  <2>2. CASE m.type = "quality" /\ ~Evidence!Accept(m)
    BY <1>4, <1>5, <1>6, <2>2
  <2>3. CASE m.type = "quality" /\ Evidence!Accept(m)
    <3>1. m.time \in Nat /\ m.video \in Nat /\ m.covered \in Int
      BY <1>2, <2>3 DEF Message
    <3>2. m.time <= truth.ticks /\ m.video <= truth.video /\ m.covered <= m.time
      BY <1>3, <2>3 DEF Claim, Evidence!Accept
    <3> DEFINE d == Evidence!Summarised(conn)
    <3>3. d = [startedAt |-> conn.startedAt, lastAt |-> conn.lastAt, time |-> conn.time,
               video |-> conn.video, covered |-> conn.covered, flowSeen |-> conn.flowSeen,
               events |-> conn.events, summary |-> conn.summary + 1]
      BY <1>5 DEF ConnTypes, Evidence!Summarised
    <3>4. conn' = [d EXCEPT !.lastAt = now, !.time = m.time, !.video = m.video,
                            !.covered = m.covered]
      BY <1>4, <2>3
    <3> HIDE DEF d
    <3>5. conn' = [startedAt |-> conn.startedAt, lastAt |-> now, time |-> m.time,
               video |-> m.video, covered |-> m.covered, flowSeen |-> conn.flowSeen,
               events |-> conn.events, summary |-> conn.summary + 1]
      BY <3>3, <3>4
    <3> QED BY <1>5, <2>3, <3>1, <3>2, <3>5 DEF ConnTypes
  <2> QED BY <2>1, <2>2, <2>3
<1>8. \A x : Evidence!Contains(conn.events, x) => Evidence!Contains(conn'.events, x)
  <2>1. conn.events \in Seq(Event)
    BY <1>5 DEF ConnTypes
  <2>2. \A e \in Event : \A x : Evidence!Contains(conn.events, x) =>
                                  Evidence!Contains(Append(conn.events, e), x)
    BY <2>1, Queues
  <2> QED BY <1>7, <2>2
\* What is told stays told.
<1>9. ASSUME NEW k \in Nat, k < Len(net), FrameTold(net, k + 1, conn)
      PROVE  FrameTold(net', k, conn')
  <2>1. CASE Evidence!Contains(conn.events, "received")
    BY <1>8, <2>1 DEF FrameTold
  <2>2. ASSUME NEW j \in 1 .. (k + 1), net[j].type = "received" PROVE FrameTold(net', k, conn')
    <3>1. CASE j = 1
      BY <1>2, <1>7, <2>2, <3>1 DEF FrameTold
    <3>2. CASE j # 1
      <4>1. j - 1 \in 1 .. k /\ j - 1 \in 1 .. Len(net') /\ (j - 1) + 1 = j
        BY <1>2, <1>9, <3>2
      <4>2. net'[j - 1] = net[j]
        BY <1>2, <4>1
      <4> QED BY <2>2, <4>1, <4>2 DEF FrameTold
    <3> QED BY <3>1, <3>2
  <2> QED BY <1>9, <2>1, <2>2 DEF FrameTold
<1>10. Claims(net', conn', truth)
  <2> SUFFICES ASSUME NEW i \in 1 .. Len(net') PROVE Claim(net'[i], net', i - 1, conn', truth)
    BY DEF Claims
  <2>1. net'[i] = net[i + 1] /\ i + 1 \in 1 .. Len(net) /\ (i + 1) - 1 = i
        /\ i - 1 \in Nat /\ i - 1 < Len(net) /\ (i - 1) + 1 = i
    BY <1>2
  <2>2. Claim(net[i + 1], net, i, conn, truth)
    BY <1>1, <2>1 DEF Claims
  <2>3. FrameTold(net, i, conn) => FrameTold(net', i - 1, conn')
    BY <1>9, <2>1
  <2> QED BY <2>1, <2>2, <2>3 DEF Claim
<1>11. evidenceB.open /\ evidenceB.received = evidenceB.gen =>
         truth.frame /\ FrameTold(net', Len(net'), conn')
  <2>1. evidenceB.open /\ evidenceB.received = evidenceB.gen =>
          truth.frame /\ FrameTold(net, Len(net), conn)
    BY DEF EvidenceInv
  <2>2. Len(net') \in Nat /\ Len(net') < Len(net) /\ Len(net') + 1 = Len(net)
    BY <1>2
  <2>3. FrameTold(net, Len(net), conn) => FrameTold(net', Len(net'), conn')
    BY <1>9, <2>2
  <2> QED BY <2>1, <2>3
<1>12. /\ Evidence!Contains(conn'.events, "confirmed") => truth.frame /\ truth.video > 0
       /\ conn'.events # << >> /\ Evidence!Last(conn'.events) = "confirmed" =>
            Evidence!Contains(Evidence!Front(conn'.events), "received")
  <2>1. /\ Evidence!Contains(conn.events, "confirmed") => truth.frame /\ truth.video > 0
        /\ conn.events # << >> /\ Evidence!Last(conn.events) = "confirmed" =>
             Evidence!Contains(Evidence!Front(conn.events), "received")
    BY DEF EvidenceInv
  <2>2. CASE conn'.events = conn.events
    BY <2>1, <2>2
  <2>3. ASSUME NEW e \in Event, conn'.events = Append(conn.events, e),
               e = "confirmed" => m.type = "flow" /\ m.frame /\ m.video > 0
        PROVE  /\ Evidence!Contains(conn'.events, "confirmed") => truth.frame /\ truth.video > 0
               /\ conn'.events # << >> /\ Evidence!Last(conn'.events) = "confirmed" =>
                    Evidence!Contains(Evidence!Front(conn'.events), "received")
    <3>1. conn.events \in Seq(Event)
      BY <1>5 DEF ConnTypes
    <3>2. /\ Evidence!Last(conn'.events) = e /\ Evidence!Front(conn'.events) = conn.events
          /\ \A x : Evidence!Contains(conn'.events, x) <=>
                      Evidence!Contains(conn.events, x) \/ x = e
      BY <2>3, <3>1, Queues
    <3>3. e = "confirmed" => /\ truth.frame /\ truth.video > 0
                             /\ Evidence!Contains(conn.events, "received")
      BY <1>3, <2>3 DEF Claim, FrameTold
    <3> QED BY <2>1, <3>2, <3>3
  <2> QED BY <1>7, <2>2, <2>3
<1>13. EvidenceTypes'
  BY <1>1, <1>2, <1>7 DEF EvidenceInv, EvidenceTypes, ConnTypes
<1>14. Covered(evidenceB.quality)' = Covered(evidenceB.quality)
       /\ Based(evidenceB.quality)' = Based(evidenceB.quality)
  BY <1>1 DEF Covered, Based
<1> QED BY <1>1, <1>7, <1>10, <1>11, <1>12, <1>13, <1>14 DEF EvidenceInv

LEMMA TimePasses ==
  ASSUME EvidenceInv, NEW x \in {0, 1}, Evidence!Tick(x) PROVE EvidenceInv'
<1> DEFINE p == [evidenceB.peer EXCEPT !.video = evidenceB.peer.video + x]
<1>1. /\ net = << >> /\ UNCHANGED <<net, conn>> /\ now' = now + 1
      /\ x = 0 \/ evidenceB.peer.up
      /\ evidenceB' = [evidenceB EXCEPT !.peer = p]
      /\ truth' = IF evidenceB.peer.up
                  THEN [truth EXCEPT !.ticks = truth.ticks + 1, !.video = truth.video + x]
                  ELSE truth
      /\ x \in Nat /\ now \in Nat
  BY DEF Evidence!Tick, EvidenceInv, EvidenceTypes
<1>2. p = [evidenceB.peer EXCEPT !.video = evidenceB.peer.video + x]
  OBVIOUS
<1> HIDE DEF p
<1>3. p = [n |-> evidenceB.peer.n, id |-> evidenceB.peer.id, up |-> evidenceB.peer.up,
           video |-> evidenceB.peer.video + x]
  BY <1>2 DEF EvidenceInv, EvidenceTypes
<1>4. /\ evidenceB'.open = evidenceB.open /\ evidenceB'.peer = p
      /\ evidenceB'.quality = evidenceB.quality /\ evidenceB'.received = evidenceB.received
      /\ evidenceB'.gen = evidenceB.gen /\ evidenceB'.flowVideo = evidenceB.flowVideo
      /\ evidenceB' =
           [open |-> evidenceB'.open, gen |-> evidenceB'.gen, peer |-> evidenceB'.peer,
            quality |-> evidenceB'.quality, received |-> evidenceB'.received,
            flowGen |-> evidenceB'.flowGen, flowAt |-> evidenceB'.flowAt,
            flowVideo |-> evidenceB'.flowVideo, flowReported |-> evidenceB'.flowReported]
  BY <1>1 DEF EvidenceInv, EvidenceTypes
<1>5. /\ truth' = [ticks |-> truth'.ticks, video |-> truth'.video, frame |-> truth'.frame]
      /\ truth'.ticks = IF evidenceB.peer.up THEN truth.ticks + 1 ELSE truth.ticks
      /\ truth'.video = IF evidenceB.peer.up THEN truth.video + x ELSE truth.video
      /\ truth'.frame = truth.frame
  BY <1>1 DEF EvidenceInv, EvidenceTypes
<1>6. truth.ticks \in Nat /\ truth.video \in Nat /\ evidenceB.peer.video \in Nat
      /\ Quality(evidenceB.quality)
  BY DEF EvidenceInv, EvidenceTypes
<1>7. truth'.ticks \in Nat /\ truth'.video \in Nat /\ truth.ticks <= truth'.ticks
      /\ truth.video <= truth'.video
  BY <1>1, <1>5, <1>6
<1>8. EvidenceTypes'
  <2>1. p = [n |-> p.n, id |-> p.id, up |-> p.up, video |-> p.video] /\ p.video \in Nat
        /\ now' \in Nat
    BY <1>1, <1>3, <1>6
  <2> QED BY <1>1, <1>4, <1>5, <1>6, <1>7, <2>1 DEF EvidenceInv, EvidenceTypes
<1>9. Claims(net', conn', truth')
  BY <1>1 DEF Claims
<1>10. evidenceB.open => Covered(evidenceB.quality)'
  BY <1>4, <1>6, <1>7 DEF EvidenceInv, Covered, Quality
<1>11. evidenceB.peer.up => Based(evidenceB.quality)'
  <2> SUFFICES ASSUME evidenceB.peer.up, evidenceB.quality.baseline # Evidence!NoSample
               PROVE  LET q == evidenceB.quality
                      IN  /\ q.time + (now' - q.baseline.at) <= truth'.ticks
                          /\ q.video + (evidenceB'.peer.video - q.baseline.video) <= truth'.video
    BY <1>4 DEF Based
  <2>1. LET q == evidenceB.quality
        IN  /\ q.time + (now - q.baseline.at) <= truth.ticks
            /\ q.video + (evidenceB.peer.video - q.baseline.video) <= truth.video
            /\ q.time \in Nat /\ q.video \in Nat /\ q.baseline.at \in Int
            /\ q.baseline.video \in Int
    BY <1>6 DEF EvidenceInv, Based, Quality
  <2>2. evidenceB'.peer.video = evidenceB.peer.video + x
    BY <1>3, <1>4
  <2>3. now' = now + 1 /\ truth'.ticks = truth.ticks + 1 /\ truth'.video = truth.video + x
        /\ x \in Nat /\ now \in Nat
    BY <1>1, <1>5
  <2> DEFINE q == evidenceB.quality
  <2>4. q.time + (now' - q.baseline.at) <= truth'.ticks
    BY <1>6, <2>1, <2>3
  <2>5. q.video + (evidenceB'.peer.video - q.baseline.video) <= truth'.video
    BY <1>6, <2>1, <2>2, <2>3
  <2> QED BY <2>4, <2>5
<1>12. /\ p.up = evidenceB.peer.up /\ p.video <= truth'.video
       /\ ~evidenceB.open => p.video = 0
  BY <1>1, <1>3, <1>5, <1>6 DEF EvidenceInv
<1>13. conn.time <= truth'.ticks /\ conn.video <= truth'.video /\ conn.covered <= conn.time
       /\ (Evidence!Contains(conn.events, "confirmed") => truth'.video > 0)
  <2>1. conn.time \in Nat /\ conn.video \in Nat /\ conn.time <= truth.ticks
        /\ conn.video <= truth.video /\ conn.covered <= conn.time
        /\ (Evidence!Contains(conn.events, "confirmed") => truth.video > 0)
    BY DEF EvidenceInv, EvidenceTypes
  <2> QED BY <1>6, <1>7, <2>1
<1>14. FrameTold(net, Len(net), conn) => FrameTold(net', Len(net'), conn')
  BY <1>1
<1> QED BY <1>1, <1>4, <1>5, <1>8, <1>9, <1>10, <1>11, <1>12, <1>13, <1>14 DEF EvidenceInv

LEMMA EvidenceStep == EvidenceInv /\ [Evidence!Next]_evidenceVars => EvidenceInv'
<1> SUFFICES ASSUME EvidenceInv, [Evidence!Next]_evidenceVars PROVE EvidenceInv'
  OBVIOUS
<1>1. CASE Evidence!Next
  BY <1>1, EvidenceOpens, PeersStart, FramesCount, StatsCount, HiddenReports, PageLeaves,
     MessagesCount, TimePasses DEF Evidence!Next
<1>2. CASE UNCHANGED evidenceVars
  BY <1>2 DEF evidenceVars, EvidenceInv, EvidenceTypes, Covered, Based, Claims, Claim,
              FrameTold
<1> QED BY <1>1, <1>2

LEMMA EvidenceSound ==
  EvidenceInv => Evidence!QualityIsCovered /\ Evidence!ConfirmedFlowed
<1> SUFFICES ASSUME EvidenceInv
             PROVE  Evidence!QualityIsCovered /\ Evidence!ConfirmedFlowed
  OBVIOUS
<1>1. Evidence!QualityIsCovered
  BY DEF EvidenceInv, Covered, Evidence!QualityIsCovered
<1>2. Evidence!Contains(conn.events, "confirmed") => conn.events # << >>
  BY DEF Evidence!Contains
<1>3. Evidence!ConfirmedFlowed
  BY <1>2 DEF EvidenceInv, Evidence!ConfirmedFlowed
<1> QED BY <1>1, <1>3

-----------------------------------------------------------------------------
(* PlayerBootstrap: what the tab keeps is of one session.                  *)

BootTypes ==
  /\ url = [ticket |-> url.ticket, hash |-> url.hash, query |-> url.query,
            whole |-> url.whole, end |-> url.end, settings |-> url.settings]
  /\ stored = [ticket |-> stored.ticket, context |-> stored.context, end |-> stored.end,
               settings |-> stored.settings]
  /\ bootstrapPage =
       [at |-> bootstrapPage.at, ticket |-> bootstrapPage.ticket,
        context |-> bootstrapPage.context, end |-> bootstrapPage.end,
        control |-> bootstrapPage.control, pending |-> bootstrapPage.pending,
        late |-> bootstrapPage.late, guidance |-> bootstrapPage.guidance]

\* No capability stays in the URL, and the one that is kept is the kept ticket's session's;
\* a page leaves for the manager with a session to renew.
BootInv ==
  /\ BootTypes
  /\ url.hash \in Boot!Context /\ url.query \in Boot!Context
  /\ stored.context \in Boot!Context /\ bootstrapPage.context \in Boot!Context
  /\ bootstrapPage.at = "manager" => bootstrapPage.context # Boot!Nowhere
  /\ url.end = Boot!None
  /\ stored.end \in {Boot!None, stored.ticket.of}
  /\ Boot!DirectEndIsOwn

LEMMA BootInit == Boot!Init => BootInv
<1> SUFFICES ASSUME Boot!Init PROVE BootInv
  OBVIOUS
<1>1. BootTypes
  BY DEF Boot!Init, Boot!Bare, BootTypes
<1>2. url.end = Boot!None /\ stored.end = Boot!None /\ bootstrapPage.control = FALSE
      /\ url.hash = Boot!Nowhere /\ url.query = Boot!Nowhere
      /\ stored.context = Boot!Nowhere /\ bootstrapPage.context = Boot!Nowhere
      /\ bootstrapPage.at = "blank" /\ Boot!Nowhere \in Boot!Context
  BY DEF Boot!Init, Boot!Bare, Boot!Context
<1> QED BY <1>1, <1>2 DEF BootInv, Boot!DirectEndIsOwn

\* A page that starts, from a URL whose capability, if any, is its ticket's session's.
LEMMA PageStarts ==
  ASSUME BootInv, NEW u, NEW late,
         u.end # Boot!None => u.ticket # Boot!Nobody /\ u.ticket.of = u.end,
         u = [ticket |-> u.ticket, hash |-> u.hash, query |-> u.query, whole |-> u.whole,
              end |-> u.end, settings |-> u.settings],
         u.hash \in Boot!Context, u.query \in Boot!Context, Boot!Onload(u, late)
  PROVE  BootInv'
<1> DEFINE s == Boot!StoredBy(stored, u)
           clean == Boot!Scrubbed(s, u)
<1>1. /\ s = [ticket |-> s.ticket, context |-> s.context, end |-> s.end,
              settings |-> s.settings]
      /\ s.ticket = (IF u.ticket # Boot!Nobody THEN u.ticket ELSE stored.ticket)
      /\ s.end = Boot!EndStored(stored, u)
      /\ s.context = (IF Boot!ContextOf(u) # Boot!Nowhere THEN Boot!ContextOf(u)
                      ELSE stored.context)
  BY DEF Boot!StoredBy
<1>2. /\ url' = clean
      /\ IF s.ticket = Boot!Nobody /\ s.context # Boot!Nowhere
         THEN Boot!RedirectToSessionManager(s, clean, s.context)
         ELSE /\ stored' = s
              /\ bootstrapPage' = Boot!Started(s, late)
              /\ chosen' = Boot!None
  BY DEF Boot!Onload
<1> HIDE DEF s
<1>3. s.end \in {Boot!None, s.ticket.of}
  BY <1>1 DEF BootInv, Boot!EndStored
<1>7. Boot!Nowhere \in Boot!Context
  BY DEF Boot!Context
<1>4. /\ clean = [ticket |-> clean.ticket, hash |-> clean.hash, query |-> clean.query,
                  whole |-> clean.whole, end |-> clean.end, settings |-> clean.settings]
      /\ clean.end = Boot!None
      /\ clean.hash \in Boot!Context /\ clean.query \in Boot!Context
  BY <1>7 DEF Boot!Scrubbed, Boot!Bare
<1> HIDE DEF clean
<1>8. s.context \in Boot!Context
  BY <1>1, <1>7 DEF BootInv, Boot!ContextOf, Boot!ParseReconnectContext
<1>5. CASE Boot!RedirectToSessionManager(s, clean, s.context) /\ s.context # Boot!Nowhere
  <2> DEFINE k == Boot!PersistPlayerQueryState(s, clean)
  <2>1. stored' = [k EXCEPT !.ticket = Boot!Nobody, !.end = Boot!None]
    BY <1>5 DEF Boot!RedirectToSessionManager
  <2>2. k = [s EXCEPT !.settings = clean.settings]
    BY DEF Boot!PersistPlayerQueryState
  <2> HIDE DEF k
  <2>3. stored' = [ticket |-> Boot!Nobody, context |-> s.context, end |-> Boot!None,
                   settings |-> clean.settings]
    BY <1>1, <2>1, <2>2
  <2>4. bootstrapPage' =
          [at |-> "manager", ticket |-> Boot!Nobody, context |-> s.context,
           end |-> Boot!None, control |-> FALSE, pending |-> FALSE, late |-> FALSE,
           guidance |-> Boot!None]
    BY <1>5 DEF Boot!RedirectToSessionManager
  <2>5. BootTypes'
    BY <1>2, <1>4, <2>3, <2>4 DEF BootTypes
  <2> QED BY <1>2, <1>4, <1>5, <1>8, <2>3, <2>4, <2>5 DEF BootInv, Boot!DirectEndIsOwn
<1>6. CASE stored' = s /\ bootstrapPage' = Boot!Started(s, late)
  <2>1. /\ bootstrapPage' =
             [at |-> bootstrapPage'.at, ticket |-> bootstrapPage'.ticket,
              context |-> bootstrapPage'.context, end |-> bootstrapPage'.end,
              control |-> bootstrapPage'.control, pending |-> bootstrapPage'.pending,
              late |-> bootstrapPage'.late, guidance |-> bootstrapPage'.guidance]
        /\ bootstrapPage'.ticket = s.ticket /\ bootstrapPage'.context = s.context
        /\ bootstrapPage'.end = s.end
        /\ bootstrapPage'.control => s.ticket.of = s.context.of
        /\ bootstrapPage'.at = "player"
    BY <1>6 DEF Boot!Started, Boot!IsManagedEndContext
  <2>2. BootTypes'
    BY <1>1, <1>2, <1>4, <1>6, <2>1 DEF BootTypes
  <2>3. Boot!DirectEndIsOwn'
    BY <1>3, <2>1 DEF Boot!DirectEndIsOwn
  <2> QED BY <1>2, <1>3, <1>4, <1>6, <1>8, <2>1, <2>2, <2>3 DEF BootInv
<1> QED BY <1>2, <1>5, <1>6

LEMMA LinkFacts ==
  ASSUME NEW r \in Sessions, NEW u \in Boot!Links(r)
  PROVE  /\ u.end # Boot!None => u.ticket # Boot!Nobody /\ u.ticket.of = u.end
         /\ u = [ticket |-> u.ticket, hash |-> u.hash, query |-> u.query, whole |-> u.whole,
                 end |-> u.end, settings |-> u.settings]
         /\ u.hash \in Boot!Context /\ u.query \in Boot!Context
<1>1. PICK shadow \in BOOLEAN, hash \in Boot!Context, query \in Boot!Context,
           whole \in BOOLEAN, e \in {Boot!None, r}, q \in Boot!Maybe(Queries) :
        u = [ticket |-> [of |-> r, shadow |-> shadow], hash |-> hash, query |-> query,
             whole |-> whole, end |-> e, settings |-> q]
  <2>1. \A c \in {Boot!Nowhere} \cup [of: {r}, env: BOOLEAN] : c \in Boot!Context
    BY DEF Boot!Context
  <2>2. PICK shadow \in BOOLEAN, inQuery \in BOOLEAN, whole \in BOOLEAN,
             e \in {Boot!None, r}, c \in {Boot!Nowhere} \cup [of: {r}, env: BOOLEAN],
             q \in Boot!Maybe(Queries) :
          u = [ticket |-> [of |-> r, shadow |-> shadow],
               hash |-> IF inQuery THEN Boot!Nowhere ELSE c,
               query |-> IF inQuery THEN c ELSE Boot!Nowhere, whole |-> whole, end |-> e,
               settings |-> q]
    BY DEF Boot!Links
  <2>3. (IF inQuery THEN Boot!Nowhere ELSE c) \in Boot!Context
        /\ (IF inQuery THEN c ELSE Boot!Nowhere) \in Boot!Context
    BY <2>1
  <2> QED BY <2>2, <2>3
<1>2. r # Boot!None
  BY SessionAssumption DEF Boot!None
<1>3. [of |-> r, shadow |-> shadow] # Boot!Nobody
  <2>1. [of |-> r, shadow |-> shadow].of # Boot!Nobody.of
    BY <1>2 DEF Boot!Nobody
  <2> QED BY <2>1
<1> QED BY <1>1, <1>3

LEMMA BootStep == BootInv /\ [Boot!Next]_bootstrapVars => BootInv'
<1> SUFFICES ASSUME BootInv, [Boot!Next]_bootstrapVars PROVE BootInv'
  OBVIOUS
<1>1. ASSUME NEW r, Boot!Open(r), r \in Sessions \ bootstrapOver PROVE BootInv'
  <2>1. PICK u \in Boot!Links(r), late \in BOOLEAN : Boot!Onload(u, late)
    BY <1>1 DEF Boot!Open
  <2> QED BY <1>1, <2>1, LinkFacts, PageStarts
\* The manager knows the session the tab was sent away with, whatever it is.
<1>2. ASSUME Boot!Return PROVE BootInv'
  <2>1. PICK u \in Boot!Links(bootstrapPage.context.of) : Boot!Onload(u, FALSE)
    BY <1>2 DEF Boot!Return
  <2>2. bootstrapPage.context.of \in Sessions
    BY <1>2 DEF Boot!Return, BootInv, Boot!Context
  <2> QED BY <2>1, <2>2, LinkFacts, PageStarts
<1>3. ASSUME Boot!Reload PROVE BootInv'
  <2>1. PICK late \in BOOLEAN : Boot!Onload(url, late)
    BY <1>3 DEF Boot!Reload
  <2> QED BY <2>1, PageStarts DEF BootInv, BootTypes
<1>4. ASSUME NEW settings, Boot!GoTo(settings) PROVE BootInv'
  <2>1. PICK late \in BOOLEAN : Boot!Onload(Boot!Bare(settings), late)
    BY <1>4 DEF Boot!GoTo
  <2> DEFINE u == Boot!Bare(settings)
  <2>2. /\ u = [ticket |-> u.ticket, hash |-> u.hash, query |-> u.query,
                whole |-> u.whole, end |-> u.end, settings |-> u.settings]
        /\ u.end = Boot!None /\ u.hash \in Boot!Context /\ u.query \in Boot!Context
    BY DEF Boot!Bare, Boot!Context
  <2>3. Boot!Onload(u, late)
    BY <2>1
  <2> HIDE DEF u
  <2> QED BY <2>2, <2>3, PageStarts
<1>5. ASSUME NEW settings, Boot!Set(settings) PROVE BootInv'
  <2>1. /\ url' = [url EXCEPT !.settings = settings]
        /\ stored' = stored /\ bootstrapPage' = bootstrapPage
    BY <1>5 DEF Boot!Set
  <2>2. url' = [ticket |-> url.ticket, hash |-> url.hash, query |-> url.query,
                whole |-> url.whole, end |-> url.end, settings |-> settings]
    BY <2>1 DEF BootInv, BootTypes
  <2> QED BY <2>1, <2>2 DEF BootInv, BootTypes, Boot!DirectEndIsOwn
\* The rest changes what the page shows, or forgets what is kept.
<1>6. ASSUME \/ Boot!Expire \/ (\E o \in BOOLEAN : Boot!EndPending(o))
             \/ Boot!EndConfirmed \/ \E reason \in Boot!Reasons : Boot!Disconnected(reason)
      PROVE  BootInv'
  <2>1. url' = url
    BY <1>6 DEF Boot!Expire, Boot!EndPending, Boot!EndConfirmed, Boot!Disconnected
  <2> DEFINE Shows(p) ==
               /\ p = [at |-> bootstrapPage.at, ticket |-> bootstrapPage.ticket,
                       context |-> bootstrapPage.context, end |-> bootstrapPage.end,
                       control |-> bootstrapPage.control, pending |-> p.pending,
                       late |-> p.late, guidance |-> p.guidance]
  <2>2. \/ /\ Boot!RedirectToSessionManager(stored, url, bootstrapPage.context)
           /\ bootstrapPage.context # Boot!Nowhere
        \/ stored' \in {stored, Boot!Forgotten(stored)} /\ Shows(bootstrapPage')
    <3>1. bootstrapPage =
            [at |-> bootstrapPage.at, ticket |-> bootstrapPage.ticket,
             context |-> bootstrapPage.context, end |-> bootstrapPage.end,
             control |-> bootstrapPage.control, pending |-> bootstrapPage.pending,
             late |-> bootstrapPage.late, guidance |-> bootstrapPage.guidance]
      BY DEF BootInv, BootTypes
    <3>2. ASSUME NEW x, NEW p,
                 p \in {[bootstrapPage EXCEPT !.late = x],
                        [bootstrapPage EXCEPT !.pending = x],
                        [bootstrapPage EXCEPT !.guidance = x],
                        [[bootstrapPage EXCEPT !.guidance = x] EXCEPT !.pending = FALSE]}
          PROVE  Shows(p)
      <4>1. CASE p = [bootstrapPage EXCEPT !.late = x]
        BY <3>1, <4>1
      <4>2. CASE p = [bootstrapPage EXCEPT !.pending = x]
        BY <3>1, <4>2
      <4>3. CASE p = [bootstrapPage EXCEPT !.guidance = x]
        BY <3>1, <4>3
      <4>4. CASE p = [[bootstrapPage EXCEPT !.guidance = x] EXCEPT !.pending = FALSE]
        <5>1. PICK q : q = [bootstrapPage EXCEPT !.guidance = x]
          OBVIOUS
        <5>2. p = [q EXCEPT !.pending = FALSE]
          BY <4>4, <5>1
        <5> QED BY <3>1, <5>1, <5>2
      <4> QED BY <3>2, <4>1, <4>2, <4>3, <4>4
    <3>3. Shows(bootstrapPage)
      BY <3>1
    <3> HIDE DEF Shows
    <3>4. CASE Boot!Expire
      BY <3>2, <3>4 DEF Boot!Expire
    <3>5. CASE \E o \in BOOLEAN : Boot!EndPending(o)
      BY <3>2, <3>5 DEF Boot!EndPending
    <3>6. CASE Boot!EndConfirmed
      BY <3>2, <3>6 DEF Boot!EndConfirmed, Boot!Guided
    <3>7. ASSUME NEW reason, Boot!Disconnected(reason)
          PROVE  \/ /\ Boot!RedirectToSessionManager(stored, url, bootstrapPage.context)
                    /\ bootstrapPage.context # Boot!Nowhere
                 \/ stored' \in {stored, Boot!Forgotten(stored)} /\ Shows(bootstrapPage')
      BY <3>2, <3>3, <3>7 DEF Boot!Disconnected, Boot!Guided
    <3> QED BY <1>6, <3>4, <3>5, <3>6, <3>7
  <2>3. CASE /\ Boot!RedirectToSessionManager(stored, url, bootstrapPage.context)
             /\ bootstrapPage.context # Boot!Nowhere
    <3> DEFINE k == Boot!PersistPlayerQueryState(stored, url)
    <3>1. stored' = [k EXCEPT !.ticket = Boot!Nobody, !.end = Boot!None]
      BY <2>3 DEF Boot!RedirectToSessionManager
    <3>2. k = [stored EXCEPT !.settings = url.settings]
      BY DEF Boot!PersistPlayerQueryState
    <3> HIDE DEF k
    <3>3. stored' = [ticket |-> Boot!Nobody, context |-> stored.context, end |-> Boot!None,
                     settings |-> url.settings]
      BY <3>1, <3>2 DEF BootInv, BootTypes
    <3>4. bootstrapPage' =
            [at |-> "manager", ticket |-> Boot!Nobody, context |-> bootstrapPage.context,
             end |-> Boot!None, control |-> FALSE, pending |-> FALSE, late |-> FALSE,
             guidance |-> Boot!None]
      BY <2>3 DEF Boot!RedirectToSessionManager
    <3>5. BootTypes'
      BY <2>1, <3>3, <3>4 DEF BootInv, BootTypes
    <3> QED BY <2>1, <2>3, <3>3, <3>4, <3>5 DEF BootInv, Boot!DirectEndIsOwn
  <2>4. ASSUME stored' \in {stored, Boot!Forgotten(stored)}, Shows(bootstrapPage')
        PROVE  BootInv'
    <3>1. bootstrapPage' =
            [at |-> bootstrapPage.at, ticket |-> bootstrapPage.ticket,
             context |-> bootstrapPage.context, end |-> bootstrapPage.end,
             control |-> bootstrapPage.control, pending |-> bootstrapPage'.pending,
             late |-> bootstrapPage'.late, guidance |-> bootstrapPage'.guidance]
      BY <2>4
    <3>2. /\ stored' = [ticket |-> stored'.ticket, context |-> stored'.context,
                        end |-> stored'.end, settings |-> stored'.settings]
          /\ stored'.end \in {Boot!None, stored'.ticket.of}
      BY <2>4 DEF BootInv, BootTypes, Boot!Forgotten
    <3>3. stored'.context \in Boot!Context
      <4>1. stored'.context \in {stored.context, Boot!Nowhere}
        BY <2>4 DEF BootInv, BootTypes, Boot!Forgotten
      <4> QED BY <4>1 DEF BootInv, Boot!Context
    <3> QED BY <2>1, <3>1, <3>2, <3>3 DEF BootInv, BootTypes, Boot!DirectEndIsOwn
  <2> HIDE DEF Shows
  <2> QED BY <2>2, <2>3, <2>4
<1>7. CASE UNCHANGED bootstrapVars
  BY <1>7 DEF bootstrapVars, BootInv, BootTypes, Boot!DirectEndIsOwn
<1> QED BY <1>1, <1>2, <1>3, <1>4, <1>5, <1>6, <1>7 DEF Boot!Next

-----------------------------------------------------------------------------
(* PlayerBootstrap: a session that ended is forgotten, settings are not.   *)

\* Nothing that names a session stays in the URL; what the tab keeps is of no session it was
\* told has ended, and at the manager it keeps the settings the page was left with.
BootKept ==
  /\ url.ticket = Boot!Nobody /\ url.hash = Boot!Nowhere /\ url.query = Boot!Nowhere
  /\ stored.ticket \in Boot!Ticket /\ bootstrapPage.ticket \in Boot!Ticket
  /\ bootstrapPage.control => bootstrapPage.ticket # Boot!Nobody
  /\ bootstrapOver \subseteq Sessions /\ bootstrapLeft \in Int
  /\ stored.ticket.of \notin bootstrapOver /\ stored.context.of \notin bootstrapOver
  /\ bootstrapPage.at = "manager" => stored.settings = chosen

LEMMA KeptInit == Boot!Init => BootKept
<1> SUFFICES ASSUME Boot!Init PROVE BootKept
  OBVIOUS
<1>1. Boot!Nobody \in Boot!Ticket
  BY DEF Boot!Ticket
<1> QED BY <1>1, CountAssumption DEF Boot!Init, Boot!Bare, BootKept

\* The tab was told of the end of a session only when it had one.
LEMMA NoneNotOver ==
  ASSUME BootKept
  PROVE  Boot!Nobody.of \notin bootstrapOver /\ Boot!Nowhere.of \notin bootstrapOver
BY SessionAssumption DEF BootKept, Boot!Nobody, Boot!Nowhere, Boot!None

\* A page that starts from a link, a bare URL or its own, of a session that is not over.
LEMMA KeptStarts ==
  ASSUME BootKept, NEW u, NEW late,
         u.ticket \in Boot!Ticket, u.ticket.of \notin bootstrapOver,
         u.hash.of \notin bootstrapOver, u.query.of \notin bootstrapOver,
         Boot!Onload(u, late), UNCHANGED bootstrapOver
  PROVE  /\ BootKept'
         /\ {bootstrapPage'.ticket.of, bootstrapPage'.context.of} \cap bootstrapOver = {}
<1> DEFINE s == Boot!StoredBy(stored, u)
           clean == Boot!Scrubbed(s, u)
<1>1. /\ s = [ticket |-> s.ticket, context |-> s.context, end |-> s.end,
              settings |-> s.settings]
      /\ s.ticket = (IF u.ticket # Boot!Nobody THEN u.ticket ELSE stored.ticket)
      /\ s.context = (IF Boot!ContextOf(u) # Boot!Nowhere THEN Boot!ContextOf(u)
                      ELSE stored.context)
  BY DEF Boot!StoredBy
<1>2. /\ url' = clean
      /\ IF s.ticket = Boot!Nobody /\ s.context # Boot!Nowhere
         THEN Boot!RedirectToSessionManager(s, clean, s.context)
         ELSE /\ stored' = s
              /\ bootstrapPage' = Boot!Started(s, late)
              /\ chosen' = Boot!None
  BY DEF Boot!Onload
<1>8. bootstrapLeft' \in Int
  BY DEF Boot!Onload, BootKept
<1> HIDE DEF s
<1>3. clean.ticket = Boot!Nobody /\ clean.hash = Boot!Nowhere /\ clean.query = Boot!Nowhere
  BY DEF Boot!Scrubbed, Boot!Bare, Boot!HasReconnectContextParams
<1> HIDE DEF clean
<1>4. s.ticket \in Boot!Ticket /\ s.ticket.of \notin bootstrapOver
  BY <1>1 DEF BootKept
<1>5. s.context.of \notin bootstrapOver
  BY <1>1, NoneNotOver DEF BootKept, Boot!ContextOf, Boot!ParseReconnectContext
<1>6. CASE Boot!RedirectToSessionManager(s, clean, s.context)
  <2> DEFINE k == Boot!PersistPlayerQueryState(s, clean)
  <2>1. stored' = [k EXCEPT !.ticket = Boot!Nobody, !.end = Boot!None]
    BY <1>6 DEF Boot!RedirectToSessionManager
  <2>7. chosen' = clean.settings
    BY <1>6 DEF Boot!RedirectToSessionManager
  <2>2. k = [s EXCEPT !.settings = clean.settings]
    BY DEF Boot!PersistPlayerQueryState
  <2> HIDE DEF k
  <2>3. stored' = [ticket |-> Boot!Nobody, context |-> s.context, end |-> Boot!None,
                   settings |-> clean.settings]
    BY <1>1, <2>1, <2>2
  <2>4. bootstrapPage'.ticket = Boot!Nobody /\ bootstrapPage'.context = s.context
        /\ bootstrapPage'.control = FALSE
    BY <1>6 DEF Boot!RedirectToSessionManager
  <2>5. Boot!Nobody \in Boot!Ticket
    BY DEF Boot!Ticket
  <2>6. stored'.ticket = Boot!Nobody /\ stored'.context = s.context
        /\ stored'.settings = chosen'
    BY <2>3, <2>7
  <2> QED BY <1>2, <1>3, <1>5, <1>8, <2>4, <2>5, <2>6, NoneNotOver DEF BootKept
<1>7. CASE stored' = s /\ bootstrapPage' = Boot!Started(s, late)
  <2>1. bootstrapPage'.ticket = s.ticket /\ bootstrapPage'.context = s.context
        /\ (bootstrapPage'.control => s.ticket # Boot!Nobody)
        /\ bootstrapPage'.at = "player"
    BY <1>7 DEF Boot!Started, Boot!IsManagedEndContext
  <2> QED BY <1>2, <1>3, <1>4, <1>5, <1>7, <1>8, <2>1 DEF BootKept
<1> QED BY <1>2, <1>6, <1>7

\* What a link of the manager names is its session.
LEMMA LinkNames ==
  ASSUME NEW r \in Sessions, r \notin bootstrapOver, BootKept, NEW u \in Boot!Links(r)
  PROVE  /\ u.ticket \in Boot!Ticket /\ u.ticket # Boot!Nobody
         /\ u.ticket.of \notin bootstrapOver
         /\ u.hash.of \notin bootstrapOver /\ u.query.of \notin bootstrapOver
<1>1. PICK shadow \in BOOLEAN, inQuery \in BOOLEAN, whole \in BOOLEAN,
           e \in {Boot!None, r}, c \in {Boot!Nowhere} \cup [of: {r}, env: BOOLEAN],
           q \in Boot!Maybe(Queries) :
        u = [ticket |-> [of |-> r, shadow |-> shadow],
             hash |-> IF inQuery THEN Boot!Nowhere ELSE c,
             query |-> IF inQuery THEN c ELSE Boot!Nowhere, whole |-> whole, end |-> e,
             settings |-> q]
  BY DEF Boot!Links
<1>2. c.of \notin bootstrapOver
  BY NoneNotOver
<1>3. u.hash.of \notin bootstrapOver /\ u.query.of \notin bootstrapOver
  <2>1. u.hash = (IF inQuery THEN Boot!Nowhere ELSE c)
        /\ u.query = (IF inQuery THEN c ELSE Boot!Nowhere)
    BY <1>1
  <2> QED BY <1>2, <2>1, NoneNotOver
<1>4. u.ticket = [of |-> r, shadow |-> shadow]
  BY <1>1
<1>5. u.ticket \in Boot!Ticket /\ u.ticket.of = r
  BY <1>4 DEF Boot!Ticket
<1>6. u.ticket # Boot!Nobody
  <2>1. Boot!Nobody.of = Boot!None /\ r # Boot!None
    BY SessionAssumption DEF Boot!Nobody, Boot!None
  <2> QED BY <1>5, <2>1
<1> QED BY <1>3, <1>5, <1>6

\* The step of a page that starts: one that does not leave the number of loads alone.
Loads ==
  \/ \E r \in Sessions \ bootstrapOver : Boot!Open(r)
  \/ Boot!Return \/ Boot!Reload
  \/ \E settings \in Boot!Maybe(Queries) : Boot!GoTo(settings)

LEMMA KeptLoads ==
  ASSUME BootInv, BootKept, Loads
  PROVE  /\ BootKept'
         /\ {bootstrapPage'.ticket.of, bootstrapPage'.context.of} \cap bootstrapOver = {}
<1>1. ASSUME NEW r \in Sessions \ bootstrapOver, Boot!Open(r)
      PROVE  /\ BootKept'
             /\ {bootstrapPage'.ticket.of, bootstrapPage'.context.of} \cap bootstrapOver = {}
  <2>1. PICK u \in Boot!Links(r), late \in BOOLEAN : Boot!Onload(u, late)
    BY <1>1 DEF Boot!Open
  <2>2. UNCHANGED bootstrapOver
    BY <1>1 DEF Boot!Open
  <2> QED BY <1>1, <2>1, <2>2, LinkNames, KeptStarts
<1>2. CASE Boot!Return
  <2> DEFINE r == bootstrapPage.context.of
  <2>1. PICK u \in Boot!Links(r) : Boot!Onload(u, FALSE)
    BY <1>2 DEF Boot!Return
  <2>2. r \in Sessions /\ r \notin bootstrapOver /\ UNCHANGED bootstrapOver
    BY <1>2 DEF Boot!Return, BootInv, Boot!Context
  <2> HIDE DEF r
  <2> QED BY <2>1, <2>2, LinkNames, KeptStarts
<1>3. CASE Boot!Reload
  <2>1. PICK late \in BOOLEAN : Boot!Onload(url, late)
    BY <1>3 DEF Boot!Reload
  <2>2. UNCHANGED bootstrapOver
    BY <1>3 DEF Boot!Reload
  <2>3. url.ticket \in Boot!Ticket /\ url.ticket.of \notin bootstrapOver
        /\ url.hash.of \notin bootstrapOver /\ url.query.of \notin bootstrapOver
    BY NoneNotOver DEF BootKept, Boot!Ticket
  <2> QED BY <2>1, <2>2, <2>3, KeptStarts
<1>4. ASSUME NEW settings, Boot!GoTo(settings)
      PROVE  /\ BootKept'
             /\ {bootstrapPage'.ticket.of, bootstrapPage'.context.of} \cap bootstrapOver = {}
  <2> DEFINE u == Boot!Bare(settings)
  <2>1. PICK late \in BOOLEAN : Boot!Onload(u, late)
    BY <1>4 DEF Boot!GoTo
  <2>2. UNCHANGED bootstrapOver
    BY <1>4 DEF Boot!GoTo
  <2>3. u.ticket = Boot!Nobody /\ u.hash = Boot!Nowhere /\ u.query = Boot!Nowhere
    BY DEF Boot!Bare
  <2>4. Boot!Nobody \in Boot!Ticket
    BY DEF Boot!Ticket
  <2> HIDE DEF u
  <2> QED BY <2>1, <2>2, <2>3, <2>4, NoneNotOver, KeptStarts
<1> QED BY <1>1, <1>2, <1>3, <1>4 DEF Loads

LEMMA NextLoads ==
  Boot!Next =>
    \/ Loads
    \/ (\E settings : Boot!Set(settings)) \/ Boot!Expire
    \/ (\E o : Boot!EndPending(o)) \/ Boot!EndConfirmed
    \/ \E reason : Boot!Disconnected(reason)
BY DEF Boot!Next, Loads

LEMMA KeptStep == BootInv /\ BootKept /\ [Boot!Next]_bootstrapVars => BootKept'
<1> SUFFICES ASSUME BootInv, BootKept, [Boot!Next]_bootstrapVars PROVE BootKept'
  OBVIOUS
<1>1. CASE Loads
  BY <1>1, KeptLoads
<1>2. ASSUME NEW settings, Boot!Set(settings) PROVE BootKept'
  <2>1. /\ url' = [url EXCEPT !.settings = settings]
        /\ UNCHANGED <<stored, bootstrapPage, bootstrapOver, chosen, bootstrapLeft>>
    BY <1>2 DEF Boot!Set
  <2>2. url' = [ticket |-> url.ticket, hash |-> url.hash, query |-> url.query,
                whole |-> url.whole, end |-> url.end, settings |-> settings]
    BY <2>1 DEF BootInv, BootTypes
  <2> QED BY <2>1, <2>2 DEF BootKept
<1>3. CASE Boot!Expire \/ \E o : Boot!EndPending(o)
  <2>1. /\ UNCHANGED <<url, stored, bootstrapOver, chosen, bootstrapLeft>>
        /\ \E x : bootstrapPage' \in {[bootstrapPage EXCEPT !.late = x],
                                      [bootstrapPage EXCEPT !.pending = x]}
    BY <1>3 DEF Boot!Expire, Boot!EndPending
  <2>2. bootstrapPage'.at = bootstrapPage.at /\ bootstrapPage'.ticket = bootstrapPage.ticket
        /\ bootstrapPage'.control = bootstrapPage.control
    BY <2>1 DEF BootInv, BootTypes
  <2> QED BY <2>1, <2>2 DEF BootKept
\* The end: what the tab keeps is forgotten.
<1>4. ASSUME stored' = Boot!Forgotten(stored),
             bootstrapOver' = bootstrapOver \cup {bootstrapPage.ticket.of},
             bootstrapPage' = [Boot!Guided("ended") EXCEPT !.pending = FALSE],
             bootstrapPage.ticket # Boot!Nobody, bootstrapPage.at = "player",
             UNCHANGED <<url, chosen, bootstrapLeft>>
      PROVE  BootKept'
  <2>1. stored' = [ticket |-> Boot!Nobody, context |-> Boot!Nowhere, end |-> Boot!None,
                   settings |-> stored.settings]
    BY <1>4 DEF BootInv, BootTypes, Boot!Forgotten
  <2>2. bootstrapPage'.at = bootstrapPage.at /\ bootstrapPage'.ticket = bootstrapPage.ticket
        /\ bootstrapPage'.control = bootstrapPage.control
    BY <1>4 DEF BootInv, BootTypes, Boot!Guided
  <2>3. bootstrapPage.ticket.of \in Sessions
    BY <1>4 DEF BootKept, Boot!Ticket
  <2>4. Boot!Nobody \in Boot!Ticket
    BY DEF Boot!Ticket
  <2>5. Boot!None \notin bootstrapOver'
    BY <1>4, <2>3, SessionAssumption DEF BootKept, Boot!None
  <2>6. stored'.ticket.of = Boot!None /\ stored'.context.of = Boot!None
    BY <2>1 DEF Boot!Nobody, Boot!Nowhere
  <2> QED BY <1>4, <2>1, <2>2, <2>3, <2>4, <2>5, <2>6 DEF BootKept
<1>5. CASE Boot!EndConfirmed
  BY <1>4, <1>5 DEF Boot!EndConfirmed, BootKept
<1>6. ASSUME NEW reason, Boot!Disconnected(reason) PROVE BootKept'
  <2>1. CASE Boot!RedirectToSessionManager(stored, url, bootstrapPage.context)
             /\ UNCHANGED <<url, bootstrapOver, bootstrapLeft>>
    <3> DEFINE k == Boot!PersistPlayerQueryState(stored, url)
    <3>1. stored' = [k EXCEPT !.ticket = Boot!Nobody, !.end = Boot!None]
      BY <2>1 DEF Boot!RedirectToSessionManager
    <3>7. chosen' = url.settings
      BY <2>1 DEF Boot!RedirectToSessionManager
    <3>2. k = [stored EXCEPT !.settings = url.settings]
      BY DEF Boot!PersistPlayerQueryState
    <3> HIDE DEF k
    <3>3. stored' = [ticket |-> Boot!Nobody, context |-> stored.context,
                     end |-> Boot!None, settings |-> url.settings]
      BY <3>1, <3>2 DEF BootInv, BootTypes
    <3>4. bootstrapPage'.ticket = Boot!Nobody /\ bootstrapPage'.control = FALSE
      BY <2>1 DEF Boot!RedirectToSessionManager
    <3>5. Boot!Nobody \in Boot!Ticket
      BY DEF Boot!Ticket
    <3>6. stored'.ticket = Boot!Nobody /\ stored'.context = stored.context
          /\ stored'.settings = chosen'
      BY <3>3, <3>7
    <3> QED BY <2>1, <3>4, <3>5, <3>6, NoneNotOver DEF BootKept
  <2>2. CASE /\ \E kind : bootstrapPage' = Boot!Guided(kind)
             /\ UNCHANGED <<url, stored, bootstrapOver, chosen, bootstrapLeft>>
    <3>1. bootstrapPage'.at = bootstrapPage.at
          /\ bootstrapPage'.ticket = bootstrapPage.ticket
          /\ bootstrapPage'.control = bootstrapPage.control
      BY <2>2 DEF BootInv, BootTypes, Boot!Guided
    <3> QED BY <2>2, <3>1 DEF BootKept
  <2>3. CASE UNCHANGED <<url, stored, bootstrapPage, bootstrapOver, chosen, bootstrapLeft>>
    BY <2>3 DEF BootKept
  <2> QED BY <1>4, <1>6, <2>1, <2>2, <2>3 DEF Boot!Disconnected
<1>7. CASE UNCHANGED bootstrapVars
  BY <1>7 DEF bootstrapVars, BootKept
<1> QED BY <1>1, <1>2, <1>3, <1>5, <1>6, <1>7, NextLoads

\* A load is of no session that ended, and keeps the settings of the URL over the manager.
LEMMA BootLoads ==
  BootInv /\ BootKept /\ [Boot!Next]_bootstrapVars =>
    /\ [bootstrapLeft' < bootstrapLeft =>
          {bootstrapPage'.ticket.of, bootstrapPage'.context.of} \cap bootstrapOver = {}
       ]_bootstrapVars
    /\ [Boot!Return /\ bootstrapPage'.at = "player" => url'.settings = chosen]_bootstrapVars
<1> SUFFICES ASSUME BootInv, BootKept, Boot!Next
             PROVE  /\ \/ ~(bootstrapLeft' < bootstrapLeft)
                       \/ {bootstrapPage'.ticket.of, bootstrapPage'.context.of}
                            \cap bootstrapOver = {}
                    /\ Boot!Return /\ bootstrapPage'.at = "player" =>
                         url'.settings = chosen
  OBVIOUS
<1>1. \/ ~(bootstrapLeft' < bootstrapLeft)
      \/ {bootstrapPage'.ticket.of, bootstrapPage'.context.of} \cap bootstrapOver = {}
  <2>1. CASE Loads
    BY <2>1, KeptLoads
  <2>2. CASE bootstrapLeft' = bootstrapLeft
    BY <2>2 DEF BootKept
  <2> QED BY <2>1, <2>2, NextLoads
     DEF Boot!Set, Boot!Expire, Boot!EndPending, Boot!EndConfirmed, Boot!Disconnected
<1>2. ASSUME Boot!Return, bootstrapPage'.at = "player" PROVE url'.settings = chosen
  <2> DEFINE r == bootstrapPage.context.of
  <2>1. PICK u \in Boot!Links(r) : u.settings = Boot!None /\ Boot!Onload(u, FALSE)
    BY <1>2 DEF Boot!Return
  <2>2. r \in Sessions /\ r \notin bootstrapOver
    BY <1>2 DEF Boot!Return, BootInv, Boot!Context
  <2> HIDE DEF r
  <2>3. u.ticket # Boot!Nobody
    BY <2>1, <2>2, LinkNames
  <2> DEFINE s == Boot!StoredBy(stored, u)
  <2>4. s.settings = stored.settings
    BY <2>1, <2>3 DEF Boot!StoredBy, Boot!SettingsStored
  <2>5. url' = Boot!Scrubbed(s, u)
    BY <2>1 DEF Boot!Onload
  <2> HIDE DEF s
  <2>6. url'.settings = s.settings
    BY <2>1, <2>3, <2>5 DEF Boot!Scrubbed, Boot!Bare
  <2>7. stored.settings = chosen
    BY <1>2 DEF Boot!Return, BootKept
  <2> QED BY <2>4, <2>6, <2>7
<1> QED BY <1>1, <1>2

-----------------------------------------------------------------------------
(* EndSession: the tab is given up when the session is over, and the       *)
(* stream has back what an attempt took from it.                           *)

Complete(g) ==
  g = [direct |-> g.direct, dialog |-> g.dialog, at |-> g.at, manager |-> g.manager,
       uncertain |-> g.uncertain, ended |-> g.ended, port |-> g.port, muted |-> g.muted,
       halted |-> g.halted, final |-> g.final, silent |-> g.silent, shows |-> g.shows,
       gone |-> g.gone]

\* The control may be so when the session is over or not.
Right(g, over) ==
  /\ Complete(g)
  /\ g.ended => over
  /\ \/ g.ended
     \/ /\ g.muted => g.dialog
        /\ g.halted \/ g.silent => g.at # "idle"

Reply == {"ping", "available", "accepted", "refused"}

\* An acceptance that is under way is that of a session that is over.
EndInv ==
  /\ Right(endPage, endOver)
  /\ from \in Seq(Reply)
  /\ \A i \in 1 .. Len(from) : from[i] = "accepted" => endOver

LEMMA EndInit == Ending!Init => EndInv
<1> SUFFICES ASSUME Ending!Init PROVE EndInv
  OBVIOUS
<1>1. PICK direct : endPage = [direct |-> direct, dialog |-> FALSE, at |-> "idle",
        manager |-> FALSE, uncertain |-> FALSE, ended |-> FALSE, port |-> FALSE,
        muted |-> FALSE, halted |-> FALSE, final |-> FALSE, silent |-> FALSE,
        shows |-> "stream", gone |-> "no"]
  BY DEF Ending!Init
<1>2. from = << >>
  BY DEF Ending!Init
<1>3. Right(endPage, endOver)
  BY <1>1 DEF Right, Complete
<1> QED BY <1>2, <1>3 DEF EndInv

LEMMA FallenBack ==
  ASSUME NEW g, NEW over, Complete(g), g.ended => over, g.ended \/ (g.muted => g.dialog)
  PROVE  Right(Ending!Fallback(g), over)
<1> DEFINE k == Ending!SetPending(g, FALSE)
           h == Ending!Fallback(g)
<1>1. k = [g EXCEPT !.silent = FALSE, !.halted = FALSE]
  BY DEF Ending!SetPending
<1>2. h = [k EXCEPT !.at = "idle", !.manager = TRUE]
  BY DEF Ending!Fallback
<1> HIDE DEF k, h
<1>3. h = [direct |-> g.direct, dialog |-> g.dialog, at |-> "idle", manager |-> TRUE,
           uncertain |-> g.uncertain, ended |-> g.ended, port |-> g.port, muted |-> g.muted,
           halted |-> FALSE, final |-> g.final, silent |-> FALSE, shows |-> g.shows,
           gone |-> g.gone]
  BY <1>1, <1>2 DEF Complete
<1>4. Right(h, over)
  BY <1>3 DEF Right, Complete
<1> QED BY <1>4 DEF h

LEMMA EndMarked ==
  ASSUME NEW g, NEW over, Complete(g), over
  PROVE  Right(Ending!MarkEnded(g), over)
<1>1. CASE g.ended
  BY <1>1 DEF Ending!MarkEnded, Right
<1>2. CASE ~g.ended
  <2> DEFINE k == Ending!Modal(g, TRUE)
             h == Ending!MarkEnded(g)
  <2>1. k = [g EXCEPT !.muted = TRUE]
    BY DEF Ending!Modal
  <2>2. h = [k EXCEPT !.ended = TRUE, !.at = "idle", !.final = TRUE, !.dialog = TRUE,
                      !.gone = "over"]
    BY <1>2 DEF Ending!MarkEnded
  <2> HIDE DEF k, h
  <2>3. h = [direct |-> g.direct, dialog |-> TRUE, at |-> "idle", manager |-> g.manager,
             uncertain |-> g.uncertain, ended |-> TRUE, port |-> g.port, muted |-> TRUE,
             halted |-> g.halted, final |-> TRUE, silent |-> g.silent, shows |-> g.shows,
             gone |-> "over"]
    BY <2>1, <2>2 DEF Complete
  <2>4. Right(h, over)
    BY <2>3 DEF Right, Complete
  <2> QED BY <2>4 DEF h
<1> QED BY <1>1, <1>2

\* An attempt begins or goes on: the page is pending.
LEMMA PendingSet ==
  ASSUME NEW g, NEW over, Right(g, over), NEW at \in {"direct", "probing", "ending"},
         NEW u, NEW k, k = Ending!SetPending(g, TRUE), NEW h,
         \/ h = [k EXCEPT !.at = at, !.uncertain = u]
         \/ h = [k EXCEPT !.at = at] /\ u = g.uncertain
  PROVE  Right(h, over)
<1>1. k = [g EXCEPT !.silent = TRUE, !.halted = TRUE]
  BY DEF Ending!SetPending
<1>2. k = [direct |-> g.direct, dialog |-> g.dialog, at |-> g.at, manager |-> g.manager,
           uncertain |-> g.uncertain, ended |-> g.ended, port |-> g.port, muted |-> g.muted,
           halted |-> TRUE, final |-> g.final, silent |-> TRUE, shows |-> g.shows,
           gone |-> g.gone]
  BY <1>1 DEF Right, Complete
<1>3. h = [direct |-> g.direct, dialog |-> g.dialog, at |-> at, manager |-> g.manager,
           uncertain |-> u, ended |-> g.ended, port |-> g.port, muted |-> g.muted,
           halted |-> TRUE, final |-> g.final, silent |-> TRUE, shows |-> g.shows,
           gone |-> g.gone]
  <2>1. CASE h = [k EXCEPT !.at = at, !.uncertain = u]
    BY <1>1, <2>1 DEF Right, Complete
  <2>2. CASE h = [k EXCEPT !.at = at] /\ u = g.uncertain
    BY <1>1, <2>2 DEF Right, Complete
  <2> QED BY <2>1, <2>2
<1>4. at # "idle"
  OBVIOUS
<1>5. \A x : x = [direct |-> g.direct, dialog |-> g.dialog, at |-> at, manager |-> g.manager,
           uncertain |-> u, ended |-> g.ended, port |-> g.port, muted |-> g.muted,
           halted |-> TRUE, final |-> g.final, silent |-> TRUE, shows |-> g.shows,
           gone |-> g.gone] => Right(x, over)
  BY <1>4 DEF Right, Complete
<1> QED BY <1>3, <1>5

LEMMA UserActs ==
  ASSUME EndInv, Ending!OpenDialog \/ Ending!CloseDialog \/ Ending!Confirm
  PROVE  EndInv'
<1>1. UNCHANGED <<from, endOver>>
  BY DEF Ending!OpenDialog, Ending!CloseDialog, Ending!Confirm
<1>2. Right(endPage, endOver)
  BY DEF EndInv
<1>3. CASE Ending!OpenDialog
  <2> DEFINE k == Ending!Modal(endPage, TRUE)
             g == [k EXCEPT !.dialog = TRUE, !.manager = FALSE]
  <2>1. endPage' \in {Ending!Fallback(g), g}
    BY <1>3 DEF Ending!OpenDialog
  <2>2. k = [endPage EXCEPT !.muted = TRUE]
    BY DEF Ending!Modal
  <2>3. g = [k EXCEPT !.dialog = TRUE, !.manager = FALSE]
    OBVIOUS
  <2> HIDE DEF k, g
  <2>4. g = [direct |-> endPage.direct, dialog |-> TRUE, at |-> endPage.at,
             manager |-> FALSE, uncertain |-> endPage.uncertain, ended |-> endPage.ended,
             port |-> endPage.port, muted |-> TRUE, halted |-> endPage.halted,
             final |-> endPage.final, silent |-> endPage.silent, shows |-> endPage.shows,
             gone |-> endPage.gone]
    BY <1>2, <2>2, <2>3 DEF Right, Complete
  <2>5. Right(g, endOver)
    BY <1>2, <2>4 DEF Right, Complete
  <2>6. Right(Ending!Fallback(g), endOver)
    BY <1>2, <2>4, FallenBack DEF Right, Complete
  <2>7. Right(endPage', endOver')
    BY <1>1, <2>1, <2>5, <2>6
  <2> QED BY <1>1, <2>7 DEF EndInv
<1>4. CASE Ending!CloseDialog
  <2> DEFINE k == Ending!Modal(endPage, FALSE)
  <2>1. k = [endPage EXCEPT !.muted = FALSE]
    BY DEF Ending!Modal
  <2>2. endPage' = [k EXCEPT !.dialog = FALSE]
    BY <1>4 DEF Ending!CloseDialog
  <2> HIDE DEF k
  <2>3. endPage' =
            [direct |-> endPage.direct, dialog |-> FALSE, at |-> endPage.at,
             manager |-> endPage.manager, uncertain |-> endPage.uncertain,
             ended |-> endPage.ended, port |-> endPage.port, muted |-> FALSE,
             halted |-> endPage.halted, final |-> endPage.final,
             silent |-> endPage.silent, shows |-> endPage.shows, gone |-> endPage.gone]
    BY <1>2, <2>1, <2>2 DEF Right, Complete
  <2>4. Right(endPage', endOver')
    BY <1>1, <1>2, <2>3 DEF Right, Complete
  <2> QED BY <1>1, <2>4 DEF EndInv
<1>5. CASE Ending!Confirm
  <2>1. \/ endPage' = [Ending!SetPending(endPage, TRUE) EXCEPT !.at = "direct",
                                                               !.uncertain = TRUE]
        \/ endPage' = [endPage EXCEPT !.gone = "manager"]
        \/ endPage' = [endPage EXCEPT !.at = "probing", !.uncertain = TRUE]
    BY <1>5 DEF Ending!Confirm
  <2>2. CASE endPage' = [Ending!SetPending(endPage, TRUE) EXCEPT !.at = "direct",
                                                                 !.uncertain = TRUE]
    <3> DEFINE k == Ending!SetPending(endPage, TRUE)
    <3>2. k = Ending!SetPending(endPage, TRUE)
          /\ endPage' = [k EXCEPT !.at = "direct", !.uncertain = TRUE]
      BY <2>2
    <3> HIDE DEF k
    <3>1. Right(endPage', endOver)
      BY <1>2, <3>2, PendingSet
    <3> QED BY <1>1, <3>1 DEF EndInv
  <2>3. CASE endPage' = [endPage EXCEPT !.gone = "manager"]
    <3>1. Right(endPage', endOver')
      BY <1>1, <1>2, <2>3 DEF Right, Complete
    <3> QED BY <1>1, <3>1 DEF EndInv
  <2>4. CASE endPage' = [endPage EXCEPT !.at = "probing", !.uncertain = TRUE]
    <3>1. Right(endPage', endOver')
      BY <1>1, <1>2, <2>4 DEF Right, Complete
    <3> QED BY <1>1, <3>1 DEF EndInv
  <2> QED BY <2>1, <2>2, <2>3, <2>4
<1> QED BY <1>3, <1>4, <1>5

\* The direct request and the wait for its answer.
LEMMA RequestsResolve ==
  ASSUME EndInv,
         \/ \E answer \in {"accepted", "refused"} :
              Ending!PostAnswered(answer) \/ Ending!StatusAnswered(answer)
         \/ Ending!PostLost \/ Ending!SessionEnds \/ Ending!TimesOut
  PROVE  EndInv'
<1>1. /\ from' = from /\ (endOver => endOver')
      /\ \/ endPage' = endPage
         \/ endPage' = Ending!Fallback(endPage)
         \/ endPage' = Ending!MarkEnded(endPage) /\ endOver'
  <2>1. ASSUME NEW answer \in {"accepted", "refused"}, Ending!PostAnswered(answer)
        PROVE  /\ from' = from /\ (endOver => endOver')
               /\ \/ endPage' = endPage
                  \/ endPage' = Ending!MarkEnded(endPage) /\ endOver'
    BY <2>1 DEF Ending!PostAnswered, Ending!Resolve
  <2>2. ASSUME NEW answer \in {"accepted", "refused"}, Ending!StatusAnswered(answer)
        PROVE  /\ from' = from /\ (endOver => endOver')
               /\ \/ endPage' = endPage
                  \/ endPage' = Ending!Fallback(endPage)
                  \/ endPage' = Ending!MarkEnded(endPage) /\ endOver'
    BY <2>2 DEF Ending!StatusAnswered, Ending!Resolve, Ending!OutcomeOf
  <2>3. ASSUME Ending!PostLost \/ Ending!SessionEnds \/ Ending!TimesOut
        PROVE  /\ from' = from /\ (endOver => endOver')
               /\ endPage' = endPage \/ endPage' = Ending!Fallback(endPage)
    BY <2>3 DEF Ending!PostLost, Ending!SessionEnds, Ending!TimesOut
  <2> QED BY <2>1, <2>2, <2>3
<1>2. Right(endPage, endOver)
  BY DEF EndInv
<1>3. Complete(endPage) /\ Right(endPage, endOver')
  BY <1>1, <1>2 DEF Right
<1>4. Right(Ending!Fallback(endPage), endOver')
  BY <1>3, FallenBack DEF Right
<1>5. endOver' => Right(Ending!MarkEnded(endPage), endOver')
  BY <1>3, EndMarked
<1>6. Right(endPage', endOver')
  BY <1>1, <1>3, <1>4, <1>5
<1> QED BY <1>1, <1>6 DEF EndInv

\* The channel to the manager's tab.
LEMMA ChannelWorks ==
  ASSUME EndInv,
         Ending!Handshake \/ Ending!ManagerPings \/ Ending!ManagerActs \/ Ending!PortMessage
  PROVE  EndInv'
<1>1. Right(endPage, endOver) /\ from \in Seq(Reply)
      /\ \A i \in 1 .. Len(from) : from[i] = "accepted" => endOver
  BY DEF EndInv
<1>2. CASE Ending!Handshake
  <2>1. endPage' = [endPage EXCEPT !.port = TRUE] /\ from' = << >> /\ endOver' = endOver
    BY <1>2 DEF Ending!Handshake
  <2>2. Right(endPage', endOver')
    BY <1>1, <2>1 DEF Right, Complete
  <2> QED BY <2>1, <2>2 DEF EndInv
<1>3. ASSUME Ending!ManagerPings \/ Ending!ManagerActs PROVE EndInv'
  <2>1. /\ endPage' = endPage /\ (endOver => endOver')
        /\ \/ from' = from
           \/ \E m \in Reply : from' = Append(from, m) /\ (m = "accepted" => endOver')
    BY <1>3 DEF Ending!ManagerPings, Ending!ManagerActs, Reply
  <2>2. Right(endPage', endOver')
    BY <1>1, <2>1 DEF Right
  <2>3. CASE from' = from
    BY <1>1, <2>1, <2>2, <2>3 DEF EndInv
  <2>4. ASSUME NEW m \in Reply, from' = Append(from, m), m = "accepted" => endOver'
        PROVE  EndInv'
    <3>1. /\ from' \in Seq(Reply) /\ Len(from') = Len(from) + 1 /\ from'[Len(from')] = m
          /\ \A i \in 1 .. Len(from) : from'[i] = from[i]
      BY <1>1, <2>4
    <3>2. \A i \in 1 .. Len(from') : from'[i] = "accepted" => endOver'
      BY <1>1, <2>1, <2>4, <3>1
    <3> QED BY <2>2, <3>1, <3>2 DEF EndInv
  <2> QED BY <2>1, <2>3, <2>4
<1>4. CASE Ending!PortMessage
  <2>1. /\ from # << >> /\ from' = Tail(from) /\ endOver' = endOver
        /\ \/ endPage' = [endPage EXCEPT !.manager = FALSE]
           \/ endPage' = endPage
           \/ endPage' = [Ending!SetPending(endPage, TRUE) EXCEPT !.at = "ending"]
           \/ Head(from) = "accepted" /\ endPage' = Ending!MarkEnded(endPage)
           \/ endPage' = [Ending!Fallback(endPage) EXCEPT !.uncertain = TRUE]
    BY <1>4 DEF Ending!PortMessage
  <2>2. /\ from' \in Seq(Reply) /\ Head(from) = from[1] /\ 1 \in 1 .. Len(from)
        /\ \A i \in 1 .. Len(from') : from'[i] = from[i + 1] /\ i + 1 \in 1 .. Len(from)
    BY <1>1, <2>1
  <2>3. ASSUME endPage' = [endPage EXCEPT !.manager = FALSE] PROVE Right(endPage', endOver)
    BY <1>1, <2>3 DEF Right, Complete
  <2>4. ASSUME endPage' = [Ending!SetPending(endPage, TRUE) EXCEPT !.at = "ending"]
        PROVE  Right(endPage', endOver)
    <3> DEFINE k == Ending!SetPending(endPage, TRUE)
    <3>1. k = Ending!SetPending(endPage, TRUE) /\ endPage' = [k EXCEPT !.at = "ending"]
      BY <2>4
    <3> HIDE DEF k
    <3> QED BY <1>1, <3>1, PendingSet
  <2>5. ASSUME Head(from) = "accepted", endPage' = Ending!MarkEnded(endPage)
        PROVE  Right(endPage', endOver)
    <3>1. endOver /\ Complete(endPage)
      BY <1>1, <2>2, <2>5 DEF Right
    <3>2. Right(Ending!MarkEnded(endPage), endOver)
      BY <3>1, EndMarked
    <3> QED BY <2>5, <3>2
  <2>6. ASSUME endPage' = [Ending!Fallback(endPage) EXCEPT !.uncertain = TRUE]
        PROVE  Right(endPage', endOver)
    <3> DEFINE k == Ending!Fallback(endPage)
    <3>1. Right(k, endOver)
      BY <1>1, FallenBack DEF Right
    <3>2. endPage' = [k EXCEPT !.uncertain = TRUE]
      BY <2>6
    <3> HIDE DEF k
    <3> QED BY <3>1, <3>2 DEF Right, Complete
  <2>7. Right(endPage', endOver)
    BY <1>1, <2>1, <2>3, <2>4, <2>5, <2>6
  <2>8. Right(endPage', endOver')
    BY <2>1, <2>7
  <2> QED BY <1>1, <2>1, <2>2, <2>8 DEF EndInv
<1> QED BY <1>2, <1>3, <1>4

LEMMA StreamDrops ==
  ASSUME EndInv, NEW reason \in {"ended", "inactive", "ticket", "lost"},
         Ending!Disconnected(reason)
  PROVE  EndInv'
<1>1. UNCHANGED <<from, endOver>> /\ (reason = "ended" => endOver)
      /\ endPage' = Ending!Guidance(reason)
  BY DEF Ending!Disconnected
<1>2. Right(endPage, endOver)
  BY DEF EndInv
<1>3. CASE reason = "ended"
  <2> DEFINE k == [endPage EXCEPT !.shows = "ended"]
  <2>1. endPage' = Ending!MarkEnded(k)
    BY <1>1, <1>3 DEF Ending!Guidance
  <2>2. k = [endPage EXCEPT !.shows = "ended"]
    OBVIOUS
  <2> HIDE DEF k
  <2>3. Complete(k)
    BY <1>2, <2>2 DEF Right, Complete
  <2>4. Right(Ending!MarkEnded(k), endOver)
    BY <1>1, <1>3, <2>3, EndMarked
  <2>5. Right(endPage', endOver')
    BY <1>1, <2>1, <2>4
  <2> QED BY <1>1, <2>5 DEF EndInv
<1>4. CASE reason # "ended"
  <2>1. \/ endPage' = endPage \/ endPage' = [endPage EXCEPT !.shows = "idle"]
        \/ endPage' = [endPage EXCEPT !.shows = "expired", !.gone = "reconnect"]
    BY <1>1, <1>4 DEF Ending!Guidance
  <2>2. Right(endPage', endOver')
    BY <1>1, <1>2, <2>1 DEF Right, Complete
  <2> QED BY <1>1, <2>2 DEF EndInv
<1> QED BY <1>3, <1>4

LEMMA EndStep == EndInv /\ [Ending!Next]_endVars => EndInv'
<1> SUFFICES ASSUME EndInv, [Ending!Next]_endVars PROVE EndInv'
  OBVIOUS
<1>1. CASE Ending!Next
  BY <1>1, UserActs, RequestsResolve, ChannelWorks, StreamDrops DEF Ending!Next
<1>2. CASE UNCHANGED endVars
  BY <1>2 DEF endVars, EndInv
<1> QED BY <1>1, <1>2

LEMMA EndSound == EndInv => Ending!TabIsKept /\ Ending!StreamIsRestored
BY DEF EndInv, Right, Ending!TabIsKept, Ending!StreamIsRestored, Ending!Pending

-----------------------------------------------------------------------------
(* PlayerSession: whose offer an answer answers, and what the user is left *)
(* with when the connection is gone.                                       *)

Told == [kind: {"list", "caps", "subscribe"}] \cup Player!Answer

\* The parts of the browser's state that the two invariants are about.
Parts(c) ==
  /\ {"sock", "out", "retry", "gen", "pc", "ice", "work", "src", "playing", "stale", "warn",
      "counting", "late", "screen"} \subseteq DOMAIN c
  /\ "overlay" \in DOMAIN c.screen

\* Whatever belongs to a peer connection is that of the current one.
Core(c) ==
  /\ Parts(c)
  /\ c.gen \in Nat /\ c.retry \in Nat /\ c.out \in Seq(Told) /\ c.work \in Seq(Player!Work)
  /\ \A i \in 1 .. Len(c.out) :
       c.out[i].kind = "answer" => c.out[i].tag = c.out[i].gen /\ c.out[i].here
  /\ \A i \in 1 .. Len(c.work) : c.work[i].mine => c.pc
  /\ c.ice => c.pc
  /\ c.src \in {"none", "old", "now"} /\ c.playing \subseteq {"old", "now"}
  /\ c.src = "now" => c.pc
  /\ "now" \in c.playing => c.pc

\* The work of the current peer connection is of the current generation and socket.
Fresh(c) ==
  \A i \in 1 .. Len(c.work) :
    c.work[i].mine => /\ c.work[i].here /\ c.work[i].gen = c.gen
                      /\ c.sock \notin {"closed", "connecting"}

\* Nothing is left of a closed connection that could replace the user's overlay.
Over(c) ==
  c.sock = "closed" =>
    /\ ~c.pc /\ ~c.stale /\ ~c.warn /\ ~c.counting
    /\ c.retry = 0 /\ ~c.late => c.screen.overlay = "disconnect"

Good(c) == Core(c) /\ Fresh(c) /\ Over(c)

\* k differs from c in what the page shows, or in what the invariants are not about.
Alike(c, k) ==
  /\ Parts(k)
  /\ k.sock = c.sock /\ k.out = c.out /\ k.retry = c.retry /\ k.gen = c.gen /\ k.pc = c.pc
  /\ k.ice = c.ice /\ k.work = c.work /\ k.src = c.src /\ k.playing = c.playing
  /\ k.stale = c.stale /\ k.warn = c.warn /\ k.counting = c.counting /\ k.late = c.late

LEMMA AlikeIsGood ==
  ASSUME NEW c, NEW k, Alike(c, k)
  PROVE  /\ Core(c) => Core(k)
         /\ Fresh(c) => Fresh(k)
         /\ Over(c) /\ (c.sock # "closed" \/ k.screen.overlay = c.screen.overlay) => Over(k)
<1>1. Core(c) => Core(k)
  BY DEF Alike, Core
<1>2. Fresh(c) => Fresh(k)
  BY DEF Alike, Fresh
<1>3. Over(c) /\ (c.sock # "closed" \/ k.screen.overlay = c.screen.overlay) => Over(k)
  BY DEF Alike, Over
<1> QED BY <1>1, <1>2, <1>3

LEMMA Screens ==
  ASSUME NEW s, "overlay" \in DOMAIN s
  PROVE  /\ \A o : /\ "overlay" \in DOMAIN Player!Shown(s, o)
                   /\ Player!Shown(s, o).overlay = o
         /\ "overlay" \in DOMAIN Player!Progress(s)
         /\ "overlay" \in DOMAIN Player!Begun(s)
         /\ \A click, reason : "overlay" \in DOMAIN Player!Disconnected(s, click, reason)
         /\ \A reason : Player!Disconnected(s, TRUE, reason).overlay = "disconnect"
         /\ "overlay" \in DOMAIN Player!Presented(s)
         /\ \A again : "overlay" \in DOMAIN Player!Unlisted(s, again)
<1>1. \A t, o : "overlay" \in DOMAIN t => /\ "overlay" \in DOMAIN Player!Shown(t, o)
                                          /\ Player!Shown(t, o).overlay = o
  BY DEF Player!Shown
<1>2. \A t : "overlay" \in DOMAIN t => "overlay" \in DOMAIN Player!Progress(t)
  BY DEF Player!Progress
<1>3. "overlay" \in DOMAIN Player!Begun(s)
  BY DEF Player!Begun
<1>4. \A click, reason : /\ "overlay" \in DOMAIN Player!Disconnected(s, click, reason)
                         /\ click => Player!Disconnected(s, click, reason).overlay = "disconnect"
  <2> TAKE click, reason
  <2> DEFINE t == [s EXCEPT !.presented = FALSE]
  <2>1. "overlay" \in DOMAIN t
    OBVIOUS
  <2>2. Player!Disconnected(s, click, reason) =
          IF s.first /\ ~click /\ ~reason THEN Player!Progress(t)
          ELSE Player!Shown(t, IF click THEN "disconnect" ELSE "error")
    BY DEF Player!Disconnected
  <2> HIDE DEF t
  <2> QED BY <1>1, <1>2, <2>1, <2>2
<1>5. "overlay" \in DOMAIN Player!Presented(s)
  BY DEF Player!Presented
<1>6. \A again : "overlay" \in DOMAIN Player!Unlisted(s, again)
  BY <1>1 DEF Player!Unlisted
<1> QED BY <1>1, <1>2, <1>3, <1>4, <1>5, <1>6

LEMMA SentIsGood ==
  ASSUME NEW c, Core(c), NEW m \in Told, m.kind = "answer" => m.tag = m.gen /\ m.here
  PROVE  LET k == Player!Sent(c, m)
         IN  /\ Core(k) /\ (Fresh(c) => Fresh(k)) /\ (Over(c) => Over(k))
             /\ k.sock = c.sock /\ k.gen = c.gen /\ k.screen = c.screen /\ k.pc = c.pc
             /\ k.retry = c.retry
<1> DEFINE k == Player!Sent(c, m)
<1>1. CASE c.sock = "open"
  <2> DEFINE o == Append(c.out, m)
  <2>1. k = [c EXCEPT !.out = o]
    BY <1>1 DEF Player!Sent
  <2>2. /\ o \in Seq(Told) /\ Len(o) = Len(c.out) + 1 /\ o[Len(o)] = m
        /\ \A i \in 1 .. Len(c.out) : o[i] = c.out[i]
    BY DEF Core
  <2> HIDE DEF o, k
  <2>3. \A i \in 1 .. Len(o) : o[i].kind = "answer" => o[i].tag = o[i].gen /\ o[i].here
    <3> TAKE i \in 1 .. Len(o)
    <3>1. i \in 1 .. Len(c.out) \/ i = Len(o)
      BY <2>2 DEF Core
    <3> QED BY <2>2, <3>1 DEF Core
  <2>4. /\ Parts(k) /\ k.out = o /\ k.sock = c.sock /\ k.retry = c.retry /\ k.gen = c.gen
        /\ k.pc = c.pc /\ k.ice = c.ice /\ k.work = c.work /\ k.src = c.src
        /\ k.playing = c.playing /\ k.stale = c.stale /\ k.warn = c.warn
        /\ k.counting = c.counting /\ k.late = c.late /\ k.screen = c.screen
    BY <2>1 DEF Core, Parts
  <2>5. Core(k)
    BY <2>2, <2>3, <2>4 DEF Core
  <2>6. (Fresh(c) => Fresh(k)) /\ (Over(c) => Over(k))
    BY <2>4 DEF Fresh, Over
  <2> QED BY <2>4, <2>5, <2>6 DEF k
<1>2. CASE c.sock # "open"
  BY <1>2 DEF Player!Sent
<1> QED BY <1>1, <1>2

LEMMA SubscribeSentIsGood ==
  ASSUME NEW c, Core(c)
  PROVE  LET k == Player!SubscribeSent(c)
         IN  /\ Core(k) /\ (Fresh(c) => Fresh(k)) /\ (Over(c) => Over(k))
             /\ k.sock = c.sock /\ k.gen = c.gen /\ k.screen = c.screen /\ k.retry = c.retry
<1> DEFINE m1 == [kind |-> "caps"]
           m2 == [kind |-> "subscribe"]
           d == [c EXCEPT !.caps = TRUE]
           e == Player!Sent(d, m1)
           k0 == IF c.caps THEN c ELSE e
           k == Player!SubscribeSent(c)
<1>1. k = Player!Sent(k0, m2)
  BY DEF Player!SubscribeSent
<1>2. m1 \in Told /\ m2 \in Told /\ m1.kind # "answer" /\ m2.kind # "answer"
  BY DEF Told
<1>3. d = [c EXCEPT !.caps = TRUE]
  OBVIOUS
<1> HIDE DEF m1, m2, d, k
<1>4. Alike(c, d) /\ d.screen = c.screen
  BY <1>3 DEF Alike, Core, Parts
<1>5. Core(d) /\ (Fresh(c) => Fresh(d)) /\ (Over(c) => Over(d))
      /\ d.sock = c.sock /\ d.gen = c.gen /\ d.screen = c.screen /\ d.retry = c.retry
  BY <1>4, AlikeIsGood DEF Alike
<1>6. Core(e) /\ (Fresh(c) => Fresh(e)) /\ (Over(c) => Over(e))
      /\ e.sock = c.sock /\ e.gen = c.gen /\ e.screen = c.screen /\ e.retry = c.retry
  BY <1>2, <1>5, SentIsGood
<1> HIDE DEF e
<1>7. Core(k0) /\ (Fresh(c) => Fresh(k0)) /\ (Over(c) => Over(k0))
      /\ k0.sock = c.sock /\ k0.gen = c.gen /\ k0.screen = c.screen /\ k0.retry = c.retry
  BY <1>6
<1> HIDE DEF k0
<1>8. /\ Core(k) /\ (Fresh(c) => Fresh(k)) /\ (Over(c) => Over(k))
      /\ k.sock = c.sock /\ k.gen = c.gen /\ k.screen = c.screen /\ k.retry = c.retry
  BY <1>1, <1>2, <1>7, SentIsGood
<1> QED BY <1>8 DEF k

LEMMA OrphanedFacts ==
  ASSUME NEW w \in Seq(Player!Work)
  PROVE  LET u == Player!Orphaned(w)
         IN  u \in Seq(Player!Work) /\ Len(u) = Len(w) /\ \A i \in 1 .. Len(u) : ~u[i].mine
<1> DEFINE u == Player!Orphaned(w)
<1>1. u = [i \in 1 .. Len(w) |-> [w[i] EXCEPT !.mine = FALSE]]
  BY DEF Player!Orphaned
<1>2. \A i \in 1 .. Len(w) : LET x == [w[i] EXCEPT !.mine = FALSE]
                             IN  x \in Player!Work /\ ~x.mine
  <2> TAKE i \in 1 .. Len(w)
  <2> DEFINE a == w[i]
             x == [a EXCEPT !.mine = FALSE]
  <2>1. a \in Player!Work
    OBVIOUS
  <2> HIDE DEF a
  <2>2. x \in Player!Work
    BY <2>1 DEF Player!Work
  <2>3. ~x.mine
    BY <2>1 DEF Player!Work
  <2>4. x = [w[i] EXCEPT !.mine = FALSE]
    BY DEF a
  <2> HIDE DEF x
  <2> QED BY <2>2, <2>3, <2>4
<1> HIDE DEF u
<1>3. u \in Seq(Player!Work) /\ Len(u) = Len(w) /\ \A i \in 1 .. Len(w) : ~u[i].mine
  <2>1. \A i \in 1 .. Len(w) : u[i] \in Player!Work /\ ~u[i].mine
    BY <1>1, <1>2
  <2>2. Len(w) \in Nat /\ DOMAIN u = 1 .. Len(w)
    BY <1>1
  <2>3. u \in [1 .. Len(w) -> Player!Work]
    BY <1>1, <2>1
  <2>4. u \in Seq(Player!Work)
    BY <2>2, <2>3
  <2>5. Len(u) = Len(w)
    BY <2>2, <2>4
  <2> QED BY <2>1, <2>4, <2>5
<1> QED BY <1>3 DEF u

\* The peer connection is gone, and so is what belonged to it.
LEMMA RetiredIsGood ==
  ASSUME NEW c, Core(c)
  PROVE  LET k == Player!Retired(c)
         IN  /\ Core(k) /\ Fresh(k) /\ ~k.pc
             /\ k.sock = c.sock /\ k.gen = c.gen /\ k.screen = c.screen
             /\ k.retry = c.retry /\ k.stale = c.stale /\ k.late = c.late
             /\ k.warn = c.warn /\ k.counting = c.counting /\ k.out = c.out
             /\ \A i \in 1 .. Len(k.work) : ~k.work[i].mine
<1> DEFINE k == Player!Retired(c)
<1>1. CASE ~c.pc
  <2>1. k = c
    BY <1>1 DEF Player!Retired
  <2>2. \A i \in 1 .. Len(c.work) : ~c.work[i].mine
    BY <1>1 DEF Core
  <2>3. Fresh(c)
    BY <2>2 DEF Fresh
  <2> QED BY <1>1, <2>1, <2>2, <2>3
<1>2. CASE c.pc
  <2> DEFINE w == Player!Orphaned(c.work)
             s == IF c.src = "now" THEN "old" ELSE c.src
             p == IF "now" \in c.playing THEN {"old"} ELSE c.playing
  <2>1. k = [c EXCEPT !.pc = FALSE, !.ice = FALSE, !.work = w, !.asked = FALSE,
                      !.src = s, !.playing = p]
    BY <1>2 DEF Player!Retired
  <2>2. w \in Seq(Player!Work) /\ \A i \in 1 .. Len(w) : ~w[i].mine
    BY OrphanedFacts DEF Core
  <2>3. /\ s # "now" /\ "now" \notin p
        /\ s \in {"none", "old", "now"} /\ p \subseteq {"old", "now"}
    BY DEF Core
  <2> HIDE DEF w, s, p, k
  <2>4. /\ Parts(k) /\ k.pc = FALSE /\ k.ice = FALSE /\ k.work = w /\ k.src = s
        /\ k.playing = p /\ k.sock = c.sock /\ k.out = c.out /\ k.retry = c.retry
        /\ k.gen = c.gen /\ k.stale = c.stale /\ k.late = c.late /\ k.warn = c.warn
        /\ k.counting = c.counting /\ k.screen = c.screen
    BY <2>1 DEF Core, Parts
  <2>5. Core(k)
    BY <2>2, <2>3, <2>4 DEF Core
  <2>6. Fresh(k)
    BY <2>2, <2>4 DEF Fresh
  <2> QED BY <2>2, <2>4, <2>5, <2>6 DEF k
<1> QED BY <1>1, <1>2

\* replacePeerConnectionController
LEMMA ReplacedIsGood ==
  ASSUME NEW c, Core(c)
  PROVE  LET k == Player!Replaced(c)
         IN  /\ Core(k) /\ Fresh(k) /\ (c.sock # "closed" => Good(k))
             /\ k.sock = c.sock /\ k.gen = c.gen /\ k.screen = c.screen /\ k.retry = c.retry
<1> DEFINE d == Player!Retired(c)
           k == Player!Replaced(c)
<1>1. /\ Core(d) /\ d.sock = c.sock /\ d.gen = c.gen /\ d.screen = c.screen
      /\ d.retry = c.retry
      /\ \A i \in 1 .. Len(d.work) : ~d.work[i].mine
  BY RetiredIsGood
<1>2. k = [d EXCEPT !.pc = TRUE]
  BY DEF Player!Replaced
<1> HIDE DEF d, k
<1>3. /\ Parts(k) /\ k.pc = TRUE /\ k.ice = d.ice /\ k.work = d.work /\ k.src = d.src
      /\ k.playing = d.playing /\ k.sock = d.sock /\ k.out = d.out /\ k.retry = d.retry
      /\ k.gen = d.gen /\ k.stale = d.stale /\ k.late = d.late /\ k.warn = d.warn
      /\ k.counting = d.counting /\ k.screen = d.screen
  BY <1>1, <1>2 DEF Core, Parts
<1>4. Core(k)
  BY <1>1, <1>3 DEF Core
<1>5. Fresh(k)
  BY <1>1, <1>3 DEF Fresh
<1>6. c.sock # "closed" => Over(k)
  BY <1>1, <1>3 DEF Over
<1> QED BY <1>1, <1>3, <1>4, <1>5, <1>6 DEF k, Good

LEMMA AfkStoppedFacts ==
  ASSUME NEW c, Core(c)
  PROVE  LET k == Player!AfkStopped(c)
         IN  /\ Core(k) /\ ~k.warn /\ ~k.counting
             /\ k.sock = c.sock /\ k.out = c.out /\ k.retry = c.retry /\ k.gen = c.gen
             /\ k.work = c.work /\ k.stale = c.stale /\ k.late = c.late
             /\ k.screen = c.screen
<1> DEFINE k == Player!AfkStopped(c)
<1>1. k = [c EXCEPT !.active = FALSE, !.warn = FALSE, !.counting = FALSE, !.counted = FALSE]
  BY DEF Player!AfkStopped
<1> HIDE DEF k
<1>2. /\ Parts(k) /\ ~k.warn /\ ~k.counting
      /\ k.sock = c.sock /\ k.out = c.out /\ k.retry = c.retry /\ k.gen = c.gen
      /\ k.work = c.work /\ k.stale = c.stale /\ k.late = c.late /\ k.screen = c.screen
      /\ k.pc = c.pc /\ k.ice = c.ice /\ k.src = c.src /\ k.playing = c.playing
  BY <1>1 DEF Core, Parts
<1>3. Core(k)
  BY <1>2 DEF Core
<1> QED BY <1>2, <1>3 DEF k

\* The close handler leaves nothing of the connection, and a click unless it retries.
LEMMA ClosedIsGood ==
  ASSUME NEW c, Core(c), NEW code, NEW reason
  PROVE  Good(Player!Closed(c, code, reason)) /\ Player!Closed(c, code, reason).gen = c.gen
<1> DEFINE again == c.force \/ (c.auto /\ c.attempt < MaxReconnectAttempts)
           will == again /\ code # "going away"
           click == Player!AllowClick(c, code)
           d == Player!AfkStopped(c)
           e == Player!Retired(d)
           r == IF will THEN e.retry + 1 ELSE e.retry
           s == Player!Disconnected(e.screen, click, reason)
           k == Player!Closed(c, code, reason)
<1>1. click = ~will
  BY DEF Player!AllowClick
<1>2. /\ Core(d) /\ ~d.warn /\ ~d.counting /\ d.gen = c.gen
  BY AfkStoppedFacts
<1> HIDE DEF d, again, click
<1>3. /\ Core(e) /\ ~e.pc /\ ~e.warn /\ ~e.counting /\ e.gen = c.gen
      /\ \A i \in 1 .. Len(e.work) : ~e.work[i].mine
  BY <1>2, RetiredIsGood
<1>4. k = [e EXCEPT !.sock = "closed", !.out = << >>, !.force = FALSE,
                    !.subscribed = FALSE, !.inputs = FALSE, !.stale = FALSE,
                    !.retry = r, !.screen = s]
  BY DEF Player!Closed, d, again, click
<1> HIDE DEF e, k
<1>5. r \in Nat /\ (will => r # 0)
  <2>1. e.retry \in Nat
    BY <1>3 DEF Core
  <2> HIDE DEF will
  <2> QED BY <2>1
<1>6. "overlay" \in DOMAIN s /\ (click => s.overlay = "disconnect")
  <2>1. "overlay" \in DOMAIN e.screen
    BY <1>3 DEF Core, Parts
  <2>2. CASE click
    <3>1. click = TRUE
      BY <1>1, <2>2
    <3> QED BY <2>1, <3>1, Screens
  <2>3. CASE ~click
    BY <2>1, <2>3, Screens
  <2> QED BY <2>2, <2>3
<1> HIDE DEF r, s, will
<1>7. /\ Parts(k) /\ k.sock = "closed" /\ k.out = << >> /\ ~k.stale /\ k.retry = r
      /\ k.screen = s /\ k.pc = e.pc /\ k.ice = e.ice /\ k.work = e.work /\ k.src = e.src
      /\ k.playing = e.playing /\ k.gen = e.gen /\ k.late = e.late /\ k.warn = e.warn
      /\ k.counting = e.counting
  BY <1>3, <1>4, <1>6 DEF Core, Parts
<1>8. << >> \in Seq(Told) /\ Len(<< >>) = 0
  OBVIOUS
<1>9. Core(k)
  BY <1>3, <1>5, <1>7, <1>8 DEF Core
<1>10. Fresh(k)
  BY <1>3, <1>7 DEF Fresh
<1>11. Over(k)
  BY <1>1, <1>3, <1>5, <1>6, <1>7 DEF Over
<1> QED BY <1>3, <1>7, <1>9, <1>10, <1>11 DEF Good, k

\* The open handlers: no work of an earlier connection is left by then.
LEMMA OpenedIsGood ==
  ASSUME NEW c, Good(c), c.sock = "connecting"
  PROVE  Good(Player!Opened(c)) /\ Player!Opened(c).gen = 0
<1> DEFINE w == [i \in DOMAIN c.work |-> [c.work[i] EXCEPT !.here = FALSE]]
           s == Player!Begun(c.screen)
           o == <<[kind |-> "list"]>>
           k == Player!Opened(c)
<1>1. k = [c EXCEPT !.sock = "open", !.out = o, !.policy = FALSE, !.gen = 0, !.caps = FALSE,
                    !.subscribed = FALSE, !.attempt = 0, !.reconnecting = FALSE,
                    !.work = w, !.received = FALSE, !.stale = FALSE, !.late = FALSE,
                    !.screen = s]
  BY DEF Player!Opened
<1>2. \A i \in 1 .. Len(c.work) : ~c.work[i].mine
  BY DEF Good, Fresh
<1>3. w \in Seq(Player!Work) /\ \A i \in 1 .. Len(w) : ~w[i].mine
  <2>1. \A i \in 1 .. Len(c.work) : w[i] \in Player!Work /\ ~w[i].mine
    <3> TAKE i \in 1 .. Len(c.work)
    <3> DEFINE a == c.work[i]
               x == [a EXCEPT !.here = FALSE]
    <3>1. a \in Player!Work /\ ~a.mine
      BY <1>2 DEF Good, Core
    <3>2. i \in DOMAIN c.work
      BY DEF Good, Core
    <3>3. w[i] = x
      BY <3>2
    <3> HIDE DEF a
    <3>4. x \in Player!Work
      BY <3>1 DEF Player!Work
    <3>5. ~x.mine
      BY <3>1 DEF Player!Work
    <3> HIDE DEF x, w
    <3> QED BY <3>3, <3>4, <3>5
  <2>2. Len(c.work) \in Nat /\ DOMAIN c.work = 1 .. Len(c.work)
    BY DEF Good, Core
  <2>3. w \in [1 .. Len(c.work) -> Player!Work]
    BY <2>1, <2>2
  <2>4. w \in Seq(Player!Work) /\ DOMAIN w = 1 .. Len(c.work)
    BY <2>2, <2>3
  <2> HIDE DEF w
  <2>5. Len(w) = Len(c.work)
    BY <2>2, <2>4
  <2> QED BY <2>1, <2>4, <2>5
<1>4. o \in Seq(Told) /\ Len(o) = 1 /\ o[1].kind # "answer"
  BY DEF Told
<1>5. "overlay" \in DOMAIN s
  BY Screens DEF Good, Core, Parts
<1> HIDE DEF w, s, o, k
<1>6. /\ Parts(k) /\ k.sock = "open" /\ k.out = o /\ ~k.stale /\ k.retry = c.retry
      /\ k.screen = s /\ k.pc = c.pc /\ k.ice = c.ice /\ k.work = w /\ k.src = c.src
      /\ k.playing = c.playing /\ k.gen = 0
  BY <1>1, <1>5 DEF Good, Core, Parts
<1>7. Core(k)
  <2>1. \A i \in 1 .. Len(o) : o[i].kind # "answer"
    <3> TAKE i \in 1 .. Len(o)
    <3>1. i = 1
      BY <1>4
    <3> QED BY <1>4, <3>1
  <2>2. /\ c.retry \in Nat
        /\ c.ice => c.pc
        /\ c.src \in {"none", "old", "now"} /\ c.playing \subseteq {"old", "now"}
        /\ c.src = "now" => c.pc
        /\ "now" \in c.playing => c.pc
    BY DEF Good, Core
  <2>3. /\ Parts(k) /\ k.gen \in Nat /\ k.retry \in Nat /\ k.out \in Seq(Told)
        /\ k.work \in Seq(Player!Work)
    BY <1>3, <1>4, <1>6, <2>2
  <2>4. \A i \in 1 .. Len(k.out) :
          k.out[i].kind = "answer" => k.out[i].tag = k.out[i].gen /\ k.out[i].here
    BY <1>6, <2>1
  <2>5. \A i \in 1 .. Len(k.work) : k.work[i].mine => k.pc
    BY <1>3, <1>6
  <2>6. /\ k.ice => k.pc
        /\ k.src \in {"none", "old", "now"} /\ k.playing \subseteq {"old", "now"}
        /\ k.src = "now" => k.pc
        /\ "now" \in k.playing => k.pc
    BY <1>6, <2>2
  <2> QED BY <2>3, <2>4, <2>5, <2>6 DEF Core
<1>8. Fresh(k)
  BY <1>3, <1>6 DEF Fresh
<1>9. Over(k)
  BY <1>6 DEF Over
<1> QED BY <1>6, <1>7, <1>8, <1>9 DEF Good, k

\* doReconnect, with nothing left of the connection if it is closed.
LEMMA ReconnectingIsGood ==
  ASSUME NEW c, Core(c), Fresh(c)
  PROVE  Good(Player!Reconnecting(c)) /\ Player!Reconnecting(c).gen = c.gen
<1> DEFINE d == [c EXCEPT !.reconnecting = TRUE]
           k == Player!Reconnecting(c)
<1>1. d = [c EXCEPT !.reconnecting = TRUE]
  OBVIOUS
<1> HIDE DEF d
<1>2. Alike(c, d) /\ d.screen = c.screen
  BY <1>1 DEF Core, Parts, Alike
<1>3. Core(d) /\ Fresh(d) /\ d.sock = c.sock /\ d.gen = c.gen
  BY <1>2, AlikeIsGood DEF Alike
<1>4. CASE c.sock # "closed"
  <2>1. k = Player!Closing(d, TRUE)
    BY <1>4 DEF Player!Reconnecting, d
  <2>2. k = [d EXCEPT !.auto = TRUE, !.sock = "closing"]
    BY <1>3, <1>4, <2>1 DEF Player!Closing
  <2> HIDE DEF k
  <2>3. /\ Parts(k) /\ k.sock = "closing" /\ k.out = d.out /\ k.retry = d.retry
        /\ k.screen = d.screen /\ k.pc = d.pc /\ k.ice = d.ice /\ k.work = d.work
        /\ k.src = d.src /\ k.playing = d.playing /\ k.gen = d.gen
    BY <1>3, <2>2 DEF Core, Parts
  <2>4. Core(k)
    BY <1>3, <2>3 DEF Core
  <2>5. Fresh(k)
    BY <1>3, <2>3 DEF Fresh
  <2>6. Over(k)
    BY <2>3 DEF Over
  <2> QED BY <1>3, <2>3, <2>4, <2>5, <2>6 DEF Good, k
<1>5. CASE c.sock = "closed"
  <2> DEFINE s == Player!Begun(d.screen)
             e == [d EXCEPT !.screen = s]
  <2>1. k = Player!Connecting(e)
    BY <1>5 DEF Player!Reconnecting, d
  <2>2. k = [e EXCEPT !.auto = TRUE, !.idle = FALSE, !.sock = "connecting"]
    BY <2>1 DEF Player!Connecting
  <2>3. "overlay" \in DOMAIN s
    BY <1>3, Screens DEF Core, Parts
  <2>4. e = [d EXCEPT !.screen = s]
    OBVIOUS
  <2> HIDE DEF s, e, k
  <2>5. /\ Parts(k) /\ k.sock = "connecting" /\ k.out = d.out /\ k.retry = d.retry
        /\ k.screen = s /\ k.pc = d.pc /\ k.ice = d.ice /\ k.work = d.work
        /\ k.src = d.src /\ k.playing = d.playing /\ k.gen = d.gen
    BY <1>3, <2>2, <2>3, <2>4 DEF Core, Parts
  <2>6. Core(k)
    BY <1>3, <2>5 DEF Core
  <2>7. Fresh(k)
    BY <1>3, <1>5, <2>5 DEF Fresh
  <2>8. Over(k)
    BY <2>5 DEF Over
  <2> QED BY <1>3, <2>5, <2>6, <2>7, <2>8 DEF Good, k
<1> QED BY <1>4, <1>5

\* The lemmas below conclude that nothing but the subscription changed.
Kin(c, k) ==
  Good(k) /\ k.sock = c.sock /\ k.gen = c.gen /\ k.screen = c.screen /\ k.retry = c.retry

LEMMA AlikeIsKin ==
  ASSUME NEW c, NEW k, Good(c), Alike(c, k), k.screen = c.screen
  PROVE  Kin(c, k)
<1>1. Core(k) /\ Fresh(k) /\ Over(k)
  BY AlikeIsGood DEF Good
<1> QED BY <1>1 DEF Kin, Good, Alike

\* handleStreamerSelectionChanged
LEMMA ChosenIsKin ==
  ASSUME NEW c, Good(c), NEW automatic \in BOOLEAN
  PROVE  Kin(c, Player!Chosen(c, automatic))
<1> DEFINE d == [c EXCEPT !.wanted = TRUE]
           r == IF ~c.policy /\ (~c.pc \/ c.subscribed) THEN Player!Replaced(d) ELSE d
           k == Player!Chosen(c, automatic)
<1>1. d = [c EXCEPT !.wanted = TRUE]
  OBVIOUS
<1>2. k = IF ~c.listed THEN c
          ELSE IF c.sock = "closed" \/ (~c.pc /\ ~c.config) \/ (automatic /\ c.subscribed)
          THEN d
          ELSE IF c.sock = "connecting" THEN [r EXCEPT !.subscribed = FALSE]
          ELSE [Player!SubscribeSent(r) EXCEPT !.subscribed = TRUE]
  BY DEF Player!Chosen
<1> HIDE DEF d
<1>3. Kin(c, d)
  <2>1. Alike(c, d) /\ d.screen = c.screen
    BY <1>1 DEF Good, Core, Parts, Alike
  <2> QED BY <2>1, AlikeIsKin
<1>4. CASE ~c.listed
  BY <1>2, <1>4 DEF Kin
<1>5. CASE c.listed /\ (c.sock = "closed" \/ (~c.pc /\ ~c.config)
                        \/ (automatic /\ c.subscribed))
  BY <1>2, <1>3, <1>5
<1>6. ASSUME c.sock # "closed" PROVE Kin(c, r)
  <2>1. Core(d) /\ d.sock # "closed"
    BY <1>3, <1>6 DEF Kin, Good
  <2>2. Kin(d, Player!Replaced(d))
    BY <2>1, ReplacedIsGood DEF Kin
  <2> QED BY <1>3, <2>2 DEF Kin
<1> HIDE DEF r
<1>7. CASE c.listed /\ c.sock = "connecting" /\ (c.pc \/ c.config)
           /\ ~(automatic /\ c.subscribed)
  <2> DEFINE e == [r EXCEPT !.subscribed = FALSE]
  <2>1. k = e
    BY <1>2, <1>7
  <2>2. Kin(c, r)
    BY <1>6, <1>7
  <2>3. e = [r EXCEPT !.subscribed = FALSE]
    OBVIOUS
  <2> HIDE DEF e
  <2>4. Alike(r, e) /\ e.screen = r.screen
    BY <2>2, <2>3 DEF Kin, Good, Core, Parts, Alike
  <2>5. Kin(r, e)
    BY <2>2, <2>4, AlikeIsKin DEF Kin
  <2> HIDE DEF k
  <2> QED BY <2>1, <2>2, <2>5 DEF Kin, k
<1>8. CASE c.listed /\ c.sock \notin {"closed", "connecting"} /\ (c.pc \/ c.config)
           /\ ~(automatic /\ c.subscribed)
  <2> DEFINE a == Player!SubscribeSent(r)
             e == [a EXCEPT !.subscribed = TRUE]
  <2>1. k = e
    BY <1>2, <1>8
  <2>2. Kin(c, r)
    BY <1>6, <1>8
  <2>3. Kin(r, a)
    BY <2>2, SubscribeSentIsGood DEF Kin, Good
  <2> HIDE DEF a
  <2>4. e = [a EXCEPT !.subscribed = TRUE]
    OBVIOUS
  <2> HIDE DEF e
  <2>5. Alike(a, e) /\ e.screen = a.screen
    BY <2>3, <2>4 DEF Kin, Good, Core, Parts, Alike
  <2>6. Kin(a, e)
    BY <2>3, <2>5, AlikeIsKin DEF Kin
  <2> HIDE DEF k
  <2> QED BY <2>1, <2>2, <2>3, <2>6 DEF Kin, k
<1> HIDE DEF k
<1> QED BY <1>4, <1>5, <1>7, <1>8 DEF k

\* handleStreamerListMessage: it comes over an open socket.
LEMMA ListedIsGood ==
  ASSUME NEW c, Good(c), c.sock = "open", NEW up \in BOOLEAN
  PROVE  Good(Player!Listed(c, up)) /\ Player!Listed(c, up).gen = c.gen
<1> DEFINE c1 == [c EXCEPT !.subscribed = FALSE]
           gone == IF c.subscribed /\ ~up THEN Player!Retired(c1) ELSE c
           told == [gone EXCEPT !.listed = up]
           kept == IF c.selected THEN Player!Chosen(told, FALSE) ELSE told
           pre == [kept EXCEPT !.attempt = 0, !.reconnecting = FALSE, !.selected = TRUE]
           took == Player!Chosen(pre, TRUE)
           asking == Player!Asking(kept)
           out == [kept EXCEPT !.attempt = 0, !.reconnecting = FALSE, !.auto = FALSE]
           none == IF ~Wait THEN kept
                   ELSE IF c.attempt < MaxReconnectAttempts THEN asking ELSE out
           s == Player!Unlisted(none.screen, none.reconnecting)
           last == [none EXCEPT !.screen = s]
           k == Player!Listed(c, up)
<1>1. k = IF up THEN took ELSE last
  BY DEF Player!Listed
<1>2. /\ c1 = [c EXCEPT !.subscribed = FALSE] /\ told = [gone EXCEPT !.listed = up]
      /\ pre = [kept EXCEPT !.attempt = 0, !.reconnecting = FALSE, !.selected = TRUE]
      /\ out = [kept EXCEPT !.attempt = 0, !.reconnecting = FALSE, !.auto = FALSE]
      /\ last = [none EXCEPT !.screen = s]
      /\ asking = [kept EXCEPT !.attempt = kept.attempt + 1, !.reconnecting = TRUE,
                               !.poll = kept.poll + 1]
  BY DEF Player!Asking
<1> HIDE DEF c1, k, last
<1>3. Good(c1) /\ c1.sock = "open" /\ c1.gen = c.gen
  <2>1. Alike(c, c1) /\ c1.screen = c.screen
    BY <1>2 DEF Good, Core, Parts, Alike
  <2> QED BY <2>1, AlikeIsKin DEF Kin
<1>4. Good(gone) /\ gone.sock = "open" /\ gone.gen = c.gen
  <2> DEFINE e == Player!Retired(c1)
  <2>1. Core(c1)
    BY <1>3 DEF Good
  <2>2. Core(e) /\ Fresh(e) /\ e.sock = c1.sock /\ e.gen = c1.gen
    BY <2>1, RetiredIsGood
  <2> HIDE DEF e
  <2>3. Good(e) /\ e.sock = "open" /\ e.gen = c.gen
    BY <1>3, <2>2 DEF Good, Over
  <2>4. gone = IF c.subscribed /\ ~up THEN e ELSE c
    BY DEF e
  <2> HIDE DEF gone
  <2> QED BY <2>3, <2>4
<1> HIDE DEF gone, told
<1>5. Good(told) /\ told.sock = "open" /\ told.gen = c.gen
  <2>1. Alike(gone, told) /\ told.screen = gone.screen
    BY <1>2, <1>4 DEF Good, Core, Parts, Alike
  <2> QED BY <1>4, <2>1, AlikeIsKin DEF Kin
<1>6. Good(kept) /\ kept.sock = "open" /\ kept.gen = c.gen
  BY <1>5, ChosenIsKin DEF Kin
<1> HIDE DEF kept, pre, out, asking
<1>7. Good(pre) /\ pre.sock = "open" /\ pre.gen = c.gen
  <2>1. Alike(kept, pre) /\ pre.screen = kept.screen
    BY <1>2, <1>6 DEF Good, Core, Parts, Alike
  <2> QED BY <1>6, <2>1, AlikeIsKin DEF Kin
<1>8. Good(took) /\ took.gen = c.gen
  BY <1>7, ChosenIsKin DEF Kin
<1>9. /\ Good(out) /\ out.sock = "open" /\ out.gen = c.gen
      /\ Good(asking) /\ asking.sock = "open" /\ asking.gen = c.gen
  <2>1. Alike(kept, out) /\ out.screen = kept.screen
    BY <1>2, <1>6 DEF Good, Core, Parts, Alike
  <2>2. Alike(kept, asking) /\ asking.screen = kept.screen
    BY <1>2, <1>6 DEF Good, Core, Parts, Alike
  <2> QED BY <1>6, <2>1, <2>2, AlikeIsKin DEF Kin
<1> HIDE DEF took
<1>10. Good(none) /\ none.sock = "open" /\ none.gen = c.gen
  BY <1>6, <1>9
<1> HIDE DEF none
<1>11. "overlay" \in DOMAIN s
  BY <1>10, Screens DEF Good, Core, Parts
<1> HIDE DEF s
<1>12. Good(last) /\ last.gen = c.gen
  <2>1. Alike(none, last)
    BY <1>2, <1>10, <1>11 DEF Good, Core, Parts, Alike
  <2>2. Core(last) /\ Fresh(last) /\ Over(last)
    BY <1>10, <2>1, AlikeIsGood DEF Good
  <2> QED BY <1>10, <2>1, <2>2 DEF Good, Alike
<1>13. Good(k) /\ k.gen = c.gen
  BY <1>1, <1>8, <1>12
<1> QED BY <1>13 DEF k

LEMMA SubscribeFailedIsGood ==
  ASSUME NEW c, Good(c), c.sock = "open"
  PROVE  Good(Player!SubscribeFailed(c)) /\ Player!SubscribeFailed(c).gen = c.gen
<1> DEFINE s == Player!Shown(c.screen, "disconnect")
           k == Player!SubscribeFailed(c)
<1>1. k = [c EXCEPT !.attempt = 0, !.reconnecting = FALSE, !.auto = FALSE,
                    !.subscribed = FALSE, !.screen = s]
  BY DEF Player!SubscribeFailed
<1>2. "overlay" \in DOMAIN s
  BY Screens DEF Good, Core, Parts
<1> HIDE DEF s, k
<1>3. Alike(c, k)
  BY <1>1, <1>2 DEF Good, Core, Parts, Alike
<1>4. Core(k) /\ Fresh(k) /\ Over(k)
  BY <1>3, AlikeIsGood DEF Good
<1> QED BY <1>3, <1>4 DEF Good, Alike, k

\* handleCodecState: only a restart brings a later generation.
LEMMA CodecStateIsGood ==
  ASSUME NEW c, Good(c), c.sock = "open", NEW gen \in Nat, NEW status,
         gen > c.gen => status = "restarting"
  PROVE  LET k == Player!CodecState(c, gen, status)
         IN  Good(k) /\ k.gen = IF gen > c.gen THEN gen ELSE c.gen
<1> DEFINE d == [c EXCEPT !.gen = gen, !.policy = TRUE]
           k == Player!CodecState(c, gen, status)
<1>1. c.gen \in Nat
  BY DEF Good, Core
<1>2. k = IF gen < c.gen THEN c
          ELSE IF status = "restarting" /\ gen > c.gen THEN Player!Replaced(d) ELSE d
  BY DEF Player!CodecState
<1>3. d = [c EXCEPT !.gen = gen, !.policy = TRUE]
  OBVIOUS
<1> HIDE DEF d, k
<1>4. CASE gen < c.gen
  BY <1>1, <1>2, <1>4 DEF k
<1>5. CASE gen = c.gen
  <2>1. Alike(c, d) /\ d.screen = c.screen
    BY <1>3, <1>5 DEF Good, Core, Parts, Alike
  <2>2. k = d
    BY <1>1, <1>2, <1>5
  <2> QED BY <1>1, <1>5, <2>1, <2>2, AlikeIsKin DEF Kin, k
<1>6. CASE gen > c.gen
  <2>1. k = Player!Replaced(d)
    BY <1>1, <1>2, <1>6
  <2>2. /\ Parts(d) /\ d.sock = c.sock /\ d.out = c.out /\ d.retry = c.retry /\ d.gen = gen
        /\ d.pc = c.pc /\ d.ice = c.ice /\ d.work = c.work /\ d.src = c.src
        /\ d.playing = c.playing
    BY <1>3 DEF Good, Core, Parts
  <2>3. Core(d)
    BY <2>2 DEF Good, Core
  <2>4. Good(k) /\ k.gen = gen
    BY <2>1, <2>2, <2>3, ReplacedIsGood
  <2> QED BY <1>6, <2>4 DEF k
<1> QED BY <1>1, <1>4, <1>5, <1>6

\* handleWebRtcOffer, of an offer of the current generation.
LEMMA OfferedIsGood ==
  ASSUME NEW c, Good(c), c.sock = "open", NEW gen, gen = c.gen
  PROVE  Good(Player!Offered(c, gen)) /\ Player!Offered(c, gen).gen = c.gen
<1> DEFINE x == [gen |-> gen, here |-> TRUE, mine |-> TRUE, at |-> "queued"]
           w == Append(c.work, x)
           k == Player!Offered(c, gen)
<1>1. CASE ~c.pc
  BY <1>1 DEF Player!Offered
<1>2. CASE c.pc
  <2>1. k = [c EXCEPT !.work = w]
    BY <1>2 DEF Player!Offered
  <2>2. x \in Player!Work /\ x.gen = c.gen /\ x.here
    BY DEF Player!Work, Good, Core
  <2> HIDE DEF x
  <2>3. /\ w \in Seq(Player!Work) /\ Len(w) = Len(c.work) + 1 /\ w[Len(w)] = x
        /\ \A i \in 1 .. Len(c.work) : w[i] = c.work[i]
    BY <2>2 DEF Good, Core
  <2>4. \A i \in 1 .. Len(w) : i \in 1 .. Len(c.work) \/ w[i] = x
    BY <2>3 DEF Good, Core
  <2> HIDE DEF w, k
  <2>5. /\ Parts(k) /\ k.sock = c.sock /\ k.out = c.out /\ k.retry = c.retry /\ k.gen = c.gen
        /\ k.pc = c.pc /\ k.ice = c.ice /\ k.work = w /\ k.src = c.src
        /\ k.playing = c.playing
    BY <2>1 DEF Good, Core, Parts
  <2>6. Core(k)
    BY <1>2, <2>3, <2>5 DEF Good, Core
  <2>7. Fresh(k)
    BY <2>2, <2>3, <2>4, <2>5 DEF Good, Fresh
  <2>8. Over(k)
    BY <2>5 DEF Over
  <2> QED BY <2>5, <2>6, <2>7, <2>8 DEF Good, k
<1> QED BY <1>1, <1>2

LEMMA AfkStartedIsAlike ==
  ASSUME NEW c, Good(c), c.sock # "closed"
  PROVE  LET k == Player!AfkStarted(c)
         IN  /\ Good(k) /\ k.sock = c.sock /\ k.gen = c.gen /\ k.screen = c.screen
             /\ k.src = c.src /\ k.asked = c.asked
<1> DEFINE w == c.warn \/ Afk
           k == Player!AfkStarted(c)
<1>1. k = [c EXCEPT !.active = Afk, !.warn = w]
  BY DEF Player!AfkStarted
<1> HIDE DEF w, k
<1>2. /\ Parts(k) /\ k.sock = c.sock /\ k.out = c.out /\ k.retry = c.retry /\ k.gen = c.gen
      /\ k.pc = c.pc /\ k.ice = c.ice /\ k.work = c.work /\ k.src = c.src
      /\ k.playing = c.playing /\ k.screen = c.screen /\ k.asked = c.asked
  BY <1>1 DEF Good, Core, Parts
<1>3. Core(k)
  BY <1>2 DEF Good, Core
<1>4. Fresh(k)
  BY <1>2 DEF Good, Fresh
<1>5. Over(k)
  BY <1>2 DEF Over
<1> QED BY <1>2, <1>3, <1>4, <1>5 DEF Good, k

\* playStream, over an open connection or a question whether to play.
LEMMA PlayedIsGood ==
  ASSUME NEW c, Good(c),
         c.sock = "closed" => c.screen.overlay # "disconnect"
  PROVE  Good(Player!Played(c)) /\ Player!Played(c).gen = c.gen
<1> DEFINE s == Player!Shown(c.screen, "none")
           p == c.playing \cup {c.src}
           a == c.src = "now"
           k == Player!Played(c)
<1>1. CASE c.src = "none"
  BY <1>1 DEF Player!Played
<1>2. CASE c.src # "none"
  <2>1. k = [c EXCEPT !.playing = p, !.asked = a, !.screen = s]
    BY <1>2 DEF Player!Played
  <2>2. p \subseteq {"old", "now"} /\ ("now" \in p => c.pc)
    BY <1>2 DEF Good, Core
  <2>3. "overlay" \in DOMAIN s
    BY Screens DEF Good, Core, Parts
  <2> HIDE DEF p, a, s, k
  <2>4. /\ Parts(k) /\ k.sock = c.sock /\ k.out = c.out /\ k.retry = c.retry /\ k.gen = c.gen
        /\ k.pc = c.pc /\ k.ice = c.ice /\ k.work = c.work /\ k.src = c.src
        /\ k.playing = p /\ k.screen = s /\ k.stale = c.stale /\ k.warn = c.warn
        /\ k.counting = c.counting /\ k.late = c.late
    BY <2>1, <2>3 DEF Good, Core, Parts
  <2>5. Core(k)
    BY <2>2, <2>4 DEF Good, Core
  <2>6. Fresh(k)
    BY <2>4 DEF Good, Fresh
  <2>7. Over(k)
    BY <2>4 DEF Good, Over
  <2> QED BY <2>4, <2>5, <2>6, <2>7 DEF Good, k
<1> QED BY <1>1, <1>2

\* onAfkTriggered, of a warning's button.
LEMMA DismissedIsGood ==
  ASSUME NEW c, Good(c), c.sock # "closed"
  PROVE  Good(Player!Dismissed(c)) /\ Player!Dismissed(c).gen = c.gen
<1> DEFINE d == [c EXCEPT !.counting = FALSE]
           a == Player!AfkClicked(c)
           k == Player!Dismissed(c)
<1>1. a = IF c.active \/ c.counted THEN Player!AfkStarted(d) ELSE d
  BY DEF Player!AfkClicked
<1>2. k = IF c.asked THEN a ELSE Player!Played(a)
  BY DEF Player!Dismissed
<1>3. d = [c EXCEPT !.counting = FALSE]
  OBVIOUS
<1> HIDE DEF d, a, k
<1>4. Good(d) /\ d.sock = c.sock /\ d.gen = c.gen
  <2>1. /\ Parts(d) /\ d.sock = c.sock /\ d.out = c.out /\ d.retry = c.retry /\ d.gen = c.gen
        /\ d.pc = c.pc /\ d.ice = c.ice /\ d.work = c.work /\ d.src = c.src
        /\ d.playing = c.playing
    BY <1>3 DEF Good, Core, Parts
  <2>2. Core(d)
    BY <2>1 DEF Good, Core
  <2>3. Fresh(d)
    BY <2>1 DEF Good, Fresh
  <2>4. Over(d)
    BY <2>1 DEF Over
  <2> QED BY <2>1, <2>2, <2>3, <2>4 DEF Good
<1>5. Good(a) /\ a.sock = c.sock /\ a.gen = c.gen
  BY <1>1, <1>4, AfkStartedIsAlike
<1>6. Good(k) /\ k.gen = c.gen
  BY <1>2, <1>5, PlayedIsGood
<1> QED BY <1>6 DEF k

LEMMA RemovedFacts ==
  ASSUME NEW S, NEW w \in Seq(S), NEW i \in 1 .. Len(w)
  PROVE  LET u == Player!RemoveAt(w, i)
         IN  u \in Seq(S) /\ \A j \in 1 .. Len(u) : \E l \in 1 .. Len(w) : u[j] = w[l]
<1> DEFINE p == SubSeq(w, 1, i - 1)
           q == SubSeq(w, i + 1, Len(w))
           u == Player!RemoveAt(w, i)
<1>1. u = p \o q
  BY DEF Player!RemoveAt
<1>2. p \in Seq(S) /\ Len(p) = i - 1 /\ \A j \in 1 .. Len(p) : p[j] = w[j]
  <2>1. p \in Seq(S)
    OBVIOUS
  <2>2. Len(p) = i - 1
    OBVIOUS
  <2>3. \A j \in 1 .. (i - 1) : p[j] = w[j]
    OBVIOUS
  <2> QED BY <2>1, <2>2, <2>3
<1>3. q \in Seq(S) /\ Len(q) = Len(w) - i /\ \A j \in 1 .. Len(q) : q[j] = w[j + i]
  <2>1. q \in Seq(S)
    OBVIOUS
  <2>2. Len(q) = Len(w) - i
    OBVIOUS
  <2>3. \A j \in 1 .. (Len(w) - i) : q[j] = w[j + i]
    OBVIOUS
  <2> QED BY <2>1, <2>2, <2>3
<1> HIDE DEF p, q, u
<1>4. u \in Seq(S) /\ Len(u) = Len(p) + Len(q)
      /\ \A j \in 1 .. Len(u) : u[j] = IF j <= Len(p) THEN p[j] ELSE q[j - Len(p)]
  <2>1. u \in Seq(S)
    BY <1>1, <1>2, <1>3
  <2>2. Len(u) = Len(p) + Len(q)
    <3>1. p \in Seq(S) /\ q \in Seq(S)
      BY <1>2, <1>3
    <3> QED BY <1>1, <3>1
  <2>3. \A j \in 1 .. (Len(p) + Len(q)) :
          (p \o q)[j] = IF j <= Len(p) THEN p[j] ELSE q[j - Len(p)]
    BY <1>2, <1>3
  <2> QED BY <1>1, <2>1, <2>2, <2>3
<1>5. \A j \in 1 .. Len(u) : \E l \in 1 .. Len(w) : u[j] = w[l]
  <2> TAKE j \in 1 .. Len(u)
  <2>1. CASE j <= Len(p)
    <3>1. j \in 1 .. Len(p) /\ j \in 1 .. Len(w)
      BY <1>2, <1>3, <1>4, <2>1
    <3> QED BY <1>2, <1>4, <2>1, <3>1
  <2>2. CASE j > Len(p)
    <3> DEFINE l == j - Len(p)
    <3>1. l \in 1 .. Len(q) /\ l + i \in 1 .. Len(w)
      BY <1>2, <1>3, <1>4, <2>2
    <3>2. u[j] = q[l] /\ q[l] = w[l + i]
      BY <1>2, <1>3, <1>4, <2>2, <3>1
    <3> HIDE DEF l
    <3> QED BY <3>1, <3>2
  <2> QED BY <1>2, <1>4, <2>1, <2>2
<1> QED BY <1>4, <1>5 DEF u

\* Work that goes on, or is dropped, stays work of its peer connection.
LEMMA WorkIsGood ==
  ASSUME NEW c, Good(c), NEW w \in Seq(Player!Work), NEW k, k = [c EXCEPT !.work = w],
         \A j \in 1 .. Len(w) : \E l \in 1 .. Len(c.work) :
           /\ w[j].mine = c.work[l].mine /\ w[j].here = c.work[l].here
           /\ w[j].gen = c.work[l].gen
  PROVE  /\ Good(k) /\ k.sock = c.sock /\ k.gen = c.gen /\ k.screen = c.screen
         /\ k.pc = c.pc /\ k.src = c.src /\ k.out = c.out
<1>1. /\ Parts(k) /\ k.sock = c.sock /\ k.out = c.out /\ k.retry = c.retry /\ k.gen = c.gen
      /\ k.pc = c.pc /\ k.ice = c.ice /\ k.work = w /\ k.src = c.src
      /\ k.playing = c.playing /\ k.screen = c.screen /\ k.stale = c.stale
      /\ k.warn = c.warn /\ k.counting = c.counting /\ k.late = c.late
  BY DEF Good, Core, Parts
<1>2. Core(k)
  BY <1>1 DEF Good, Core
<1>3. Fresh(k)
  BY <1>1 DEF Good, Fresh
<1>4. Over(k)
  BY <1>1 DEF Good, Over
<1> QED BY <1>1, <1>2, <1>3, <1>4 DEF Good

\* ontrack, of the current peer connection.
LEMMA TrackedIsGood ==
  ASSUME NEW c, Good(c), c.pc
  PROVE  Good(Player!Tracked(c)) /\ Player!Tracked(c).gen = c.gen
<1> DEFINE r == c.ready /\ c.src = "now"
           k == Player!Tracked(c)
<1>1. k = [c EXCEPT !.ready = r, !.src = "now"]
  BY DEF Player!Tracked
<1> HIDE DEF r, k
<1>2. /\ Parts(k) /\ k.sock = c.sock /\ k.out = c.out /\ k.retry = c.retry /\ k.gen = c.gen
      /\ k.pc = c.pc /\ k.ice = c.ice /\ k.work = c.work /\ k.src = "now"
      /\ k.playing = c.playing /\ k.screen = c.screen /\ k.stale = c.stale
      /\ k.warn = c.warn /\ k.counting = c.counting /\ k.late = c.late
  BY <1>1 DEF Good, Core, Parts
<1>3. Core(k)
  BY <1>2 DEF Good, Core
<1>4. Fresh(k)
  BY <1>2 DEF Good, Fresh
<1>5. Over(k)
  BY <1>2 DEF Good, Over
<1> QED BY <1>2, <1>3, <1>4, <1>5 DEF Good, k

\* An answer of the current peer connection carries the generation of its offer.
LEMMA AnsweredIsGood ==
  ASSUME NEW c, Good(c), c.sock # "closed", NEW w \in Player!Work, w.here, w.gen = c.gen
  PROVE  Good(Player!Answered(c, w)) /\ Player!Answered(c, w).gen = c.gen
<1> DEFINE m == [kind |-> "answer", tag |-> c.gen, gen |-> w.gen, here |-> w.here]
           d == Player!Sent(c, m)
           a == Player!AfkStarted(d)
           s == Player!Progress(a.screen)
           k == Player!Answered(c, w)
<1>1. k = [a EXCEPT !.inputs = TRUE, !.screen = s]
  BY DEF Player!Answered, Player!Negotiated
<1>2. m \in Told /\ m.tag = m.gen /\ m.here
  BY DEF Told, Player!Answer, Player!Work, Good, Core
<1> HIDE DEF m
<1>3. Good(d) /\ d.sock = c.sock /\ d.gen = c.gen
  <2>1. Core(c) /\ Fresh(c) /\ Over(c)
    BY DEF Good
  <2>2. Core(d) /\ Fresh(d) /\ Over(d) /\ d.sock = c.sock /\ d.gen = c.gen
    BY <1>2, <2>1, SentIsGood
  <2> QED BY <2>2 DEF Good
<1> HIDE DEF d
<1>4. Good(a) /\ a.sock = c.sock /\ a.gen = c.gen
  BY <1>3, AfkStartedIsAlike
<1>5. "overlay" \in DOMAIN s
  BY <1>4, Screens DEF Good, Core, Parts
<1> HIDE DEF a, s, k
<1>6. Alike(a, k)
  BY <1>1, <1>4, <1>5 DEF Good, Core, Parts, Alike
<1>7. Core(k) /\ Fresh(k) /\ Over(k)
  BY <1>4, <1>6, AlikeIsGood DEF Good
<1> QED BY <1>4, <1>6, <1>7 DEF Good, Alike, k

\* Every step of an offer, and what is left of one that was superseded.
LEMMA WorkStepsGood ==
  ASSUME Good(playerB), NEW i \in DOMAIN playerB.work, Player!WorkSteps(i)
  PROVE  Good(playerB') /\ playerB'.gen = playerB.gen /\ UNCHANGED <<v, inbox>>
<1> DEFINE c == playerB
           w == c.work[i]
           u == Player!RemoveAt(c.work, i)
           gone == [c EXCEPT !.work = u]
           Moved(next) == [w EXCEPT !.at = next]
           Put(next) == [c.work EXCEPT ![i] = Moved(next)]
           At(next) == [c EXCEPT !.work = Put(next)]
<1>1. c.work \in Seq(Player!Work) /\ i \in 1 .. Len(c.work) /\ w \in Player!Work
  BY DEF Good, Core
<1>2. Good(gone) /\ gone.sock = c.sock /\ gone.gen = c.gen /\ gone.pc = c.pc
  <2>1. /\ u \in Seq(Player!Work)
        /\ \A j \in 1 .. Len(u) : \E l \in 1 .. Len(c.work) : u[j] = c.work[l]
    BY <1>1, RemovedFacts
  <2>2. gone = [c EXCEPT !.work = u]
    OBVIOUS
  <2> HIDE DEF u, gone
  <2> QED BY <2>1, <2>2, WorkIsGood
<1>3. ASSUME NEW next \in {"remote", "local"}
      PROVE  LET k == At(next)
             IN  Good(k) /\ k.sock = c.sock /\ k.gen = c.gen /\ k.pc = c.pc
  <2> DEFINE x == Moved(next)
             p == Put(next)
             k == At(next)
  <2>1. x \in Player!Work /\ x.mine = w.mine /\ x.here = w.here /\ x.gen = w.gen
    BY <1>1 DEF Player!Work
  <2>2. p = [c.work EXCEPT ![i] = x] /\ k = [c EXCEPT !.work = p]
    OBVIOUS
  <2> HIDE DEF Moved, Put, At
  <2> HIDE DEF x, p, k
  <2>3. /\ p \in Seq(Player!Work) /\ Len(p) = Len(c.work)
        /\ \A j \in 1 .. Len(p) : p[j] = IF j = i THEN x ELSE c.work[j]
    BY <1>1, <2>1, <2>2
  <2>4. \A j \in 1 .. Len(p) : \E l \in 1 .. Len(c.work) :
          /\ p[j].mine = c.work[l].mine /\ p[j].here = c.work[l].here
          /\ p[j].gen = c.work[l].gen
    BY <1>1, <2>1, <2>3
  <2>5. Good(c) /\ k = [c EXCEPT !.work = p]
    BY <2>2
  <2>6. p \in Seq(Player!Work)
    BY <2>3
  <2> HIDE DEF c
  <2>7. Good(k) /\ k.sock = c.sock /\ k.gen = c.gen /\ k.pc = c.pc
    BY <2>4, <2>5, <2>6, WorkIsGood
  <2> QED BY <2>7 DEF k
<1>4. /\ UNCHANGED <<v, inbox>>
      /\ \/ ~w.mine /\ playerB' = gone
         \/ /\ w.mine
            /\ \/ playerB' = Player!Tracked(At("remote"))
               \/ playerB' = At("local")
               \/ playerB' = Player!Answered(gone, w)
  BY DEF Player!WorkSteps, Player!Superseded
<1>5. w.mine => /\ c.pc /\ w.here /\ w.gen = c.gen /\ c.sock # "closed"
  BY <1>1 DEF Good, Core, Fresh
<1> DEFINE r == At("remote")
           l == At("local")
<1>6. Good(r) /\ r.gen = c.gen /\ r.pc = c.pc /\ Good(l) /\ l.gen = c.gen
  BY <1>3
<1>7. /\ \/ playerB' = gone
         \/ w.mine /\ playerB' = Player!Tracked(r)
         \/ playerB' = l
         \/ w.mine /\ playerB' = Player!Answered(gone, w)
  BY <1>4
<1> HIDE DEF gone, r, l, w
<1>8. CASE playerB' = gone
  BY <1>2, <1>4, <1>8
<1>9. CASE w.mine /\ playerB' = Player!Tracked(r)
  BY <1>4, <1>5, <1>6, <1>9, TrackedIsGood
<1>10. CASE playerB' = l
  BY <1>4, <1>6, <1>10
<1>11. CASE w.mine /\ playerB' = Player!Answered(gone, w)
  BY <1>1, <1>2, <1>4, <1>5, <1>11, AnsweredIsGood
<1> QED BY <1>7, <1>8, <1>9, <1>10, <1>11

\* What changes only in the page or its media keeps the invariant: k differs from c in
\* what Parts names only where these say so.
LEMMA KeptIsGood ==
  ASSUME NEW c, Good(c), NEW k, Parts(k),
         k.sock = c.sock \/ (c.sock # "closed" /\ k.sock = "closing"),
         k.out = c.out, k.gen = c.gen, k.pc = c.pc, k.work = c.work,
         k.retry = c.retry,
         k.ice => c.pc,
         k.src = c.src,
         k.playing \subseteq c.playing,
         c.sock = "closed" =>
           /\ ~k.stale /\ ~k.warn /\ ~k.counting
           /\ k.retry = 0 /\ ~k.late => k.screen.overlay = "disconnect"
  PROVE  Good(k)
<1>1. Core(k)
  BY DEF Good, Core
<1>2. Fresh(k)
  BY DEF Good, Fresh
<1>3. Over(k)
  BY DEF Good, Over
<1> QED BY <1>1, <1>2, <1>3 DEF Good

LEMMA IceConnectsGood ==
  ASSUME Good(playerB), Player!IceConnects
  PROVE  Good(playerB') /\ playerB'.gen = playerB.gen
<1> DEFINE c == playerB
           s == Player!Progress(c.screen)
           k == playerB'
<1>1. k = [c EXCEPT !.ice = TRUE, !.stale = TRUE, !.screen = s] /\ c.pc
  BY DEF Player!IceConnects
<1>2. "overlay" \in DOMAIN s
  BY Screens DEF Good, Core, Parts
<1>3. c.sock # "closed"
  BY <1>1 DEF Good, Over
<1>4. Good(c)
  OBVIOUS
<1> HIDE DEF s, c, k
<1>5. /\ Parts(k) /\ k.sock = c.sock /\ k.out = c.out /\ k.retry = c.retry /\ k.gen = c.gen
      /\ k.pc = c.pc /\ k.work = c.work /\ k.src = c.src /\ k.playing = c.playing
  BY <1>1, <1>2, <1>4 DEF Good, Core, Parts
<1>6. Good(k)
  BY <1>1, <1>3, <1>4, <1>5, KeptIsGood
<1> QED BY <1>5, <1>6 DEF c, k

LEMMA LoadedGood ==
  ASSUME Good(playerB), Player!Loaded
  PROVE  Good(playerB') /\ playerB'.gen = playerB.gen
<1> DEFINE c == playerB
           t == [c.screen EXCEPT !.first = FALSE]
           d == [c EXCEPT !.ready = TRUE, !.screen = t]
           s == Player!Shown(d.screen, "play")
           e == [d EXCEPT !.screen = s]
           k == playerB'
<1>1. /\ d = [c EXCEPT !.ready = TRUE, !.screen = t] /\ e = [d EXCEPT !.screen = s]
      /\ t = [c.screen EXCEPT !.first = FALSE]
  OBVIOUS
<1>2. c.ice /\ k = IF AutoPlay THEN Player!Played(d) ELSE e
  BY DEF Player!Loaded
<1>3. Good(c)
  OBVIOUS
<1> HIDE DEF c, t, d, e, k
<1>4. c.sock # "closed" /\ "overlay" \in DOMAIN t
  BY <1>1, <1>2, <1>3 DEF Good, Core, Over, Parts
<1>5. Good(d) /\ d.gen = c.gen /\ d.sock = c.sock
  <2>1. Alike(c, d)
    BY <1>1, <1>3, <1>4 DEF Good, Core, Parts, Alike
  <2>2. Core(d) /\ Fresh(d) /\ Over(d)
    BY <1>3, <1>4, <2>1, AlikeIsGood DEF Good
  <2> QED BY <2>1, <2>2 DEF Good, Alike
<1>6. "overlay" \in DOMAIN s
  BY <1>5, Screens DEF Good, Core, Parts
<1> HIDE DEF s
<1>7. Good(e) /\ e.gen = c.gen
  <2>1. Alike(d, e)
    BY <1>1, <1>5, <1>6 DEF Good, Core, Parts, Alike
  <2>2. Core(e) /\ Fresh(e) /\ Over(e)
    BY <1>4, <1>5, <2>1, AlikeIsGood DEF Good
  <2> QED BY <1>5, <2>1, <2>2 DEF Good, Alike
<1>8. Good(k) /\ k.gen = c.gen
  BY <1>2, <1>4, <1>5, <1>7, PlayedIsGood
<1> QED BY <1>8 DEF c, k

LEMMA PlayRejectsGood ==
  ASSUME Good(playerB), Player!PlayRejects
  PROVE  Good(playerB') /\ playerB'.gen = playerB.gen
<1>1. PICK s \in playerB.playing :
        playerB' = [playerB EXCEPT !.playing = playerB.playing \ {s},
                                   !.asked = playerB.asked /\ s # "now",
                                   !.late = playerB.late \/ s = "old",
                                   !.screen = [Player!Shown(playerB.screen, "play")
                                                 EXCEPT !.presented = FALSE]]
  BY DEF Player!PlayRejects
<1> DEFINE c == playerB
           p == c.playing \ {s}
           a == c.asked /\ s # "now"
           l == c.late \/ s = "old"
           u == Player!Shown(c.screen, "play")
           t == [u EXCEPT !.presented = FALSE]
           k == playerB'
<1>2. k = [c EXCEPT !.playing = p, !.asked = a, !.late = l, !.screen = t]
  BY <1>1
<1>3. Good(c)
  OBVIOUS
<1>4. c.sock = "closed" => s = "old"
  BY <1>3 DEF Good, Core, Over
<1>5. (c.sock = "closed" => l) /\ p \subseteq c.playing
  BY <1>4
<1>6. "overlay" \in DOMAIN t
  <2>1. "overlay" \in DOMAIN u
    BY <1>3, Screens DEF Good, Core, Parts
  <2> HIDE DEF u
  <2> QED BY <2>1
<1> HIDE DEF c, p, a, l, u, t, k
<1>7. /\ Parts(k) /\ k.sock = c.sock /\ k.out = c.out /\ k.retry = c.retry /\ k.gen = c.gen
      /\ k.pc = c.pc /\ k.ice = c.ice /\ k.work = c.work /\ k.src = c.src
      /\ k.playing = p /\ k.stale = c.stale /\ k.warn = c.warn
      /\ k.counting = c.counting /\ k.late = l
  BY <1>2, <1>3, <1>6 DEF Good, Core, Parts
<1>8. c.ice => c.pc
  BY <1>3 DEF Good, Core
<1>9. c.sock = "closed" => ~k.stale /\ ~k.warn /\ ~k.counting /\ k.late
  BY <1>3, <1>5, <1>7 DEF Good, Over
<1>10. Good(k)
  BY <1>3, <1>5, <1>7, <1>8, <1>9, KeptIsGood
<1> QED BY <1>7, <1>10 DEF c, k

LEMMA MediaPresentedGood ==
  ASSUME Good(playerB), Player!MediaPresented
  PROVE  Good(playerB') /\ playerB'.gen = playerB.gen
<1> DEFINE c == playerB
           p == c.playing \ {"now"}
           t == Player!Presented(c.screen)
           s == IF t.overlay = "stale" THEN Player!Shown(t, "none") ELSE t
           k == playerB'
<1>1. k = [c EXCEPT !.playing = p, !.received = TRUE, !.stale = FALSE, !.screen = s] /\ c.ice
  BY DEF Player!MediaPresented
<1>2. "overlay" \in DOMAIN t
  BY Screens DEF Good, Core, Parts
<1> HIDE DEF t
<1>3. "overlay" \in DOMAIN s
  BY <1>2, Screens
<1>4. c.sock # "closed" /\ c.pc
  BY <1>1 DEF Good, Core, Over
<1>5. Good(c) /\ p \subseteq c.playing
  OBVIOUS
<1> HIDE DEF s, c, k, p
<1>6. /\ Parts(k) /\ k.sock = c.sock /\ k.out = c.out /\ k.retry = c.retry /\ k.gen = c.gen
      /\ k.pc = c.pc /\ k.work = c.work /\ k.src = c.src /\ k.playing = p
  BY <1>1, <1>3, <1>5 DEF Good, Core, Parts
<1>7. Good(k)
  BY <1>4, <1>5, <1>6, KeptIsGood
<1> QED BY <1>6, <1>7 DEF c, k

LEMMA MediaStaleGood ==
  ASSUME Good(playerB), Player!MediaStale
  PROVE  Good(playerB') /\ playerB'.gen = playerB.gen
<1> DEFINE c == playerB
           s == IF c.received THEN c.screen ELSE Player!Shown(c.screen, "stale")
           k == playerB'
<1>1. k = [c EXCEPT !.stale = FALSE, !.screen = s] /\ c.stale
  BY DEF Player!MediaStale
<1>2. "overlay" \in DOMAIN s
  BY Screens DEF Good, Core, Parts
<1>3. Good(c) /\ c.sock # "closed" /\ (c.ice => c.pc)
  BY <1>1 DEF Good, Core, Over
<1> HIDE DEF s, c, k
<1>4. /\ Parts(k) /\ k.sock = c.sock /\ k.out = c.out /\ k.retry = c.retry /\ k.gen = c.gen
      /\ k.pc = c.pc /\ k.work = c.work /\ k.src = c.src /\ k.playing = c.playing
      /\ k.ice = c.ice
  BY <1>1, <1>2, <1>3 DEF Good, Core, Parts
<1>5. Good(k)
  BY <1>3, <1>4, KeptIsGood
<1> QED BY <1>4, <1>5 DEF c, k

LEMMA AfkWarnsGood ==
  ASSUME Good(playerB), Player!AfkWarns
  PROVE  Good(playerB') /\ playerB'.gen = playerB.gen
<1> DEFINE c == playerB
           s == Player!Shown(c.screen, "afk")
           k == playerB'
<1>1. /\ k = [c EXCEPT !.active = FALSE, !.warn = FALSE, !.counting = TRUE,
                       !.counted = TRUE, !.screen = s]
      /\ c.warn
  BY DEF Player!AfkWarns
<1>2. "overlay" \in DOMAIN s
  BY Screens DEF Good, Core, Parts
<1>3. Good(c) /\ c.sock # "closed" /\ (c.ice => c.pc)
  BY <1>1 DEF Good, Core, Over
<1> HIDE DEF s, c, k
<1>4. /\ Parts(k) /\ k.sock = c.sock /\ k.out = c.out /\ k.retry = c.retry /\ k.gen = c.gen
      /\ k.pc = c.pc /\ k.work = c.work /\ k.src = c.src /\ k.playing = c.playing
      /\ k.ice = c.ice
  BY <1>1, <1>2, <1>3 DEF Good, Core, Parts
<1>5. Good(k)
  BY <1>3, <1>4, KeptIsGood
<1> QED BY <1>4, <1>5 DEF c, k

LEMMA AfkTimesOutGood ==
  ASSUME Good(playerB), Player!AfkTimesOut
  PROVE  Good(playerB') /\ playerB'.gen = playerB.gen
<1> DEFINE c == playerB
           d == Player!Closing(c, FALSE)
           a == Player!AfkStopped(d)
           i == c.sock = "open"
           k == playerB'
<1>1. k = [a EXCEPT !.idle = i] /\ c.counting
  BY DEF Player!AfkTimesOut
<1>2. Good(c) /\ c.sock # "closed" /\ (c.ice => c.pc)
  BY <1>1 DEF Good, Core, Over
<1>3. d = [c EXCEPT !.auto = FALSE, !.sock = "closing"]
  BY <1>2 DEF Player!Closing
<1>4. a = [d EXCEPT !.active = FALSE, !.warn = FALSE, !.counting = FALSE,
                    !.counted = FALSE]
  BY DEF Player!AfkStopped
<1> HIDE DEF c, d, a, i, k
<1>5. Good(d) /\ d.sock = "closing" /\ d.gen = c.gen
  <2>1. /\ Parts(d) /\ d.sock = "closing" /\ d.out = c.out /\ d.retry = c.retry
        /\ d.gen = c.gen /\ d.pc = c.pc /\ d.work = c.work /\ d.src = c.src
        /\ d.playing = c.playing /\ d.ice = c.ice
    BY <1>2, <1>3 DEF Good, Core, Parts
  <2> QED BY <1>2, <2>1, KeptIsGood
<1>6. Good(a) /\ a.sock = "closing" /\ a.gen = c.gen
  <2>1. /\ Parts(a) /\ a.sock = "closing" /\ a.out = d.out /\ a.retry = d.retry
        /\ a.gen = c.gen /\ a.pc = d.pc /\ a.work = d.work /\ a.src = d.src
        /\ a.playing = d.playing /\ a.ice = d.ice
    BY <1>4, <1>5 DEF Good, Core, Parts
  <2>2. d.ice => d.pc
    BY <1>5 DEF Good, Core
  <2> QED BY <1>5, <2>1, <2>2, KeptIsGood
<1>7. Alike(a, k) /\ k.screen = a.screen
  BY <1>1, <1>6 DEF Good, Core, Parts, Alike
<1>8. Good(k) /\ k.gen = c.gen
  BY <1>6, <1>7, AlikeIsKin DEF Kin
<1> QED BY <1>8 DEF c, k

LEMMA KeepaliveTimeoutGood ==
  ASSUME Good(playerB), Player!KeepaliveTimeout
  PROVE  Good(playerB') /\ playerB'.gen = playerB.gen
<1> DEFINE c == playerB
           k == playerB'
<1>1. k = [c EXCEPT !.sock = "closing"] /\ c.sock # "closed"
  BY DEF Player!KeepaliveTimeout
<1>2. Good(c) /\ (c.ice => c.pc)
  BY DEF Good, Core
<1> HIDE DEF c, k
<1>3. /\ Parts(k) /\ k.sock = "closing" /\ k.out = c.out /\ k.retry = c.retry
      /\ k.gen = c.gen /\ k.pc = c.pc /\ k.work = c.work /\ k.src = c.src
      /\ k.playing = c.playing /\ k.ice = c.ice
  BY <1>1, <1>2 DEF Good, Core, Parts
<1>4. Good(k)
  BY <1>1, <1>2, <1>3, KeptIsGood
<1> QED BY <1>3, <1>4 DEF c, k

\* Whatever the retry timer or the user had in mind, doReconnect starts over.
LEMMA RetryFiresGood ==
  ASSUME Good(playerB), Player!RetryFires
  PROVE  Good(playerB') /\ playerB'.gen = playerB.gen
<1> DEFINE c == playerB
           d == [c EXCEPT !.retry = c.retry - 1, !.attempt = c.attempt + 1]
           k == playerB'
<1>1. k = Player!Reconnecting(d) /\ c.retry > 0
  BY DEF Player!RetryFires
<1>2. d = [c EXCEPT !.retry = c.retry - 1, !.attempt = c.attempt + 1]
  OBVIOUS
<1>3. Good(c) /\ c.retry \in Nat
  BY DEF Good, Core
<1> HIDE DEF c, d, k
<1>4. /\ Parts(d) /\ d.sock = c.sock /\ d.out = c.out /\ d.retry = c.retry - 1
      /\ d.gen = c.gen /\ d.pc = c.pc /\ d.work = c.work /\ d.src = c.src
      /\ d.playing = c.playing /\ d.ice = c.ice
  BY <1>2, <1>3 DEF Good, Core, Parts
<1>5. d.retry \in Nat
  BY <1>1, <1>3, <1>4
<1>6. Core(d) /\ Fresh(d)
  <2>1. Core(d)
    BY <1>3, <1>4, <1>5 DEF Good, Core
  <2>2. Fresh(d)
    BY <1>3, <1>4 DEF Good, Fresh
  <2> QED BY <2>1, <2>2
<1>7. Good(k) /\ k.gen = c.gen
  BY <1>1, <1>4, <1>6, ReconnectingIsGood
<1> QED BY <1>7 DEF c, k

LEMMA PollFiresGood ==
  ASSUME Good(playerB), Player!PollFires
  PROVE  Good(playerB') /\ playerB'.gen = playerB.gen
<1> DEFINE c == playerB
           d == [c EXCEPT !.poll = c.poll - 1]
           m == [kind |-> "list"]
           k == playerB'
<1>1. k = Player!Sent(d, m)
  BY DEF Player!PollFires
<1>2. d = [c EXCEPT !.poll = c.poll - 1] /\ m \in Told /\ m.kind # "answer"
  BY DEF Told
<1>3. Good(c)
  OBVIOUS
<1> HIDE DEF c, d, m, k
<1>4. Alike(c, d) /\ d.screen = c.screen
  BY <1>2, <1>3 DEF Good, Core, Parts, Alike
<1>5. Core(d) /\ Fresh(d) /\ Over(d) /\ d.gen = c.gen
  BY <1>3, <1>4, AlikeIsKin DEF Kin, Good
<1>6. Good(k) /\ k.gen = c.gen
  BY <1>1, <1>2, <1>5, SentIsGood DEF Good
<1> QED BY <1>6 DEF c, k

LEMMA UserActsGood ==
  ASSUME Good(playerB), Player!UserActs
  PROVE  Good(playerB') /\ playerB'.gen = playerB.gen
<1> DEFINE c == playerB
           s == Player!Begun(c.screen)
           d == [c EXCEPT !.force = TRUE, !.idle = FALSE, !.screen = s]
           e == [c EXCEPT !.selected = TRUE]
           k == playerB'
<1>1. \/ c.counting /\ k = Player!Dismissed(c)
      \/ k = Player!Reconnecting(d)
      \/ c.screen.overlay = "play" /\ k = Player!Played(c)
      \/ k = Player!Chosen(e, FALSE)
  BY DEF Player!UserActs
<1>2. d = [c EXCEPT !.force = TRUE, !.idle = FALSE, !.screen = s]
      /\ e = [c EXCEPT !.selected = TRUE]
  OBVIOUS
<1>3. Good(c) /\ "overlay" \in DOMAIN s
  BY Screens DEF Good, Core, Parts
<1> HIDE DEF c, s, d, e, k
<1>4. CASE c.counting /\ k = Player!Dismissed(c)
  <2>1. c.sock # "closed"
    BY <1>3, <1>4 DEF Good, Over
  <2> QED BY <1>3, <1>4, <2>1, DismissedIsGood DEF c, k
<1>5. CASE k = Player!Reconnecting(d)
  <2>1. Alike(c, d)
    BY <1>2, <1>3 DEF Good, Core, Parts, Alike
  <2>2. Core(d) /\ Fresh(d) /\ d.gen = c.gen
    BY <1>3, <2>1, AlikeIsGood DEF Good, Alike
  <2> QED BY <1>5, <2>2, ReconnectingIsGood DEF c, k
<1>6. CASE c.screen.overlay = "play" /\ k = Player!Played(c)
  BY <1>3, <1>6, PlayedIsGood DEF c, k
<1>7. CASE k = Player!Chosen(e, FALSE)
  <2>1. Alike(c, e) /\ e.screen = c.screen
    BY <1>2, <1>3 DEF Good, Core, Parts, Alike
  <2>2. Kin(c, e)
    BY <1>3, <2>1, AlikeIsKin
  <2>3. Kin(e, k)
    BY <1>7, <2>2, ChosenIsKin DEF Kin
  <2> QED BY <2>2, <2>3 DEF Kin, c, k
<1> QED BY <1>1, <1>4, <1>5, <1>6, <1>7

(* What is on its way to the browser, and what it makes of the generation. *)

Restarts(m) == m.kind = "codec" /\ m.status = "restarting"

Speaks(m) == m.kind = "offer" \/ (m.kind = "codec" /\ m.status = "negotiating")

\* g is the generation of a browser that was at b0, once it has received s up to k.
Upto(g, s, k, b0) ==
  /\ b0 <= g
  /\ g = b0 \/ \E j \in 1 .. k : Restarts(s[j]) /\ s[j].gen = g
  /\ \A j \in 1 .. k : Restarts(s[j]) => s[j].gen <= g

\* Whatever speaks of a generation comes after the restart that begins it, and before
\* that of a later one.
Ordered(s, b0) == \A i \in 1 .. Len(s) : Speaks(s[i]) => Upto(s[i].gen, s, i - 1, b0)

InboxInv ==
  /\ inbox \in Seq(Player!Messages)
  /\ {"governed", "here", "up", "gen", "hasSub", "neg"} \subseteq DOMAIN v
  /\ v.gen \in Nat /\ v.up \in BOOLEAN
  /\ playerB.gen \in Nat
  /\ Ordered(inbox, playerB.gen)
  /\ v.here => Upto(v.gen, inbox, Len(inbox), playerB.gen)

LEMMA MessageFacts ==
  ASSUME NEW m \in Player!Messages
  PROVE  /\ Restarts(m) \/ Speaks(m) => m.gen \in Nat
         /\ m.kind \in {"config", "failed", "list", "codec", "offer", "bye"}
         /\ m.kind = "list" => m.up \in BOOLEAN
         /\ m.kind = "codec" => m.gen \in Nat /\ m.status \in {"negotiating", "restarting"}
         /\ m.kind = "offer" => m.gen \in Nat
<1>1. /\ m.kind \in {"config", "failed", "list", "codec", "offer", "bye"}
      /\ m.kind = "list" => m.up \in BOOLEAN
  BY DEF Player!Messages
<1>2. m.kind = "codec" => m.gen \in Nat /\ m.status \in {"negotiating", "restarting"}
  BY DEF Player!Messages
<1>3. m.kind = "offer" => m.gen \in Nat
  BY DEF Player!Messages
<1> QED BY <1>1, <1>2, <1>3 DEF Restarts, Speaks

\* The server says one more thing, which begins no generation.
LEMMA SaidIsOrdered ==
  ASSUME NEW s \in Seq(Player!Messages), NEW b0 \in Nat, Ordered(s, b0),
         NEW g \in Nat, Upto(g, s, Len(s), b0),
         NEW m \in Player!Messages, ~Restarts(m), Speaks(m) => m.gen = g
  PROVE  LET t == Append(s, m)
         IN  t \in Seq(Player!Messages) /\ Ordered(t, b0) /\ Upto(g, t, Len(t), b0)
<1> DEFINE t == Append(s, m)
<1>1. /\ t \in Seq(Player!Messages) /\ Len(t) = Len(s) + 1 /\ t[Len(t)] = m
      /\ \A i \in 1 .. Len(s) : t[i] = s[i]
  OBVIOUS
<1> HIDE DEF t
<1>2. \A h : \A k \in 0 .. Len(s) : Upto(h, s, k, b0) => Upto(h, t, k, b0)
  BY <1>1 DEF Upto
<1>3. Upto(g, t, Len(t), b0)
  <2>1. \A j \in 1 .. Len(t) : j \in 1 .. Len(s) \/ t[j] = m
    BY <1>1
  <2>2. \A j \in 1 .. Len(t) : Restarts(t[j]) => t[j].gen <= g
    BY <1>1, <2>1 DEF Upto
  <2>3. b0 <= g /\ (g = b0 \/ \E j \in 1 .. Len(t) : Restarts(t[j]) /\ t[j].gen = g)
    BY <1>1 DEF Upto
  <2> QED BY <2>2, <2>3 DEF Upto
<1>4. Ordered(t, b0)
  <2> SUFFICES ASSUME NEW i \in 1 .. Len(t), Speaks(t[i])
               PROVE  Upto(t[i].gen, t, i - 1, b0)
    BY DEF Ordered
  <2>1. CASE i \in 1 .. Len(s)
    <3>1. i - 1 \in 0 .. Len(s) /\ t[i] = s[i]
      BY <1>1, <2>1
    <3> QED BY <1>2, <2>1, <3>1 DEF Ordered
  <2>2. CASE i = Len(t)
    <3>1. i - 1 = Len(s) /\ t[i].gen = g /\ Len(s) \in 0 .. Len(s)
      BY <1>1, <2>2
    <3> QED BY <1>2, <3>1
  <2> QED BY <1>1, <2>1, <2>2
<1> QED BY <1>1, <1>3, <1>4 DEF t

\* The server restarts the negotiation with the next generation.
LEMMA RestartIsOrdered ==
  ASSUME NEW s \in Seq(Player!Messages), NEW b0 \in Nat, Ordered(s, b0),
         NEW g \in Nat, Upto(g, s, Len(s), b0),
         NEW m \in Player!Messages, Restarts(m), m.gen > g
  PROVE  LET t == Append(s, m)
         IN  t \in Seq(Player!Messages) /\ Ordered(t, b0) /\ Upto(m.gen, t, Len(t), b0)
<1> DEFINE t == Append(s, m)
<1>1. /\ t \in Seq(Player!Messages) /\ Len(t) = Len(s) + 1 /\ t[Len(t)] = m
      /\ \A i \in 1 .. Len(s) : t[i] = s[i]
  OBVIOUS
<1> HIDE DEF t
<1>2. \A h : \A k \in 0 .. Len(s) : Upto(h, s, k, b0) => Upto(h, t, k, b0)
  BY <1>1 DEF Upto
<1>3. m.gen \in Nat /\ ~Speaks(m)
  BY MessageFacts DEF Restarts, Speaks
<1>4. Upto(m.gen, t, Len(t), b0)
  <2>1. \A j \in 1 .. Len(t) : j \in 1 .. Len(s) \/ t[j] = m
    BY <1>1
  <2>2. \A j \in 1 .. Len(s) : Restarts(s[j]) => s[j].gen \in Nat /\ s[j].gen <= g
    BY MessageFacts DEF Upto
  <2>3. \A j \in 1 .. Len(t) : Restarts(t[j]) => t[j].gen <= m.gen
    BY <1>1, <1>3, <2>1, <2>2
  <2>4. b0 <= m.gen
    BY <1>3 DEF Upto
  <2>5. \E j \in 1 .. Len(t) : Restarts(t[j]) /\ t[j].gen = m.gen
    <3>1. Len(t) \in 1 .. Len(t)
      BY <1>1
    <3> QED BY <1>1, <3>1
  <2> QED BY <2>3, <2>4, <2>5 DEF Upto
<1>5. Ordered(t, b0)
  <2> SUFFICES ASSUME NEW i \in 1 .. Len(t), Speaks(t[i])
               PROVE  Upto(t[i].gen, t, i - 1, b0)
    BY DEF Ordered
  <2>1. i \in 1 .. Len(s) /\ i - 1 \in 0 .. Len(s) /\ t[i] = s[i]
    BY <1>1, <1>3
  <2> QED BY <1>2, <2>1 DEF Ordered
<1> QED BY <1>1, <1>4, <1>5 DEF t

\* The browser receives the first message.
LEMMA HeardIsOrdered ==
  ASSUME NEW s \in Seq(Player!Messages), s # << >>, NEW b0 \in Nat, Ordered(s, b0),
         NEW b1, b1 = IF Restarts(s[1]) /\ s[1].gen > b0 THEN s[1].gen ELSE b0
  PROVE  LET t == Tail(s)
         IN  /\ t \in Seq(Player!Messages) /\ b1 \in Nat /\ Ordered(t, b1)
             /\ \A g \in Nat : Upto(g, s, Len(s), b0) => Upto(g, t, Len(t), b1)
             /\ Speaks(s[1]) => s[1].gen = b0
<1> DEFINE t == Tail(s)
<1>1. /\ t \in Seq(Player!Messages) /\ Len(t) = Len(s) - 1 /\ Len(s) \in Nat \ {0}
      /\ \A i \in 1 .. Len(t) : t[i] = s[i + 1]
  OBVIOUS
<1> HIDE DEF t
<1>2. 1 \in 1 .. Len(s) /\ s[1] \in Player!Messages
  BY <1>1
<1>3. b1 \in Nat
  BY <1>2, MessageFacts
<1>4. ASSUME NEW g \in Nat, NEW k \in 1 .. Len(s), Upto(g, s, k, b0)
      PROVE  Upto(g, t, k - 1, b1)
  <2>1. b0 <= g /\ (Restarts(s[1]) => s[1].gen <= g)
    BY <1>1, <1>4 DEF Upto
  <2>2. b1 <= g
    BY <2>1
  <2>3. \A j \in 1 .. (k - 1) : Restarts(t[j]) => t[j].gen <= g
    <3> TAKE j \in 1 .. (k - 1)
    <3>1. j + 1 \in 1 .. k /\ j \in 1 .. Len(t)
      BY <1>1
    <3>2. t[j] = s[j + 1]
      BY <1>1, <3>1
    <3> QED BY <1>4, <3>1, <3>2 DEF Upto
  <2>4. g = b1 \/ \E j \in 1 .. (k - 1) : Restarts(t[j]) /\ t[j].gen = g
    <3>1. CASE g = b0
      <4>1. b1 = b0 \/ b1 > b0
        BY <1>3
      <4> QED BY <1>3, <2>2, <3>1, <4>1
    <3>2. CASE g # b0
      <4>1. PICK j \in 1 .. k : Restarts(s[j]) /\ s[j].gen = g
        BY <1>4, <3>2 DEF Upto
      <4>2. CASE j = 1
        <5>1. s[1].gen > b0
          BY <2>1, <3>2, <4>1, <4>2
        <5> QED BY <4>1, <4>2, <5>1
      <4>3. CASE j # 1
        <5> DEFINE l == j - 1
        <5>1. l \in 1 .. (k - 1) /\ l \in 1 .. Len(t) /\ l + 1 = j
          BY <1>1, <4>3
        <5>2. t[l] = s[j]
          BY <1>1, <5>1
        <5> HIDE DEF l
        <5> QED BY <4>1, <5>1, <5>2
      <4> QED BY <4>2, <4>3
    <3> QED BY <3>1, <3>2
  <2> QED BY <2>2, <2>3, <2>4 DEF Upto
<1>5. Ordered(t, b1)
  <2> SUFFICES ASSUME NEW i \in 1 .. Len(t), Speaks(t[i])
               PROVE  Upto(t[i].gen, t, i - 1, b1)
    BY DEF Ordered
  <2>1. i + 1 \in 1 .. Len(s) /\ i \in 1 .. Len(s) /\ t[i] = s[i + 1] /\ (i + 1) - 1 = i
    BY <1>1
  <2>2. s[i + 1] \in Player!Messages
    BY <2>1
  <2>3. t[i].gen \in Nat
    BY <2>1, <2>2, MessageFacts
  <2>4. Upto(t[i].gen, s, i, b0)
    BY <2>1 DEF Ordered
  <2> QED BY <1>4, <2>1, <2>3, <2>4
<1>6. \A g \in Nat : Upto(g, s, Len(s), b0) => Upto(g, t, Len(t), b1)
  <2>1. Len(s) \in 1 .. Len(s)
    BY <1>1
  <2> QED BY <1>1, <1>4, <2>1
<1>7. Speaks(s[1]) => s[1].gen = b0
  BY <1>2 DEF Ordered, Upto
<1> QED BY <1>1, <1>3, <1>5, <1>6, <1>7 DEF t

\* A connection that opens or goes leaves nothing on its way.
LEMMA EmptiedInbox ==
  ASSUME InboxInv, inbox' = << >>, playerB'.gen \in Nat, ~v.here',
         {"governed", "here", "up", "gen", "hasSub", "neg"} \subseteq DOMAIN v',
         v.gen' = v.gen, v.up' = v.up
  PROVE  InboxInv'
<1>1. << >> \in Seq(Player!Messages) /\ Len(<< >>) = 0
  OBVIOUS
<1>2. Ordered(inbox', playerB'.gen)
  BY <1>1 DEF Ordered
<1>3. /\ inbox' \in Seq(Player!Messages) /\ v.gen' \in Nat /\ v.up' \in BOOLEAN
  BY <1>1 DEF InboxInv
<1> QED BY <1>2, <1>3 DEF InboxInv

LEMMA RestedInbox ==
  ASSUME InboxInv, UNCHANGED <<v, inbox>>, playerB'.gen = playerB.gen
  PROVE  InboxInv'
BY DEF InboxInv

LEMMA DisconnectsGood ==
  ASSUME Good(playerB), InboxInv, NEW code, NEW reason, Player!Disconnects(code, reason)
  PROVE  Good(playerB') /\ InboxInv'
<1>1. /\ playerB' = Player!Closed(playerB, code, reason)
      /\ v' = [v EXCEPT !.here = FALSE, !.neg = "none"] /\ inbox' = << >>
  BY DEF Player!Disconnects
<1>2. Good(playerB') /\ playerB'.gen = playerB.gen
  BY <1>1, ClosedIsGood DEF Good
<1>3. /\ ~v.here' /\ v.gen' = v.gen /\ v.up' = v.up
      /\ {"governed", "here", "up", "gen", "hasSub", "neg"} \subseteq DOMAIN v'
  BY <1>1 DEF InboxInv
<1>4. playerB'.gen \in Nat
  BY <1>2 DEF InboxInv
<1> QED BY <1>1, <1>2, <1>3, <1>4, EmptiedInbox

LEMMA SocketOpensGood ==
  ASSUME Good(playerB), InboxInv, Player!SocketOpens
  PROVE  Good(playerB') /\ InboxInv'
<1> DEFINE m == [kind |-> "config"]
<1>1. /\ playerB' = Player!Opened(playerB) /\ playerB.sock = "connecting"
      /\ v' = [v EXCEPT !.here = TRUE, !.gen = 0, !.hasSub = FALSE, !.neg = "none"]
      /\ inbox' = <<m>>
  BY DEF Player!SocketOpens
<1>2. Good(playerB') /\ playerB'.gen = 0
  BY <1>1, OpenedIsGood
<1>3. m \in Player!Messages /\ ~Restarts(m) /\ ~Speaks(m)
  BY DEF Player!Messages, Restarts, Speaks
<1> HIDE DEF m
<1>4. /\ v.gen' = 0 /\ v.up' = v.up
      /\ {"governed", "here", "up", "gen", "hasSub", "neg"} \subseteq DOMAIN v'
  BY <1>1 DEF InboxInv
<1>5. /\ inbox' \in Seq(Player!Messages) /\ Len(inbox') = 1 /\ inbox'[1] = m
  BY <1>1, <1>3
<1>6. \A i \in 1 .. Len(inbox') : ~Restarts(inbox'[i]) /\ ~Speaks(inbox'[i])
  <2> TAKE i \in 1 .. Len(inbox')
  <2>1. i = 1
    BY <1>5
  <2> QED BY <1>3, <1>5, <2>1
<1>7. Ordered(inbox', playerB'.gen) /\ Upto(v.gen', inbox', Len(inbox'), playerB'.gen)
  BY <1>2, <1>4, <1>6 DEF Ordered, Upto
<1>8. v.gen' \in Nat /\ v.up' \in BOOLEAN /\ playerB'.gen \in Nat
  BY <1>2, <1>4 DEF InboxInv
<1> QED BY <1>2, <1>4, <1>5, <1>7, <1>8 DEF InboxInv

LEMMA ReceiveGood ==
  ASSUME Good(playerB), InboxInv, Player!Receive
  PROVE  Good(playerB') /\ InboxInv'
<1> DEFINE c == playerB
           m == inbox[1]
           k == playerB'
           d == [c EXCEPT !.config = TRUE]
<1>1. c.sock = "open" /\ inbox # << >> /\ inbox \in Seq(Player!Messages)
  BY DEF Player!Receive, InboxInv
<1>2. Head(inbox) = m /\ m \in Player!Messages
  BY <1>1
<1>3. \/ m.kind = "bye" /\ Player!Disconnects(m.code, TRUE)
      \/ /\ inbox' = Tail(inbox) /\ v' = v
         /\ \/ m.kind = "config" /\ k = Player!Replaced(d)
            \/ m.kind = "list" /\ k = Player!Listed(c, m.up)
            \/ m.kind = "codec" /\ k = Player!CodecState(c, m.gen, m.status)
            \/ m.kind = "offer" /\ k = Player!Offered(c, m.gen)
            \/ m.kind = "failed" /\ k = Player!SubscribeFailed(c)
  BY <1>2 DEF Player!Receive
<1>4. CASE m.kind = "bye" /\ Player!Disconnects(m.code, TRUE)
  BY <1>4, DisconnectsGood
<1>5. Good(c) /\ c.gen \in Nat /\ d = [c EXCEPT !.config = TRUE]
  BY DEF InboxInv
<1> DEFINE b1 == IF Restarts(m) /\ m.gen > c.gen THEN m.gen ELSE c.gen
           t == Tail(inbox)
<1>6. /\ t \in Seq(Player!Messages) /\ b1 \in Nat /\ Ordered(t, b1)
      /\ \A g \in Nat : Upto(g, inbox, Len(inbox), c.gen) => Upto(g, t, Len(t), b1)
      /\ Speaks(m) => m.gen = c.gen
  BY <1>1, <1>5, HeardIsOrdered DEF InboxInv
<1>7. /\ m.kind = "list" => m.up \in BOOLEAN
      /\ m.kind = "codec" => m.gen \in Nat /\ m.status \in {"negotiating", "restarting"}
  BY <1>2, MessageFacts
<1>8. ASSUME inbox' = Tail(inbox), v' = v, Good(k), k.gen = b1
      PROVE  Good(playerB') /\ InboxInv'
  <2> HIDE DEF t, b1
  <2>1. inbox' = t
    BY <1>8 DEF t
  <2>2. v.here' => Upto(v.gen', t, Len(t), b1)
    BY <1>6, <1>8 DEF InboxInv
  <2> QED BY <1>6, <1>8, <2>1, <2>2 DEF InboxInv
<1> HIDE DEF t
<1>9. CASE /\ inbox' = Tail(inbox) /\ v' = v
           /\ m.kind = "config" /\ k = Player!Replaced(d)
  <2>1. b1 = c.gen
    BY <1>9 DEF Restarts
  <2> HIDE DEF c, d, k, m, b1
  <2>2. Alike(c, d) /\ d.screen = c.screen
    BY <1>5 DEF Good, Core, Parts, Alike
  <2>3. Core(d) /\ d.sock = "open" /\ d.gen = c.gen
    BY <1>1, <1>5, <2>2, AlikeIsKin DEF Kin, Good
  <2>4. Good(k) /\ k.gen = c.gen
    BY <1>9, <2>3, ReplacedIsGood
  <2> QED BY <1>8, <1>9, <2>1, <2>4
<1>10. CASE /\ inbox' = Tail(inbox) /\ v' = v
            /\ m.kind = "list" /\ k = Player!Listed(c, m.up)
  <2>1. b1 = c.gen
    BY <1>10 DEF Restarts
  <2> HIDE DEF c, d, k, m, b1
  <2>2. Good(k) /\ k.gen = c.gen
    BY <1>1, <1>5, <1>7, <1>10, ListedIsGood
  <2> QED BY <1>8, <1>10, <2>1, <2>2
<1>11. CASE /\ inbox' = Tail(inbox) /\ v' = v
            /\ m.kind = "codec" /\ k = Player!CodecState(c, m.gen, m.status)
  <2>1. m.gen \in Nat /\ (m.gen > c.gen => m.status = "restarting")
    BY <1>5, <1>6, <1>7, <1>11 DEF Speaks
  <2>2. b1 = IF m.gen > c.gen THEN m.gen ELSE c.gen
    BY <1>11, <2>1 DEF Restarts
  <2> HIDE DEF c, d, k, m, b1
  <2>3. Good(k) /\ k.gen = IF m.gen > c.gen THEN m.gen ELSE c.gen
    BY <1>1, <1>5, <1>11, <2>1, CodecStateIsGood
  <2> QED BY <1>8, <1>11, <2>2, <2>3
<1>12. CASE /\ inbox' = Tail(inbox) /\ v' = v
            /\ m.kind = "offer" /\ k = Player!Offered(c, m.gen)
  <2>1. b1 = c.gen /\ m.gen = c.gen
    BY <1>6, <1>12 DEF Restarts, Speaks
  <2> HIDE DEF c, d, k, m, b1
  <2>2. Good(k) /\ k.gen = c.gen
    BY <1>1, <1>5, <1>12, <2>1, OfferedIsGood
  <2> QED BY <1>8, <1>12, <2>1, <2>2
<1>13. CASE /\ inbox' = Tail(inbox) /\ v' = v
            /\ m.kind = "failed" /\ k = Player!SubscribeFailed(c)
  <2>1. b1 = c.gen
    BY <1>13 DEF Restarts
  <2> HIDE DEF c, d, k, m, b1
  <2>2. Good(k) /\ k.gen = c.gen
    BY <1>1, <1>5, <1>13, SubscribeFailedIsGood
  <2> QED BY <1>8, <1>13, <2>1, <2>2
<1> HIDE DEF c, d, k, m, b1
<1> QED BY <1>3, <1>4, <1>9, <1>10, <1>11, <1>12, <1>13

\* The server takes the first of what the browser sent.
LEMMA TakenIsGood ==
  ASSUME NEW c, Good(c), c.out # << >>, NEW k, k = [c EXCEPT !.out = Tail(c.out)]
  PROVE  Good(k) /\ k.gen = c.gen
<1> DEFINE o == Tail(c.out)
<1>1. c.out \in Seq(Told)
  BY DEF Good, Core
<1>2. /\ o \in Seq(Told) /\ Len(o) = Len(c.out) - 1 /\ Len(c.out) \in Nat
      /\ \A i \in 1 .. Len(o) : o[i] = c.out[i + 1]
  BY <1>1
<1>3. k = [c EXCEPT !.out = o]
  OBVIOUS
<1> HIDE DEF o
<1>4. \A i \in 1 .. Len(o) : o[i].kind = "answer" => o[i].tag = o[i].gen /\ o[i].here
  <2> TAKE i \in 1 .. Len(o)
  <2>1. i + 1 \in 1 .. Len(c.out)
    BY <1>2
  <2> QED BY <1>2, <2>1 DEF Good, Core
<1>5. /\ Parts(k) /\ k.sock = c.sock /\ k.out = o /\ k.retry = c.retry /\ k.gen = c.gen
      /\ k.pc = c.pc /\ k.ice = c.ice /\ k.work = c.work /\ k.src = c.src
      /\ k.playing = c.playing /\ k.screen = c.screen /\ k.stale = c.stale
      /\ k.warn = c.warn /\ k.counting = c.counting /\ k.late = c.late
  BY <1>3 DEF Good, Core, Parts
<1>6. Core(k)
  BY <1>2, <1>4, <1>5 DEF Good, Core
<1>7. Fresh(k)
  BY <1>5 DEF Good, Fresh
<1>8. Over(k)
  BY <1>5 DEF Good, Over
<1> QED BY <1>5, <1>6, <1>7, <1>8 DEF Good

LEMMA Joined ==
  ASSUME NEW S, NEW s \in Seq(S), NEW m \in S
  PROVE  /\ s \o <<m>> = Append(s, m)
         /\ s \o << >> = s
<1>1. <<m>> \in Seq(S) /\ Len(<<m>>) = 1 /\ <<m>>[1] = m
  OBVIOUS
<1>2. \A q \in Seq(S) : /\ s \o q \in Seq(S) /\ Len(s \o q) = Len(s) + Len(q)
                        /\ \A i \in 1 .. (Len(s) + Len(q)) :
                             (s \o q)[i] = IF i <= Len(s) THEN s[i] ELSE q[i - Len(s)]
  <2> TAKE q \in Seq(S)
  <2>1. s \o q \in Seq(S)
    OBVIOUS
  <2>2. Len(s \o q) = Len(s) + Len(q)
    OBVIOUS
  <2>3. \A i \in 1 .. (Len(s) + Len(q)) :
          (s \o q)[i] = IF i <= Len(s) THEN s[i] ELSE q[i - Len(s)]
    OBVIOUS
  <2> QED BY <2>1, <2>2, <2>3
<1>3. s \o <<m>> = Append(s, m)
  <2> DEFINE q == <<m>>
             t == s \o q
             u == Append(s, m)
  <2>1. /\ t \in Seq(S) /\ Len(t) = Len(s) + 1
        /\ \A i \in 1 .. (Len(s) + 1) : t[i] = IF i <= Len(s) THEN s[i] ELSE q[i - Len(s)]
    <3>1. q \in Seq(S) /\ Len(q) = 1
      BY <1>1
    <3> HIDE DEF q
    <3> QED BY <1>2, <3>1
  <2>2. \A i \in 1 .. (Len(s) + 1) : i <= Len(s) \/ (i = Len(s) + 1 /\ i - Len(s) = 1)
    OBVIOUS
  <2>3. /\ u \in Seq(S) /\ Len(u) = Len(s) + 1
        /\ \A i \in 1 .. (Len(s) + 1) : u[i] = IF i <= Len(s) THEN s[i] ELSE m
    OBVIOUS
  <2>4. q[1] = m
    OBVIOUS
  <2> HIDE DEF q, t, u
  <2>5. \A i \in 1 .. (Len(s) + 1) : t[i] = u[i]
    BY <2>1, <2>2, <2>3, <2>4
  <2>6. t = u
    BY <2>1, <2>3, <2>5
  <2> QED BY <2>6 DEF t, u, q
<1>4. s \o << >> = s
  OBVIOUS
<1> QED BY <1>3, <1>4

\* What the server says of no generation, or of the one it is at.
LEMMA SpokenInbox ==
  ASSUME InboxInv, playerB'.gen = playerB.gen, v.here, v.gen' = v.gen, v.up' = v.up,
         {"governed", "here", "up", "gen", "hasSub", "neg"} \subseteq DOMAIN v',
         \/ inbox' = inbox
         \/ \E m \in Player!Messages :
              /\ inbox' = Append(inbox, m)
              /\ ~Restarts(m)
              /\ Speaks(m) => m.gen = v.gen
  PROVE  InboxInv'
<1> DEFINE g == v.gen
           p == playerB.gen
           s == inbox
<1>1. /\ s \in Seq(Player!Messages) /\ g \in Nat /\ p \in Nat /\ Ordered(s, p)
      /\ Upto(g, s, Len(s), p)
  BY DEF InboxInv
<1>2. v.gen' \in Nat /\ v.up' \in BOOLEAN /\ playerB'.gen \in Nat
  BY DEF InboxInv
<1>3. CASE inbox' = inbox
  BY <1>1, <1>2, <1>3 DEF InboxInv
<1>4. CASE \E m \in Player!Messages :
             /\ inbox' = Append(inbox, m) /\ ~Restarts(m) /\ (Speaks(m) => m.gen = v.gen)
  <2>1. PICK m \in Player!Messages :
          inbox' = Append(inbox, m) /\ ~Restarts(m) /\ (Speaks(m) => m.gen = v.gen)
    BY <1>4
  <2> DEFINE t == Append(s, m)
  <2>2. Speaks(m) => m.gen = g
    BY <2>1
  <2> HIDE DEF g, p, s
  <2>3. t \in Seq(Player!Messages) /\ Ordered(t, p) /\ Upto(g, t, Len(t), p)
    BY <1>1, <2>1, <2>2, SaidIsOrdered
  <2>4. inbox' = t
    BY <2>1 DEF s
  <2> HIDE DEF t
  <2> QED BY <1>2, <2>3, <2>4 DEF InboxInv, g, p
<1> QED BY <1>3, <1>4

LEMMA ServerHandlesGood ==
  ASSUME Good(playerB), InboxInv, Player!ServerHandles
  PROVE  Good(playerB') /\ InboxInv'
<1> DEFINE m == Head(playerB.out)
           a == [kind |-> "list", up |-> v.up]
           f == [kind |-> "failed"]
           n == Player!Codec(v.gen, "negotiating")
           r == Player!Codec(v'.gen, "restarting")
<1>1. /\ v.here /\ playerB.out # << >>
      /\ playerB' = [playerB EXCEPT !.out = Tail(playerB.out)]
  BY DEF Player!ServerHandles
<1>2. Good(playerB') /\ playerB'.gen = playerB.gen
  BY <1>1, TakenIsGood
<1>3. inbox \in Seq(Player!Messages) /\ v.gen \in Nat /\ v.up \in BOOLEAN
  BY DEF InboxInv
<1>4. /\ a \in Player!Messages /\ f \in Player!Messages /\ n \in Player!Messages
      /\ ~Restarts(a) /\ ~Restarts(f) /\ ~Restarts(n) /\ ~Speaks(a) /\ ~Speaks(f)
      /\ n.gen = v.gen
  BY <1>3 DEF Player!Messages, Player!Codec, Restarts, Speaks
<1>5. \/ v' = v /\ inbox' = inbox \o <<a>>
      \/ v' = v /\ inbox' = inbox \o (IF v.governed /\ ~v.hasSub THEN <<n>> ELSE << >>)
      \/ v' = v /\ inbox' = inbox \o <<f>>
      \/ /\ v' = Player!Subscribed(v)
         /\ inbox' = inbox \o (IF v'.gen > v.gen THEN <<r>> ELSE << >>)
      \/ /\ v' = v \/ v' = [v EXCEPT !.neg = "answered"]
         /\ inbox' = inbox \o << >>
  BY DEF Player!ServerHandles
<1> HIDE DEF a, f, n
<1>6. /\ inbox \o <<a>> = Append(inbox, a) /\ inbox \o <<f>> = Append(inbox, f)
      /\ inbox \o <<n>> = Append(inbox, n) /\ inbox \o << >> = inbox
  BY <1>3, <1>4, Joined
<1>7. CASE v' = v /\ inbox' = inbox \o <<a>>
  <2>1. inbox' = Append(inbox, a)
    BY <1>6, <1>7
  <2>2. {"governed", "here", "up", "gen", "hasSub", "neg"} \subseteq DOMAIN v'
    BY <1>7 DEF InboxInv
  <2> QED BY <1>1, <1>2, <1>4, <1>7, <2>1, <2>2, SpokenInbox
<1>8. CASE v' = v /\ inbox' = inbox \o (IF v.governed /\ ~v.hasSub THEN <<n>> ELSE << >>)
  <2>1. inbox' = Append(inbox, n) \/ inbox' = inbox
    BY <1>6, <1>8
  <2>2. {"governed", "here", "up", "gen", "hasSub", "neg"} \subseteq DOMAIN v'
    BY <1>8 DEF InboxInv
  <2> QED BY <1>1, <1>2, <1>4, <1>8, <2>1, <2>2, SpokenInbox
<1>9. CASE v' = v /\ inbox' = inbox \o <<f>>
  <2>1. inbox' = Append(inbox, f)
    BY <1>6, <1>9
  <2>2. {"governed", "here", "up", "gen", "hasSub", "neg"} \subseteq DOMAIN v'
    BY <1>9 DEF InboxInv
  <2> QED BY <1>1, <1>2, <1>4, <1>9, <2>1, <2>2, SpokenInbox
<1>10. CASE /\ v' = v \/ v' = [v EXCEPT !.neg = "answered"]
            /\ inbox' = inbox \o << >>
  <2>1. inbox' = inbox
    BY <1>6, <1>10
  <2>2. /\ {"governed", "here", "up", "gen", "hasSub", "neg"} \subseteq DOMAIN v'
        /\ v.gen' = v.gen /\ v.up' = v.up
    BY <1>10 DEF InboxInv
  <2> QED BY <1>1, <1>2, <2>1, <2>2, SpokenInbox
<1>11. CASE /\ v' = Player!Subscribed(v)
            /\ inbox' = inbox \o (IF v'.gen > v.gen THEN <<r>> ELSE << >>)
  <2> DEFINE g == IF v.governed /\ v.hasSub THEN v.gen + 1 ELSE v.gen
  <2>1. v' = [v EXCEPT !.gen = g, !.hasSub = TRUE, !.neg = "waiting"]
    BY <1>11 DEF Player!Subscribed
  <2>2. g \in Nat /\ (g = v.gen \/ g > v.gen)
    BY <1>3
  <2> HIDE DEF g
  <2>3. /\ {"governed", "here", "up", "gen", "hasSub", "neg"} \subseteq DOMAIN v'
        /\ v.gen' = g /\ v.up' = v.up
    BY <2>1 DEF InboxInv
  <2>4. CASE g = v.gen
    <3>1. inbox' = inbox
      BY <1>3, <1>6, <1>11, <2>2, <2>3, <2>4
    <3> QED BY <1>1, <1>2, <2>3, <2>4, <3>1, SpokenInbox
  <2>5. CASE g > v.gen
    <3> DEFINE x == Player!Codec(g, "restarting")
               t == Append(inbox, x)
               p == playerB.gen
    <3>1. x \in Player!Messages /\ Restarts(x) /\ x.gen = g
      BY <2>2 DEF Player!Messages, Player!Codec, Restarts
    <3>2. r = x
      BY <2>3
    <3> HIDE DEF x, r
    <3>3. inbox' = inbox \o <<x>>
      BY <1>11, <2>3, <2>5, <3>2
    <3>4. inbox' = t
      BY <1>3, <3>1, <3>3, Joined
    <3>5. Ordered(inbox, p) /\ Upto(v.gen, inbox, Len(inbox), p) /\ p \in Nat
      BY <1>1 DEF InboxInv
    <3>6. t \in Seq(Player!Messages) /\ Ordered(t, p) /\ Upto(g, t, Len(t), p)
      BY <1>3, <2>5, <3>1, <3>5, RestartIsOrdered
    <3> HIDE DEF t
    <3>7. v.up' \in BOOLEAN /\ playerB'.gen = p
      BY <1>2, <1>3, <2>3
    <3> QED BY <1>2, <2>2, <2>3, <3>4, <3>5, <3>6, <3>7 DEF InboxInv
  <2> QED BY <2>2, <2>4, <2>5
<1> QED BY <1>2, <1>5, <1>7, <1>8, <1>9, <1>10, <1>11

LEMMA StreamerOffersGood ==
  ASSUME Good(playerB), InboxInv, Player!StreamerOffers
  PROVE  Good(playerB') /\ InboxInv'
<1> DEFINE n == Player!Codec(v.gen, "negotiating")
           o == [kind |-> "offer", gen |-> v.gen]
           s == inbox \o (IF v.governed THEN <<n>> ELSE << >>)
           t == Append(s, o)
           p == playerB.gen
           g == v.gen
<1>1. /\ v.here /\ v' = [v EXCEPT !.neg = "offered"] /\ playerB' = playerB
      /\ inbox' = s \o <<o>>
  BY DEF Player!StreamerOffers
<1>2. /\ inbox \in Seq(Player!Messages) /\ g \in Nat /\ p \in Nat /\ Ordered(inbox, p)
      /\ Upto(g, inbox, Len(inbox), p)
  BY <1>1 DEF InboxInv
<1>3. /\ n \in Player!Messages /\ o \in Player!Messages
      /\ ~Restarts(n) /\ ~Restarts(o) /\ n.gen = g /\ o.gen = g
  BY <1>2 DEF Player!Messages, Player!Codec, Restarts
<1>4. /\ v.gen' = g /\ v.up' \in BOOLEAN /\ playerB'.gen = p
      /\ {"governed", "here", "up", "gen", "hasSub", "neg"} \subseteq DOMAIN v'
  BY <1>1 DEF InboxInv
<1> HIDE DEF n, o, p, g
<1>5. s \in Seq(Player!Messages) /\ Ordered(s, p) /\ Upto(g, s, Len(s), p)
  <2> DEFINE u == Append(inbox, n)
  <2>1. inbox \o <<n>> = u /\ inbox \o << >> = inbox
    BY <1>2, <1>3, Joined
  <2>2. u \in Seq(Player!Messages) /\ Ordered(u, p) /\ Upto(g, u, Len(u), p)
    BY <1>2, <1>3, SaidIsOrdered
  <2>3. s = u \/ s = inbox
    BY <2>1
  <2> HIDE DEF s, u
  <2> QED BY <1>2, <2>2, <2>3
<1> HIDE DEF s
<1>6. t \in Seq(Player!Messages) /\ Ordered(t, p) /\ Upto(g, t, Len(t), p)
  BY <1>2, <1>3, <1>5, SaidIsOrdered
<1>7. inbox' = t
  BY <1>1, <1>3, <1>5, Joined
<1> HIDE DEF t
<1>8. InboxInv'
  BY <1>2, <1>4, <1>6, <1>7 DEF InboxInv
<1> QED BY <1>1, <1>8

\* The server closes the connection after what it has said.
LEMMA ByeInbox ==
  ASSUME InboxInv, playerB'.gen = playerB.gen, ~v.here', v.gen' = v.gen,
         v.up' \in BOOLEAN,
         {"governed", "here", "up", "gen", "hasSub", "neg"} \subseteq DOMAIN v',
         NEW code \in {"", "going away"}, v.here,
         inbox' = Append(inbox, [kind |-> "bye", code |-> code])
  PROVE  InboxInv'
<1> DEFINE m == [kind |-> "bye", code |-> code]
           t == Append(inbox, m)
           p == playerB.gen
           g == v.gen
<1>1. /\ inbox \in Seq(Player!Messages) /\ g \in Nat /\ p \in Nat /\ Ordered(inbox, p)
      /\ Upto(g, inbox, Len(inbox), p)
  BY DEF InboxInv
<1>2. m \in Player!Messages /\ ~Restarts(m) /\ ~Speaks(m)
  BY DEF Player!Messages, Restarts, Speaks
<1>3. v.gen' = g /\ playerB'.gen = p /\ inbox' = t
  OBVIOUS
<1> HIDE DEF m, p, g
<1>4. t \in Seq(Player!Messages) /\ Ordered(t, p)
  BY <1>1, <1>2, SaidIsOrdered
<1> HIDE DEF t
<1> QED BY <1>1, <1>3, <1>4 DEF InboxInv

LEMMA NegotiationTimeoutGood ==
  ASSUME Good(playerB), InboxInv, Player!NegotiationTimeout
  PROVE  Good(playerB') /\ InboxInv'
<1>1. /\ v.here /\ playerB' = playerB /\ v' = [v EXCEPT !.here = FALSE, !.neg = "none"]
      /\ inbox' = Append(inbox, [kind |-> "bye", code |-> "going away"])
  BY DEF Player!NegotiationTimeout, Player!Bye
<1>2. /\ ~v.here' /\ v.gen' = v.gen /\ v.up' \in BOOLEAN
      /\ {"governed", "here", "up", "gen", "hasSub", "neg"} \subseteq DOMAIN v'
  BY <1>1 DEF InboxInv
<1> QED BY <1>1, <1>2, ByeInbox

LEMMA StreamerMovesGood ==
  ASSUME Good(playerB), InboxInv, Player!StreamerMoves
  PROVE  Good(playerB') /\ InboxInv'
<1> DEFINE k == [v EXCEPT !.up = ~v.up]
<1>1. /\ playerB' = playerB
      /\ \/ /\ v.here /\ v' = [k EXCEPT !.here = FALSE, !.neg = "none"]
            /\ inbox' = Append(inbox, [kind |-> "bye", code |-> ""])
         \/ v' = k /\ inbox' = inbox
  BY DEF Player!StreamerMoves
<1>2. k = [v EXCEPT !.up = ~v.up]
  OBVIOUS
<1> HIDE DEF k
<1>3. /\ {"governed", "here", "up", "gen", "hasSub", "neg"} \subseteq DOMAIN k
      /\ k.up \in BOOLEAN /\ k.here = v.here /\ k.gen = v.gen
  BY <1>2 DEF InboxInv
<1>4. CASE /\ v.here /\ v' = [k EXCEPT !.here = FALSE, !.neg = "none"]
           /\ inbox' = Append(inbox, [kind |-> "bye", code |-> ""])
  <2>1. /\ ~v.here' /\ v.gen' = v.gen /\ v.up' \in BOOLEAN
        /\ {"governed", "here", "up", "gen", "hasSub", "neg"} \subseteq DOMAIN v'
    BY <1>3, <1>4
  <2> QED BY <1>1, <1>4, <2>1, ByeInbox
<1>5. CASE v' = k /\ inbox' = inbox
  BY <1>1, <1>3, <1>5 DEF InboxInv
<1> QED BY <1>1, <1>4, <1>5

PlayerInv == Good(playerB) /\ InboxInv

LEMMA PlayerInit == Player!Init => PlayerInv
<1> SUFFICES ASSUME Player!Init PROVE PlayerInv
  OBVIOUS
<1> DEFINE c == playerB
           s == Player!Begun([overlay |-> "none", progress |-> FALSE,
                              presented |-> FALSE, first |-> TRUE])
<1>1. /\ {"sock", "out", "retry", "gen", "pc", "ice", "work", "src", "playing", "stale",
          "warn", "counting", "late", "screen"} \subseteq DOMAIN c
      /\ c.sock = "connecting" /\ c.out = << >> /\ c.retry = 0 /\ c.gen = 0 /\ ~c.pc
      /\ ~c.ice /\ c.work = << >> /\ c.src = "none" /\ c.playing = {} /\ c.screen = s
  BY DEF Player!Init
<1>2. "overlay" \in DOMAIN s
  BY DEF Player!Begun
<1>3. /\ \E g \in Governance, up \in BOOLEAN :
           v = [governed |-> g, here |-> FALSE, up |-> up, gen |-> 0, hasSub |-> FALSE,
                neg |-> "none"]
      /\ inbox = << >>
  BY DEF Player!Init
<1> HIDE DEF s, c
<1>4. << >> \in Seq(Told) /\ << >> \in Seq(Player!Work) /\ << >> \in Seq(Player!Messages)
      /\ Len(<< >>) = 0
  OBVIOUS
<1>5. Core(c)
  BY <1>1, <1>2, <1>4 DEF Core, Parts
<1>6. Fresh(c) /\ Over(c)
  BY <1>1, <1>4 DEF Fresh, Over
<1>7. /\ {"governed", "here", "up", "gen", "hasSub", "neg"} \subseteq DOMAIN v
      /\ v.gen = 0 /\ v.up \in BOOLEAN /\ ~v.here
  BY <1>3
<1>8. Ordered(inbox, c.gen)
  BY <1>3, <1>4 DEF Ordered
<1>9. InboxInv
  BY <1>1, <1>3, <1>4, <1>7, <1>8 DEF InboxInv, c
<1> QED BY <1>5, <1>6, <1>9 DEF PlayerInv, Good, c

LEMMA PlayerStep == PlayerInv /\ [Player!Next]_playerVars => PlayerInv'
<1> SUFFICES ASSUME PlayerInv, [Player!Next]_playerVars PROVE PlayerInv'
  OBVIOUS
<1>1. Good(playerB) /\ InboxInv
  BY DEF PlayerInv
<1>2. CASE UNCHANGED playerVars
  BY <1>1, <1>2, RestedInbox DEF playerVars, PlayerInv
<1>3. CASE Player!SocketOpens
  BY <1>1, <1>3, SocketOpensGood DEF PlayerInv
<1>4. CASE Player!SocketClosed
  BY <1>1, <1>4, DisconnectsGood DEF PlayerInv, Player!SocketClosed
<1>5. CASE Player!SocketLost
  BY <1>1, <1>5, DisconnectsGood DEF PlayerInv, Player!SocketLost
<1>6. CASE Player!KeepaliveTimeout
  BY <1>1, <1>6, KeepaliveTimeoutGood, RestedInbox DEF PlayerInv, Player!KeepaliveTimeout
<1>7. CASE Player!RetryFires
  BY <1>1, <1>7, RetryFiresGood, RestedInbox DEF PlayerInv, Player!RetryFires
<1>8. CASE Player!PollFires
  BY <1>1, <1>8, PollFiresGood, RestedInbox DEF PlayerInv, Player!PollFires
<1>9. CASE Player!Receive
  BY <1>1, <1>9, ReceiveGood DEF PlayerInv
<1>10. CASE Player!Steps
  <2>1. PICK i \in DOMAIN playerB.work : Player!WorkSteps(i)
    BY <1>10 DEF Player!Steps
  <2> QED BY <1>1, <2>1, WorkStepsGood, RestedInbox DEF PlayerInv
<1>11. CASE Player!IceConnects
  BY <1>1, <1>11, IceConnectsGood, RestedInbox DEF PlayerInv, Player!IceConnects
<1>12. CASE Player!Loaded
  BY <1>1, <1>12, LoadedGood, RestedInbox DEF PlayerInv, Player!Loaded
<1>13. CASE Player!PlayRejects
  BY <1>1, <1>13, PlayRejectsGood, RestedInbox DEF PlayerInv, Player!PlayRejects
<1>14. CASE Player!MediaPresented
  BY <1>1, <1>14, MediaPresentedGood, RestedInbox DEF PlayerInv, Player!MediaPresented
<1>15. CASE Player!MediaStale
  BY <1>1, <1>15, MediaStaleGood, RestedInbox DEF PlayerInv, Player!MediaStale
<1>16. CASE Player!AfkWarns
  BY <1>1, <1>16, AfkWarnsGood, RestedInbox DEF PlayerInv, Player!AfkWarns
<1>17. CASE Player!AfkTimesOut
  BY <1>1, <1>17, AfkTimesOutGood, RestedInbox DEF PlayerInv, Player!AfkTimesOut
<1>18. CASE Player!UserActs
  BY <1>1, <1>18, UserActsGood, RestedInbox DEF PlayerInv, Player!UserActs
<1>19. CASE Player!ServerHandles
  BY <1>1, <1>19, ServerHandlesGood DEF PlayerInv
<1>20. CASE Player!StreamerOffers
  BY <1>1, <1>20, StreamerOffersGood DEF PlayerInv
<1>21. CASE Player!NegotiationTimeout
  BY <1>1, <1>21, NegotiationTimeoutGood DEF PlayerInv
<1>22. CASE Player!StreamerMoves
  BY <1>1, <1>22, StreamerMovesGood DEF PlayerInv
<1> QED BY <1>2, <1>3, <1>4, <1>5, <1>6, <1>7, <1>8, <1>9, <1>10, <1>11, <1>12, <1>13,
           <1>14, <1>15, <1>16, <1>17, <1>18, <1>19, <1>20, <1>21, <1>22 DEF Player!Next

LEMMA PlayerSound == PlayerInv => Player!AnswersMatchOffers /\ Player!NotAbandoned
<1> SUFFICES ASSUME PlayerInv PROVE Player!AnswersMatchOffers /\ Player!NotAbandoned
  OBVIOUS
<1>1. Player!AnswersMatchOffers
  BY DEF PlayerInv, Good, Core, Player!AnswersMatchOffers
<1>2. Player!NotAbandoned
  BY DEF PlayerInv, Good, Over, Player!NotAbandoned
<1> QED BY <1>1, <1>2

-----------------------------------------------------------------------------
(* StreamRecovery: what is shown of the stream is so.                      *)

CallShaped(c) == c = [of |-> c.of, source |-> c.source, live |-> c.live]

\* What resolutionRecovery.ts keeps: a wait is shown, and is for a later video.
ResOk(r) ==
  /\ r = [target |-> r.target, completed |-> r.completed, waiting |-> r.waiting,
          timer |-> r.timer, connected |-> r.connected, old |-> r.old,
          replacement |-> r.replacement, armed |-> r.armed, shows |-> r.shows]
  /\ r.waiting => r.shows = "applying" /\ (r.replacement # 0 => r.replacement # r.old)

\* A callback that counts was made on a connection that is up, for a later video.
Made(r, cs) ==
  \A c \in cs : CallShaped(c) /\ (c.of = "res" /\ c.live => r.connected /\ c.source # r.old)

\* No callback of resolutionRecovery.ts counts.
Outlived(cs) == \A c \in cs : CallShaped(c) /\ (c.of = "res" => ~c.live)

\* The callbacks of runtimeRecovery.ts are left alone.
WatchKept(cs, ds) == \A c \in cs : c.of = "run" => c \in ds

Watched(cs, source) == \E c \in cs : c.of = "run" /\ c.live /\ c.source = source

\* While frames flow one is listened for, and the silence that is measured is the one there
\* is: unless the page is hidden or shows a freeze frame.
RecoveryInv ==
  /\ env = [source |-> env.source, size |-> env.size, flows |-> env.flows,
            hidden |-> env.hidden, paused |-> env.paused, cancels |-> env.cancels,
            fault |-> env.fault]
  /\ run = [enabled |-> run.enabled, since |-> run.since, frozen |-> run.frozen,
            notice |-> run.notice, fetch |-> run.fetch, due |-> run.due,
            shows |-> run.shows]
  /\ ResOk(res) /\ Made(res, calls)
  /\ env.source \in Nat /\ run.since \in 0 .. Patience /\ quiet \in 0 .. Patience
  /\ env.flows => env.source # 0 /\ Watched(calls, env.source)
  /\ ~env.hidden /\ ~run.frozen => run.since = quiet

LEMMA RecoveryInit == Recovering!Init => RecoveryInv
<1> SUFFICES ASSUME Recovering!Init PROVE RecoveryInv
  OBVIOUS
<1>1. PICK cancels \in BOOLEAN, size \in VideoSizes :
        env = [source |-> 0, size |-> size, flows |-> FALSE, hidden |-> FALSE,
               paused |-> FALSE, cancels |-> cancels, fault |-> Recovering!None]
  BY DEF Recovering!Init
<1>2. ResOk(res) /\ Made(res, calls)
  BY DEF Recovering!Init, ResOk, Made
<1>3. run.since = 0 /\ quiet = 0
      /\ run = [enabled |-> run.enabled, since |-> run.since, frozen |-> run.frozen,
                notice |-> run.notice, fetch |-> run.fetch, due |-> run.due,
                shows |-> run.shows]
  BY DEF Recovering!Init
<1> QED BY <1>1, <1>2, <1>3, CountAssumption DEF RecoveryInv

\* The operators of the two files.
LEMMA ClearedCalls ==
  ASSUME NEW cs, NEW who, \A c \in cs : CallShaped(c)
  PROVE  /\ \A c \in Recovering!Cleared(cs, who) : CallShaped(c)
         /\ \A c \in Recovering!Cleared(cs, who) : c.of = who => ~c.live
         /\ \A c \in Recovering!Cleared(cs, who) : c.of # who => c \in cs
         /\ \A c \in cs : c.of # who => c \in Recovering!Cleared(cs, who)
<1>1. ASSUME NEW d \in Recovering!Cleared(cs, who)
      PROVE  CallShaped(d) /\ (d.of = who => ~d.live) /\ (d.of # who => d \in cs)
  <2>1. CASE d \in cs /\ d.of # who
    BY <2>1
  <2>2. CASE \E c \in cs : c.of = who /\ d = [c EXCEPT !.live = FALSE]
    <3>1. PICK c \in cs : c.of = who /\ d = [c EXCEPT !.live = FALSE]
      BY <2>2
    <3>2. c = [of |-> c.of, source |-> c.source, live |-> c.live]
      BY DEF CallShaped
    <3>3. d = [of |-> who, source |-> c.source, live |-> FALSE]
      BY <3>1, <3>2
    <3> QED BY <3>3 DEF CallShaped
  <2> QED BY <1>1, <2>1, <2>2 DEF Recovering!Cleared
<1>2. \A c \in cs : c.of # who => c \in Recovering!Cleared(cs, who)
  BY DEF Recovering!Cleared
<1> QED BY <1>1, <1>2

LEMMA ResCleared ==
  ASSUME NEW cs, \A c \in cs : CallShaped(c)
  PROVE  /\ Outlived(Recovering!Cleared(cs, "res"))
         /\ WatchKept(cs, Recovering!Cleared(cs, "res"))
BY ClearedCalls DEF Outlived, WatchKept

LEMMA WatchStarts ==
  ASSUME NEW r, NEW cs, NEW source, Made(r, cs)
  PROVE  /\ Made(r, Recovering!Watching(cs, source))
         /\ source # 0 => Watched(Recovering!Watching(cs, source), source)
<1> DEFINE ds == Recovering!Cleared(cs, "run")
           e == [of |-> "run", source |-> source, live |-> TRUE]
<1>1. Made(r, ds)
  BY ClearedCalls DEF Made
<1>2. CallShaped(e) /\ e.of = "run" /\ e.live /\ e.source = source
  BY DEF CallShaped
<1>3. Recovering!Watching(cs, source) = (IF source = 0 THEN ds ELSE ds \cup {e})
  BY DEF Recovering!Watching, Recovering!Armed
<1> HIDE DEF ds, e
<1>4. Made(r, ds \cup {e}) /\ Watched(ds \cup {e}, source)
  BY <1>1, <1>2 DEF Made, Watched
<1> QED BY <1>1, <1>3, <1>4

LEMMA ResRecord ==
  ASSUME NEW a, NEW b, NEW w, NEW d, NEW e, NEW f, NEW g, NEW h, NEW s, NEW r,
         r = [target |-> a, completed |-> b, waiting |-> w, timer |-> d, connected |-> e,
              old |-> f, replacement |-> g, armed |-> h, shows |-> s],
         w => s = "applying" /\ (g # 0 => g # f)
  PROVE  ResOk(r)
BY DEF ResOk

LEMMA WaitClears ==
  ASSUME NEW x, ResOk(x.r), \A c \in x.cs : CallShaped(c),
         NEW y, y = Recovering!WaitCleared(x)
  PROVE  /\ y = [r |-> y.r, cs |-> y.cs]
         /\ y.r = [target |-> x.r.target, completed |-> x.r.completed, waiting |-> FALSE,
                   timer |-> FALSE, connected |-> x.r.connected, old |-> x.r.old,
                   replacement |-> x.r.replacement, armed |-> FALSE, shows |-> x.r.shows]
         /\ Outlived(y.cs) /\ WatchKept(x.cs, y.cs)
<1>1. y = [r |-> [x.r EXCEPT !.waiting = FALSE, !.timer = FALSE, !.armed = FALSE],
           cs |-> Recovering!Cleared(x.cs, "res")]
  BY DEF Recovering!WaitCleared, Recovering!State
<1> DEFINE o == x.r
<1>2. o = [target |-> o.target, completed |-> o.completed, waiting |-> o.waiting,
           timer |-> o.timer, connected |-> o.connected, old |-> o.old,
           replacement |-> o.replacement, armed |-> o.armed, shows |-> o.shows]
  BY DEF ResOk
<1>3. y.r = [o EXCEPT !.waiting = FALSE, !.timer = FALSE, !.armed = FALSE]
      /\ y.cs = Recovering!Cleared(x.cs, "res")
  BY <1>1
<1> HIDE DEF o
<1>4. y.r = [target |-> o.target, completed |-> o.completed, waiting |-> FALSE,
             timer |-> FALSE, connected |-> o.connected, old |-> o.old,
             replacement |-> o.replacement, armed |-> FALSE, shows |-> o.shows]
  BY <1>2, <1>3
<1>5. y = [r |-> y.r, cs |-> y.cs]
  BY <1>1
<1>6. Outlived(y.cs) /\ WatchKept(x.cs, y.cs)
  BY <1>3, ResCleared
<1> QED BY <1>4, <1>5, <1>6 DEF o

LEMMA Cancels ==
  ASSUME NEW x, ResOk(x.r), \A c \in x.cs : CallShaped(c), NEW z, z = Recovering!Cancelled(x)
  PROVE  /\ ResOk(z.r) /\ Outlived(z.cs) /\ WatchKept(x.cs, z.cs)
         /\ z.r.waiting = FALSE /\ z.r.shows = Recovering!None
         /\ z = [r |-> z.r, cs |-> z.cs]
<1>1. PICK y : y = Recovering!WaitCleared(x)
  OBVIOUS
<1>2. z = [r |-> [y.r EXCEPT !.target = Recovering!None, !.shows = Recovering!None],
           cs |-> y.cs]
  BY <1>1 DEF Recovering!Cancelled, Recovering!State
<1>3. z.r = [y.r EXCEPT !.target = Recovering!None, !.shows = Recovering!None]
      /\ z.cs = y.cs /\ z = [r |-> z.r, cs |-> z.cs]
  BY <1>2
<1>4. /\ y.r = [target |-> x.r.target, completed |-> x.r.completed, waiting |-> FALSE,
                timer |-> FALSE, connected |-> x.r.connected, old |-> x.r.old,
                replacement |-> x.r.replacement, armed |-> FALSE, shows |-> x.r.shows]
      /\ Outlived(y.cs) /\ WatchKept(x.cs, y.cs)
  BY <1>1, WaitClears
<1>5. z.r = [target |-> Recovering!None, completed |-> x.r.completed, waiting |-> FALSE,
             timer |-> FALSE, connected |-> x.r.connected, old |-> x.r.old,
             replacement |-> x.r.replacement, armed |-> FALSE,
             shows |-> Recovering!None]
  <2> DEFINE o == y.r
             n == Recovering!None
  <2>1. z.r = [o EXCEPT !.target = n, !.shows = n]
    BY <1>3
  <2>2. o = [target |-> x.r.target, completed |-> x.r.completed, waiting |-> FALSE,
             timer |-> FALSE, connected |-> x.r.connected, old |-> x.r.old,
             replacement |-> x.r.replacement, armed |-> FALSE, shows |-> x.r.shows]
    BY <1>4
  <2> HIDE DEF o, n
  <2>3. z.r = [target |-> n, completed |-> x.r.completed, waiting |-> FALSE,
               timer |-> FALSE, connected |-> x.r.connected, old |-> x.r.old,
               replacement |-> x.r.replacement, armed |-> FALSE, shows |-> n]
    BY <2>1, <2>2
  <2> QED BY <2>3 DEF n
<1>6. ResOk(z.r) /\ z.r.waiting = FALSE /\ z.r.shows = Recovering!None
  BY <1>5 DEF ResOk
<1> QED BY <1>3, <1>4, <1>6

LEMMA Fails ==
  ASSUME NEW x, ResOk(x.r), \A c \in x.cs : CallShaped(c), NEW z, z = Recovering!Failed(x)
  PROVE  /\ ResOk(z.r) /\ Outlived(z.cs) /\ WatchKept(x.cs, z.cs)
         /\ z.r.waiting = FALSE
         /\ x.r.shows # Recovering!None => z.r.shows = "failed"
<1>1. PICK y : y = Recovering!WaitCleared(x)
  OBVIOUS
<1> DEFINE s == IF y.r.shows = Recovering!None THEN y.r.shows ELSE "failed"
<1>2. z = [r |-> [y.r EXCEPT !.shows = s], cs |-> y.cs]
  BY <1>1 DEF Recovering!Failed, Recovering!State
<1>3. z.r = [y.r EXCEPT !.shows = s] /\ z.cs = y.cs
  BY <1>2
<1>4. /\ y.r = [target |-> x.r.target, completed |-> x.r.completed, waiting |-> FALSE,
                timer |-> FALSE, connected |-> x.r.connected, old |-> x.r.old,
                replacement |-> x.r.replacement, armed |-> FALSE, shows |-> x.r.shows]
      /\ Outlived(y.cs) /\ WatchKept(x.cs, y.cs)
  BY <1>1, WaitClears
<1>5. y.r.shows = x.r.shows
  BY <1>4
<1> HIDE DEF s
<1>6. z.r = [target |-> x.r.target, completed |-> x.r.completed, waiting |-> FALSE,
             timer |-> FALSE, connected |-> x.r.connected, old |-> x.r.old,
             replacement |-> x.r.replacement, armed |-> FALSE, shows |-> s]
  <2> DEFINE o == y.r
  <2>1. z.r = [o EXCEPT !.shows = s]
    BY <1>3
  <2>2. o = [target |-> x.r.target, completed |-> x.r.completed, waiting |-> FALSE,
             timer |-> FALSE, connected |-> x.r.connected, old |-> x.r.old,
             replacement |-> x.r.replacement, armed |-> FALSE, shows |-> x.r.shows]
    BY <1>4
  <2> HIDE DEF o
  <2> QED BY <2>1, <2>2
<1>7. ResOk(z.r) /\ z.r.waiting = FALSE /\ z.r.shows = s
  BY <1>6 DEF ResOk
<1> QED BY <1>3, <1>4, <1>5, <1>7 DEF s

LEMMA Restarted ==
  ASSUME NEW t, NEW b, NEW c, NEW i, NEW n, NEW s, NEW o, NEW size, NEW source,
         NEW r,
         o = [target |-> t, completed |-> b, waiting |-> FALSE, timer |-> FALSE,
              connected |-> c, old |-> i, replacement |-> n, armed |-> FALSE, shows |-> s],
         r = [o EXCEPT !.target = size, !.waiting = TRUE, !.connected = FALSE,
                       !.replacement = 0, !.old = source, !.shows = "applying"]
  PROVE  r = [target |-> size, completed |-> b, waiting |-> TRUE, timer |-> FALSE,
              connected |-> FALSE, old |-> source, replacement |-> 0, armed |-> FALSE,
              shows |-> "applying"]
OBVIOUS

LEMMA Begins ==
  ASSUME NEW x, ResOk(x.r), \A c \in x.cs : CallShaped(c), NEW size, NEW fails \in BOOLEAN,
         NEW z, z = Recovering!Begun(x, size, fails)
  PROVE  /\ ResOk(z.r) /\ Outlived(z.cs) /\ WatchKept(x.cs, z.cs)
         /\ z.r.waiting \/ z.r.shows = "failed"
<1>1. PICK y : y = Recovering!WaitCleared(x)
  OBVIOUS
<1>2. /\ y.r = [target |-> x.r.target, completed |-> x.r.completed, waiting |-> FALSE,
                timer |-> FALSE, connected |-> x.r.connected, old |-> x.r.old,
                replacement |-> x.r.replacement, armed |-> FALSE, shows |-> x.r.shows]
      /\ Outlived(y.cs) /\ WatchKept(x.cs, y.cs)
  BY <1>1, WaitClears
<1> DEFINE o == y.r
           a == [o EXCEPT !.target = size, !.waiting = TRUE, !.connected = FALSE,
                            !.replacement = 0, !.old = env.source, !.shows = "applying"]
           u == Recovering!TimerSet([r |-> a, cs |-> y.cs])
<1>3. z = IF fails THEN Recovering!Failed(u) ELSE u
  BY <1>1 DEF Recovering!Begun, Recovering!State
<1>4. a = [target |-> size, completed |-> x.r.completed, waiting |-> TRUE,
           timer |-> FALSE, connected |-> FALSE, old |-> env.source,
           replacement |-> 0, armed |-> FALSE, shows |-> "applying"]
  <2>1. o = [target |-> x.r.target, completed |-> x.r.completed, waiting |-> FALSE,
             timer |-> FALSE, connected |-> x.r.connected, old |-> x.r.old,
             replacement |-> x.r.replacement, armed |-> FALSE, shows |-> x.r.shows]
    BY <1>2
  <2>2. a = [o EXCEPT !.target = size, !.waiting = TRUE, !.connected = FALSE,
                      !.replacement = 0, !.old = env.source, !.shows = "applying"]
    OBVIOUS
  <2> HIDE DEF o, a, u
  <2> QED BY <2>1, <2>2, Restarted
<1> HIDE DEF a
<1>5. u.r = [a EXCEPT !.timer = TRUE] /\ u.cs = y.cs
  BY DEF Recovering!TimerSet, Recovering!State
<1> HIDE DEF u
<1>6. u.r = [target |-> size, completed |-> x.r.completed, waiting |-> TRUE,
             timer |-> TRUE, connected |-> FALSE, old |-> env.source,
             replacement |-> 0, armed |-> FALSE, shows |-> "applying"]
  BY <1>4, <1>5
<1>7. ResOk(u.r) /\ u.r.waiting /\ u.r.shows = "applying"
  BY <1>6 DEF ResOk
<1>8. Outlived(u.cs) /\ WatchKept(x.cs, u.cs)
  BY <1>2, <1>5
<1>9. CASE fails
  <2>1. \A c \in u.cs : CallShaped(c)
    BY <1>8 DEF Outlived
  <2>2. /\ ResOk(z.r) /\ Outlived(z.cs) /\ WatchKept(u.cs, z.cs)
        /\ z.r.shows = "failed"
    BY <1>3, <1>7, <1>9, <2>1, Fails DEF Recovering!None
  <2> QED BY <1>8, <2>2 DEF WatchKept
<1> QED BY <1>3, <1>7, <1>8, <1>9

LEMMA Arms ==
  ASSUME NEW x, x = [r |-> x.r, cs |-> x.cs], ResOk(x.r), Made(x.r, x.cs), NEW source,
         NEW z, z = Recovering!FrameArmed(x, source)
  PROVE  /\ ResOk(z.r) /\ Made(z.r, z.cs) /\ WatchKept(x.cs, z.cs)
         /\ z.r.waiting = x.r.waiting
<1>1. CASE z = x
  BY <1>1 DEF WatchKept
<1>2. CASE /\ x.r.waiting /\ x.r.connected /\ x.r.replacement # 0
           /\ x.r.replacement = source
           /\ z = [r |-> [x.r EXCEPT !.armed = TRUE],
                   cs |-> Recovering!Armed(x.cs, "res", source)]
  <2> DEFINE o == x.r
  <2>1. o = [target |-> o.target, completed |-> o.completed, waiting |-> o.waiting,
             timer |-> o.timer, connected |-> o.connected, old |-> o.old,
             replacement |-> o.replacement, armed |-> o.armed, shows |-> o.shows]
    BY DEF ResOk
  <2>2. z.r = [o EXCEPT !.armed = TRUE] /\ z.cs = Recovering!Armed(x.cs, "res", source)
    BY <1>2
  <2>6. (o.waiting => o.shows = "applying" /\ (o.replacement # 0 => o.replacement # o.old))
        /\ o.waiting /\ o.connected /\ o.replacement # 0 /\ o.replacement = source
        /\ Made(o, x.cs)
    BY <1>2 DEF ResOk
  <2> HIDE DEF o
  <2>3. z.r = [target |-> o.target, completed |-> o.completed, waiting |-> o.waiting,
               timer |-> o.timer, connected |-> o.connected, old |-> o.old,
               replacement |-> o.replacement, armed |-> TRUE, shows |-> o.shows]
    BY <2>1, <2>2
  <2>4. ResOk(z.r) /\ z.r.waiting = o.waiting /\ z.r.connected = o.connected
        /\ z.r.old = o.old
    BY <2>3, <2>6 DEF ResOk
  <2> DEFINE e == [of |-> "res", source |-> source, live |-> TRUE]
  <2>5. z.cs = x.cs \cup {e} /\ CallShaped(e) /\ e.source = source
    BY <2>2 DEF Recovering!Armed, CallShaped
  <2> HIDE DEF e
  <2>7. Made(z.r, z.cs) /\ WatchKept(x.cs, z.cs)
    BY <2>4, <2>5, <2>6 DEF Made, WatchKept
  <2> QED BY <2>4, <2>7 DEF o
<1> QED BY <1>1, <1>2 DEF Recovering!FrameArmed, Recovering!State

LEMMA Sees ==
  ASSUME NEW r, ResOk(r), NEW fired, Made(r, fired), NEW size,
         NEW z, z = Recovering!FrameSeen([r |-> r, cs |-> {}], fired, size)
  PROVE  /\ ResOk(z.r) /\ Made(z.r, z.cs)
         /\ r.waiting /\ ~z.r.waiting =>
              r.connected /\ env.source # r.old /\ size = r.target
<1> DEFINE mine == {c \in fired : c.of = "res" /\ Recovering!IsCurrent(c, r)}
           x == [r |-> r, cs |-> {}]
           y == [r |-> [r EXCEPT !.armed = FALSE], cs |-> {}]
           d == Recovering!Cancelled(y)
<1>1. z = IF mine = {} THEN x
          ELSE IF r.target = size THEN [r |-> [d.r EXCEPT !.completed = size], cs |-> d.cs]
          ELSE Recovering!FrameArmed(y, env.source)
  BY DEF Recovering!FrameSeen, Recovering!State
<1>2. y.r = [target |-> r.target, completed |-> r.completed, waiting |-> r.waiting,
             timer |-> r.timer, connected |-> r.connected, old |-> r.old,
             replacement |-> r.replacement, armed |-> FALSE, shows |-> r.shows]
      /\ y.cs = {} /\ y = [r |-> y.r, cs |-> y.cs]
  BY DEF ResOk
<1> HIDE DEF y
<1>6. r.waiting => r.shows = "applying" /\ (r.replacement # 0 => r.replacement # r.old)
  BY DEF ResOk
<1>7. ResOk(y.r) /\ y.r.waiting = r.waiting
  BY <1>2, <1>6 DEF ResOk
<1>8. Made(y.r, y.cs)
  BY <1>2 DEF Made
<1>3. ResOk(y.r) /\ Made(y.r, y.cs) /\ y.r.waiting = r.waiting
  BY <1>7, <1>8
<1>4. CASE mine = {}
  <2>1. z = [r |-> r, cs |-> {}]
    BY <1>1, <1>4
  <2> HIDE DEF mine, x, d
  <2>2. z.r = r /\ z.cs = {}
    BY <2>1
  <2> QED BY <2>2 DEF Made
<1>5. CASE mine # {}
  <2>1. PICK c \in fired : c.of = "res" /\ c.live /\ r.waiting /\ c.source = env.source
    BY <1>5 DEF Recovering!IsCurrent
  <2>2. r.connected /\ env.source # r.old
    BY <2>1 DEF Made
  <2>3. CASE r.target = size
    <3>1. z = [r |-> [d.r EXCEPT !.completed = size], cs |-> d.cs]
      BY <1>1, <1>5, <2>3
    <3>2. ResOk(d.r) /\ Outlived(d.cs) /\ d.r.waiting = FALSE
      BY <1>2, <1>3, Cancels DEF Made
    <3> DEFINE o == d.r
    <3>3. z.r = [o EXCEPT !.completed = size] /\ z.cs = d.cs
      BY <3>1
    <3>4. o = [target |-> o.target, completed |-> o.completed, waiting |-> o.waiting,
               timer |-> o.timer, connected |-> o.connected, old |-> o.old,
               replacement |-> o.replacement, armed |-> o.armed, shows |-> o.shows]
          /\ o.waiting = FALSE
      BY <3>2 DEF ResOk
    <3> HIDE DEF o
    <3>5. z.r = [target |-> o.target, completed |-> size, waiting |-> FALSE,
                 timer |-> o.timer, connected |-> o.connected, old |-> o.old,
                 replacement |-> o.replacement, armed |-> o.armed, shows |-> o.shows]
      BY <3>3, <3>4
    <3>6. ResOk(z.r)
      <4> HIDE DEF mine, x, d
      <4> QED BY <3>5, ResRecord
    <3>7. Made(z.r, z.cs)
      BY <3>2, <3>3 DEF Outlived, Made
    <3> QED BY <2>2, <2>3, <3>6, <3>7
  <2>4. CASE r.target # size
    <3>1. z = Recovering!FrameArmed(y, env.source)
      BY <1>1, <1>5, <2>4
    <3> HIDE DEF mine, x, d
    <3>3. y = [r |-> y.r, cs |-> y.cs]
      BY <1>2
    <3>2. ResOk(z.r) /\ Made(z.r, z.cs) /\ z.r.waiting = y.r.waiting
      BY <1>7, <1>8, <3>1, <3>3, Arms
    <3> QED BY <1>3, <3>2
  <2> QED BY <2>3, <2>4
<1> QED BY <1>4, <1>5

\* What a step shows is so.
ShownStep ==
  /\ res.waiting /\ ~res'.waiting /\ res'.shows = Recovering!None /\ env'.flows =>
       res.connected /\ env.source # res.old /\ env'.size = res.target
  /\ run.shows # "silent" /\ run'.shows = "silent" => quiet = Patience

WatchOk(w) ==
  /\ w = [enabled |-> w.enabled, since |-> w.since, frozen |-> w.frozen,
          notice |-> w.notice, fetch |-> w.fetch, due |-> w.due, shows |-> w.shows]
  /\ w.since \in 0 .. Patience

EnvOk(e) ==
  e = [source |-> e.source, size |-> e.size, flows |-> e.flows, hidden |-> e.hidden,
       paused |-> e.paused, cancels |-> e.cancels, fault |-> e.fault]

\* A step of resolutionRecovery.ts alone, which ends its wait with the offer to retry.
LEMMA ResMoves ==
  ASSUME RecoveryInv, UNCHANGED <<env, run, quiet>>, ResOk(res'), Made(res', calls'),
         WatchKept(calls, calls'),
         res.waiting /\ ~res'.waiting => res'.shows # Recovering!None
  PROVE  RecoveryInv' /\ ShownStep
<1>1. ShownStep
  BY DEF ShownStep
<1>2. env'.flows => Watched(calls', env'.source)
  BY DEF RecoveryInv, Watched, WatchKept
<1> QED BY <1>1, <1>2 DEF RecoveryInv

LEMMA MadeShaped == ASSUME NEW r, NEW cs, Made(r, cs) PROVE \A c \in cs : CallShaped(c)
BY DEF Made

LEMMA OutlivedMade == ASSUME NEW r, NEW cs, Outlived(cs) PROVE Made(r, cs)
BY DEF Made, Outlived

LEMMA ResSteps ==
  ASSUME RecoveryInv,
         \/ \E size : Recovering!Response(size)
         \/ Recovering!Retry \/ Recovering!Timeout \/ Recovering!Connected
  PROVE  RecoveryInv' /\ ShownStep
<1>1. /\ ResOk(res) /\ Made(res, calls)
      /\ \A c \in calls : CallShaped(c)
  BY MadeShaped DEF RecoveryInv
<1> DEFINE x == [r |-> res, cs |-> calls]
<1>2. x = Recovering!Now /\ x.r = res /\ x.cs = calls /\ x = [r |-> x.r, cs |-> x.cs]
  BY DEF Recovering!Now, Recovering!State
<1> HIDE DEF x
<1>3. ASSUME NEW size, NEW fails \in BOOLEAN,
             Recovering!Become(Recovering!Begun(Recovering!Now, size, fails)),
             UNCHANGED <<env, run, quiet>>
      PROVE  RecoveryInv' /\ ShownStep
  <2>1. PICK z : z = Recovering!Begun(x, size, fails)
    OBVIOUS
  <2>2. res' = z.r /\ calls' = z.cs
    BY <1>2, <1>3, <2>1 DEF Recovering!Become
  <2>3. ResOk(z.r) /\ Outlived(z.cs) /\ WatchKept(calls, z.cs)
        /\ (z.r.waiting \/ z.r.shows = "failed")
    BY <1>1, <1>2, <2>1, Begins
  <2>4. Made(z.r, z.cs)
    BY <2>3, OutlivedMade
  <2> QED BY <1>3, <2>2, <2>3, <2>4, ResMoves DEF Recovering!None
<1>4. ASSUME NEW size, Recovering!Response(size) PROVE RecoveryInv' /\ ShownStep
  <2>1. CASE res.waiting /\ res' = [res EXCEPT !.target = size] /\ UNCHANGED calls
    <3>1. res' = [target |-> size, completed |-> res.completed, waiting |-> res.waiting,
                  timer |-> res.timer, connected |-> res.connected, old |-> res.old,
                  replacement |-> res.replacement, armed |-> res.armed,
                  shows |-> res.shows]
      BY <1>1, <2>1 DEF ResOk
    <3>2. res.waiting => res.shows = "applying"
            /\ (res.replacement # 0 => res.replacement # res.old)
      BY <1>1 DEF ResOk
    <3>3. ResOk(res')
      BY <3>1, <3>2, ResRecord
    <3>4. res'.waiting = res.waiting /\ res'.connected = res.connected
          /\ res'.old = res.old
      BY <3>1
    <3>5. Made(res', calls') /\ WatchKept(calls, calls')
      BY <1>1, <2>1, <3>4 DEF Made, WatchKept
    <3> QED BY <1>4, <3>3, <3>4, <3>5, ResMoves DEF Recovering!Response
  <2>2. CASE UNCHANGED <<res, calls>>
    <3>1. WatchKept(calls, calls') /\ ResOk(res') /\ Made(res', calls')
      BY <1>1, <2>2 DEF WatchKept
    <3> QED BY <1>4, <2>2, <3>1, ResMoves DEF Recovering!Response
  <2> QED BY <1>3, <1>4, <2>1, <2>2 DEF Recovering!Response
<1>5. CASE Recovering!Retry
  BY <1>3, <1>5 DEF Recovering!Retry
<1>6. CASE Recovering!Timeout
  <2>1. PICK z : z = Recovering!Failed(x)
    OBVIOUS
  <2>2. res' = z.r /\ calls' = z.cs /\ UNCHANGED <<env, run, quiet>>
    BY <1>2, <1>6, <2>1 DEF Recovering!Timeout, Recovering!Become
  <2>3. ResOk(z.r) /\ Outlived(z.cs) /\ WatchKept(calls, z.cs)
        /\ (res.shows # Recovering!None => z.r.shows = "failed")
    BY <1>1, <1>2, <2>1, Fails
  <2>4. Made(z.r, z.cs)
    BY <2>3, OutlivedMade
  <2>5. res.waiting => z.r.shows = "failed"
    BY <1>1, <2>3 DEF ResOk, Recovering!None
  <2> QED BY <2>2, <2>3, <2>4, <2>5, ResMoves DEF Recovering!None
<1>7. CASE Recovering!Connected
  <2> DEFINE o == [res EXCEPT !.connected = TRUE]
             y == [r |-> o, cs |-> calls]
  <2>1. PICK z : z = Recovering!FrameArmed(y, env.source)
    OBVIOUS
  <2>2. res' = z.r /\ calls' = z.cs /\ UNCHANGED <<env, run, quiet>>
    BY <1>7, <2>1 DEF Recovering!Connected, Recovering!Become, Recovering!State
  <2>3. o = [target |-> res.target, completed |-> res.completed, waiting |-> res.waiting,
             timer |-> res.timer, connected |-> TRUE, old |-> res.old,
             replacement |-> res.replacement, armed |-> res.armed,
             shows |-> res.shows]
    <3>1. o = [res EXCEPT !.connected = TRUE]
      OBVIOUS
    <3> HIDE DEF o, y
    <3> QED BY <1>1, <3>1 DEF ResOk
  <2>4. y = [r |-> y.r, cs |-> y.cs] /\ y.r = o /\ y.cs = calls
    OBVIOUS
  <2> HIDE DEF o, y
  <2>5. res.waiting => res.shows = "applying"
          /\ (res.replacement # 0 => res.replacement # res.old)
    BY <1>1 DEF ResOk
  <2>6. ResOk(o)
    BY <2>3, <2>5, ResRecord
  <2>7. o.waiting = res.waiting /\ o.connected = TRUE /\ o.old = res.old
    BY <2>3
  <2>10. o.connected
    BY <2>7
  <2>8. Made(o, calls)
    BY <1>1, <2>7, <2>10 DEF Made
  <2>9. ResOk(z.r) /\ Made(z.r, z.cs) /\ WatchKept(calls, z.cs) /\ z.r.waiting = o.waiting
    BY <2>1, <2>4, <2>6, <2>8, Arms
  <2> QED BY <2>2, <2>7, <2>9, ResMoves
<1> QED BY <1>4, <1>5, <1>6, <1>7

\* A step of runtimeRecovery.ts alone.
LEMMA RunMoves ==
  ASSUME RecoveryInv, UNCHANGED res, WatchOk(run'), quiet' \in 0 .. Patience,
         EnvOk(env'), env'.source = env.source, env'.flows = env.flows,
         Made(res, calls'), env.flows => Watched(calls', env.source),
         ~env'.hidden /\ ~run'.frozen => run'.since = quiet',
         run.shows # "silent" /\ run'.shows = "silent" => quiet = Patience
  PROVE  RecoveryInv' /\ ShownStep
<1>1. ShownStep
  BY DEF ShownStep
<1> QED BY <1>1 DEF RecoveryInv, WatchOk, EnvOk

\* What is heard, outdated or asked: the silence is told from the start or as before.
LEMMA RunFields ==
  ASSUME WatchOk(run), Patience \in Nat
  PROVE  /\ WatchOk(Recovering!Heard(run)) /\ WatchOk(Recovering!Outdated(run))
         /\ WatchOk(Recovering!Heard(Recovering!Outdated(run)))
         /\ Recovering!Heard(run).since = 0
         /\ Recovering!Heard(Recovering!Outdated(run)).since = 0
         /\ Recovering!Outdated(run).since = run.since
         /\ \A w \in {Recovering!Heard(run), Recovering!Outdated(run),
                      Recovering!Heard(Recovering!Outdated(run))} :
              w.frozen = run.frozen /\ w.shows = run.shows
<1>1. run = [enabled |-> run.enabled, since |-> run.since, frozen |-> run.frozen,
             notice |-> run.notice, fetch |-> run.fetch, due |-> run.due,
             shows |-> run.shows]
      /\ run.since \in 0 .. Patience
  BY DEF WatchOk
<1> DEFINE f == IF run.fetch = "live" THEN "stale" ELSE run.fetch
           a == Recovering!Heard(run)
           b == Recovering!Outdated(run)
           c == Recovering!Heard(b)
<1>2. a = [run EXCEPT !.since = 0] /\ b = [run EXCEPT !.fetch = f]
      /\ c = [b EXCEPT !.since = 0]
  BY DEF Recovering!Heard, Recovering!Outdated
<1> HIDE DEF a, b, c, f
<1>3. a = [enabled |-> run.enabled, since |-> 0, frozen |-> run.frozen,
           notice |-> run.notice, fetch |-> run.fetch, due |-> run.due,
           shows |-> run.shows]
  BY <1>1, <1>2
<1>4. b = [enabled |-> run.enabled, since |-> run.since, frozen |-> run.frozen,
           notice |-> run.notice, fetch |-> f, due |-> run.due, shows |-> run.shows]
  BY <1>1, <1>2
<1>5. c = [enabled |-> run.enabled, since |-> 0, frozen |-> run.frozen,
           notice |-> run.notice, fetch |-> f, due |-> run.due, shows |-> run.shows]
  BY <1>2, <1>4
<1>6. 0 \in 0 .. Patience
  OBVIOUS
<1> QED BY <1>1, <1>3, <1>4, <1>5, <1>6 DEF WatchOk, a, b, c

LEMMA RunSteps ==
  ASSUME RecoveryInv,
         \/ Recovering!Ask \/ Recovering!Pass \/ Recovering!Freeze \/ Recovering!Unfreeze
         \/ Recovering!Visibility \/ Recovering!Opened \/ Recovering!PlayOrPause
         \/ \E fault : Recovering!Evidence(fault)
  PROVE  RecoveryInv' /\ ShownStep
<1>1. WatchOk(run) /\ Patience \in Nat /\ quiet \in 0 .. Patience /\ 0 \in 0 .. Patience
  BY CountAssumption DEF RecoveryInv, WatchOk
<1>2. run = [enabled |-> run.enabled, since |-> run.since, frozen |-> run.frozen,
             notice |-> run.notice, fetch |-> run.fetch, due |-> run.due,
             shows |-> run.shows]
      /\ run.since \in 0 .. Patience
  BY <1>1 DEF WatchOk
<1>3. env = [source |-> env.source, size |-> env.size, flows |-> env.flows,
             hidden |-> env.hidden, paused |-> env.paused, cancels |-> env.cancels,
             fault |-> env.fault]
      /\ EnvOk(env)
  BY DEF RecoveryInv, EnvOk
<1>4. /\ Made(res, calls)
      /\ env.flows => Watched(calls, env.source)
      /\ ~env.hidden /\ ~run.frozen => run.since = quiet
      /\ env.flows => env.source # 0
  BY DEF RecoveryInv
<1>5. /\ Made(res, Recovering!Watching(calls, env.source))
      /\ env.flows => Watched(Recovering!Watching(calls, env.source), env.source)
  BY <1>4, WatchStarts
<1>6. CASE Recovering!Ask
  <2>1. PICK f : run' = [run EXCEPT !.due = FALSE, !.fetch = f]
    BY <1>6 DEF Recovering!Ask
  <2>2. run' = [enabled |-> run.enabled, since |-> run.since, frozen |-> run.frozen,
                notice |-> run.notice, fetch |-> f, due |-> FALSE, shows |-> run.shows]
    BY <1>2, <2>1
  <2>3. WatchOk(run') /\ run'.since = run.since /\ run'.frozen = run.frozen
        /\ run'.shows = run.shows
    BY <1>2, <2>2 DEF WatchOk
  <2> QED BY <1>1, <1>3, <1>4, <1>6, <2>3, RunMoves DEF Recovering!Ask
<1>7. CASE Recovering!Pass
  <2>1. PICK s : run' = [run EXCEPT !.due = TRUE, !.since = s]
                 /\ s = (IF run.since = Patience THEN run.since ELSE run.since + 1)
    BY <1>7 DEF Recovering!Pass
  <2>2. run' = [enabled |-> run.enabled, since |-> s, frozen |-> run.frozen,
                notice |-> run.notice, fetch |-> run.fetch, due |-> TRUE,
                shows |-> run.shows]
    BY <1>2, <2>1
  <2>3. s \in 0 .. Patience
    BY <1>1, <1>2, <2>1
  <2>4. WatchOk(run') /\ run'.since = s /\ run'.frozen = run.frozen
        /\ run'.shows = run.shows
    BY <2>2, <2>3 DEF WatchOk
  <2>5. quiet' \in 0 .. Patience
    BY <1>1, <1>7 DEF Recovering!Pass
  <2>6. ~env.hidden /\ ~run.frozen => s = quiet'
    BY <1>4, <1>7, <2>1 DEF Recovering!Pass
  <2> QED BY <1>1, <1>3, <1>4, <1>7, <2>4, <2>5, <2>6, RunMoves DEF Recovering!Pass
<1>8. CASE Recovering!Freeze
  <2> DEFINE w == Recovering!Heard(run)
  <2>1. run' = [w EXCEPT !.frozen = TRUE, !.shows = Recovering!None] /\ WatchOk(w)
    BY <1>1, <1>8, RunFields DEF Recovering!Freeze
  <2> HIDE DEF w
  <2>2. run' = [enabled |-> w.enabled, since |-> w.since, frozen |-> TRUE,
                notice |-> w.notice, fetch |-> w.fetch, due |-> w.due,
                shows |-> Recovering!None]
        /\ w.since \in 0 .. Patience
    BY <2>1 DEF WatchOk
  <2>3. WatchOk(run') /\ run'.frozen = TRUE /\ run'.shows = Recovering!None
    BY <2>2 DEF WatchOk
  <2> QED BY <1>1, <1>3, <1>4, <1>8, <2>3, RunMoves
     DEF Recovering!Freeze, Recovering!None
<1>9. CASE Recovering!Unfreeze
  <2> DEFINE w == Recovering!Heard(Recovering!Outdated(run))
  <2>1. run' = [w EXCEPT !.frozen = FALSE] /\ WatchOk(w) /\ w.since = 0
        /\ w.shows = run.shows
    BY <1>1, <1>9, RunFields DEF Recovering!Unfreeze
  <2> HIDE DEF w
  <2>2. run' = [enabled |-> w.enabled, since |-> w.since, frozen |-> FALSE,
                notice |-> w.notice, fetch |-> w.fetch, due |-> w.due,
                shows |-> w.shows]
        /\ w.since \in 0 .. Patience
    BY <2>1 DEF WatchOk
  <2>3. WatchOk(run') /\ run'.since = 0 /\ run'.shows = run.shows
    BY <2>1, <2>2 DEF WatchOk
  <2> QED BY <1>1, <1>3, <1>4, <1>5, <1>9, <2>3, RunMoves DEF Recovering!Unfreeze
<1>10. CASE Recovering!Visibility
  <2>1. env' = [env EXCEPT !.hidden = ~env.hidden] /\ UNCHANGED res
    BY <1>10 DEF Recovering!Visibility
  <2>2. env' = [source |-> env.source, size |-> env.size, flows |-> env.flows,
                hidden |-> ~env.hidden, paused |-> env.paused, cancels |-> env.cancels,
                fault |-> env.fault]
    BY <1>3, <2>1
  <2>3. EnvOk(env') /\ env'.source = env.source /\ env'.flows = env.flows
        /\ env'.hidden = ~env.hidden
    BY <2>2 DEF EnvOk
  <2>4. CASE env.hidden
    <3>1. /\ run' = Recovering!Heard(Recovering!Outdated(run))
          /\ calls' = Recovering!Watching(calls, env.source) /\ quiet' = 0
      BY <1>10, <2>4 DEF Recovering!Visibility, Recovering!Reappeared
    <3>2. WatchOk(run') /\ run'.since = 0 /\ run'.shows = run.shows
      BY <1>1, <3>1, RunFields
    <3> QED BY <1>1, <1>5, <2>1, <2>3, <3>1, <3>2, RunMoves
  <2>5. CASE ~env.hidden
    <3>1. UNCHANGED <<run, calls, quiet>>
      BY <1>10, <2>5 DEF Recovering!Visibility
    <3> QED BY <1>1, <1>4, <2>1, <2>3, <2>5, <3>1, RunMoves
  <2> QED BY <2>4, <2>5
<1>11. CASE Recovering!Opened
  <2> DEFINE w == Recovering!Heard(Recovering!Outdated(run))
  <2>1. run' = [w EXCEPT !.enabled = TRUE, !.frozen = FALSE, !.notice = FALSE,
                         !.shows = Recovering!None]
        /\ WatchOk(w) /\ w.since = 0
    BY <1>1, <1>11, RunFields DEF Recovering!Opened
  <2> HIDE DEF w
  <2>2. run' = [enabled |-> TRUE, since |-> w.since, frozen |-> FALSE,
                notice |-> FALSE, fetch |-> w.fetch, due |-> w.due,
                shows |-> Recovering!None]
        /\ w.since \in 0 .. Patience
    BY <2>1 DEF WatchOk
  <2>3. WatchOk(run') /\ run'.since = 0 /\ run'.shows = Recovering!None
    BY <2>1, <2>2 DEF WatchOk
  <2>4. Made(res, Recovering!Cleared(calls, "run")) /\ ~env.flows
    BY <1>4, <1>11, ClearedCalls DEF Made, Recovering!Opened
  <2> QED BY <1>1, <1>3, <1>11, <2>3, <2>4, RunMoves
     DEF Recovering!Opened, Recovering!None
<1>12. ASSUME NEW x, UNCHANGED <<res, run, calls, quiet>>,
              env' \in {[env EXCEPT !.paused = x], [env EXCEPT !.fault = x]}
       PROVE  RecoveryInv' /\ ShownStep
  <2>1. EnvOk(env') /\ env'.source = env.source /\ env'.flows = env.flows
        /\ env'.hidden = env.hidden
    <3>1. CASE env' = [env EXCEPT !.paused = x]
      BY <1>3, <3>1 DEF EnvOk
    <3>2. CASE env' = [env EXCEPT !.fault = x]
      BY <1>3, <3>2 DEF EnvOk
    <3> QED BY <1>12, <3>1, <3>2
  <2> QED BY <1>1, <1>4, <1>12, <2>1, RunMoves
<1>13. CASE Recovering!PlayOrPause
  BY <1>12, <1>13 DEF Recovering!PlayOrPause
<1>14. ASSUME NEW fault, Recovering!Evidence(fault) PROVE RecoveryInv' /\ ShownStep
  BY <1>12, <1>14 DEF Recovering!Evidence
<1> QED BY <1>6, <1>7, <1>8, <1>9, <1>10, <1>11, <1>13, <1>14

\* The server's answer: silence is told after the whole wait, and of frames that were due.
LEMMA AnswerStep ==
  ASSUME RecoveryInv, NEW fails \in BOOLEAN, Recovering!Answer(fails)
  PROVE  RecoveryInv' /\ ShownStep
<1>1. WatchOk(run) /\ Patience \in Nat /\ quiet \in 0 .. Patience /\ 0 \in 0 .. Patience
  BY CountAssumption DEF RecoveryInv, WatchOk
<1>2. run = [enabled |-> run.enabled, since |-> run.since, frozen |-> run.frozen,
             notice |-> run.notice, fetch |-> run.fetch, due |-> run.due,
             shows |-> run.shows]
      /\ run.since \in 0 .. Patience
  BY <1>1 DEF WatchOk
<1>3. env = [source |-> env.source, size |-> env.size, flows |-> env.flows,
             hidden |-> env.hidden, paused |-> env.paused, cancels |-> env.cancels,
             fault |-> env.fault]
      /\ EnvOk(env)
  BY DEF RecoveryInv, EnvOk
<1>4. /\ Made(res, calls)
      /\ env.flows => Watched(calls, env.source)
      /\ ~env.hidden /\ ~run.frozen => run.since = quiet
  BY DEF RecoveryInv
<1> DEFINE n == IF run.fetch = "live" /\ ~fails THEN Recovering!Notice ELSE run.notice
           u == [run EXCEPT !.fetch = Recovering!None, !.notice = n]
           h == Recovering!Heard(u)
<1>5. u = [enabled |-> run.enabled, since |-> run.since, frozen |-> run.frozen,
           notice |-> n, fetch |-> Recovering!None, due |-> run.due,
           shows |-> run.shows]
  <2>1. u = [run EXCEPT !.fetch = Recovering!None, !.notice = n]
    OBVIOUS
  <2> HIDE DEF n, u, h
  <2> QED BY <1>2, <2>1
<1>6. run' = Recovering!Answered(run, fails) /\ UNCHANGED <<env, res, calls>>
      /\ quiet' = IF run'.since = 0 THEN 0 ELSE quiet
  BY DEF Recovering!Answer
<1>7. \/ run' = u
      \/ run' = [h EXCEPT !.shows = Recovering!None]
      \/ run' = [u EXCEPT !.shows = "confirmed"]
      \/ /\ run' = [u EXCEPT !.shows = "silent"]
         /\ ~env.hidden /\ ~run.frozen /\ run.since >= Patience
  BY <1>6 DEF Recovering!Answered, Recovering!Limit
<1> HIDE DEF n, u
<1>8. h = [enabled |-> run.enabled, since |-> 0, frozen |-> run.frozen,
           notice |-> n, fetch |-> Recovering!None, due |-> run.due,
           shows |-> run.shows]
  BY <1>5 DEF Recovering!Heard
<1> HIDE DEF h
<1>9. ASSUME NEW shows, NEW since \in 0 .. Patience, since \in {0, run.since},
             shows = "silent" => \/ run.shows = "silent"
                                 \/ ~env.hidden /\ ~run.frozen /\ run.since >= Patience,
             run' = [enabled |-> run.enabled, since |-> since, frozen |-> run.frozen,
                     notice |-> n, fetch |-> Recovering!None, due |-> run.due,
                     shows |-> shows]
      PROVE  RecoveryInv' /\ ShownStep
  <2>1. WatchOk(run') /\ run'.since = since /\ run'.frozen = run.frozen
        /\ run'.shows = shows
    BY <1>9 DEF WatchOk
  <2>2. ~env.hidden /\ ~run.frozen => run'.since = quiet'
    BY <1>4, <1>6, <1>9, <2>1
  <2>3. quiet' \in 0 .. Patience
    BY <1>1, <1>6
  <2>4. run.shows # "silent" /\ shows = "silent" => quiet = Patience
    BY <1>1, <1>2, <1>4, <1>9
  <2> QED BY <1>3, <1>4, <1>6, <2>1, <2>2, <2>3, <2>4, RunMoves
<1>10. CASE run' = u
  BY <1>2, <1>5, <1>9, <1>10
<1>11. CASE run' = [h EXCEPT !.shows = Recovering!None]
  <2>1. run' = [enabled |-> run.enabled, since |-> 0, frozen |-> run.frozen,
                notice |-> n, fetch |-> Recovering!None, due |-> run.due,
                shows |-> Recovering!None]
    BY <1>8, <1>11
  <2>2. Recovering!None # "silent"
    BY DEF Recovering!None
  <2> QED BY <1>1, <1>9, <2>1, <2>2
<1>12. CASE run' = [u EXCEPT !.shows = "confirmed"]
  <2>1. run' = [enabled |-> run.enabled, since |-> run.since, frozen |-> run.frozen,
                notice |-> n, fetch |-> Recovering!None, due |-> run.due,
                shows |-> "confirmed"]
    BY <1>5, <1>12
  <2> QED BY <1>2, <1>9, <2>1
<1>13. CASE run' = [u EXCEPT !.shows = "silent"]
            /\ ~env.hidden /\ ~run.frozen /\ run.since >= Patience
  <2>1. run' = [enabled |-> run.enabled, since |-> run.since, frozen |-> run.frozen,
                notice |-> n, fetch |-> Recovering!None, due |-> run.due,
                shows |-> "silent"]
    BY <1>5, <1>13
  <2> QED BY <1>2, <1>9, <1>13, <2>1
<1> QED BY <1>7, <1>10, <1>11, <1>12, <1>13

LEMMA DisconnectedStep ==
  ASSUME RecoveryInv, NEW final \in BOOLEAN, Recovering!Disconnected(final)
  PROVE  RecoveryInv' /\ ShownStep
<1>1. /\ ResOk(res) /\ Made(res, calls) /\ WatchOk(run) /\ Patience \in Nat
      /\ \A c \in calls : CallShaped(c)
  BY MadeShaped, CountAssumption DEF RecoveryInv, WatchOk
<1> DEFINE r == [res EXCEPT !.connected = FALSE, !.replacement = 0, !.armed = FALSE]
           cs == Recovering!Cleared(calls, "res")
           x == [r |-> r, cs |-> cs]
<1>2. /\ res' = IF final THEN Recovering!Cancelled(x).r ELSE r
      /\ calls' = IF final THEN Recovering!Cleared(Recovering!Cancelled(x).cs, "run")
                  ELSE cs
      /\ run' = IF final
                THEN [Recovering!Outdated(run) EXCEPT !.enabled = FALSE,
                                                      !.shows = Recovering!None]
                ELSE run
      /\ env' = [env EXCEPT !.flows = FALSE] /\ quiet' = quiet
  BY DEF Recovering!Disconnected, Recovering!State
<1>3. x.r = r /\ x.cs = cs
  OBVIOUS
<1>4. ResOk(r)
  <2>1. res.waiting => res.shows = "applying"
    BY <1>1 DEF ResOk
  <2>2. r = [res EXCEPT !.connected = FALSE, !.replacement = 0, !.armed = FALSE]
    OBVIOUS
  <2> HIDE DEF r, cs, x
  <2>3. r = [target |-> res.target, completed |-> res.completed, waiting |-> res.waiting,
             timer |-> res.timer, connected |-> FALSE, old |-> res.old,
             replacement |-> 0, armed |-> FALSE, shows |-> res.shows]
    BY <1>1, <2>2 DEF ResOk
  <2> QED BY <2>1, <2>3, ResRecord
<1>5. Outlived(cs)
  BY <1>1, ResCleared
<1> HIDE DEF r, cs, x
<1>6. ResOk(res') /\ Outlived(calls')
  <2>1. CASE final
    <3>1. PICK z : z = Recovering!Cancelled(x)
      OBVIOUS
    <3>2. \A c \in cs : CallShaped(c)
      BY <1>5 DEF Outlived
    <3>3. ResOk(z.r) /\ Outlived(z.cs)
      BY <1>3, <1>4, <3>1, <3>2, Cancels
    <3>4. Outlived(Recovering!Cleared(z.cs, "run"))
      BY <3>3, ClearedCalls DEF Outlived
    <3> QED BY <1>2, <2>1, <3>1, <3>3, <3>4
  <2> QED BY <1>2, <1>4, <1>5, <2>1
<1>7. WatchOk(run') /\ run'.since = run.since /\ run'.frozen = run.frozen
      /\ (run'.shows = run.shows \/ run'.shows = Recovering!None)
  <2>1. CASE final
    <3> DEFINE w == Recovering!Outdated(run)
    <3>1. WatchOk(w) /\ w.since = run.since /\ w.frozen = run.frozen
      BY <1>1, RunFields
    <3>2. run' = [w EXCEPT !.enabled = FALSE, !.shows = Recovering!None]
      BY <1>2, <2>1
    <3> HIDE DEF w
    <3>3. run' = [enabled |-> FALSE, since |-> w.since, frozen |-> w.frozen,
                  notice |-> w.notice, fetch |-> w.fetch, due |-> w.due,
                  shows |-> Recovering!None]
          /\ w.since \in 0 .. Patience
      BY <3>1, <3>2 DEF WatchOk
    <3> QED BY <3>1, <3>3 DEF WatchOk
  <2> QED BY <1>1, <1>2, <2>1
<1>8. env' = [source |-> env.source, size |-> env.size, flows |-> FALSE,
              hidden |-> env.hidden, paused |-> env.paused, cancels |-> env.cancels,
              fault |-> env.fault]
  BY <1>2 DEF RecoveryInv
<1>9. ShownStep
  BY <1>7, <1>8 DEF ShownStep, Recovering!None
<1>10. Made(res', calls')
  BY <1>6, OutlivedMade
<1>11. ~env'.hidden /\ ~run'.frozen => run'.since = quiet'
  BY <1>2, <1>7, <1>8 DEF RecoveryInv
<1>12. /\ EnvOk(env') /\ env'.source \in Nat /\ env'.flows = FALSE
       /\ quiet' \in 0 .. Patience
  BY <1>2, <1>8 DEF RecoveryInv, EnvOk
<1> QED BY <1>6, <1>7, <1>9, <1>10, <1>11, <1>12 DEF RecoveryInv, WatchOk, EnvOk

LEMMA VideoAttachedStep ==
  ASSUME RecoveryInv, Recovering!VideoAttached
  PROVE  RecoveryInv' /\ ShownStep
<1>1. /\ ResOk(res) /\ Made(res, calls) /\ WatchOk(run) /\ Patience \in Nat
      /\ env.source \in Nat
  BY CountAssumption DEF RecoveryInv, WatchOk
<1> DEFINE source == env.source + 1
           watched == Recovering!Watching(calls, source)
           r == [res EXCEPT !.replacement = source, !.armed = FALSE]
           y == [r |-> r, cs |-> Recovering!Cleared(watched, "res")]
<1>2. /\ env' = [env EXCEPT !.source = source, !.flows = TRUE]
      /\ IF res.waiting /\ source # res.old
         THEN /\ res' = Recovering!FrameArmed(y, source).r
              /\ calls' = Recovering!FrameArmed(y, source).cs
         ELSE res' = res /\ calls' = watched
      /\ run' = Recovering!Outdated(run) /\ quiet' = quiet
  BY DEF Recovering!VideoAttached, Recovering!State, Recovering!Become
<1>3. source \in Nat /\ source # 0
  BY <1>1
<1>4. Made(res, watched) /\ Watched(watched, source)
  BY <1>1, <1>3, WatchStarts
<1>5. y = [r |-> y.r, cs |-> y.cs] /\ y.r = r
      /\ y.cs = Recovering!Cleared(watched, "res")
  OBVIOUS
<1>6. r = [res EXCEPT !.replacement = source, !.armed = FALSE]
  OBVIOUS
<1>7. env' = [source |-> source, size |-> env.size, flows |-> TRUE,
              hidden |-> env.hidden, paused |-> env.paused, cancels |-> env.cancels,
              fault |-> env.fault]
  <2> HIDE DEF source, watched, r, y
  <2> QED BY <1>2 DEF RecoveryInv
<1> HIDE DEF source, watched, r, y
<1>8. ResOk(res') /\ Made(res', calls') /\ Watched(calls', source)
      /\ res'.waiting = res.waiting
  <2>1. CASE res.waiting /\ source # res.old
    <3>1. PICK z : z = Recovering!FrameArmed(y, source)
      OBVIOUS
    <3>2. res' = z.r /\ calls' = z.cs
      BY <1>2, <2>1, <3>1
    <3>3. r = [target |-> res.target, completed |-> res.completed,
               waiting |-> res.waiting, timer |-> res.timer,
               connected |-> res.connected, old |-> res.old,
               replacement |-> source, armed |-> FALSE, shows |-> res.shows]
      BY <1>1, <1>6 DEF ResOk
    <3>4. res.waiting => res.shows = "applying"
      BY <1>1 DEF ResOk
    <3>5. ResOk(r)
      BY <2>1, <3>3, <3>4, ResRecord
    <3>6. r.waiting = res.waiting
      BY <3>3
    <3>7. \A c \in watched : CallShaped(c)
      BY <1>4, MadeShaped
    <3>8. Outlived(y.cs) /\ WatchKept(watched, y.cs)
      BY <1>5, <3>7, ResCleared
    <3>9. Made(y.r, y.cs)
      BY <3>8, OutlivedMade
    <3>10. ResOk(z.r) /\ Made(z.r, z.cs) /\ WatchKept(y.cs, z.cs)
           /\ z.r.waiting = y.r.waiting
      BY <1>5, <3>1, <3>5, <3>9, Arms
    <3>11. Watched(z.cs, source)
      BY <1>4, <3>8, <3>10 DEF Watched, WatchKept
    <3> QED BY <1>5, <3>2, <3>6, <3>10, <3>11
  <2>2. CASE ~(res.waiting /\ source # res.old)
    BY <1>1, <1>2, <1>4, <2>2
  <2> QED BY <2>1, <2>2
<1>9. WatchOk(run') /\ run'.since = run.since /\ run'.frozen = run.frozen
      /\ run'.shows = run.shows
  BY <1>1, <1>2, RunFields
<1>10. ShownStep
  BY <1>8, <1>9 DEF ShownStep
<1>11. ~env'.hidden /\ ~run'.frozen => run'.since = quiet'
  BY <1>2, <1>7, <1>9 DEF RecoveryInv
<1>12. /\ EnvOk(env') /\ env'.source = source /\ quiet' \in 0 .. Patience
  BY <1>2, <1>7 DEF RecoveryInv, EnvOk
<1> QED BY <1>3, <1>8, <1>9, <1>10, <1>11, <1>12 DEF RecoveryInv, WatchOk, EnvOk

\* A frame is always listened for, so that silence is told by none that comes.
LEMMA FrameStep ==
  ASSUME RecoveryInv, NEW size, Recovering!Frame(size)
  PROVE  RecoveryInv' /\ ShownStep
<1>1. /\ ResOk(res) /\ Made(res, calls) /\ WatchOk(run) /\ Patience \in Nat
      /\ Watched(calls, env.source) /\ env.source \in Nat /\ env.source # 0
  BY CountAssumption DEF RecoveryInv, WatchOk, Recovering!Frame
<1> DEFINE x == Recovering!FrameSeen([r |-> res, cs |-> {}], calls, size)
           h == Recovering!Heard(run)
<1>2. \E c \in calls : c.of = "run" /\ c.live /\ c.source = env.source
  BY <1>1 DEF Watched
<1>3. /\ env' = [env EXCEPT !.size = size]
      /\ res' = x.r /\ calls' = Recovering!Armed(x.cs, "run", env.source)
      /\ run' = [h EXCEPT !.shows = Recovering!None] /\ quiet' = 0
  BY <1>2 DEF Recovering!Frame, Recovering!State
<1>4. /\ ResOk(x.r) /\ Made(x.r, x.cs)
      /\ res.waiting /\ ~x.r.waiting =>
           res.connected /\ env.source # res.old /\ size = res.target
  BY <1>1, Sees
<1>5. WatchOk(h) /\ h.since = 0
  BY <1>1, RunFields
<1> HIDE DEF x, h
<1>6. run' = [enabled |-> h.enabled, since |-> h.since, frozen |-> h.frozen,
              notice |-> h.notice, fetch |-> h.fetch, due |-> h.due,
              shows |-> Recovering!None]
      /\ h.since \in 0 .. Patience
  BY <1>3, <1>5 DEF WatchOk
<1>7. WatchOk(run') /\ run'.since = 0 /\ run'.shows = Recovering!None
  BY <1>5, <1>6 DEF WatchOk
<1>8. env' = [source |-> env.source, size |-> size, flows |-> env.flows,
              hidden |-> env.hidden, paused |-> env.paused, cancels |-> env.cancels,
              fault |-> env.fault]
  BY <1>3 DEF RecoveryInv
<1>9. EnvOk(env') /\ env'.source = env.source /\ env'.size = size
  BY <1>8 DEF EnvOk
<1> DEFINE e == [of |-> "run", source |-> env.source, live |-> TRUE]
<1>10. calls' = x.cs \cup {e} /\ CallShaped(e) /\ e.of = "run" /\ e.live
       /\ e.source = env.source
  BY <1>3 DEF Recovering!Armed, CallShaped
<1> HIDE DEF e
<1>11. Made(res', calls') /\ Watched(calls', env.source)
  BY <1>3, <1>4, <1>10 DEF Made, Watched
<1>12. ShownStep
  BY <1>3, <1>4, <1>7, <1>9 DEF ShownStep, Recovering!None
<1>13. quiet' = 0 /\ 0 \in 0 .. Patience
  BY <1>1, <1>3
<1> QED BY <1>1, <1>3, <1>4, <1>7, <1>9, <1>11, <1>12, <1>13
   DEF RecoveryInv, WatchOk, EnvOk

LEMMA RecoveryNext == RecoveryInv /\ Recovering!Next => RecoveryInv' /\ ShownStep
<1> SUFFICES ASSUME RecoveryInv, Recovering!Next PROVE RecoveryInv' /\ ShownStep
  OBVIOUS
<1> QED BY ResSteps, RunSteps, AnswerStep, DisconnectedStep, VideoAttachedStep, FrameStep
   DEF Recovering!Next

LEMMA RecoveryStep == RecoveryInv /\ [Recovering!Next]_recoveryVars => RecoveryInv'
<1>1. RecoveryInv /\ UNCHANGED recoveryVars => RecoveryInv'
  BY DEF recoveryVars, RecoveryInv
<1> QED BY <1>1, RecoveryNext

\* A resolution that counts as applied is shown, and silence is real.
LEMMA RecoveryShows ==
  RecoveryInv /\ [Recovering!Next]_recoveryVars =>
    /\ [res.waiting /\ ~res'.waiting /\ res'.shows = Recovering!None /\ env'.flows =>
          /\ res.connected
          /\ env.source # res.old
          /\ env'.size = res.target]_recoveryVars
    /\ [run.shows # "silent" /\ run'.shows = "silent" => quiet = Patience]_recoveryVars
BY RecoveryNext DEF ShownStep

-----------------------------------------------------------------------------
(* The page: every component's invariant, whichever component runs.        *)

BrowserInv ==
  /\ MouseInv /\ TouchInv /\ PadInv /\ XrInv
  /\ PathInv /\ EvidenceInv
  /\ BootInv /\ BootKept /\ EndInv /\ PlayerInv /\ RecoveryInv

LEMMA BrowserInit == Init => BrowserInv
BY MouseInit, TouchInit, PadInit, XrInit, PathInit, EvidenceInit, BootInit, KeptInit,
   EndInit, PlayerInit, RecoveryInit
   DEF Init, BrowserInv

\* A step of the page is a step of each component, or none of its variables change.
LEMMA StepOfEach ==
  [Next]_vars =>
    /\ [Rodent!Next]_mouseVars /\ [Fingering!Next]_touchVars /\ [Padding!Next]_gamepadVars
    /\ [Xr!Next]_xrVars /\ [Path!Next]_pathVars /\ [Evidence!Next]_evidenceVars
    /\ [Boot!Next]_bootstrapVars /\ [Ending!Next]_endVars /\ [Player!Next]_playerVars
    /\ [Recovering!Next]_recoveryVars
<1>1. CASE UNCHANGED vars
  BY <1>1 DEF vars
<1>2. CASE Next
  <2>1. (component # "mouse" => UNCHANGED mouseVars)
        /\ (component # "touch" => UNCHANGED touchVars)
        /\ (component # "gamepad" => UNCHANGED gamepadVars)
        /\ (component # "xr" => UNCHANGED xrVars)
        /\ (component # "path" => UNCHANGED pathVars)
        /\ (component # "evidence" => UNCHANGED evidenceVars)
        /\ (component # "bootstrap" => UNCHANGED bootstrapVars)
        /\ (component # "end" => UNCHANGED endVars)
        /\ (component # "player" => UNCHANGED playerVars)
        /\ (component # "recovery" => UNCHANGED recoveryVars)
    BY <1>2 DEF Next, Rest
  <2>2. (component = "mouse" => Rodent!Next) /\ (component = "touch" => Fingering!Next)
        /\ (component = "gamepad" => Padding!Next) /\ (component = "xr" => Xr!Next)
        /\ (component = "path" => Path!Next) /\ (component = "evidence" => Evidence!Next)
        /\ (component = "bootstrap" => Boot!Next) /\ (component = "end" => Ending!Next)
        /\ (component = "player" => Player!Next)
        /\ (component = "recovery" => Recovering!Next)
    BY <1>2 DEF Next
  <2> QED BY <2>1, <2>2
<1> QED BY <1>1, <1>2

LEMMA BrowserHolds == Spec => []BrowserInv
<1>1. BrowserInv /\ [Next]_vars => BrowserInv'
  BY StepOfEach, MouseStep, TouchStep, PadStep, XrStep, PathStep, EvidenceStep, BootStep,
     KeptStep, EndStep, PlayerStep, RecoveryStep
  DEF BrowserInv
<1> QED BY <1>1, BrowserInit, PTL DEF Spec

\* What the page tracks of an input device is what the device does: no button that was let
\* go of stays down in Unreal, no two fingers share a number, the polling of gamepads
\* neither dies nor doubles, and a VR controller is shown as it was last seen
\* (MouseController.ts, TouchController.ts:97, GamepadController.ts, WebXRController.ts).
THEOREM InputsTracked == Spec => []InputsAreTracked
<1>1. BrowserInv => InputsAreTracked
  <2>1. MouseInv => Rodent!NothingSticks
    BY DEF MouseInv, Rodent!NothingSticks
  <2> QED BY <2>1, TouchSound, PadSound, XrSound DEF BrowserInv, InputsAreTracked
<1> QED BY <1>1, BrowserHolds, PTL

\* No report of the page claims what did not happen: time or video of a gap between peers,
\* of a suspended tab or of an earlier connection is not counted, video is confirmed only
\* after it was presented and received, and a path is held back only while a request with
\* it is under way (SessionQuality.ts:16, player.ts:982, 1030).
THEOREM ReportsTrue == Spec => []ReportsAreTrue
<1>1. BrowserInv => ReportsAreTrue
  BY EvidenceSound, PathSound DEF BrowserInv, ReportsAreTrue
<1> QED BY <1>1, BrowserHolds, PTL

\* Whatever the awaits of handleWebRtcOffer let happen, an answer carries the generation
\* of the offer it answers and leaves over the socket that offer came by; and the End
\* control acts for the session whose ticket the page connects with (player.ts:625).
THEOREM StaleUnused == Spec => []StaleIsUnused
<1>1. BrowserInv => StaleIsUnused
  BY PlayerSound DEF BrowserInv, BootInv, StaleIsUnused
<1> QED BY <1>1, BrowserHolds, PTL

\* A connection that nothing will bring back leaves an overlay to act on, the page gives
\* its session up only when it is over, and outside an attempt to end it the stream has
\* its inputs and reconnections back (WebRtcPlayerController.ts, endSession.ts:165).
THEOREM NobodyStranded == Spec => []NobodyIsStranded
<1>1. BrowserInv => NobodyIsStranded
  BY PlayerSound, EndSound DEF BrowserInv, NobodyIsStranded
<1> QED BY <1>1, BrowserHolds, PTL

\* Once the tab was told that a session has ended, no load of the tab connects with its
\* ticket or asks the manager for a new one; and a trip to the manager keeps the settings
\* the user had in the URL (player.ts:708, 1068).
THEOREM EndedForgotten == Spec => EndedIsForgotten
<1>1. BrowserInv /\ [Next]_vars =>
        /\ [bootstrapLeft' < bootstrapLeft =>
              {bootstrapPage'.ticket.of, bootstrapPage'.context.of} \cap bootstrapOver = {}
           ]_<<url, stored, bootstrapPage, bootstrapOver, chosen, bootstrapLeft>>
        /\ [Boot!Return /\ bootstrapPage'.at = "player" => url'.settings = chosen
           ]_<<url, stored, bootstrapPage, bootstrapOver, chosen, bootstrapLeft>>
  BY StepOfEach, BootLoads DEF BrowserInv, bootstrapVars
<1> QED BY <1>1, BrowserHolds, PTL
   DEF Spec, EndedIsForgotten, Boot!EndedIsForgotten, Boot!SettingsSurvive, Boot!vars

\* What the page says of its stream is so: a resolution is applied only on a frame of that
\* size from a video attached after the reconnection began, and the video is silent only
\* when frames were due and missing for the whole wait (resolutionRecovery.ts:77,
\* runtimeRecovery.ts:90).
THEOREM ShownReal == Spec => ShownIsReal
<1>1. BrowserInv /\ [Next]_vars =>
        /\ [res.waiting /\ ~res'.waiting /\ res'.shows = Recovering!None /\ env'.flows =>
              /\ res.connected
              /\ env.source # res.old
              /\ env'.size = res.target]_<<env, res, run, calls, quiet, recoveryLeft>>
        /\ [run.shows # "silent" /\ run'.shows = "silent" => quiet = Patience
           ]_<<env, res, run, calls, quiet, recoveryLeft>>
  BY StepOfEach, RecoveryShows DEF BrowserInv, recoveryVars
<1> QED BY <1>1, BrowserHolds, PTL
   DEF Spec, ShownIsReal, Recovering!AppliedIsShown, Recovering!SilenceIsReal,
       Recovering!vars

=============================================================================
