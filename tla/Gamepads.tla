------------------------------- MODULE Gamepads -------------------------------
(***************************************************************************)
(* Gamepads of the player page: GamepadController.ts, which announces each *)
(* pad, waits for the id Unreal gives it, and polls all pads once per      *)
(* animation frame.  Unreal and the browser's queue of frames are external.*)
(* The class may be registered again after it was unregistered, as its test*)
(* does; the page makes a new one each time.  Axes are left out.           *)
(***************************************************************************)
EXTENDS Integers, FiniteSets

CONSTANTS
  Pads,        \* the browser's indices of gamepads
  MaxRounds    \* bound: registrations, pads plugged in

\* A definition whose comment says "Mutant" is a faulty variant of the one below it.

VARIABLES
  hw,      \* the pads that are there, and those whose button is down
  ctl,     \* the GamepadController
  frames,  \* callbacks the browser may still call
  ue,      \* Unreal: ids given, answers on their way, pads and buttons it knows
  left     \* what the environment may still do

vars == <<hw, ctl, frames, ue, left>>

None == -1
Asked == -2      \* a controller whose id is still undefined
Ids == 0 .. 2 * MaxRounds

Hardware == [there: SUBSET Pads, down: SUBSET Pads]

\* `pads`: controllers, by index; `prev`: the buttons of their prevState;
\* `handle`: whether animationFrameHandle is set; `gen`: registrationGeneration.
Controller ==
  [registered: BOOLEAN, gen: Nat, handle: BOOLEAN,
   pads: [Pads -> {None, Asked} \cup Ids], prev: SUBSET Pads]

Unreal == [next: Ids, answers: SUBSET Ids, known: SUBSET Ids]

Spend ==
  /\ left > 0
  /\ left' = left - 1

Some(c) == \E p \in Pads : c.pads[p] # None

\* What scheduleUpdate asks of the browser: a frame of this generation.
Wanted(c) == c.registered /\ ~c.handle /\ Some(c)

\* scheduleUpdate
Schedule(c, fs) ==
  /\ ctl' = [c EXCEPT !.handle = @ \/ Wanted(c)]
  /\ frames' = IF Wanted(c) THEN fs \cup {c.gen} ELSE fs

\* onGamepadConnected
Added(c, p) ==
  IF ~c.registered \/ c.pads[p] # None THEN c
  ELSE [c EXCEPT !.pads[p] = Asked,
                 !.prev = IF p \in hw.down THEN @ \cup {p} ELSE @ \ {p}]

\* GamepadConnected: Unreal gives out the next id for each message.
Announced(n) ==
  [ue EXCEPT !.next = @ + n, !.answers = @ \cup (ue.next .. ue.next + n - 1),
             !.known = @ \cup (ue.next .. ue.next + n - 1)]

\* GamepadDisconnected, for the controllers that have an id.
Announce(c, ps) ==
  [ue EXCEPT !.known = @ \ {c.pads[p] : p \in ps}]

Empty == [p \in Pads |-> None]

-----------------------------------------------------------------------------
\* register: the pads that are already there are announced one after another.
Register ==
  /\ ~ctl.registered
  /\ Spend
  /\ LET c == [ctl EXCEPT !.registered = TRUE, !.gen = @ + 1,
                 !.pads = [p \in Pads |-> IF p \in hw.there THEN Asked ELSE None],
                 !.prev = hw.there \cap hw.down]
     IN  /\ Schedule(c, frames)
         /\ ue' = Announced(Cardinality(hw.there))
  /\ UNCHANGED hw

\* Mutant: the handle of the cancelled frame is kept.
Emptied(c) ==
  [c EXCEPT !.registered = FALSE, !.gen = @ + 1, !.pads = Empty, !.prev = {}]

Closed(c) ==
  [c EXCEPT !.registered = FALSE, !.gen = @ + 1, !.handle = FALSE,
            !.pads = Empty, !.prev = {}]

\* unregister; the frame it cancels may be past cancelling.
Unregister ==
  /\ ctl.registered
  /\ ctl' = Closed(ctl)
  /\ \E cancelled \in BOOLEAN :
       frames' = IF cancelled THEN frames \ {ctl.gen} ELSE frames
  /\ ue' = Announce(ctl, Pads)
  /\ UNCHANGED <<hw, left>>

\* onGamepadResponseReceived: the first controller that waits for an id.
Response(id) ==
  /\ id \in ue.answers
  /\ \A i \in ue.answers : id <= i
  /\ ue' = [ue EXCEPT !.answers = @ \ {id}]
  /\ LET waiting == {p \in Pads : ctl.pads[p] = Asked}
     IN  ctl' = IF waiting = {} THEN ctl
                ELSE [ctl EXCEPT !.pads[CHOOSE p \in waiting :
                                          \A q \in waiting : p <= q] = id]
  /\ UNCHANGED <<hw, frames, left>>

PluggedIn(p) ==
  /\ p \notin hw.there
  /\ Spend
  /\ hw' = [hw EXCEPT !.there = @ \cup {p}, !.down = @ \ {p}]
  /\ Schedule(Added(ctl, p), frames)
  /\ ue' = IF Added(ctl, p) = ctl THEN ue ELSE Announced(1)

\* onGamepadDisconnected
PulledOut(p) ==
  /\ p \in hw.there
  /\ hw' = [there |-> hw.there \ {p}, down |-> hw.down \ {p}]
  /\ ctl' = [ctl EXCEPT !.pads[p] = None, !.prev = @ \ {p}]
  /\ ue' = Announce(ctl, {p})
  /\ UNCHANGED <<frames, left>>

\* onBeforeUnload: the page may stay, when the user cancels leaving it.
BeforeUnload ==
  /\ ctl.registered
  /\ Spend
  /\ ue' = Announce(ctl, Pads)
  /\ UNCHANGED <<hw, ctl, frames>>

Button(p) ==
  /\ p \in hw.there
  /\ hw' = [hw EXCEPT !.down = IF p \in @ THEN @ \ {p} ELSE @ \cup {p}]
  /\ UNCHANGED <<ctl, frames, ue, left>>

\* The callback of scheduleUpdate, and updateStatus: what a pad's buttons did
\* since the last frame, in messages under the id, or the index without one.
Frame(gen) ==
  /\ gen \in frames
  /\ IF ~ctl.registered \/ gen # ctl.gen
     THEN frames' = frames \ {gen} /\ UNCHANGED ctl
     ELSE Schedule([ctl EXCEPT !.handle = FALSE,
                               !.prev = {p \in hw.down : ctl.pads[p] # None}],
                   frames \ {gen})
  /\ UNCHANGED <<hw, ue, left>>

-----------------------------------------------------------------------------
Init ==
  /\ hw = [there |-> {}, down |-> {}]
  /\ ctl = [registered |-> FALSE, gen |-> 0, handle |-> FALSE,
            pads |-> Empty, prev |-> {}]
  /\ frames = {}
  /\ ue = [next |-> 0, answers |-> {}, known |-> {}]
  /\ left = MaxRounds

Next ==
  \/ Register \/ Unregister \/ BeforeUnload
  \/ \E id \in ue.answers : Response(id)
  \/ \E p \in Pads : PluggedIn(p) \/ PulledOut(p) \/ Button(p)
  \/ \E gen \in frames : Frame(gen)

Spec == Init /\ [][Next]_vars

-----------------------------------------------------------------------------
(* Properties.                                                             *)

\* The polling never dies and never runs twice: while a registered controller
\* knows a pad, the browser holds one frame of its generation, whatever frames
\* of earlier registrations are still queued and however pads come and go.
PadsArePolled ==
  ctl.registered /\ Some(ctl) => ctl.handle /\ ctl.gen \in frames
=============================================================================
