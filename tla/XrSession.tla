------------------------------- MODULE XrSession -------------------------------
(***************************************************************************)
(* Playing with a headset: the WebXR session of the page, its frame loop,  *)
(* what it tells Unreal of the eyes and the head (WebXRController.ts), and *)
(* the controllers in the player's hands (XRGamepadController.ts).         *)
(* Matrices are values that are equal or not; a position of an eye relative*)
(* to the head keeps its three coordinates, which the code compares.       *)
(***************************************************************************)
EXTENDS Integers, FiniteSets

CONSTANTS
  None,        \* null
  Projections, \* projection matrices of the eyes
  Positions,   \* positions of an eye relative to the head: <<x, y, z>>
  Eyes,        \* the views a pose of this headset has, of "left" and "right"
  Hands,       \* handedness of the controllers
  Buttons,     \* what of a controller's buttons is pressed or touched
  Sizes,       \* sizes of the video
  MaxSessions  \* bound: sessions

\* A definition whose comment says "Mutant" is a faulty variant of the one below it.

VARIABLES
  session,  \* xrSession: "none", "asked", "opening" until its reference space, "running",
            \* "ending" until its end event
  input,    \* Flags.XRControllerInput
  loop,     \* a callback for the next frame is requested
  views,    \* [left, right] of the controller: None, or seen in some pose
  sent,     \* lastSent...: [proj, pos], of which the right eye's repeat the left one's
  texture,  \* size of the texture the video is drawn from
  message,  \* the last frame's message to Unreal; and if it was the first, or a change
  video,    \* size of the video
  pads,     \* the controllers, as the browser's live objects show them: [down, axis]
  seen,     \* controllers[hand].prevState
  shown,    \* what Unreal takes the controllers for
  sessions

vars == <<session, input, loop, views, sent, texture, message, video, pads, seen, shown, sessions>>

Resting == [down |-> {}, axis |-> 0]

\* A pose may be lost; then there is none.
Poses == {None} \cup [proj: Projections, pos: Positions]

-----------------------------------------------------------------------------
\* xrClicked: a session is asked for, or the one there is told to end, and no frame of it
\* follows.  A click before the browser has done the one or the other it refuses.
XrClicked ==
  /\ session \notin {"asked", "ending"}
  /\ IF session = "none"
     THEN sessions < MaxSessions /\ session' = "asked" /\ sessions' = sessions + 1
     ELSE session' = "ending" /\ UNCHANGED sessions
  /\ loop' = FALSE
  /\ UNCHANGED <<input, views, sent, texture, message, video, pads, seen, shown>>

\* The browser refuses a session.
Refused ==
  /\ session = "asked"
  /\ session' = "none"
  /\ UNCHANGED <<input, loop, views, sent, texture, message, video, pads, seen, shown, sessions>>

\* onXrSessionStarted: shaders and buffers are made, the reference space is asked for.
OnXrSessionStarted ==
  /\ session = "asked"
  /\ session' = "opening"
  /\ UNCHANGED <<input, loop, views, sent, texture, message, video, pads, seen, shown, sessions>>

\* The reference space is there: the first frame is asked for.
SpaceOpens ==
  /\ session = "opening"
  /\ session' = "running" /\ loop' = TRUE
  /\ UNCHANGED <<input, views, sent, texture, message, video, pads, seen, shown, sessions>>

\* The session has ended, by a click or by itself; nothing the page keeps of it is reset.
OnXrSessionEnded ==
  /\ session \in {"opening", "running", "ending"}
  /\ session' = "none" /\ loop' = FALSE
  /\ UNCHANGED <<input, views, sent, texture, message, video, pads, seen, shown, sessions>>

-----------------------------------------------------------------------------
(* What Unreal is told of the eyes.                                        *)

AreArraysEqual(a, b) == a = b

\* arePointsEqual: every coordinate is off.
ArePointsEqual(a, b) == \A i \in 1 .. 3 : a[i] # b[i]

ShouldSendEyeViews(pose) ==
  \/ sent = None
  \/ ~AreArraysEqual(pose.proj, sent.proj)
  \/ ~ArePointsEqual(pose.pos, sent.pos)

\* sendXRDataToUE: both eyes and the head, or the head alone.
SendXRDataToUE(pose) ==
  /\ message' = [kind |-> IF ShouldSendEyeViews(pose) THEN "eyes" ELSE "head",
                 news |-> sent = None \/ sent # pose]
  /\ sent' = IF ShouldSendEyeViews(pose) THEN pose ELSE sent

\* updateViews: a view that was seen once stays.
UpdateViews(pose) ==
  [left |-> IF "left" \in Eyes THEN pose ELSE views.left,
   right |-> IF "right" \in Eyes THEN pose ELSE views.right]

\* updateVideoTexture and render: all of it when the size is another, else its content.
UpdateVideoTexture == texture' = video

-----------------------------------------------------------------------------
(* The controllers.                                                        *)

\* Mutant: the previous state is the browser's live object, not a copy of it.
NotCopied(h) == pads[h]

\* prevState: a controller seen for the first time was before as it is now.
Previous(h) == IF seen[h] = None THEN pads[h] ELSE seen[h]

\* updateStatus: what is down is said in every frame, what is not any more once; an
\* axis when it moved.
UpdateStatus(h) ==
  [down |-> (shown[h].down \cup pads[h].down) \ (Previous(h).down \ pads[h].down),
   axis |-> IF pads[h].axis # Previous(h).axis THEN pads[h].axis ELSE shown[h].axis]

\* The controllers whose grip has a pose in this frame.
UpdateControllers(tracked) ==
  /\ shown' = [h \in Hands |-> IF h \in tracked THEN UpdateStatus(h) ELSE shown[h]]
  /\ seen' = [h \in Hands |-> IF h \in tracked THEN pads[h] ELSE seen[h]]

-----------------------------------------------------------------------------
\* Mutant: a frame without a pose is the last one.
AlsoLost(pose) == pose = None \/ None \in {UpdateViews(pose).left, UpdateViews(pose).right}

\* A pose with which not both eyes have been seen: the callback returns at once.
Returns(pose) ==
  pose # None /\ None \in {UpdateViews(pose).left, UpdateViews(pose).right}

\* onXrFrame: controllers are looked at only if the page's flag says so.
OnXrFrame(pose, tracked) ==
  /\ loop
  /\ views' = IF pose = None THEN views ELSE UpdateViews(pose)
  /\ loop' = ~Returns(pose)
  /\ IF pose = None \/ Returns(pose)
     THEN message' = [kind |-> "none", news |-> FALSE] /\ UNCHANGED <<sent, texture>>
     ELSE SendXRDataToUE(pose) /\ UpdateVideoTexture
  /\ IF Returns(pose) \/ ~input THEN UNCHANGED <<shown, seen>> ELSE UpdateControllers(tracked)
  /\ UNCHANGED <<session, input, video, pads, sessions>>

\* The player's hands; and the video's size.
PadChanges(h, b) ==
  /\ pads' = [pads EXCEPT ![h].down = IF b \in @ THEN @ \ {b} ELSE @ \cup {b}]
  /\ UNCHANGED <<session, input, loop, views, sent, texture, message, video, seen, shown, sessions>>

AxisMoves(h) ==
  /\ pads' = [pads EXCEPT ![h].axis = 1 - @]
  /\ UNCHANGED <<session, input, loop, views, sent, texture, message, video, seen, shown, sessions>>

VideoChanges(size) ==
  /\ video' = size
  /\ UNCHANGED <<session, input, loop, views, sent, texture, message, pads, seen, shown, sessions>>

\* The user changes the flag in the settings.
FlagChanges ==
  /\ input' = ~input
  /\ UNCHANGED <<session, loop, views, sent, texture, message, video, pads, seen, shown, sessions>>

Init ==
  /\ session = "none" /\ input \in BOOLEAN /\ loop = FALSE
  /\ views = [left |-> None, right |-> None]
  /\ sent = None /\ texture = None
  /\ message = [kind |-> "none", news |-> FALSE]
  /\ video \in Sizes
  /\ pads = [h \in Hands |-> Resting]
  /\ seen = [h \in Hands |-> None]
  /\ shown = [h \in Hands |-> Resting]
  /\ sessions = 0

Next ==
  \/ XrClicked
  \/ Refused
  \/ OnXrSessionStarted
  \/ SpaceOpens
  \/ OnXrSessionEnded
  \/ \E pose \in Poses, tracked \in SUBSET Hands : OnXrFrame(pose, tracked)
  \/ \E h \in Hands, b \in Buttons : PadChanges(h, b)
  \/ \E h \in Hands : AxisMoves(h)
  \/ \E size \in Sizes \ {video} : VideoChanges(size)
  \/ FlagChanges

Spec == Init /\ [][Next]_vars

-----------------------------------------------------------------------------
(* Properties.                                                             *)

\* Unreal holds down what a controller had down when it was last tracked, over lost
\* poses and sessions: no button sticks while it is tracked, and none is missed.
PadsAreShown ==
  \A h \in Hands : seen[h] # None => shown[h].down = seen[h].down

\* The frame loop lives as long as its session, whatever poses are lost.
LoopLives == session = "running" => loop

\* WebXRController.ts:313: the large message "changes infrequently ... Therefore, we only
\* need to send it once on startup and then any time it changes."
EyesAreSentOnChange == message.kind # "none" => (message.kind = "eyes") = message.news
=============================================================================
