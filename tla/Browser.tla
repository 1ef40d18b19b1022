-------------------------------- MODULE Browser --------------------------------
(***************************************************************************)
(* The parts of the player page that share no state, side by side: in a    *)
(* behaviour one of them runs, and the others rest.                        *)
(***************************************************************************)
EXTENDS Integers

CONSTANTS
  Nil,          \* null
  VideoSizes,   \* sizes of the video
  \* PlayerSession
  Governance, AutoPlay, Afk, Wait, MaxReconnectAttempts, MaxClicks, MaxFaults,
  \* EndSession
  MaxConfirms, MaxManager, MaxDrops,
  \* StreamRecovery
  Patience, MaxSources, MaxEvents,
  \* Mouse
  MouseButtons, Primary, Keys,
  \* Touches
  Touch, Fingers, MaxMisses,
  \* Gamepads
  Indices, MaxRounds,
  \* PlayerBootstrap
  Sessions, Queries, MaxLoads,
  \* MediaEvidence
  PeerIds, ReportEvery, AcceptEvery, EvidenceTime, MaxPeers,
  \* NetworkPath
  MaxReports, MaxFails,
  \* InputWire
  MaxSize, Values, MaxSends,
  \* XrSession
  Projections, Positions, Eyes, Hands, XrButtons, MaxSessions

\* What the components ask of their values: ticks and loads are counted, fingers have
\* numbers, a session request has a name, a pose of the headset shows both eyes, and null
\* is no state of a controller.
ASSUME CountAssumption == Patience \in Nat /\ MaxLoads \in Nat
ASSUME FingerAssumption == Fingers \subseteq Nat
ASSUME SessionAssumption == "none" \notin Sessions
ASSUME HeadsetAssumption ==
  /\ {"left", "right"} \subseteq Eyes
  /\ Nil \notin [proj: Projections, pos: Positions]
  /\ Nil \notin [down: SUBSET XrButtons, axis: {0, 1}]

VARIABLES
  component, \* the one that runs in this behaviour
  playerB, v, inbox, playerLeft,
  endPage, post, to, from, endOver, endLeft,
  env, res, run, calls, quiet, recoveryLeft,
  mouse, mousePage, keys, mouseUe,
  screen, table, fake, touchUe, touchLeft,
  hw, ctl, frames, gamepadUe, gamepadLeft,
  url, stored, bootstrapPage, bootstrapOver, chosen, bootstrapLeft,
  evidenceB, net, conn, truth, now,
  confirmed, pending, requests, server, pathLeft,
  subject, point, formats, channel, wire, got, axis, sends,
  session, input, loop, views, sent, texture, message, video, pads, seen, shown, sessions

Player == INSTANCE PlayerSession WITH b <- playerB, left <- playerLeft

Ending == INSTANCE EndSession WITH page <- endPage, over <- endOver, left <- endLeft

Recovering == INSTANCE StreamRecovery WITH Sizes <- VideoSizes, left <- recoveryLeft

Rodent == INSTANCE Mouse WITH Buttons <- MouseButtons, page <- mousePage, ue <- mouseUe

Fingering == INSTANCE Touches WITH ue <- touchUe, left <- touchLeft

Padding == INSTANCE Gamepads WITH Pads <- Indices, ue <- gamepadUe, left <- gamepadLeft

Boot == INSTANCE PlayerBootstrap WITH
  page <- bootstrapPage, over <- bootstrapOver, left <- bootstrapLeft

Evidence == INSTANCE MediaEvidence WITH
  Ids <- PeerIds, MaxTime <- EvidenceTime, b <- evidenceB

Path == INSTANCE NetworkPath WITH left <- pathLeft

Wire == INSTANCE InputWire

Xr == INSTANCE XrSession WITH
  None <- Nil, Sizes <- VideoSizes, Buttons <- XrButtons

-----------------------------------------------------------------------------
playerVars == <<playerB, v, inbox, playerLeft>>
endVars == <<endPage, post, to, from, endOver, endLeft>>
recoveryVars == <<env, res, run, calls, quiet, recoveryLeft>>
mouseVars == <<mouse, mousePage, keys, mouseUe>>
touchVars == <<screen, table, fake, touchUe, touchLeft>>
gamepadVars == <<hw, ctl, frames, gamepadUe, gamepadLeft>>
bootstrapVars == <<url, stored, bootstrapPage, bootstrapOver, chosen, bootstrapLeft>>
evidenceVars == <<evidenceB, net, conn, truth, now>>
pathVars == <<confirmed, pending, requests, server, pathLeft>>
wireVars == <<subject, point, formats, channel, wire, got, axis, sends>>
xrVars ==
  <<session, input, loop, views, sent, texture, message, video, pads, seen, shown,
    sessions>>

vars ==
  <<component,
    playerVars, endVars, recoveryVars, mouseVars, touchVars, gamepadVars,
    bootstrapVars, evidenceVars, pathVars, wireVars, xrVars>>

\* The components other than c rest.
Rest(c) ==
  /\ IF c # "player" THEN UNCHANGED playerVars ELSE TRUE
  /\ IF c # "end" THEN UNCHANGED endVars ELSE TRUE
  /\ IF c # "recovery" THEN UNCHANGED recoveryVars ELSE TRUE
  /\ IF c # "mouse" THEN UNCHANGED mouseVars ELSE TRUE
  /\ IF c # "touch" THEN UNCHANGED touchVars ELSE TRUE
  /\ IF c # "gamepad" THEN UNCHANGED gamepadVars ELSE TRUE
  /\ IF c # "bootstrap" THEN UNCHANGED bootstrapVars ELSE TRUE
  /\ IF c # "evidence" THEN UNCHANGED evidenceVars ELSE TRUE
  /\ IF c # "path" THEN UNCHANGED pathVars ELSE TRUE
  /\ IF c # "wire" THEN UNCHANGED wireVars ELSE TRUE
  /\ IF c # "xr" THEN UNCHANGED xrVars ELSE TRUE

Init ==
  /\ component \in
      {"player", "end", "recovery", "mouse", "touch", "gamepad", "bootstrap",
       "evidence", "path", "wire", "xr"}
  /\ Player!Init
  /\ component # "player" => v.up /\ v.governed = CHOOSE g \in Governance : TRUE
  /\ Ending!Init
  /\ component # "end" => endPage.direct
  /\ IF component # "recovery"
     THEN env = [source |-> 0, size |-> CHOOSE size \in VideoSizes : TRUE, flows |-> FALSE, hidden |-> FALSE,
                 paused |-> FALSE, cancels |-> FALSE, fault |-> "-"]
     ELSE TRUE
  /\ Recovering!Init
  /\ Rodent!Init
  /\ component # "mouse" => ~mouse.releases
  /\ Fingering!Init
  /\ Padding!Init
  /\ Boot!Init
  /\ Evidence!Init
  /\ Path!Init
  /\ IF component # "wire" THEN subject = "gamepad" ELSE TRUE
  /\ Wire!Init
  /\ IF component # "xr" THEN video = (CHOOSE size \in VideoSizes : TRUE) /\ input = FALSE ELSE TRUE
  /\ Xr!Init

Next ==
  /\ UNCHANGED component /\ Rest(component)
  /\ \/ component = "player" /\ Player!Next
     \/ component = "end" /\ Ending!Next
     \/ component = "recovery" /\ Recovering!Next
     \/ component = "mouse" /\ Rodent!Next
     \/ component = "touch" /\ Fingering!Next
     \/ component = "gamepad" /\ Padding!Next
     \/ component = "bootstrap" /\ Boot!Next
     \/ component = "evidence" /\ Evidence!Next
     \/ component = "path" /\ Path!Next
     \/ component = "wire" /\ Wire!Next
     \/ component = "xr" /\ Xr!Next

\* The fairness each module states, of the component that runs.
Fairness ==
  /\ WF_playerVars(component = "player" /\ Player!SocketOpens)
  /\ WF_playerVars(component = "player" /\ Player!SocketClosed)
  /\ WF_playerVars(component = "player" /\ Player!RetryFires)
  /\ WF_playerVars(component = "player" /\ Player!PollFires)
  /\ WF_playerVars(component = "player" /\ Player!Receive)
  /\ WF_playerVars(component = "player" /\ Player!Steps)
  /\ WF_playerVars(component = "player" /\ Player!IceConnects)
  /\ WF_playerVars(component = "player" /\ Player!Loaded)
  /\ WF_playerVars(component = "player" /\ Player!MediaPresented)
  /\ WF_playerVars(component = "player" /\ Player!MediaStale)
  /\ WF_playerVars(component = "player" /\ Player!AfkTimesOut)
  /\ WF_playerVars(component = "player" /\ Player!ServerHandles)
  /\ WF_playerVars(component = "player" /\ Player!StreamerOffers)
  /\ WF_playerVars(component = "player" /\ Player!NegotiationTimeout)
  /\ WF_endVars(component = "end" /\ Ending!PostLost)
  /\ WF_endVars(component = "end"
       /\ \E answer \in {"accepted", "refused"} : Ending!StatusAnswered(answer))
  /\ WF_endVars(component = "end" /\ Ending!TimesOut)
  /\ WF_recoveryVars(component = "recovery" /\ Recovering!Timeout)

Spec == Init /\ [][Next]_vars /\ Fairness

-----------------------------------------------------------------------------
(* Properties.  What each says of its component is stated in its module.   *)

\* What the page tracks of an input device is what the device does: no button the user let
\* go of stays down in Unreal, no two fingers share a number, the polling of gamepads
\* neither dies nor doubles, and a tracked VR controller is shown as it was last seen and
\* its frame loop lives as long as its session.
InputsAreTracked ==
  /\ Rodent!NothingSticks /\ Fingering!NumbersAreDistinct
  /\ Padding!PadsArePolled /\ Xr!PadsAreShown /\ Xr!LoopLives

\* What the user does arrives: the streamer takes apart what the browser put together
\* (SendMessageController.ts:199), a point of the video comes back to within a hundredth
\* of a pixel (InputCoordTranslator.ts:55), and a stick that leaves its rest slowly still
\* counts as activity before it moved 0.02.
InputArrives ==
  /\ Wire!ReadIsSent /\ Wire!PointsComeBack
  /\ Wire!SlowMovesCount

\* Reports do not claim what did not happen: no time or video of a gap between peers, of a
\* suspended tab or of an earlier connection is counted, video is confirmed only after it
\* was presented and received, and a network path is held back only while a request with
\* it is under way (SessionQuality.ts:16, player.ts:982, 1030).
ReportsAreTrue ==
  /\ Evidence!QualityIsCovered /\ Evidence!ConfirmedFlowed
  /\ Path!PendingIsInFlight

\* Nothing of an earlier peer or session is used for a later one: an answer carries the
\* generation of the offer it answers and leaves over the socket that offer came by
\* (handleWebRtcOffer's awaits), and the End control acts for the session whose ticket the
\* page connects with (player.ts:625).
StaleIsUnused == Player!AnswersMatchOffers /\ Boot!DirectEndIsOwn

\* The user always has a way on: a connection that nothing will bring back leaves an
\* overlay to act on, the page gives its session up only when it is over, and outside an
\* attempt to end it the stream has its inputs and reconnections back (endSession.ts:165).
NobodyIsStranded ==
  /\ Player!NotAbandoned
  /\ Ending!TabIsKept /\ Ending!StreamIsRestored

\* Once the tab was told that a session has ended, no load of the tab connects with its
\* ticket again; and a trip to the manager keeps the settings in the URL (player.ts:708,
\* 1068).
EndedIsForgotten == Boot!EndedIsForgotten /\ Boot!SettingsSurvive

\* What the page says of its stream is so: a resolution is applied only on a frame of that
\* size from a video attached after the reconnection began, and the video is silent only
\* when frames were due and missing for the whole wait (resolutionRecovery.ts:77,
\* runtimeRecovery.ts:90).
ShownIsReal == Recovering!AppliedIsShown /\ Recovering!SilenceIsReal

\* No wait of the page lasts: the player comes to show video, asks for a click or tells
\* that the session failed; an attempt to end the session is over or gives the dialog
\* back; a resolution arrives or its retry is offered.
WaitsEnd ==
  /\ component = "player" => Player!Settles
  /\ Ending!AttemptsEnd /\ Recovering!WaitsEnd

=============================================================================
