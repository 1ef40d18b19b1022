--------------------------- MODULE PlayerSession ---------------------------
(***************************************************************************)
(* One browser player, from its WebSocket to its overlays: the connection  *)
(* and its automatic and manual reconnection, the streamer subscription,   *)
(* the peer connections and the asynchronous steps in which one answers an *)
(* offer, the codec generations, the inactivity (AFK) timer, and what the  *)
(* page shows (WebRtcPlayerController.ts, PeerConnectionController.ts,     *)
(* AFKController.ts, KeepaliveMonitor.ts, WebSocketTransport.ts and        *)
(* Application.ts), with the part of the signalling server it talks to.    *)
(*                                                                         *)
(* There is one streamer.  Each event handler is one action; between two   *)
(* awaits of a promise any other handler runs.  Of a peer connection only  *)
(* what its pending work needs is kept: `mine` says that the work belongs  *)
(* to the current one, `here` that its offer came over this socket.        *)
(***************************************************************************)
EXTENDS Integers, Sequences, FiniteSets, SequencesExt

CONSTANTS
  Governance,    \* a subset of BOOLEAN: is the session codec-governed
  AutoPlay,      \* Flags.AutoPlayVideo
  Afk,           \* Flags.AFKDetection, with a timeout
  Wait,          \* Flags.WaitForStreamer
  MaxReconnectAttempts,
  MaxClicks,     \* bound: what the user does, or leaves undone
  MaxFaults      \* bound: lost sockets, failed negotiations, streamer changes

\* A definition whose comment says "Mutant" is a faulty variant of the one below it.

VARIABLES
  b,      \* the browser: controller, peer connection, video element, overlays
  v,      \* the server's side of the connection
  inbox,  \* messages on their way to the browser
  left    \* clicks and faults that may still happen

vars == <<b, v, inbox, left>>

\* What the page shows, and the flags that say how it may change.
Screen ==
  [overlay: {"none", "info", "error", "disconnect", "play", "afk", "stale"},
   progress: BOOLEAN,   \* isConnectionProgressOverlayActive
   presented: BOOLEAN,  \* hasPresentedMediaForCurrentConnection
   first: BOOLEAN]      \* isInitialAutoConnectPending

\* Pending work of an offer: waiting its turn, or awaiting the browser.
Work == [gen: Nat, here: BOOLEAN, mine: BOOLEAN,
         at: {"queued", "remote", "local"}]

Answer == [kind: {"answer"}, tag: Nat, gen: Nat, here: BOOLEAN]

Browser ==
  [sock: {"connecting", "open", "closing", "closed"},
   out: Seq([kind: {"list", "caps", "subscribe"}] \cup Answer),
   attempt: Nat, auto: BOOLEAN, force: BOOLEAN, reconnecting: BOOLEAN,
   retry: Nat, poll: Nat,
   gen: Nat, policy: BOOLEAN, caps: BOOLEAN,
   config: BOOLEAN, listed: BOOLEAN, selected: BOOLEAN, wanted: BOOLEAN,
   subscribed: BOOLEAN, pc: BOOLEAN, ice: BOOLEAN, work: Seq(Work),
   inputs: BOOLEAN,
   src: {"none", "old", "now"}, ready: BOOLEAN,
   playing: SUBSET {"old", "now"},           \* play() promises still pending
   asked: BOOLEAN,                           \* the current source was told to play
   received: BOOLEAN, stale: BOOLEAN,        \* media evidence, and its timer
   active: BOOLEAN, warn: BOOLEAN, counting: BOOLEAN, counted: BOOLEAN,
   idle: BOOLEAN, late: BOOLEAN,             \* history, see the properties
   screen: Screen]

\* The server's end: is it there, is a streamer, and how far is the negotiation.
Server ==
  [governed: BOOLEAN, here: BOOLEAN, up: BOOLEAN, gen: Nat, hasSub: BOOLEAN,
   neg: {"none", "waiting", "offered", "answered"}]

Messages ==
  [kind: {"config", "failed"}] \cup [kind: {"list"}, up: BOOLEAN]
    \cup [kind: {"codec"}, gen: Nat, status: {"negotiating", "restarting"}]
    \cup [kind: {"offer"}, gen: Nat] \cup [kind: {"bye"}, code: {"", "going away"}]

TypeOK ==
  /\ b \in Browser
  /\ v \in Server
  /\ inbox \in Seq(Messages)
  /\ left \in [clicks: 0 .. MaxClicks, faults: 0 .. MaxFaults]

-----------------------------------------------------------------------------
(* What the page shows: Application.                                       *)

Shown(s, o) == [s EXCEPT !.overlay = o, !.progress = FALSE]

\* showConnectionProgressOverlay: never over media, nor over a question.
Progress(s) ==
  IF s.presented \/ s.overlay \notin {"none", "info"} THEN s
  ELSE [s EXCEPT !.overlay = "info", !.progress = TRUE]

\* beginConnectionAttempt
Begun(s) ==
  [s EXCEPT !.presented = FALSE, !.overlay = "info", !.progress = TRUE]

\* onDisconnect
Disconnected(s, click, reason) ==
  LET t == [s EXCEPT !.presented = FALSE] IN
  IF s.first /\ ~click /\ ~reason THEN Progress(t)
  ELSE Shown(t, IF click THEN "disconnect" ELSE "error")

\* onMediaPresented
Presented(s) ==
  LET t == [s EXCEPT !.presented = TRUE, !.progress = FALSE] IN
  IF s.progress /\ s.overlay = "info" THEN [t EXCEPT !.overlay = "none"] ELSE t

\* handleStreamerListMessage, when no streamer could be selected.
Unlisted(s, reconnecting) == Shown(s, IF reconnecting THEN "info" ELSE "disconnect")

-----------------------------------------------------------------------------
(* The inactivity timer: AFKController.                                    *)

\* startAfkWarningTimer: a countdown under way goes on.
AfkStarted(c) == [c EXCEPT !.active = Afk, !.warn = @ \/ Afk]

\* stopAfkWarningTimer
AfkStopped(c) ==
  [c EXCEPT !.active = FALSE, !.warn = FALSE, !.counting = FALSE, !.counted = FALSE]

\* onAfkClick: the countdown stops, and is never marked as stopped.
AfkClicked(c) ==
  LET k == [c EXCEPT !.counting = FALSE] IN
  IF c.active \/ c.counted THEN AfkStarted(k) ELSE k

-----------------------------------------------------------------------------
(* Sending, and the peer connection.                                       *)

\* A socket that is closing drops what is sent on it.
Sent(c, msg) == IF c.sock = "open" THEN [c EXCEPT !.out = Append(@, msg)] ELSE c

\* sendSignallingMessage, of a subscription: the first one on a connection
\* follows the codec capabilities.
SubscribeSent(c) ==
  LET k == IF c.caps THEN c ELSE Sent([c EXCEPT !.caps = TRUE], [kind |-> "caps"])
  IN  Sent(k, [kind |-> "subscribe"])

\* Pending work of the current peer connection, now of one that is closed.
Orphaned(work) == [i \in DOMAIN work |-> [work[i] EXCEPT !.mine = FALSE]]

\* retirePeerConnectionController; the video keeps its last source.
Retired(c) ==
  IF ~c.pc THEN c
  ELSE [c EXCEPT !.pc = FALSE, !.ice = FALSE, !.work = Orphaned(@), !.asked = FALSE,
                 !.src = IF @ = "now" THEN "old" ELSE @,
                 !.playing = IF "now" \in @ THEN {"old"} ELSE @]

\* replacePeerConnectionController
Replaced(c) == [Retired(c) EXCEPT !.pc = TRUE]

-----------------------------------------------------------------------------
(* The connection.                                                         *)

\* closeSignalingServer
Closing(c, again) ==
  [c EXCEPT !.auto = again, !.sock = IF @ = "closed" THEN @ ELSE "closing"]

\* connectToSignallingServer
Connecting(c) == [c EXCEPT !.auto = TRUE, !.idle = FALSE, !.sock = "connecting"]

\* doReconnect
Reconnecting(c) ==
  LET k == [c EXCEPT !.reconnecting = TRUE] IN
  IF c.sock # "closed" THEN Closing(k, TRUE)
  ELSE Connecting([k EXCEPT !.screen = Begun(@)])

\* Mutant: the page asks for a click only when reconnecting was forbidden.
ClickWhenForbidden(c, code) == ~c.auto /\ ~c.force

\* Will the close handler leave it to the user to reconnect?
AllowClick(c, code) ==
  ~ /\ c.force \/ (c.auto /\ c.attempt < MaxReconnectAttempts)
    /\ code # "going away"

\* The handler of the transport's close event.  The peer connection is closed,
\* and only a close that nobody may retry leaves the user a click.
Closed(c, code, reason) ==
  LET click == AllowClick(c, code)
      again == c.force \/ (c.auto /\ c.attempt < MaxReconnectAttempts)
      will  == again /\ code # "going away"
      k == Retired(AfkStopped(c))
  IN  [k EXCEPT !.sock = "closed", !.out = <<>>, !.force = FALSE,
                !.subscribed = FALSE, !.inputs = FALSE, !.stale = FALSE,
                !.retry = IF will THEN @ + 1 ELSE @,
                !.screen = Disconnected(@, click, reason)]

\* The handlers of the transport's open event, the page's among them.
Opened(c) ==
  [c EXCEPT !.sock = "open", !.out = <<[kind |-> "list"]>>,
            !.policy = FALSE, !.gen = 0, !.caps = FALSE, !.subscribed = FALSE,
            !.attempt = 0, !.reconnecting = FALSE,
            !.work = [i \in DOMAIN @ |-> [@[i] EXCEPT !.here = FALSE]],
            !.received = FALSE, !.stale = FALSE, !.late = FALSE,
            !.screen = Begun(@)]

-----------------------------------------------------------------------------
(* The subscription.                                                       *)

\* handleStreamerSelectionChanged: sending on a socket that is not open throws.
Chosen(c, automatic) ==
  LET k == [c EXCEPT !.wanted = TRUE]
      r == IF ~c.policy /\ (~c.pc \/ c.subscribed) THEN Replaced(k) ELSE k
  IN  IF ~c.listed THEN c
      ELSE IF c.sock = "closed" \/ (~c.pc /\ ~c.config) \/ (automatic /\ c.subscribed)
      THEN k
      ELSE IF c.sock = "connecting" THEN [r EXCEPT !.subscribed = FALSE]
      ELSE [SubscribeSent(r) EXCEPT !.subscribed = TRUE]

\* Mutant: asking again for the list is no attempt.
AskingFreely(c) == [c EXCEPT !.reconnecting = TRUE, !.poll = @ + 1]

\* One more attempt to find a streamer.
Asking(c) == [c EXCEPT !.attempt = @ + 1, !.reconnecting = TRUE, !.poll = @ + 1]

\* handleStreamerListMessage.  Setting the options reports the selection that
\* they still hold as a change of it, before the streamer is selected.
Listed(c, up) ==
  LET gone == IF c.subscribed /\ ~up
              THEN Retired([c EXCEPT !.subscribed = FALSE]) ELSE c
      told == [gone EXCEPT !.listed = up]
      kept == IF c.selected THEN Chosen(told, FALSE) ELSE told
      took == Chosen([kept EXCEPT !.attempt = 0, !.reconnecting = FALSE,
                                  !.selected = TRUE], TRUE)
      more == c.attempt < MaxReconnectAttempts
      none == IF ~Wait THEN kept
              ELSE IF more THEN Asking(kept)
              ELSE [kept EXCEPT !.attempt = 0, !.reconnecting = FALSE, !.auto = FALSE]
  IN  IF up THEN took
      ELSE [none EXCEPT !.screen = Unlisted(@, none.reconnecting)]

\* handleSubscribeFailedMessage
SubscribeFailed(c) ==
  [c EXCEPT !.attempt = 0, !.reconnecting = FALSE, !.auto = FALSE,
            !.subscribed = FALSE, !.screen = Shown(@, "disconnect")]

\* handleCodecState
CodecState(c, gen, status) ==
  IF gen < c.gen THEN c
  ELSE LET k == [c EXCEPT !.gen = gen, !.policy = TRUE]
       IN  IF status = "restarting" /\ gen > c.gen THEN Replaced(k) ELSE k

\* handleWebRtcOffer
Offered(c, gen) ==
  IF ~c.pc THEN c
  ELSE [c EXCEPT !.work = Append(@, [gen |-> gen, here |-> TRUE, mine |-> TRUE,
                                     at |-> "queued"])]

-----------------------------------------------------------------------------
(* The browser's steps.                                                    *)

\* The page connects by itself (Flags.AutoConnect).
Init ==
  /\ b = [sock |-> "connecting", out |-> <<>>, attempt |-> 0, auto |-> TRUE,
          force |-> FALSE, reconnecting |-> FALSE, retry |-> 0, poll |-> 0,
          gen |-> 0, policy |-> FALSE, caps |-> FALSE, config |-> FALSE,
          listed |-> FALSE, selected |-> FALSE, wanted |-> FALSE,
          subscribed |-> FALSE, pc |-> FALSE, ice |-> FALSE, work |-> <<>>,
          inputs |-> FALSE, src |-> "none", ready |-> FALSE, playing |-> {},
          asked |-> FALSE, received |-> FALSE, stale |-> FALSE,
          active |-> FALSE, warn |-> FALSE, counting |-> FALSE, counted |-> FALSE,
          idle |-> FALSE, late |-> FALSE,
          screen |-> Begun([overlay |-> "none", progress |-> FALSE,
                            presented |-> FALSE, first |-> TRUE])]
  /\ \E g \in Governance, up \in BOOLEAN :
       v = [governed |-> g, here |-> FALSE, up |-> up, gen |-> 0, hasSub |-> FALSE,
            neg |-> "none"]
  /\ inbox = <<>>
  /\ left = [clicks |-> MaxClicks, faults |-> MaxFaults]

\* The server greets a new connection with the peer configuration.
SocketOpens ==
  /\ b.sock = "connecting"
  /\ b' = Opened(b)
  /\ v' = [v EXCEPT !.here = TRUE, !.gen = 0, !.hasSub = FALSE, !.neg = "none"]
  /\ inbox' = <<[kind |-> "config"]>>
  /\ UNCHANGED left

Disconnects(code, reason) ==
  /\ b' = Closed(b, code, reason)
  /\ v' = [v EXCEPT !.here = FALSE, !.neg = "none"]
  /\ inbox' = <<>>

\* The closing handshake of a socket that the browser closed, with a message unless
\* the keepalive closed it.
SocketClosed ==
  /\ b.sock = "closing"
  /\ \E reason \in BOOLEAN : Disconnects("", reason)
  /\ UNCHANGED left

\* The network drops the connection, or refuses it.
SocketLost ==
  /\ b.sock # "closed" /\ left.faults > 0
  /\ Disconnects("", FALSE)
  /\ left' = [left EXCEPT !.faults = @ - 1]

\* No pong since the last ping: KeepaliveMonitor disconnects.
KeepaliveTimeout ==
  /\ b.sock \in {"connecting", "open"} /\ left.faults > 0
  /\ b' = [b EXCEPT !.sock = "closing"]
  /\ left' = [left EXCEPT !.faults = @ - 1]
  /\ UNCHANGED <<v, inbox>>

\* The reconnect timer of a close; nothing stops it, whatever happened since.
RetryFires ==
  /\ b.retry > 0
  /\ b' = Reconnecting([b EXCEPT !.retry = @ - 1, !.attempt = @ + 1])
  /\ UNCHANGED <<v, inbox, left>>

\* The list of streamers is asked for again.
PollFires ==
  /\ b.poll > 0
  /\ b' = Sent([b EXCEPT !.poll = @ - 1], [kind |-> "list"])
  /\ UNCHANGED <<v, inbox, left>>

\* One message of the server.
Receive ==
  /\ b.sock = "open" /\ inbox # <<>>
  /\ LET msg == Head(inbox) IN
     \/ msg.kind = "bye" /\ Disconnects(msg.code, TRUE)
     \/ /\ msg.kind # "bye"
        /\ inbox' = Tail(inbox)
        /\ UNCHANGED v
        /\ \/ msg.kind = "config" /\ b' = Replaced([b EXCEPT !.config = TRUE])
           \/ msg.kind = "list" /\ b' = Listed(b, msg.up)
           \/ msg.kind = "codec" /\ b' = CodecState(b, msg.gen, msg.status)
           \/ msg.kind = "offer" /\ b' = Offered(b, msg.gen)
           \/ msg.kind = "failed" /\ b' = SubscribeFailed(b)
  /\ UNCHANGED left

\* Mutant: the steps of an offer run on whatever peer connection is current.
OutlivesItsPeer(w) == FALSE

\* Is the peer connection, or its controller, that began this work gone?
Superseded(w) == ~w.mine

\* handlePostWebrtcNegotiation, once the answer is sent.
Negotiated(c) ==
  [AfkStarted(c) EXCEPT !.inputs = TRUE, !.screen = Progress(@)]

\* The answer carries the codec generation of the moment it is sent.
Answered(c, w) ==
  Negotiated(Sent(c, [kind |-> "answer", tag |-> c.gen, gen |-> w.gen, here |-> w.here]))

\* ontrack gives the video its source; a new one has no data yet.
Tracked(c) == [c EXCEPT !.ready = @ /\ c.src = "now", !.src = "now"]

\* The next step of an offer: every await is followed by a check that the peer
\* connection is still the one that began.
WorkSteps(i) ==
  /\ i \in DOMAIN b.work
  /\ LET w == b.work[i]
         at(next) == [b EXCEPT !.work[i].at = next]
         gone == [b EXCEPT !.work = RemoveAt(@, i)]
     IN  \/ Superseded(w) /\ b' = gone
         \/ /\ ~Superseded(w)
            /\ \A j \in 1 .. (i - 1) : Superseded(b.work[j])
            /\ \/ w.at = "queued"
                  /\ b' = Tracked(at("remote"))
               \/ w.at = "remote" /\ b' = at("local")
               \/ w.at = "local" /\ b' = Answered(gone, w)
  /\ UNCHANGED <<v, inbox, left>>

\* The peers are connected: iceConnectionState, external; the page arms the timer
\* of its media evidence.
IceConnects ==
  /\ b.pc /\ ~b.ice /\ b.src = "now" /\ v.here /\ v.neg = "answered"
  /\ b' = [b EXCEPT !.ice = TRUE, !.stale = TRUE, !.screen = Progress(@)]
  /\ UNCHANGED <<v, inbox, left>>

\* playStream and playVideo: the play() promise is pending.
Played(c) ==
  IF c.src = "none" THEN c
  ELSE [c EXCEPT !.playing = @ \cup {c.src}, !.asked = c.src = "now",
                 !.screen = Shown(@, "none")]

\* handleVideoInitialized, on the first data of a new source.
Loaded ==
  /\ b.ice /\ b.src = "now" /\ ~b.ready
  /\ LET c == [b EXCEPT !.ready = TRUE, !.screen.first = FALSE]
     IN  b' = IF AutoPlay THEN Played(c)
              ELSE [c EXCEPT !.screen = Shown(@, "play")]
  /\ UNCHANGED <<v, inbox, left>>

\* The browser refuses to play, even a source of an earlier connection.
PlayRejects ==
  \E s \in b.playing :
    /\ b' = [b EXCEPT !.playing = @ \ {s}, !.asked = @ /\ s # "now",
                      !.late = @ \/ s = "old",
                      !.screen = [Shown(@, "play") EXCEPT !.presented = FALSE]]
    /\ UNCHANGED <<v, inbox, left>>

\* A frame is presented; on the page this is evidence of the media.
MediaPresented ==
  /\ b.ice /\ b.ready /\ b.asked
  /\ ~b.screen.presented \/ b.screen.progress
  /\ b' = [b EXCEPT !.playing = @ \ {"now"}, !.received = TRUE, !.stale = FALSE,
                    !.screen = LET t == Presented(@) IN
                               IF t.overlay = "stale" THEN Shown(t, "none") ELSE t]
  /\ UNCHANGED <<v, inbox, left>>

\* No frame arrived within the time allowed: the page says so.
MediaStale ==
  /\ b.stale
  /\ b' = [b EXCEPT !.stale = FALSE,
                    !.screen = IF b.received THEN @ ELSE Shown(@, "stale")]
  /\ UNCHANGED <<v, inbox, left>>

\* activateAfkEvent, when the user has done nothing for long.
AfkWarns ==
  /\ b.warn /\ left.clicks > 0
  /\ b' = [b EXCEPT !.active = FALSE, !.warn = FALSE, !.counting = TRUE,
                    !.counted = TRUE, !.screen = Shown(@, "afk")]
  /\ left' = [left EXCEPT !.clicks = @ - 1]
  /\ UNCHANGED <<v, inbox>>

\* The countdown ends: the page disconnects, for good.
AfkTimesOut ==
  /\ b.counting
  /\ b' = [AfkStopped(Closing(b, FALSE)) EXCEPT !.idle = b.sock = "open"]
  /\ UNCHANGED <<v, inbox, left>>

\* onAfkTriggered, of the warning's button: a paused video plays again.
Dismissed(c) == IF c.asked THEN AfkClicked(c) ELSE Played(AfkClicked(c))

\* The user: answers the warning, restarts the stream, plays, selects a streamer.
UserActs ==
  /\ left.clicks > 0
  /\ \/ b.counting /\ b' = Dismissed(b)
     \/ b' = Reconnecting([b EXCEPT !.force = TRUE, !.idle = FALSE,
                                       !.screen = Begun(@)])
     \/ b.screen.overlay = "play" /\ b' = Played(b)
     \/ b.listed /\ b' = Chosen([b EXCEPT !.selected = TRUE], FALSE)
  /\ left' = [left EXCEPT !.clicks = @ - 1]
  /\ UNCHANGED <<v, inbox>>

-----------------------------------------------------------------------------
(* The server's steps: PlayerConnection, for this one player.              *)

Codec(gen, status) == [kind |-> "codec", gen |-> gen, status |-> status]

\* subscribe: a second one, when governed, begins a new media generation.
Subscribed(s) ==
  LET again == s.governed /\ s.hasSub
  IN  [s EXCEPT !.gen = IF again THEN @ + 1 ELSE @, !.hasSub = TRUE, !.neg = "waiting"]

\* failCodecNegotiation: the server closes, after what it has sent.
Bye(code) ==
  /\ inbox' = Append(inbox, [kind |-> "bye", code |-> code])
  /\ v' = [v EXCEPT !.here = FALSE, !.neg = "none"]

\* The server handles one message of the player.
ServerHandles ==
  /\ v.here /\ b.out # <<>>
  /\ b' = [b EXCEPT !.out = Tail(@)]
  /\ LET msg == Head(b.out)
         says(list) == inbox' = inbox \o list
     IN  \/ msg.kind = "list" /\ says(<<[kind |-> "list", up |-> v.up]>>) /\ v' = v
         \/ /\ msg.kind = "caps" /\ v' = v
            /\ says(IF v.governed /\ ~v.hasSub THEN <<Codec(v.gen, "negotiating")>> ELSE <<>>)
         \/ /\ msg.kind = "subscribe" /\ ~v.up /\ v' = v
            /\ says(<<[kind |-> "failed"]>>)
         \/ /\ msg.kind = "subscribe" /\ v.up
            /\ v' = Subscribed(v)
            /\ says(IF v'.gen > v.gen THEN <<Codec(v'.gen, "restarting")>> ELSE <<>>)
         \/ /\ msg.kind = "answer" /\ says(<<>>)
            /\ v' = IF v.neg # "offered" \/ (v.governed /\ msg.tag # v.gen) THEN v
                    ELSE [v EXCEPT !.neg = "answered"]
  /\ UNCHANGED left

\* The streamer answers the subscription with an offer.
StreamerOffers ==
  /\ v.here /\ v.neg = "waiting"
  /\ v' = [v EXCEPT !.neg = "offered"]
  /\ inbox' = inbox \o (IF v.governed THEN <<Codec(v.gen, "negotiating")>> ELSE <<>>)
                    \o <<[kind |-> "offer", gen |-> v.gen]>>
  /\ UNCHANGED <<b, left>>

\* startNegotiationTimer: one deadline from the connection to the answer.
NegotiationTimeout ==
  /\ v.here /\ v.governed /\ v.neg # "answered"
  /\ Bye("going away")
  /\ UNCHANGED <<b, left>>

\* The streamer leaves, and its subscribed players with it, or comes back.
StreamerMoves ==
  /\ left.faults > 0
  /\ left' = [left EXCEPT !.faults = @ - 1]
  /\ LET k == [v EXCEPT !.up = ~@] IN
     IF v.up /\ v.here /\ v.neg # "none"
     THEN /\ v' = [k EXCEPT !.here = FALSE, !.neg = "none"]
          /\ inbox' = Append(inbox, [kind |-> "bye", code |-> ""])
     ELSE v' = k /\ UNCHANGED inbox
  /\ UNCHANGED b

Steps == \E i \in DOMAIN b.work : WorkSteps(i)

Next ==
  \/ SocketOpens \/ SocketClosed \/ SocketLost \/ KeepaliveTimeout
  \/ RetryFires \/ PollFires \/ Receive \/ Steps
  \/ IceConnects \/ Loaded \/ PlayRejects \/ MediaPresented \/ MediaStale
  \/ AfkWarns \/ AfkTimesOut \/ UserActs
  \/ ServerHandles \/ StreamerOffers \/ NegotiationTimeout \/ StreamerMoves

Spec == Init /\ [][Next]_vars

\* Timers fire, messages and media arrive, promises settle; nobody need act, and
\* no fault need happen.
Fairness ==
  /\ WF_vars(SocketOpens)
  /\ WF_vars(SocketClosed)
  /\ WF_vars(RetryFires)
  /\ WF_vars(PollFires)
  /\ WF_vars(Receive)
  /\ WF_vars(Steps)
  /\ WF_vars(IceConnects)
  /\ WF_vars(Loaded)
  /\ WF_vars(MediaPresented)
  /\ WF_vars(MediaStale)
  /\ WF_vars(AfkTimesOut)
  /\ WF_vars(ServerHandles)
  /\ WF_vars(StreamerOffers)
  /\ WF_vars(NegotiationTimeout)

FairSpec == Spec /\ Fairness

-----------------------------------------------------------------------------
(* Properties                                                              *)

\* An answer that leaves the browser in a governed session carries the media
\* generation of the offer it answers, and that offer came over this socket:
\* none of the awaits of handleWebRtcOffer lets an answer of a retired peer out.
AnswersMatchOffers ==
  v.governed =>
    \A i \in DOMAIN b.out :
      b.out[i].kind = "answer" => b.out[i].tag = b.out[i].gen /\ b.out[i].here

\* When the connection is gone and nothing will bring it back, the page shows
\* something the user can act on, whichever of the flags, counters and close codes
\* decided it.  (late: the rejection of a play() of an earlier peer connection has
\* replaced that since.)
NotAbandoned ==
  b.sock = "closed" /\ b.retry = 0 /\ ~b.late => b.screen.overlay = "disconnect"

\* The page never stays at its progress: it comes to show video, or asks the user
\* for a click, or tells that the session failed.
Settles ==
  <>[](b.late \/ b.screen.presented
       \/ b.screen.overlay \in {"play", "disconnect", "stale"})

\* Timing Out Inactive Connections.md: the system disconnects the session of a user
\* that does not respond.  So nothing reconnects by itself a player disconnected for
\* inactivity.
IdleStaysOut == b.idle /\ b.sock = "closed" => b.retry = 0

=============================================================================
