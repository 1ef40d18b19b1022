---------------------------- MODULE MediaEvidence ----------------------------
(***************************************************************************)
(* What a governed player page proves of its media: the first frame, the   *)
(* window of received video and the session's quality (player.ts and       *)
(* SessionQuality.ts of the library), what the server accepts of it        *)
(* (PlayerConnection.ts, SessionQuality.ts of Signalling) and what the     *)
(* instance agent queues.  The browser's peers, their counters and the     *)
(* video element are external.  A tick is 10 s; a unit of video is what a  *)
(* window needs to be confirmed, and stands for its packets and frames.    *)
(***************************************************************************)
EXTENDS Integers, Sequences, SequencesExt

CONSTANTS
  Ids,          \* identities of the inbound video's statistics
  ReportEvery,  \* ticks between two reports of the page: 60 s
  AcceptEvery,  \* ticks between two the server accepts: 10 s
  MaxTime,      \* bound
  MaxPeers      \* bound: connections and peer connections of the page

\* A definition whose comment says "Mutant" is a faulty variant of the one below it.

VARIABLES
  b,      \* the page
  net,    \* messages on their way to the server
  conn,   \* the server's side of the connection
  truth,  \* history of this connection: ticks and video while a peer was connected
  now

vars == <<b, net, conn, truth, now>>

None == -1
Gap == 1     \* 15 s: a longer pause between two samples is not covered
Window == 1  \* MEDIA_FLOW_OBSERVATION_WINDOW_MS

NoSample == [id |-> None, at |-> 0, video |-> 0]

\* SessionQuality of the page, as `open` makes it.
NewQuality ==
  [connected |-> FALSE, baseline |-> NoSample, lastReport |-> 0, latency |-> None,
   time |-> 0, video |-> 0, covered |-> 0]

\* A peer connection, by number; 0 is none.  `shown`: a frame of this connection.
NoPeer == [n |-> 0, id |-> None, up |-> FALSE, video |-> 0]

NewConnection ==
  [startedAt |-> now, lastAt |-> None, time |-> 0, video |-> 0, covered |-> 0,
   flowSeen |-> FALSE, events |-> << >>, summary |-> 0]

\* A summary never takes more than the connected time it is about.
Nothing == [ticks |-> 0, video |-> 0, frame |-> FALSE]

-----------------------------------------------------------------------------
\* Mutant: the baseline outlives the connection of the peer.
Resumed(q, connected) == [q EXCEPT !.connected = connected, !.latency = None]

SetConnected(q, connected) ==
  [q EXCEPT !.connected = connected, !.baseline = NoSample, !.latency = None]

ObserveLatency(q, known) ==
  [q EXCEPT !.latency = IF q.connected /\ known THEN now ELSE None]

\* A sample counts with the one before it, of the same stream and not too long ago.
Paired(q, s) ==
  /\ q.baseline # NoSample /\ q.baseline.id = s.id
  /\ s.at > q.baseline.at /\ s.video >= q.baseline.video
  /\ s.at - q.baseline.at <= Gap

Observe(q, s) ==
  LET elapsed == s.at - q.baseline.at
      next == [q EXCEPT !.baseline = s]
  IN  IF ~q.connected THEN q
      ELSE IF ~Paired(q, s) THEN next
      ELSE [next EXCEPT
              !.time = @ + elapsed,
              !.video = @ + (s.video - q.baseline.video),
              !.covered = IF q.latency # None /\ now - q.latency <= 1 THEN @ + elapsed ELSE @]

ReportIsDue(q, final) ==
  /\ q.time > 0
  /\ final \/ (q.connected /\ now - q.lastReport >= ReportEvery)

Summary(q) == [type |-> "quality", time |-> q.time, video |-> q.video, covered |-> q.covered]

\* reportSessionQuality: [quality, messages]
ReportSessionQuality(q, final) ==
  IF ReportIsDue(q, final)
  THEN [quality |-> [q EXCEPT !.lastReport = now], out |-> <<Summary(q)>>]
  ELSE [quality |-> q, out |-> << >>]

-----------------------------------------------------------------------------
\* The listener of the signalling transport's `open`, a new PlayerConnection.
Open ==
  /\ ~b.open
  /\ b.gen < MaxPeers
  /\ b' = [b EXCEPT !.open = TRUE, !.quality = NewQuality, !.gen = @ + 1, !.flowGen = None,
                    !.flowReported = None]
  /\ net' = <<[type |-> "capability"]>>
  /\ conn' = NewConnection
  /\ truth' = Nothing
  /\ UNCHANGED now

\* A peer for the subscription, in place of an earlier one.
NewPeer(id) ==
  /\ b.open
  /\ b.peer.n < MaxPeers
  /\ b' = [b EXCEPT !.peer = [n |-> b.peer.n + 1, id |-> id, up |-> FALSE, video |-> 0]]
  /\ UNCHANGED <<net, conn, truth, now>>

\* webRtcConnected
Connected ==
  /\ b.open /\ b.peer.id # None /\ ~b.peer.up
  /\ b' = [b EXCEPT !.peer.up = TRUE, !.quality = SetConnected(@, TRUE)]
  /\ UNCHANGED <<net, conn, truth, now>>

\* A frame of the connected peer is presented: the callback of armMediaFrameEvidence,
\* armed since `open`.
FramePresented ==
  /\ b.open /\ b.peer.up /\ b.peer.video > 0
  /\ b.received # b.gen
  /\ b' = [b EXCEPT !.received = b.gen]
  /\ net' = Append(net, [type |-> "received"])
  /\ truth' = [truth EXCEPT !.frame = TRUE]
  /\ UNCHANGED <<conn, now>>

\* Mutant: a frame presented at any time since the page was loaded will do.
AnyFramePresented == b.received # None

FirstFramePresented == b.received = b.gen

\* The window of received video: nothing, its beginning or its report.
FlowObserved(flow) ==
  IF b.flowReported = b.gen THEN [flow |-> flow, out |-> << >>]
  ELSE IF b.flowGen # b.gen
  THEN [flow |-> [gen |-> b.gen, at |-> now, video |-> b.peer.video, reported |-> None],
        out |-> << >>]
  ELSE IF now - b.flowAt < Window THEN [flow |-> flow, out |-> << >>]
  ELSE [flow |-> [flow EXCEPT !.reported = b.gen],
        out |-> <<[type |-> "flow", frame |-> FirstFramePresented,
                   video |-> IF b.peer.video > b.flowVideo THEN b.peer.video - b.flowVideo
                             ELSE 0]>>]

\* The three listeners of statsReceived, then the one of latencyCalculated.
StatsReceived(latency) ==
  /\ b.open /\ b.peer.up
  /\ b.quality.baseline.at # now \/ b.quality.baseline = NoSample
  /\ LET seen == Observe(b.quality, [id |-> b.peer.id, at |-> now, video |-> b.peer.video])
         r == ReportSessionQuality(seen, FALSE)
         f == FlowObserved([gen |-> b.flowGen, at |-> b.flowAt, video |-> b.flowVideo,
                            reported |-> b.flowReported])
     IN  /\ b' = [b EXCEPT !.quality = ObserveLatency(r.quality, latency),
                           !.flowGen = f.flow.gen, !.flowAt = f.flow.at,
                           !.flowVideo = f.flow.video, !.flowReported = f.flow.reported]
         /\ net' = net \o r.out \o f.out
  /\ UNCHANGED <<conn, truth, now>>

\* pagehide, of a page that may come back, at most once a tick.
PageHidden ==
  /\ b.open
  /\ b.quality.lastReport # now
  /\ LET r == ReportSessionQuality(b.quality, TRUE)
     IN  r.out # << >> /\ b' = [b EXCEPT !.quality = r.quality] /\ net' = net \o r.out
  /\ UNCHANGED <<conn, truth, now>>

\* webRtcDisconnected, and the end of the connection: the final report arrives if
\* the transport is still open.
Disconnected(reported) ==
  /\ b.open
  /\ LET r == ReportSessionQuality(b.quality, TRUE)
     IN  /\ b' = [b EXCEPT !.open = FALSE, !.quality = SetConnected(r.quality, FALSE),
                           !.peer = [NoPeer EXCEPT !.n = b.peer.n]]
         /\ net' = IF reported THEN net \o r.out ELSE << >>
  /\ UNCHANGED <<conn, truth, now>>

-----------------------------------------------------------------------------
\* SessionQualityReceiver.accept
Accept(m) ==
  /\ conn.lastAt = None \/ now - conn.lastAt >= AcceptEvery
  /\ m.time > 0 /\ m.time <= now - conn.startedAt + 1
  /\ m.covered <= m.time
  /\ m.time >= conn.time /\ m.video >= conn.video /\ m.covered >= conn.covered

FlowStatus(m) == IF m.frame /\ m.video > 0 THEN "confirmed" ELSE "not_confirmed"

\* What the instance agent queues of the connection: each event once, and a summary
\* in place of the one still queued.
Queued(c, event) == [c EXCEPT !.events = Append(@, event)]

Summarised(c) == [c EXCEPT !.summary = @ + 1]

\* handleScaleWorldMediaEvidenceMessage: the first of each kind.
HandleMediaEvidence(m) ==
  CASE m.type = "flow" /\ ~conn.flowSeen -> Queued([conn EXCEPT !.flowSeen = TRUE], FlowStatus(m))
    [] m.type \in {"capability", "received"} /\ ~Contains(conn.events, m.type) ->
         Queued(conn, m.type)
    [] OTHER -> conn

\* The handler of `unhandled`.
Receive ==
  /\ net # << >>
  /\ net' = Tail(net)
  /\ LET m == Head(net)
     IN  conn' = IF m.type # "quality" THEN HandleMediaEvidence(m)
                 ELSE IF ~Accept(m) THEN conn
                 ELSE [Summarised(conn) EXCEPT !.lastAt = now, !.time = m.time,
                                               !.video = m.video, !.covered = m.covered]
  /\ UNCHANGED <<b, truth, now>>

\* Time passes, with video for the peer or without; a message takes less than a tick.
Tick(video) ==
  /\ now < MaxTime /\ net = << >>
  /\ now' = now + 1
  /\ video = 0 \/ b.peer.up
  /\ b' = [b EXCEPT !.peer.video = @ + video]
  /\ truth' = IF b.peer.up
              THEN [truth EXCEPT !.ticks = @ + 1, !.video = @ + video] ELSE truth
  /\ UNCHANGED <<net, conn>>

-----------------------------------------------------------------------------
Init ==
  /\ now = 0
  /\ b = [open |-> FALSE, gen |-> 0, peer |-> NoPeer, quality |-> NewQuality,
          received |-> None, flowGen |-> None, flowAt |-> 0, flowVideo |-> 0,
          flowReported |-> None]
  /\ net = << >>
  /\ conn = NewConnection
  /\ truth = Nothing

Next ==
  \/ Open
  \/ \E id \in Ids : NewPeer(id)
  \/ Connected
  \/ FramePresented
  \/ \E latency \in BOOLEAN : StatsReceived(latency)
  \/ PageHidden
  \/ \E reported \in BOOLEAN : Disconnected(reported)
  \/ Receive
  \/ \E video \in {0, 1} : Tick(video)

Spec == Init /\ [][Next]_vars

-----------------------------------------------------------------------------
(* Properties.                                                             *)

\* The page never counts, and the server never accepts, more time or video for a
\* connection than there was while a peer of it was connected: not the time between
\* two peers, a suspended tab, or what an earlier connection had.
QualityIsCovered ==
  /\ b.open => b.quality.time <= truth.ticks /\ b.quality.video <= truth.video
  /\ conn.time <= truth.ticks /\ conn.video <= truth.video /\ conn.covered <= conn.time

\* A confirmed window of video is confirmed of a connection that presented a frame
\* and received video, and after its first frame was told.
ConfirmedFlowed ==
  Contains(conn.events, "confirmed") =>
    /\ truth.frame /\ truth.video > 0
    /\ Last(conn.events) = "confirmed" => Contains(Front(conn.events), "received")
=============================================================================
