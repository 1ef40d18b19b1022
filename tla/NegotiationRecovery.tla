------------------------ MODULE NegotiationRecovery ------------------------
(***************************************************************************)
(* How the server finds out that Unreal no longer answers.  The time a     *)
(* signed request has waited for an SDP from the streamer is summed over   *)
(* its sockets (negotiation-recovery.ts), fed by the events of             *)
(* PlayerConnection and asked by the health timer; each socket also has a  *)
(* deadline of its own.  Either marks the streamer stalled, as the health  *)
(* file the watchdog reads says until a response clears the mark           *)
(* (wireSignallingRuntimeStatus).                                          *)
(*                                                                         *)
(* There is one streamer; a replacement is a new object.  Viewers are      *)
(* governed, validated and no shadows.                                     *)
(***************************************************************************)
EXTENDS Integers, FiniteSets

CONSTANTS
  Players,     \* places for a viewer's socket
  Requests,
  Request,     \* [Players -> Requests], the request each socket is signed for
  FaultAfter,  \* ticks of unanswered waiting: 60 s
  PruneAfter,  \* ticks after which a request nobody waits for is forgotten
  MaxTime      \* bound

\* A definition whose comment says "Mutant" is a faulty variant of the one below it.

VARIABLES
  n,       \* the server: waits, viewers' sockets, the stalled mark
  now,
  due,     \* the health timer has yet to fire in this tick
  waited   \* history: ticks a viewer of the request waited for the streamer

vars == <<n, now, due, waited>>

None == [elapsed |-> -1]

Wait == [elapsed: 0 .. MaxTime, since: 0 .. MaxTime, lastSeen: 0 .. MaxTime,
         players: SUBSET Players, reported: BOOLEAN]

\* A socket: not there, without a subscription, waiting for Unreal's SDP,
\* offered (the browser has yet to answer), or negotiated; and the time since
\* its deadline was set, -1 without one.
Socket == [at: {"gone", "open", "waiting", "offered", "negotiated"},
           age: -1 .. FaultAfter]

Gone == [at |-> "gone", age |-> -1]

Timed(socket) == [socket EXCEPT !.age = IF @ = -1 THEN 0 ELSE @]

\* A deadline that runs is one period older.
Older(socket) == IF socket.age = -1 THEN socket ELSE [socket EXCEPT !.age = @ + 1]

Waiting(m, q) ==
  {p \in Players : Request[p] = q /\ m.socket[p].at = "waiting"}

-----------------------------------------------------------------------------
(* class NegotiationRecovery                                               *)

Forgotten(w) ==
  w # None /\ w.players = {} /\ now - w.lastSeen > PruneAfter

\* prune
Prune(m) ==
  [m EXCEPT !.wait = [q \in Requests |->
                        IF Forgotten(@[q]) THEN None ELSE @[q]]]

Late(w) ==
  /\ w # None
  /\ ~w.reported
  /\ w.players # {}
  /\ w.elapsed + (now - w.since) >= FaultAfter

\* check, which writeStreamerHealthSnapshot begins with; the fault is emitted
\* as streamer_negotiation_timeout.
Check(m) ==
  LET k == Prune(m)
      late == {q \in Requests : Late(k.wait[q])}
  IN  [k EXCEPT !.wait = [q \in Requests |->
                            IF q \in late THEN [@[q] EXCEPT !.reported = TRUE]
                            ELSE @[q]],
                !.stalled = @ \/ late # {}]

\* Mutant: the clock of a request is not restarted when waiting resumes.
ResumedAt(w) == w.since

Since(w) == IF w.players = {} THEN now ELSE w.since

\* started
Begin(m, p) ==
  LET q == Request[p]
      k == Prune(m)
      w == IF k.wait[q] # None THEN k.wait[q] ELSE
           [elapsed |-> 0, since |-> now, lastSeen |-> now, players |-> {},
            reported |-> FALSE]
  IN  Check([k EXCEPT !.wait[q] =
               [w EXCEPT !.since = Since(w), !.players = @ \cup {p},
                         !.lastSeen = now]])

\* abandoned
Abandon(m, p) ==
  LET q == Request[p]
      w == m.wait[q]
      rest == w.players \ {p}
  IN  IF w = None \/ p \notin w.players THEN m
      ELSE [m EXCEPT !.wait[q] =
              [w EXCEPT !.players = rest, !.lastSeen = now,
                        !.elapsed = IF rest = {} THEN @ + (now - w.since)
                                    ELSE @]]

\* streamer_negotiation_response: responded, and the mark is cleared; only
\* then is the health file written, and the waits looked at.
Respond(m, q) ==
  LET k == [m EXCEPT !.wait[q] = None, !.stalled = FALSE]
  IN  IF m.stalled THEN Check(k) ELSE k

\* The history is kept as long as the request is.
Remembered(m) ==
  [q \in Requests |-> IF m.wait[q] = None THEN 0 ELSE waited[q]]

-----------------------------------------------------------------------------
(* PlayerConnection                                                        *)

\* unsubscribe
Left(m, p, socket) == [Abandon(m, p) EXCEPT !.socket[p] = socket]

Connect(p) ==
  /\ n.socket[p].at = "gone"
  /\ n' = [n EXCEPT !.socket[p] = [at |-> "open", age |-> 0]]
  /\ UNCHANGED <<now, due, waited>>

\* subscribe, also of a socket that is subscribed already.
Subscribe(p) ==
  /\ n.up
  /\ n.socket[p].at # "gone"
  /\ LET k == Left(n, p, [Timed(n.socket[p]) EXCEPT !.at = "waiting"])
     IN  /\ n' = Begin(k, p)
         /\ waited' = Remembered(Prune(k))
  /\ UNCHANGED <<now, due>>

Unsubscribe(p) ==
  /\ n.socket[p].at \in {"waiting", "offered", "negotiated"}
  /\ n' = Left(n, p, [n.socket[p] EXCEPT !.at = "open"])
  /\ UNCHANGED <<now, due, waited>>

Close(p) ==
  /\ n.socket[p].at # "gone"
  /\ n' = Left(n, p, Gone)
  /\ UNCHANGED <<now, due, waited>>

\* Unreal's SDP for one socket ends the waiting of its whole request.
Response(p) ==
  /\ n.up
  /\ n.socket[p].at = "waiting"
  /\ n' = Respond([n EXCEPT !.socket[p].at = "offered"], Request[p])
  /\ waited' = Remembered(n')
  /\ UNCHANGED <<now, due>>

\* The browser's answer; the deadline of the socket is cancelled.
Answer(p) ==
  /\ n.socket[p].at = "offered"
  /\ n' = [n EXCEPT !.socket[p] = [at |-> "negotiated", age |-> -1]]
  /\ UNCHANGED <<now, due, waited>>

\* negotiationTimer: one deadline for capabilities, subscription and SDP.
Deadline(p) ==
  /\ n.socket[p].age = FaultAfter
  /\ LET k == IF n.socket[p].at = "waiting"
              THEN Check([n EXCEPT !.stalled = TRUE]) ELSE n
     IN  /\ n' = Left(k, p, Gone)
         /\ waited' = Remembered(k)
  /\ UNCHANGED <<now, due>>

\* The streamer is lost, and every viewer with it; or a new one is there.
Replace ==
  /\ n' = IF n.up
          THEN Check([n EXCEPT !.up = FALSE, !.stalled = FALSE,
                                  !.wait = [q \in Requests |-> None],
                                  !.socket = [p \in Players |->
                                    IF @[p].at = "open" THEN @[p] ELSE Gone]])
          ELSE Check([n EXCEPT !.up = TRUE])
  /\ waited' = Remembered(n')
  /\ UNCHANGED <<now, due>>

\* streamerHealthTimer, heartbeats and pings
HealthTimer ==
  /\ due
  /\ n' = Check(n)
  /\ due' = FALSE
  /\ waited' = Remembered(n')
  /\ UNCHANGED now

\* A tick is as long as the health timer's interval, or longer.
Tick ==
  /\ now < MaxTime
  /\ ~due
  /\ \A p \in Players : n.socket[p].age < FaultAfter
  /\ now' = now + 1
  /\ due' = TRUE
  /\ n' = [n EXCEPT !.socket = [p \in Players |-> Older(@[p])]]
  /\ waited' = [q \in Requests |->
                  IF n.wait[q] # None /\ Waiting(n, q) \cap n.wait[q].players # {}
                  THEN waited[q] + 1 ELSE waited[q]]

-----------------------------------------------------------------------------
Init ==
  /\ n = [up |-> TRUE, stalled |-> FALSE,
          wait |-> [q \in Requests |-> None],
          socket |-> [p \in Players |-> Gone]]
  /\ now = 0
  /\ due = FALSE
  /\ waited = [q \in Requests |-> 0]

Next ==
  \/ \E p \in Players :
       \/ Connect(p) \/ Subscribe(p) \/ Unsubscribe(p) \/ Close(p)
       \/ Response(p) \/ Answer(p) \/ Deadline(p)
  \/ Replace \/ HealthTimer \/ Tick

Spec == Init /\ [][Next]_vars

-----------------------------------------------------------------------------
(* Properties.                                                             *)

TypeOK ==
  /\ n.wait \in [Requests -> {None} \cup Wait]
  /\ n.socket \in [Players -> Socket]
  /\ {n.up, n.stalled, due} \subseteq BOOLEAN
  /\ now \in 0 .. MaxTime

\* The sum over sockets is exact: a request is reported only when its viewers
\* have waited the full time, gaps left out and overlapping sockets counted
\* once, and whoever still waits after that has been reported.
ReportsAreEarned ==
  \A q \in Requests : n.wait[q] # None =>
    /\ n.wait[q].reported => waited[q] >= FaultAfter
    /\ ~due /\ waited[q] >= FaultAfter /\ n.wait[q].players # {} =>
         n.wait[q].reported
=============================================================================
