--------------------------- MODULE AgentCommands ---------------------------
(***************************************************************************)
(* Instance commands: how the control plane's recycle and shutdown         *)
(* commands are taken, acknowledged, started, executed and reported by     *)
(* instance-agent.ts and viewer-idle-stop.ts, through lost calls, crashes, *)
(* a torn command journal and the replacement of the whole stack.          *)
(*                                                                         *)
(* Between two awaits the process runs alone: a step is one action, and a  *)
(* handler that awaits a call leaves the call in s.calls and goes on when  *)
(* its reply, or its failure, arrives.  A control response lists the open  *)
(* commands as they were when it was sent.                                 *)
(*                                                                         *)
(* The host is held warm, without maintenance and with no other wish than  *)
(* the commands; the reconnect window and its evidence are ReconnectGrace, *)
(* the inside of the ticket gate is TicketGate: here the gate is a latch   *)
(* and the tokens it completed.  A passive recycle has no token.           *)
(***************************************************************************)
EXTENDS Integers, FiniteSets

CONSTANTS
  Recycles,     \* recycle_to_warm commands; the id of one is its token
  Shutdowns,    \* shutdown commands
  None,         \* no command, no marker
  Passive,      \* what a recycle without a token is for
  MaxListed,    \* commands the control plane has open at once
  MaxEvents     \* sessions, crashes, expiries, lost calls, failed launches and stops

Commands == Recycles \cup Shutdowns
Tokens == Recycles \cup {Passive}

ASSUME CommandAssumption ==
  Recycles \cap Shutdowns = {} /\ None \notin Commands \cup {Passive}
    /\ Passive \notin Commands

\* A definition whose comment says "Mutant" is a faulty variant of the one below it.

VARIABLES
  api,       \* the control plane's status of every command
  s,         \* memory of agent and idle stop, their files, calls in flight
  poll,      \* a control response on its way: the set of commands it lists
  up,        \* the signalling process runs
  left       \* events that may still happen

vars == <<api, s, poll, up, left>>

Open == {"pending", "acked", "running"}
Ended == {"done", "failed", "expired"}

By == {"listener", "launch", "launched", "stop", "recovered", "report"}

Kinds == {"ack", "start", "complete", "fail"}

Call == [kind: Kinds, cmd: Commands, by: By,
         reply: {"none", "accepted", "acked", "running", "ended"}]

Marker == [phase: {"intent", "replaced"}, for: Tokens]

State ==
  [active: Commands \cup {None}, st: {"acked", "running"},
   confirmed: BOOLEAN,     \* activeCommandConfirmedByApi
   recovered: Commands \cup {None},   \* recoveredActiveCommandId
   wished: BOOLEAN,        \* desiredStateConfirmedByApi
   deferred: BOOLEAN,      \* deferredRecoveredCommercialRecovery
   required: BOOLEAN,      \* reconnectGraceRecoveryRecycleRequired
   pending: Tokens \cup {None},       \* pendingRecycleCompletion
   reset: BOOLEAN,         \* resetInProgress
   ready: BOOLEAN,         \* runtimeSnapshot.status is ready
   observed: Commands \cup {None},    \* observedCommand
   resetting: BOOLEAN,     \* resetInFlight
   launching: BOOLEAN,     \* recycleLaunchInFlight
   launched: BOOLEAN,      \* recycleLaunchRequested, and its exit fallback
   passive: BOOLEAN,       \* passiveReconnectRecycleRequested
   committed: BOOLEAN,     \* commercialReconnectGraceTeardownCommitted
   retry: BOOLEAN,         \* recycleLaunchRetryTimer
   stop: {"none", "starting", "halting", "ending"},   \* stopInFlight, how far
   again: BOOLEAN,         \* the timer that tries to stop again
   capturing: Commands \cup {None},   \* whose artifacts the worker captures
   viewers: BOOLEAN, told: BOOLEAN,    \* there are, and they were told to leave
   old: SUBSET Commands,   \* superseded by the session of the viewers
   calls: SUBSET Call,
   heard: SUBSET Commands,    \* history: listed to this process as open
   \* What survives the process.
   journal: Commands \cup {None},
   marker: Marker \cup {None}, helper: BOOLEAN,
   latched: BOOLEAN, fence: SUBSET Recycles, halted: BOOLEAN]

Fresh ==
  [active |-> None, st |-> "acked", confirmed |-> TRUE, recovered |-> None,
   wished |-> FALSE, deferred |-> FALSE, required |-> FALSE, pending |-> None,
   reset |-> FALSE, ready |-> FALSE, observed |-> None, resetting |-> FALSE,
   launching |-> FALSE, launched |-> FALSE, passive |-> FALSE,
   committed |-> FALSE, retry |-> FALSE, stop |-> "none", again |-> FALSE,
   capturing |-> None, viewers |-> FALSE, told |-> FALSE, old |-> {}, calls |-> {},
   heard |-> {}, journal |-> None, marker |-> None, helper |-> FALSE,
   latched |-> FALSE, fence |-> {}, halted |-> FALSE]

-----------------------------------------------------------------------------
(* What the handlers ask.                                                  *)

Listed == {c \in Commands : api[c] \in Open}

\* Mutant: the journal's command counts before a response of this boot confirmed it.
TrackedAtOnce(x) == IF x.active # None THEN x.active ELSE x.observed

\* The command idle stop goes by: the agent's, once the control plane confirmed
\* it, else the one that is being acknowledged.
Tracked(x) == IF x.confirmed /\ x.active # None THEN x.active ELSE x.observed

\* Mutant: completed tokens are known only while the marker is there.
CompletedWithMarker(x, c) == c \in x.fence /\ x.marker # None

\* completedRecycleTokenStatus
Completed(x, c) == c \in x.fence

\* getActiveRecycleCommand
ActiveRecycle(x) ==
  IF Tracked(x) \in Recycles \ x.old /\ ~Completed(x, Tracked(x)) THEN Tracked(x)
  ELSE None

\* getActiveShutdownCommand
ActiveShutdown(x) ==
  IF Tracked(x) \in Shutdowns \ x.old THEN Tracked(x) ELSE None

Replaced(x) == x.marker # None /\ x.marker.phase = "replaced"

Intended(x) == x.marker # None /\ x.marker.phase = "intent"

\* hasRecycleLaunchInProgress
InProgress(x) == x.launched \/ Replaced(x)

\* shouldResetIntoWarmReady
Intent(x) == ActiveRecycle(x) # None \/ (x.passive /\ ~InProgress(x))

\* shouldSuppressNoViewerIdleAutomation: the host is held warm.
Suppressed(x) == ActiveShutdown(x) = None /\ ~Intent(x)

-----------------------------------------------------------------------------
(* What they do: calls, journal, status.                                   *)

Asked(x, kind, c, by) ==
  [x EXCEPT !.calls = @ \cup {[kind |-> kind, cmd |-> c, by |-> by, reply |-> "none"]}]

\* persistActiveCommand
Persisted(x, c, st) ==
  [x EXCEPT !.active = c, !.st = st, !.confirmed = TRUE, !.journal = c]

\* clearActiveCommand
Cleared(x) ==
  [x EXCEPT !.active = None, !.recovered = None, !.confirmed = TRUE, !.journal = None]

ClearedOf(x, c) == IF x.active = c THEN Cleared(x) ELSE x

\* invalidateRecoveredCommand
Invalidated(x, c) ==
  [ClearedOf(x, c) EXCEPT !.deferred = FALSE, !.required = TRUE, !.wished = FALSE]

\* publishStatus('resetting') and recordRuntimeStatus
Published(x) == [x EXCEPT !.ready = FALSE, !.reset = TRUE]

Resetting(x) == [Published(x) EXCEPT !.resetting = TRUE]

\* The status of the runtime is derived again; while it is latched a ready is
\* suppressed.
Restored(x) == IF x.latched \/ x.committed THEN x ELSE [x EXCEPT !.ready = TRUE, !.reset = FALSE]

\* The command the marker speaks for, or any recycle when there is no marker.
Correlated(x) ==
  IF x.active \in Recycles /\ x.confirmed /\ x.pending \in {None, x.active}
  THEN x.active ELSE None

\* Mutant: a ready is believed even though the gate is latched.
ReadyBelieved(x) ==
  LET done == [x EXCEPT !.latched = FALSE, !.required = FALSE,
                        !.fence = @ \cup ({x.pending} \cap Recycles)]
      y == IF x.pending # None /\ x.latched THEN done ELSE x
      r == [y EXCEPT !.ready = TRUE]
  IN IF ~y.reset /\ y.pending = None THEN r
     ELSE LET z == [r EXCEPT !.reset = FALSE, !.pending = None] IN
          IF Correlated(y) # None THEN Asked(z, "complete", Correlated(y), "report") ELSE z

\* recordRuntimeStatus, ready: a replacement completes the recovery and its token,
\* and the command it belongs to is reported complete.
ReadyRecorded(x) ==
  LET done == [x EXCEPT !.latched = FALSE, !.required = FALSE,
                        !.fence = @ \cup ({x.pending} \cap Recycles)]
      y == IF x.pending # None /\ x.latched THEN done ELSE x
      r == [y EXCEPT !.ready = TRUE]
  IN IF (~y.reset /\ y.pending = None) \/ y.latched THEN r
     ELSE LET z == [r EXCEPT !.reset = FALSE, !.pending = None] IN
          IF Correlated(y) # None THEN Asked(z, "complete", Correlated(y), "report") ELSE z

\* recordRuntimeStatus, stopping: a reset that is under way is cancelled.
StoppingRecorded(x) ==
  LET z == [x EXCEPT !.ready = FALSE, !.reset = FALSE, !.pending = None,
                     !.marker = IF x.pending # None THEN None ELSE @]
  IN IF (x.reset \/ x.pending # None) /\ Correlated(x) # None
     THEN Asked(z, "fail", Correlated(x), "report") ELSE z

-----------------------------------------------------------------------------
(* Teardown.                                                               *)

\* requestStop, up to its first await: the command is started, when there is one.
StopRequested(x) ==
  LET y == [x EXCEPT !.latched = TRUE, !.resetting = FALSE, !.launched = FALSE,
                     !.passive = FALSE]
  IN IF x.stop # "none" THEN x
     ELSE IF ~x.committed /\ x.viewers THEN Restored(y)
     ELSE IF ~x.committed /\ Suppressed(y) THEN Restored(y)
     ELSE IF ActiveShutdown(y) # None
     THEN Asked([y EXCEPT !.stop = "starting"], "start", ActiveShutdown(y), "stop")
     ELSE [y EXCEPT !.stop = "halting"]

\* What is left when a launch failed: handleStackRecycleLaunchFailure.
LaunchFailed(x) ==
  IF x.committed THEN [Resetting(x) EXCEPT !.passive = TRUE, !.retry = TRUE]
  ELSE Restored([x EXCEPT !.resetting = FALSE, !.launched = FALSE, !.passive = FALSE])

\* requestStackRecycle after its await: the marker is an intent, the helper is
\* spawned, or the launch failed and the command with it.
Launch(x, cmd, tok, ok) ==
  LET y == [x EXCEPT !.launching = FALSE] IN
  IF Replaced(x) THEN [y EXCEPT !.resetting = TRUE, !.retry = TRUE]
  ELSE IF ok
  THEN [y EXCEPT !.marker = [phase |-> "intent", for |-> tok], !.helper = TRUE,
                 !.launched = TRUE, !.retry = FALSE]
  ELSE LET z == [y EXCEPT !.marker = None, !.launched = FALSE] IN
       LaunchFailed(IF cmd # None THEN Asked(z, "fail", cmd, "report") ELSE z)

\* The command a launch starts, and the token it is for.
ToStart(x) ==
  IF Intended(x) /\ x.marker.for # ActiveRecycle(x) THEN None ELSE ActiveRecycle(x)

\* Mutant: nothing stands for a recycle without a token.
LaunchTokenless(x) == IF Intended(x) THEN x.marker.for ELSE ToStart(x)

LaunchToken(x) ==
  IF Intended(x) THEN x.marker.for
  ELSE IF ToStart(x) # None THEN ToStart(x) ELSE Passive

\* requestStackRecycle, up to its first await.
RecycleRequested(x, ok) ==
  IF x.launching \/ x.launched THEN x
  ELSE IF Replaced(x) THEN [x EXCEPT !.resetting = TRUE, !.retry = TRUE]
  ELSE IF ~x.committed /\ x.viewers THEN Restored(x)
  ELSE IF ~Intent(x) THEN Restored([x EXCEPT !.resetting = FALSE, !.retry = FALSE])
  ELSE IF Completed(x, LaunchToken(x)) THEN [x EXCEPT !.resetting = FALSE, !.retry = FALSE]
  ELSE LET y == [x EXCEPT !.latched = TRUE, !.launching = TRUE] IN
       IF ToStart(x) # None THEN Asked(y, "start", ToStart(x), "launch")
       ELSE Launch(y, None, LaunchToken(x), ok)

\* startResetWindow, without a grace.
ResetStarted(x, ok) ==
  IF Replaced(x) THEN RecycleRequested(x, ok)
  ELSE IF ~x.committed /\ x.viewers THEN x
  ELSE IF ~Intent(x) THEN x
  ELSE RecycleRequested(Resetting(x), ok)

\* tryResumeActiveRecycleCommand
RecycleResumed(x, ok) ==
  IF ActiveRecycle(x) = None \/ x.resetting \/ InProgress(x) \/ x.viewers THEN x
  ELSE ResetStarted(x, ok)

\* tryResumeActiveShutdownCommand
ShutdownResumed(x) ==
  IF ActiveShutdown(x) = None \/ x.stop # "none" \/ x.viewers THEN x
  ELSE StopRequested(x)

\* The recovery listener of idle stop: a teardown nobody finished is finished.
RecoveryHeard(x, ok) ==
  IF ~x.required \/ x.pending # None \/ x.committed THEN x
  ELSE LET y == [x EXCEPT !.committed = TRUE, !.passive = TRUE] IN
       IF Replaced(x) THEN RecycleRequested(y, ok)
       ELSE IF ActiveShutdown(x) # None THEN StopRequested(Published(y))
       ELSE ResetStarted(Published(y), ok)

-----------------------------------------------------------------------------
(* A control response.                                                     *)

\* applyCommands, what becomes of the active command.
StillOpen(x, listed) ==
  IF x.active = None THEN x
  ELSE IF x.active \in listed THEN [x EXCEPT !.confirmed = TRUE]
  ELSE IF Completed(x, x.active) THEN Cleared(x)
  ELSE Invalidated(x, x.active)

\* Mutant: the first confirmation is not news to a recovery that waits for it.
DesiredUnheard(x, listed, ok) ==
  LET y == [x EXCEPT !.wished = TRUE]
      z == IF x.wished \/ Suppressed(y) THEN y
           ELSE IF ActiveShutdown(y) # None THEN ShutdownResumed(y)
           ELSE RecycleResumed(y, ok)
  IN IF x.deferred /\ listed = {} /\ x.active = None
     THEN RecoveryHeard([z EXCEPT !.deferred = FALSE, !.required = TRUE], ok)
     ELSE z

\* applyDesiredState: the first confirmation is news to idle stop, and releases
\* the recovery of a teardown whose command is gone.
DesiredApplied(x, listed, ok) ==
  LET y == [x EXCEPT !.wished = TRUE]
      z == IF x.wished \/ Suppressed(y) THEN y
           ELSE IF ActiveShutdown(y) # None THEN ShutdownResumed(y)
           ELSE RecycleResumed(y, ok)
  IN IF x.deferred /\ listed = {} /\ x.active = None
     THEN RecoveryHeard([z EXCEPT !.deferred = FALSE, !.required = TRUE], ok)
     ELSE IF ~x.wished THEN RecoveryHeard(z, ok) ELSE z

\* failSupersededCommand
Superseded(x, c) == c # None /\ c \in x.old

\* The command listener of idle stop after its first await, which is where
\* tracked was read: what it tells the control plane of a listed command.
Verdict(x, c, tracked) ==
  IF Superseded(x, c) THEN "fail"
  ELSE IF Completed(x, c) THEN "complete"
  ELSE IF tracked = c THEN "known"
  ELSE IF tracked # None THEN "fail"
  ELSE "ack"

Taken(x, listed, tracked) == {c \in listed : Verdict(x, c, tracked) = "ack"}

\* The call that follows from a verdict.
Reaction(x, c, tracked) ==
  LET kind == Verdict(x, c, tracked) IN
  [kind |-> kind, cmd |-> c, by |-> IF kind = "ack" THEN "listener" ELSE "report",
   reply |-> "none"]

\* Every listed command is listened to; what is taken fences the gate, and the
\* last of these is the one that is observed.
Listened(x, listed, tracked, last) ==
  LET news == {c \in listed : Verdict(x, c, tracked) # "known"} IN
  [x EXCEPT !.calls = @ \cup {Reaction(x, c, tracked) : c \in news},
            !.observed = IF last # None THEN last ELSE @,
            !.latched = @ \/ last # None]

\* The command a listener finds tracked, when it is not of another session.
Known(x) == IF Superseded(x, Tracked(x)) THEN None ELSE Tracked(x)

Confirmed(x, listed) == [StillOpen(x, listed) EXCEPT !.heard = @ \cup listed]

\* applyInstanceAgentControlResponse: commands, then the desired state; every
\* listener reads the tracked command before that, and goes on after it.
ResponseApplied(x, listed, last, ok) ==
  LET y == Confirmed(x, listed)
      z == DesiredApplied(y, listed, ok)
      w == IF Superseded(y, Tracked(y)) /\ listed # {}
           THEN Asked(z, "fail", Tracked(y), "report") ELSE z
  IN Listened(w, listed, Known(y), last)

-----------------------------------------------------------------------------
(* Replies.                                                                *)

\* acknowledgeCommand, startCommand: what the reply says of the command is
\* written, and a command that ended meanwhile is invalidated.
Transitioned(x, call) ==
  LET st == IF call.reply = "accepted"
            THEN IF call.kind = "ack" THEN "acked" ELSE "running"
            ELSE call.reply
  IN IF call.reply = "ended" THEN Invalidated(x, call.cmd) ELSE Persisted(x, call.cmd, st)

\* tryStartLaunchedRecycleCommand
LaunchedStarted(x) ==
  LET c == ActiveRecycle(x) IN
  IF c = None \/ x.st = "running" \/ x.marker = None THEN x
  ELSE IF x.marker.for # c THEN x
  ELSE Asked(x, "start", c, "launched")

\* The listener after its acknowledgement.
AckReplied(x, call, ok) ==
  LET c == call.cmd
      y == [Transitioned(x, call) EXCEPT !.observed = None]
  IN IF call.reply = "ended" THEN y
     ELSE IF y.viewers THEN [y EXCEPT !.told = TRUE]
     ELSE IF c \in Shutdowns THEN StopRequested(y)
     ELSE IF InProgress(y) THEN LaunchedStarted(y)
     ELSE RecycleResumed(y, ok)

\* Whoever started the command after the reply.
StartReplied(x, call, ok) ==
  LET y == Transitioned(x, call)
      refused == call.reply = "ended"
      z == IF refused THEN [y EXCEPT !.passive = TRUE] ELSE y
  IN CASE call.by = "launch" -> Launch(z, call.cmd, call.cmd, ok)
       [] call.by = "launched" -> z
       [] call.by = "stop" -> [y EXCEPT !.stop = IF refused THEN "none" ELSE "halting"]
       [] OTHER -> y

\* A stop that ended: after a failure the runtime is down and it is tried again.
StopEnded(x) ==
  IF x.halted THEN [x EXCEPT !.stop = "none"]
  ELSE [StoppingRecorded(x) EXCEPT !.stop = "none", !.again = TRUE]

\* completeCommand, failCommand
EndReplied(x, call) ==
  LET y == ClearedOf(x, call.cmd) IN IF call.by = "stop" THEN StopEnded(y) ELSE y

Replied(x, call, ok) ==
  CASE call.kind = "ack" -> AckReplied(x, call, ok)
    [] call.kind = "start" -> StartReplied(x, call, ok)
    [] OTHER -> EndReplied(x, call)

\* Mutant: a launch does not go on when its start was not answered.
CallAbandoned(x, call, ok) ==
  IF call.kind = "ack"
  THEN IF x.observed = call.cmd THEN [x EXCEPT !.observed = None] ELSE x
  ELSE IF call.by # "stop" THEN x
  ELSE IF call.kind = "start" THEN [x EXCEPT !.stop = "halting"] ELSE StopEnded(x)

\* A call that failed is logged, and whoever waited for it goes on.
CallFailed(x, call, ok) ==
  IF call.kind = "ack"
  THEN IF x.observed = call.cmd THEN [x EXCEPT !.observed = None] ELSE x
  ELSE IF call.by = "launch" THEN Launch(x, call.cmd, call.cmd, ok)
  ELSE IF call.by # "stop" THEN x
  ELSE IF call.kind = "start" THEN [x EXCEPT !.stop = "halting"] ELSE StopEnded(x)

\* startInstanceAgent and setupViewerIdleStop in a new process.
Recovered(x, expired, ok) ==
  LET c == IF x.journal \in expired THEN None ELSE x.journal
      y == [Fresh EXCEPT
              !.active = c, !.st = x.st, !.confirmed = (c = None), !.recovered = c,
              !.journal = c, !.marker = x.marker, !.helper = x.helper,
              !.pending = IF Replaced(x) THEN x.marker.for ELSE None,
              !.latched = x.latched \/ x.marker # None, !.fence = x.fence,
              !.required = (x.marker # None),
              !.deferred = (x.marker = None /\ x.latched)]
  IN RecoveryHeard(y, ok)

-----------------------------------------------------------------------------
(* The control plane, as the agent's calls show it.                        *)

\* One of the bounded events, when it is one.
Event(is) == (is => left > 0) /\ left' = IF is THEN left - 1 ELSE left

Issue ==
  \E c \in Commands :
    /\ api[c] = "unissued"
    /\ Cardinality(Listed) < MaxListed
    /\ api' = [api EXCEPT ![c] = "pending"]
    /\ UNCHANGED <<s, poll, up, left>>

Expire ==
  \E c \in Listed :
    /\ api' = [api EXCEPT ![c] = "expired"]
    /\ Event(TRUE)
    /\ UNCHANGED <<s, poll, up>>

NoPoll == {None}

Respond ==
  /\ up /\ poll = NoPoll
  /\ poll' = Listed
  /\ UNCHANGED <<api, s, up, left>>

\* The next status of a command, or its own when the call is not accepted.
Transition(kind, status) ==
  CASE kind = "ack" /\ status = "pending" -> "acked"
    [] kind = "start" /\ status \in {"pending", "acked"} -> "running"
    [] kind = "complete" /\ status \in Open -> "done"
    [] kind = "fail" /\ status \in Open -> "failed"
    [] OTHER -> status

Process(kind) ==
  \E call \in s.calls :
    LET was == api[call.cmd]
        now == Transition(call.kind, was)
        said == IF call.kind \in {"complete", "fail"} THEN "ended"
                ELSE IF now # was THEN "accepted"
                ELSE IF was \in Ended THEN "ended" ELSE was
    IN /\ call.kind = kind /\ call.reply = "none"
       /\ api' = [api EXCEPT ![call.cmd] = now]
       /\ s' = [s EXCEPT !.calls = (@ \ {call}) \cup {[call EXCEPT !.reply = said]}]
       /\ UNCHANGED <<poll, up, left>>

-----------------------------------------------------------------------------
(* The process.                                                            *)

Init ==
  /\ api = [c \in Commands |-> "unissued"]
  /\ s = [Fresh EXCEPT !.ready = TRUE, !.wished = TRUE]
  /\ poll = NoPoll
  /\ up = TRUE
  /\ left = MaxEvents

\* The argument of next: the helper of a launch spawns.
Step(next(_)) ==
  \/ s' = next(TRUE) /\ UNCHANGED left
  \/ /\ Event(TRUE)
     /\ next(FALSE) # next(TRUE)
     /\ s' = next(FALSE)

\* applyInstanceAgentControlResponse; what expired meanwhile is ignored.
Apply ==
  /\ up /\ poll # NoPoll
  /\ LET listed == {c \in poll : api[c] # "expired"}
         taken == Taken(s, listed, Known(Confirmed(s, listed)))
     IN \E last \in IF taken = {} THEN {None} ELSE taken :
          Step(LAMBDA ok : ResponseApplied(s, listed, last, ok))
  /\ poll' = NoPoll
  /\ UNCHANGED <<api, up>>

Answer(kind) ==
  \E call \in s.calls :
    /\ up /\ call.kind = kind /\ call.reply # "none"
    /\ Step(LAMBDA ok : Replied([s EXCEPT !.calls = @ \ {call}], call, ok))
    /\ UNCHANGED <<api, poll, up>>

\* The request or its reply is lost.
Lose ==
  \E call \in s.calls :
    /\ up /\ Event(TRUE)
    /\ s' = CallFailed([s EXCEPT !.calls = @ \ {call}], call, TRUE)
    /\ UNCHANGED <<api, poll, up>>

\* recordRuntimeStatus, from the streamer's health; once a runtime is told to
\* reset, only its replacement becomes ready.
Ready ==
  /\ up /\ ~s.ready /\ ~s.helper /\ ~s.halted
  /\ s' = ReadyRecorded(s)
  /\ UNCHANGED <<api, poll, up, left>>

\* tryStartRecoveredRecycleCommand, and tryFinalizeRecoveredActiveCommand up to
\* its captures, in a background worker that runs one at a time.
Finalizable(x) ==
  /\ x.active \in Recycles /\ x.confirmed
  /\ ~x.viewers /\ ~x.reset /\ x.pending = None /\ x.ready
  /\ Completed(x, x.active)

Work ==
  /\ up /\ s.capturing = None
  /\ \A call \in s.calls : call.by # "recovered"
  /\ s' = IF s.active \in Recycles /\ s.confirmed /\ s.st = "acked"
               /\ s.pending = s.active
          THEN Asked(s, "start", s.active, "recovered")
          ELSE IF Finalizable(s) /\ s.active = s.recovered /\ s.st = "running"
          THEN [s EXCEPT !.capturing = s.active] ELSE s
  /\ s' # s
  /\ UNCHANGED <<api, poll, up, left>>

\* Polling went on during the captures, and may have invalidated the command.
Finalize ==
  /\ up /\ s.capturing # None
  /\ LET x == [s EXCEPT !.capturing = None] IN
     s' = IF s.active = s.capturing /\ Finalizable(s)
          THEN Asked(x, "complete", s.active, "report") ELSE x
  /\ UNCHANGED <<api, poll, up, left>>

\* refreshMaintenanceMode, as often as it finds no maintenance.
Refresh ==
  /\ up /\ ~s.resetting /\ ~s.viewers /\ Intent(s) /\ ~InProgress(s)
  /\ Step(LAMBDA ok : IF ActiveRecycle(s) # None THEN RecycleResumed(s, ok)
                      ELSE ResetStarted(s, ok))
  /\ s' # s
  /\ UNCHANGED <<api, poll, up>>

RetryRecycle ==
  /\ up /\ s.retry
  /\ Step(LAMBDA ok : RecycleRequested([s EXCEPT !.retry = FALSE], ok))
  /\ s' # s
  /\ UNCHANGED <<api, poll, up>>

RetryStop ==
  /\ up /\ s.again
  /\ s' = StopRequested([s EXCEPT !.again = FALSE])
  /\ UNCHANGED <<api, poll, up, left>>

\* requestStop after its captures: the instance stops and the command that is
\* active then is complete, or the stop fails and the command with it.
Halt ==
  /\ up /\ s.stop = "halting"
  /\ \E ok \in BOOLEAN :
       LET x == [StoppingRecorded(s) EXCEPT !.stop = "ending", !.halted = @ \/ ok]
           c == ActiveShutdown(s)
       IN /\ Event(~ok)
          /\ s' = IF c # None THEN Asked(x, IF ok THEN "complete" ELSE "fail", c, "stop")
                  ELSE StopEnded(x)
  /\ UNCHANGED <<api, poll, up>>

\* onViewerAdded: the gate is open; what was asked before belongs to another
\* session, and an active command of it is failed.
SessionBegins ==
  /\ up /\ ~s.viewers /\ ~s.latched /\ ~s.required /\ s.ready
  /\ Event(TRUE)
  /\ LET x == [s EXCEPT !.viewers = TRUE, !.old = Listed, !.resetting = FALSE,
                        !.launched = FALSE, !.passive = FALSE]
         t == Tracked(x)
     IN s' = Restored(IF Superseded(x, t) THEN Asked(x, "fail", t, "report") ELSE x)
  /\ UNCHANGED <<api, poll, up>>

\* onViewerRemoved, when the registry settled.
SessionEnds ==
  /\ up /\ s.viewers
  /\ LET y == [s EXCEPT !.viewers = FALSE, !.told = FALSE]
         t == Tracked(y)
         x == IF Superseded(y, t) THEN Asked(y, "fail", t, "report") ELSE y
     IN Step(LAMBDA ok : IF ActiveRecycle(x) # None THEN ResetStarted(x, ok)
                         ELSE IF ActiveShutdown(x) # None THEN StopRequested(x) ELSE x)
  /\ UNCHANGED <<api, poll, up>>

\* reset_completed is acknowledged: see AgentReports.
MarkerCleared ==
  /\ up /\ Replaced(s) /\ s.pending = None
  /\ s' = [s EXCEPT !.marker = None]
  /\ UNCHANGED <<api, poll, up, left>>

\* A process that ends forgets what was not written; a journal that was being
\* written is torn, and reads as no command.
Dead(x, torn) ==
  [x EXCEPT !.calls = {}, !.journal = IF torn THEN None ELSE @]

Died(torn) ==
  /\ s' = Dead(s, torn)
  /\ poll' = NoPoll
  /\ up' = FALSE
  /\ UNCHANGED api

Crash ==
  /\ up /\ Event(TRUE)
  /\ \E torn \in BOOLEAN :
       /\ torn => \E call \in s.calls : call.reply # "none"
       /\ Died(torn)

\* The fallback of a launch: the process leaves by itself.
Exit == up /\ s.launched /\ Died(FALSE) /\ UNCHANGED left

PowerOff == up /\ s.halted /\ Died(FALSE) /\ UNCHANGED left

\* The recycle helper: it stops the old stack, advances the marker and starts
\* the new stack; without an intent it gives up, and the stack is down.
Replace ==
  /\ s.helper
  /\ s' = [Dead(s, FALSE) EXCEPT
            !.helper = FALSE,
            !.marker = IF Intended(s) THEN [@ EXCEPT !.phase = "replaced"] ELSE @]
  /\ poll' = NoPoll
  /\ up' = FALSE
  /\ UNCHANGED <<api, left>>

Start ==
  /\ ~up /\ ~s.halted
  /\ Step(LAMBDA ok : Recovered(s, {c \in Commands : api[c] = "expired"}, ok))
  /\ up' = TRUE
  /\ UNCHANGED <<api, poll>>

Next ==
  \/ Issue \/ Expire \/ Respond \/ Apply
  \/ \E kind \in Kinds : Process(kind) \/ Answer(kind)
  \/ Lose \/ Ready \/ Work \/ Finalize
  \/ Refresh \/ RetryRecycle \/ RetryStop \/ Halt
  \/ SessionBegins \/ SessionEnds \/ MarkerCleared
  \/ Crash \/ Exit \/ PowerOff \/ Replace \/ Start

Spec == Init /\ [][Next]_vars

\* The control plane answers, timers fire, a told viewer leaves, a helper and a
\* start come to an end.  Nothing is assumed of expiry, losses or crashes.
FairSpec ==
  /\ Spec
  /\ WF_vars(Respond) /\ WF_vars(Apply)
  /\ \A kind \in Kinds : WF_vars(Process(kind)) /\ WF_vars(Answer(kind))
  /\ WF_vars(Ready) /\ WF_vars(Work) /\ WF_vars(Finalize) /\ WF_vars(Refresh)
  /\ WF_vars(RetryRecycle) /\ WF_vars(RetryStop) /\ WF_vars(Halt)
  /\ WF_vars(s.told /\ SessionEnds) /\ WF_vars(MarkerCleared)
  /\ WF_vars(Replace) /\ WF_vars(Start)

-----------------------------------------------------------------------------
(* Properties.                                                             *)

TypeOK ==
  /\ api \in [Commands -> {"unissued"} \cup Open \cup Ended]
  /\ s \in State
  /\ poll = NoPoll \/ poll \subseteq Commands
  /\ up \in BOOLEAN

\* The control plane is told that a command is complete only when its work is
\* done: the stack was replaced for that very token, or the instance stops.
DoneWasDone ==
  \A c \in Commands : api[c] = "done" =>
    IF c \in Recycles THEN c \in s.fence ELSE s.halted

\* What a restarted process found in its journal is quarantined: a command is not
\* started, reported or torn down for before a response to this process lists it.
Quarantined == \A call \in s.calls : call.cmd \in s.heard

\* A shutdown that is carried out leaves the gate latched for the next boot.
ShutdownLeavesFlag == s.halted => s.latched

\* No stack is replaced twice for one token.
ReplacedOnce ==
  [][s'.marker # s.marker /\ s'.marker # None /\ s'.marker.phase = "intent"
       => s'.marker.for \notin s.fence]_vars

\* Every command of the session comes to an end.
CommandsEnd == \A c \in Commands : [](api[c] \in Open => <>(api[c] \notin Open \/ s.halted))

\* A teardown that nobody finished is made good: the stack is replaced or stopped.
RecoveryEnds == s.required ~> (~s.required \/ s.halted)

=============================================================================
