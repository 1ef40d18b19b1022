--------------------------- MODULE ReconnectGrace ---------------------------
(***************************************************************************)
(* The end of a managed session: what viewer-idle-stop.ts does with the    *)
(* viewers that come and go, with the reconnect deadline of the customer   *)
(* and with the runtime afterwards, and what instance-agent.ts does with   *)
(* the evidence that the deadline elapsed, across restarts of the process. *)
(*                                                                         *)
(* One lifetime of one runtime: it ends when the stack is replaced or the  *)
(* instance stops.  There are no instance commands and no recycle tokens,  *)
(* so the only recycle is the one that follows a deadline, at once: the    *)
(* delay before another one (resetTimer) is left out.                      *)
(*                                                                         *)
(* The process is single-threaded: a handler is one action.  Handlers call *)
(* one another, so each is an operator from a state record to the next.    *)
(* io is what the outside does to the calls of one handler: whether the    *)
(* cutoff is persisted, what becomes of the evidence, how a launch goes.   *)
(***************************************************************************)
EXTENDS Integers, FiniteSets

CONSTANTS
  Managed,      \* viewers with a session ticket, all of one customer
  Claimless,    \* viewers without one
  MaxAttempts,  \* COMMERCIAL_RECYCLE_LAUNCH_MAX_ATTEMPTS
  Outcomes,     \* what may become of the calls a handler makes
  Modes         \* what the maintenance tag may be read as: on, off

Viewers == Managed \cup Claimless

ASSUME ViewerAssumption == Managed \cap Claimless = {}
ASSUME AttemptAssumption == MaxAttempts \in Nat \ {0}

\* A definition whose comment says "Mutant" is a faulty variant of the one below it,
\* never used by it: each breaks one of the properties at the end.

VARIABLES
  viewers,   \* the player registry: away, negotiating (pending) or live
  closing,   \* viewers the server told to leave
  s,         \* the state of idle stop, agent and their files
  up,        \* the signalling process runs
  fate,      \* of the runtime: running, replaced or stopped
  elapsed    \* history: evidence of an elapsed deadline was recorded

vars == <<viewers, closing, s, up, fate, elapsed>>

Owners == {"none", "claimless", "managed"}   \* whose window a timer is for
Wanted == {"cold", "warm", "shutdown"}       \* warm: held, and not draining

Outcome ==
  [mark: BOOLEAN,    \* markTeardownStarted, when a teardown is decided
   cut: BOOLEAN,     \* and again before something is destroyed
   evidence: {"recorded", "unknown", "lost"},     \* unknown: kept, but failed
   launch: {"ok", "unreadable", "failed", "unstarted"},
   stop: BOOLEAN]

Good == [mark |-> TRUE, cut |-> TRUE, evidence |-> "recorded", launch |-> "ok",
         stop |-> TRUE]

ASSUME OutcomeAssumption == Good \in Outcomes /\ Outcomes \subseteq Outcome
ASSUME ModeAssumption == Modes \subseteq {"on", "off"}

State ==
  [phase: {"inactive", "waiting", "persisting", "elapsed"},
   window: Owners,           \* reconnectGraceWindowState
   due: BOOLEAN,             \* its deadline has passed
   zero: Owners \cup {"plain"},   \* zeroViewersTimer
   grace: {"none", "reset", "warm"}, graceOf: Owners,   \* reconnectGraceTimer
   first: BOOLEAN, exit: BOOLEAN, recycle: BOOLEAN,   \* timers
   resume: {"none", "stop", "reset", "warm"},   \* evidence retry, continuation
   settling: BOOLEAN,        \* a removal waits for the registry to settle
   committed: BOOLEAN,       \* commercialReconnectGraceTeardownCommitted
   durable: BOOLEAN,         \* commercialReconnectGraceCutoffDurable
   passive: BOOLEAN,         \* passiveReconnectRecycleRequested
   resetting: BOOLEAN,       \* resetInFlight
   launched: BOOLEAN,        \* recycleLaunchRequested
   attempts: 0..MaxAttempts, \* recycleLaunchRetryAttempts
   stopping: BOOLEAN,        \* stopInFlight
   resumed: BOOLEAN,         \* desiredStateShutdownResumeRequested
   seen: BOOLEAN, seenManaged: BOOLEAN, known: SUBSET Managed,
   maintenance: {"unknown", "on", "off"},
   ready: BOOLEAN,           \* the derived status is published, no other
   required: BOOLEAN,        \* reconnectGraceRecoveryRecycleRequired
   deferred: BOOLEAN,        \* deferredRecoveredCommercialRecovery
   secured: BOOLEAN,         \* reconnectGraceEvidenceCutoffDurableThroughMs
   confirmed: BOOLEAN,       \* desiredStateConfirmedByApi
   \* What survives the process: desired state, ticket gate, evidence journal,
   \* recycle marker (an intent) and the helper that was launched.
   want: Wanted, gate: {"open", "failed", "latched"}, journal: BOOLEAN,
   marker: BOOLEAN, helper: BOOLEAN]

Fresh ==
  [phase |-> "inactive", window |-> "none", due |-> FALSE, zero |-> "none",
   grace |-> "none", graceOf |-> "none", first |-> FALSE,
   exit |-> FALSE, recycle |-> FALSE, resume |-> "none", settling |-> FALSE,
   committed |-> FALSE, durable |-> FALSE, passive |-> FALSE,
   resetting |-> FALSE, launched |-> FALSE, attempts |-> 0, stopping |-> FALSE,
   resumed |-> FALSE, seen |-> FALSE, seenManaged |-> FALSE, known |-> {},
   maintenance |-> "unknown", ready |-> TRUE, required |-> FALSE,
   deferred |-> FALSE, secured |-> FALSE, confirmed |-> FALSE, want |-> "warm",
   gate |-> "open", journal |-> FALSE, marker |-> FALSE, helper |-> FALSE]

Nobody == \A p \in Viewers : viewers[p] = "away"

\* A managed viewer that plays, and was not told to leave.
Playing(p) == viewers[p] = "live" /\ p \notin closing

-----------------------------------------------------------------------------
(* What the handlers ask.                                                  *)

Suspended(x) == x.maintenance # "off"

Recycling(x) == x.passive /\ ~x.launched

\* shouldSuppressNoViewerIdleAutomation
Suppressed(x) == x.want = "warm" /\ ~Recycling(x)

\* Mutant: a deadline that is being made durable locks nothing yet.
LockedByCommit(x) == x.committed

\* isCommercialReconnectDeadlineLocked
Locked(x) == x.committed \/ (x.phase = "persisting" /\ x.window = "managed")

ManagedWindow(x) == x.phase \in {"waiting", "persisting"} /\ x.window = "managed"

\* A viewer that is back stops the clock of who: for the customer one that has
\* negotiated, otherwise anyone.
Cancels(x, who) ==
  IF who = "managed" THEN \E p \in x.known : viewers[p] # "pending" ELSE ~Nobody

-----------------------------------------------------------------------------
(* What they do: windows and status.                                       *)

Published(x) == [x EXCEPT !.ready = FALSE]

\* Mutant: the derived status is restored whatever was committed.
RestoredAlways(x) == [x EXCEPT !.ready = TRUE]

Restored(x) == IF Locked(x) THEN x ELSE [x EXCEPT !.ready = TRUE]

WindowStarted(x, who) ==
  [x EXCEPT !.phase = "waiting", !.window = who, !.due = FALSE, !.durable = FALSE]

WindowCleared(x) ==
  IF x.phase = "persisting" THEN x
  ELSE [x EXCEPT !.phase = "inactive", !.window = "none", !.due = FALSE]

\* Mutant: the timers are cleared before the managed window is looked at.
AllClearedFirst(x) ==
  LET y == [x EXCEPT !.zero = "none", !.grace = "none", !.graceOf = "none",
                     !.first = FALSE]
  IN  IF ManagedWindow(x) THEN y ELSE WindowCleared(y)

AllCleared(x) ==
  IF ManagedWindow(x) THEN [x EXCEPT !.first = FALSE]
  ELSE WindowCleared([x EXCEPT !.zero = "none", !.grace = "none", !.graceOf = "none",
                               !.first = FALSE])

\* A failed mark closes admission in memory.
Marked(x, cut) ==
  [x EXCEPT !.gate = IF cut THEN "latched" ELSE IF @ = "open" THEN "failed" ELSE @]

\* Before anything is destroyed, unless this process has done it already.
Fenced(x, cut) ==
  IF x.durable THEN x ELSE [Marked(x, cut) EXCEPT !.durable = cut]

\* makeCommercialReconnectDeadlineDurable: evidence first, then the cutoff; it
\* has succeeded when the phase is elapsed.
DeadlineDurable(x, io) ==
  LET y == [x EXCEPT !.phase = "persisting", !.journal = @ \/ io.evidence # "lost",
                     !.secured = @ /\ io.evidence # "recorded"]
      z == Fenced(y, io.cut)
  IN  IF x.window # "managed"
      THEN IF x.phase = "waiting" THEN [x EXCEPT !.phase = "elapsed"] ELSE x
      ELSE IF io.evidence # "recorded" THEN y
      ELSE IF ~z.durable THEN z
      ELSE [z EXCEPT !.committed = TRUE, !.phase = "elapsed"]

-----------------------------------------------------------------------------
(* Scheduling.                                                             *)

\* Stop after a delay: the reconnect grace of who, or a plain one.
StopScheduled(x, who) ==
  LET starts == who # "plain"
      y == [IF ~starts /\ x.phase = "waiting" THEN WindowCleared(x) ELSE x
            EXCEPT !.grace = "none", !.graceOf = "none"]
      z == Published([y EXCEPT !.zero = who])
  IN  IF \/ ~Locked(x) /\ Suspended(x)
         \/ x.phase = "persisting"
         \/ starts /\ x.phase # "inactive"
      THEN x
      ELSE IF ~Locked(y) /\ Suppressed(y) THEN Restored(AllCleared(y))
      ELSE IF starts THEN WindowStarted(z, who) ELSE z

\* The grace before a recycle. It has a window when the last viewer left, one is
\* running, or a viewer was ever seen.
GraceOpened(x, kind, starts, who) ==
  LET y == [x EXCEPT !.zero = "none", !.first = FALSE]
      windowed == starts \/ y.phase = "waiting" \/ y.seen
  IN  IF y.grace # "none" THEN y
      ELSE IF windowed
      THEN WindowStarted([Published(y) EXCEPT !.grace = kind, !.graceOf = who], who)
      ELSE [Published(y) EXCEPT !.grace = kind]

ResetScheduled(x, starts, who) ==
  IF Suspended(x) \/ x.phase = "persisting" \/ x.resetting \/ x.launched THEN x
  ELSE IF Recycling(x) THEN GraceOpened(x, "reset", starts, who)
  ELSE [IF x.phase = "waiting" THEN WindowCleared(x) ELSE x
        EXCEPT !.zero = "none", !.first = FALSE]

WarmScheduled(x, starts, who) ==
  IF Suspended(x) \/ x.phase = "persisting" \/ ~Suppressed(x) THEN x
  ELSE GraceOpened(x, "warm", starts, who)

RecycleRetried(x) == [x EXCEPT !.recycle = TRUE]

FirstEnsured(x) ==
  [x EXCEPT !.first = ~(Suspended(x) \/ Suppressed(x) \/ x.seen \/ ~Nobody)]

-----------------------------------------------------------------------------
(* Stop.                                                                   *)

\* requestStop up to its first await. The cutoff is written before the guards
\* that may abandon the stop.
StopRequested(x, io) ==
  LET y == Fenced(x, io.cut)
      z == [WindowCleared(y) EXCEPT
              !.resetting = FALSE, !.launched = FALSE, !.passive = FALSE,
              !.exit = FALSE, !.grace = "none", !.graceOf = "none"]
  IN  IF x.phase = "persisting" \/ x.stopping THEN x
      ELSE IF ~y.durable THEN StopScheduled(Published(y), "plain")
      ELSE IF z.committed THEN [z EXCEPT !.stopping = TRUE]
      ELSE IF Suspended(z) THEN z
      ELSE IF ~Nobody THEN Restored(z)
      ELSE IF ~Suppressed(z) THEN [z EXCEPT !.stopping = TRUE]
      ELSE IF z.seen THEN WarmScheduled(z, TRUE, "claimless")
      ELSE Restored(z)

Resumable(x) ==
  /\ x.want = "shutdown"
  /\ ~x.resumed
  /\ ~x.stopping
  /\ Nobody
  /\ ~Suspended(x)

\* tryResumeDesiredStateShutdown
ShutdownResumed(x, io) ==
  LET y == StopRequested([x EXCEPT !.zero = "none", !.first = FALSE], io)
  IN  [y EXCEPT !.resumed = y.stopping]

-----------------------------------------------------------------------------
(* Recycle.                                                                *)

\* restoreAfterReset: a recycle nothing was committed for is given up.
WarmRestored(x, io) ==
  LET y == [WindowCleared(x) EXCEPT
              !.resetting = FALSE, !.launched = FALSE, !.passive = FALSE,
              !.exit = FALSE, !.grace = "none", !.graceOf = "none"]
      z == [y EXCEPT !.seen = FALSE]
  IN  IF ~Nobody \/ Suspended(y) THEN Restored(y)
      ELSE IF z.want = "shutdown" THEN StopRequested(z, io)
      ELSE IF z.want = "cold" THEN StopScheduled(z, "plain")
      ELSE Restored(z)

\* Mutant: the maximum is not looked at.
LaunchFailedAgain(x, io) ==
  IF ~x.committed THEN WarmRestored(x, io)
  ELSE RecycleRetried(Published([x EXCEPT !.resetting = TRUE, !.passive = TRUE,
                                          !.attempts = @ + 1]))

LaunchFailed(x, io) ==
  LET y == Published([x EXCEPT !.resetting = TRUE, !.passive = TRUE,
                               !.attempts = IF @ < MaxAttempts THEN @ + 1 ELSE @])
  IN  IF ~x.committed THEN WarmRestored(x, io)
      ELSE IF y.attempts = MaxAttempts
      THEN StopRequested([y EXCEPT !.recycle = FALSE], io)
      ELSE RecycleRetried(y)

\* The marker is written and the helper spawned; a spawn that fails says so
\* after the launch was taken for done (here at once). Failed: thrown before the
\* marker.
Launched(x, io) ==
  LET y == [x EXCEPT !.launched = TRUE, !.attempts = 0, !.recycle = FALSE]
  IN  CASE io.launch = "failed" ->
             LaunchFailed([x EXCEPT !.launched = FALSE, !.exit = FALSE], io)
        [] io.launch = "unstarted" ->
             LaunchFailed([y EXCEPT !.launched = FALSE, !.exit = FALSE,
                                    !.marker = FALSE], io)
        [] OTHER -> [y EXCEPT !.exit = TRUE, !.marker = TRUE, !.helper = TRUE]

\* Mutant: the helper is launched whatever came of the cutoff.
RecycleUnfenced(x, io) ==
  LET y == Fenced(x, io.cut)
  IN  IF x.phase = "persisting" \/ x.launched THEN x
      ELSE IF io.launch = "unreadable"
      THEN RecycleRetried(Published([x EXCEPT !.resetting = TRUE]))
      ELSE IF ~x.committed /\ (Suspended(x) \/ ~Nobody) THEN Restored(x)
      ELSE IF Recycling(x) THEN Launched(y, io)
      ELSE x

\* requestStackRecycle
RecycleRequested(x, io) ==
  LET y == Fenced(x, io.cut)
  IN  IF x.phase = "persisting" \/ x.launched THEN x
      ELSE IF io.launch = "unreadable"
      THEN RecycleRetried(Published([x EXCEPT !.resetting = TRUE]))
      ELSE IF ~x.committed /\ (Suspended(x) \/ ~Nobody) THEN Restored(x)
      ELSE IF Recycling(x)
      THEN IF y.durable THEN Launched(y, io)
           ELSE RecycleRetried(Published([y EXCEPT !.resetting = TRUE]))
      ELSE IF x.want = "warm"
      THEN Restored([x EXCEPT !.resetting = FALSE, !.recycle = FALSE])
      ELSE IF x.want = "shutdown" THEN StopRequested(x, io)
      ELSE StopScheduled(x, "plain")

\* startResetWindow, without a delay
ResetStarted(x, io) ==
  LET y == [WindowCleared(x) EXCEPT !.grace = "none", !.graceOf = "none",
                                    !.zero = "none", !.first = FALSE]
      z == Published([y EXCEPT !.resetting = TRUE])
  IN  IF x.phase = "persisting" THEN x
      ELSE IF ~x.committed /\ (Suspended(x) \/ ~Nobody) THEN WindowCleared(x)
      ELSE IF ~Recycling(y) THEN y
      ELSE RecycleRequested(z, io)

-----------------------------------------------------------------------------
(* The deadline.                                                           *)

\* finishReconnectGrace (reset) and expireWarmHoldReconnectGrace (warm).
GraceEnded(x, kind, who, io) ==
  LET passive == [x EXCEPT !.passive = TRUE]
      marked == Marked(passive, io.mark)
  IN  IF x.committed
      THEN IF x.want = "shutdown" THEN StopRequested(x, io)
           ELSE ResetStarted(passive, io)
      ELSE IF Suspended(x) THEN WindowCleared(x)
      ELSE IF Cancels(x, who) THEN Restored(WindowCleared(x))
      ELSE IF x.want = "shutdown" THEN StopRequested(x, io)
      ELSE IF kind = "reset" /\ Recycling(x) THEN ResetStarted(x, io)
      ELSE IF ~Suppressed(x) THEN StopScheduled(x, "plain")
      ELSE IF kind = "reset" \/ ~x.seenManaged THEN Restored(x)
      ELSE ResetStarted(IF io.mark THEN marked ELSE Published(marked), io)

Continued(x, next, who, io) ==
  IF next = "stop" THEN StopRequested(x, io) ELSE GraceEnded(x, next, who, io)

\* Mutant: what follows the deadline does not wait for it to be durable.
ContinuedAnyway(x, next, who, io) ==
  Continued(WindowCleared(DeadlineDurable(x, io)), next, who, io)

\* continueAfterReconnectGraceEvidenceIsDurable
ContinuedWhenDurable(x, next, who, io) ==
  LET y == DeadlineDurable(x, io)
  IN  IF y.phase = "elapsed" THEN Continued(WindowCleared(y), next, who, io)
      ELSE [y EXCEPT !.resume = IF @ = "none" THEN next ELSE @]

\* The timer of a window fires: who is back, or it is over.
WindowEnded(x, next, who, io) ==
  IF Cancels(x, who) THEN Restored(WindowCleared(x))
  ELSE ContinuedWhenDurable(x, next, who, io)

-----------------------------------------------------------------------------
(* Maintenance and desired state.                                          *)

\* refreshMaintenanceMode when there is no maintenance.
IdleResumed(x, io) ==
  IF Resumable(x) THEN ShutdownResumed(x, io)
  ELSE IF ~x.resetting /\ Nobody /\ Recycling(x)
  THEN ResetScheduled(x, FALSE, "claimless")
  ELSE FirstEnsured(x)

\* A grace no longer wanted.
Abandoned(x, io) ==
  IF Suspended(x) \/ ~Nobody THEN x
  ELSE IF x.want = "shutdown" THEN StopRequested(x, io)
  ELSE StopScheduled(x, "plain")

\* applyDesiredStateSnapshot, from the cutoff of a new shutdown on.
DesiredChanged(x, io) ==
  LET noGrace == WindowCleared([x EXCEPT !.grace = "none", !.graceOf = "none"])
      first == FirstEnsured(x)
  IN  IF ManagedWindow(x) /\ x.want # "shutdown" THEN x
      ELSE IF Suppressed(x) /\ ~x.seen THEN Restored(AllCleared(x))
      ELSE IF x.grace # "none" /\ ~Recycling(x)
      THEN IF Suppressed(x) THEN x ELSE Abandoned(noGrace, io)
      ELSE IF Resumable(x) THEN ShutdownResumed(x, io)
      ELSE IF Nobody /\ ~Suspended(x) /\ Recycling(x)
      THEN IF x.resetting THEN x ELSE ResetScheduled(x, FALSE, "claimless")
      ELSE IF x.want = "shutdown" /\ Nobody THEN StopRequested(first, io) ELSE first

\* applyDesiredStateSnapshot
DesiredApplied(x, next, changed, io) ==
  LET y == [x EXCEPT !.want = next, !.resumed = @ /\ next = "shutdown"]
      shuts == next = "shutdown" /\ x.want # "shutdown"
      z == IF shuts THEN Marked(y, io.mark) ELSE y
  IN  IF ~changed THEN IF Resumable(y) THEN ShutdownResumed(y, io) ELSE y
      ELSE IF shuts /\ ~io.mark THEN StopRequested(z, io)
      ELSE DesiredChanged(z, io)

\* The recovery listener: a teardown that is owed is taken up.
RecoveryHeard(x, io) ==
  LET y == Published([x EXCEPT !.committed = TRUE, !.durable = FALSE, !.passive = TRUE])
  IN  IF x.committed \/ ~x.required \/ x.journal THEN x
      ELSE IF x.want = "shutdown" THEN StopRequested(y, io)
      ELSE ResetStarted(y, io)

-----------------------------------------------------------------------------
(* Viewers.                                                                *)

\* Mutant: only a window that still waits makes a viewer late.
ViewerIsLateInWindow(x) == x.phase = "waiting" /\ x.window = "managed" /\ x.due

ViewerIsLate(x) == Locked(x) \/ (x.phase = "waiting" /\ x.window = "managed" /\ x.due)

\* onViewerAdded, for a viewer that is pending or live.
ViewerSeen(x, p, status) ==
  LET y == [x EXCEPT !.seen = TRUE, !.seenManaged = @ \/ p \in Managed,
                     !.known = @ \cup ({p} \cap Managed)]
      inWindow == IF p \in Managed THEN status = "pending" ELSE x.window = "managed"
  IN  IF ViewerIsLate(x) THEN [x EXCEPT !.known = @ \ {p}]
      ELSE IF x.phase = "waiting" /\ inWindow THEN y
      ELSE Restored(WindowCleared(
             [y EXCEPT !.resetting = FALSE, !.launched = FALSE, !.passive = FALSE,
                       !.exit = FALSE, !.zero = "none", !.first = FALSE,
                       !.grace = "none", !.graceOf = "none"]))

\* handleZeroViewersAfterRemoval
ZeroViewers(x, who) ==
  IF ~Suspended(x) /\ Recycling(x) THEN ResetScheduled(x, TRUE, who)
  ELSE IF ~Suspended(x) /\ Suppressed(x) THEN WarmScheduled(x, TRUE, who)
  ELSE StopScheduled(x, who)

\* onViewerRemoved: the registry still holds the viewer. The managed deadline
\* does not wait for it to settle, nor for claimless viewers.
ViewerGone(x, p) ==
  LET y == [x EXCEPT !.known = @ \ {p}]
      others == \E q \in Viewers \ {p} : viewers[q] # "away"
  IN  IF Locked(x) THEN x
      ELSE IF p \in x.known
      THEN IF y.known # {} THEN y ELSE ZeroViewers(y, "managed")
      ELSE IF (x.phase = "waiting" /\ x.window = "managed") \/ others THEN y
      ELSE [y EXCEPT !.settling = TRUE]

-----------------------------------------------------------------------------
(* The instance agent.                                                     *)

\* The cutoff of evidence that waits to be replayed: nothing is submitted
\* before it is durable.
EvidenceSecured(x, io) ==
  [Marked(x, io.mark) EXCEPT !.secured = io.mark, !.required = @ \/ io.mark]

\* The evidence is acknowledged: its cutoff, then the journal, then the cleanup.
Acknowledged(x, removed, io) ==
  LET y == [x EXCEPT !.required = TRUE, !.journal = ~removed]
  IN  RecoveryHeard(y, io)

\* applyDesiredState of the agent, with the listener of the idle stop.
DesiredConfirmed(x, next, changed, io) ==
  LET heard == changed \/ ~x.confirmed
      y == [IF heard THEN DesiredApplied(x, next, changed, io) ELSE x
            EXCEPT !.confirmed = TRUE]
  IN  IF y.deferred /\ next # "shutdown"
      THEN RecoveryHeard([y EXCEPT !.deferred = FALSE, !.required = TRUE], io)
      ELSE IF ~x.confirmed THEN RecoveryHeard(y, io) ELSE y

\* A process starts from what survived. The idle stop hears of a recovery that
\* is owed, then reads the desired state from its file.
Started(x, gate, io) ==
  LET y == [Fresh EXCEPT
              !.gate = gate, !.journal = x.journal, !.marker = x.marker,
              !.helper = x.helper, !.required = x.journal \/ x.marker,
              !.deferred = ~x.journal /\ ~x.marker /\ gate = "latched"]
  IN  DesiredApplied(RecoveryHeard(y, io), x.want, TRUE, io)

-----------------------------------------------------------------------------
(* Actions.                                                                *)

Alive == up /\ fate = "running"

\* A handler leaves the state record x.
Handled(x) ==
  /\ Alive
  /\ s' = x
  /\ elapsed' = (elapsed \/ x.journal)
  /\ UNCHANGED <<up, fate>>

Quietly(x) == Handled(x) /\ UNCHANGED <<viewers, closing>>

\* Mutant: admission asks for the latch and the desired state only.
AdmittedByGate(p) == p \in Managed => s.gate = "open" /\ s.want # "shutdown"

\* Managed viewers pass the gate and negotiate; the gate asks for the desired
\* state, for its own latch and for evidence that still waits.
Admitted(p) ==
  p \in Managed => s.gate = "open" /\ ~s.required /\ s.want # "shutdown"

Appears(p, status) ==
  /\ viewers' = [viewers EXCEPT ![p] = status]
  /\ closing' = IF ViewerIsLate(s) THEN closing \cup {p} ELSE closing
  /\ Handled(ViewerSeen(s, p, status))

Connect(p) ==
  /\ viewers[p] = "away"
  /\ Admitted(p)
  /\ Appears(p, IF p \in Managed THEN "pending" ELSE "live")

Negotiate(p) == viewers[p] = "pending" /\ Appears(p, "live")

\* It unsubscribes, or its streamer goes.
Pause(p) ==
  /\ p \in Managed
  /\ viewers[p] = "live"
  /\ viewers' = [viewers EXCEPT ![p] = "pending"]
  /\ Handled(s)
  /\ UNCHANGED closing

Disconnect(p) ==
  /\ viewers[p] # "away"
  /\ viewers' = [viewers EXCEPT ![p] = "away"]
  /\ closing' = closing \ {p}
  /\ Handled(ViewerGone(s, p))

Settle ==
  LET x == [s EXCEPT !.settling = FALSE]
  IN  /\ s.settling
      /\ Quietly(IF Nobody THEN ZeroViewers(x, "claimless") ELSE x)

\* The deadline of the window passes.
Deadline == s.phase = "waiting" /\ ~s.due /\ Quietly([s EXCEPT !.due = TRUE])

ZeroFires(io) ==
  LET x == [s EXCEPT !.zero = "none"]
  IN  /\ s.zero # "none"
      /\ s.zero # "plain" /\ s.phase = "waiting" => s.due
      /\ Quietly(IF s.zero = "plain" THEN StopRequested(x, io)
                 ELSE WindowEnded(x, "stop", s.zero, io))

GraceFires(io) ==
  LET x == [s EXCEPT !.grace = "none", !.graceOf = "none"]
  IN  /\ s.grace # "none"
      /\ s.graceOf # "none" /\ s.phase = "waiting" => s.due
      /\ Quietly(IF s.graceOf = "none" THEN GraceEnded(x, s.grace, "claimless", io)
                 ELSE WindowEnded(x, s.grace, s.graceOf, io))

FirstFires(io) ==
  LET x == [s EXCEPT !.first = FALSE]
      kept == x.seen \/ ~Nobody \/ x.maintenance = "on" \/ Suppressed(x)
  IN  s.first /\ Quietly(IF kept THEN x ELSE StopRequested(x, io))

\* What waits for the deadline to be durable goes on when it is.
EvidenceRetryFires(io) ==
  LET x == DeadlineDurable(s, io)
      who == s.window
  IN  /\ s.resume # "none"
      /\ Quietly(IF x.phase = "elapsed"
                 THEN Continued([x EXCEPT !.resume = "none"], s.resume, who, io)
                 ELSE x)

RecycleRetryFires(io) ==
  s.recycle /\ Quietly(RecycleRequested([s EXCEPT !.recycle = FALSE], io))

StopFails(io) ==
  LET x == [s EXCEPT !.stopping = FALSE]
      dropped == ~x.committed /\ (~Nobody \/ Suspended(x))
      failed == Published(x)
  IN  /\ s.stopping
      /\ ~io.stop
      /\ Quietly(IF dropped THEN failed ELSE StopScheduled(failed, "plain"))

Refresh(mode, io) ==
  LET x == [s EXCEPT !.maintenance = mode]
  IN  Quietly(IF mode = "off" THEN IdleResumed(x, io)
              ELSE IF s.maintenance = "on" THEN s ELSE AllCleared(x))

\* The desired-state file is read again.
Poll(io) == Quietly(DesiredApplied(s, s.want, FALSE, io))

SecureEvidence(io) == s.journal /\ ~s.secured /\ Quietly(EvidenceSecured(s, io))

\* A response of the control plane: the desired state, then what it says of the
\* evidence it was sent, which may not leave the journal.
Respond(next, changed, io) ==
  /\ next = s.want \/ changed
  /\ Quietly(DesiredConfirmed(s, next, changed, io))

Acknowledge(removed, io) ==
  s.journal /\ s.secured /\ Quietly(Acknowledged(s, removed, io))

Survivor(x) ==
  [Fresh EXCEPT !.want = x.want, !.gate = x.gate, !.journal = x.journal,
                !.marker = x.marker, !.helper = x.helper]

\* The process is gone, and its sockets with it.
Gone(x) ==
  /\ up' = FALSE
  /\ viewers' = [p \in Viewers |-> "away"]
  /\ closing' = {}
  /\ s' = Survivor(x)
  /\ UNCHANGED elapsed

Crash == Alive /\ Gone(s) /\ UNCHANGED fate

\* The fallback of a launch: the process leaves, for the helper to go on.
ExitFallback ==
  /\ Alive
  /\ s.exit
  /\ IF s.launched THEN Gone(s) /\ UNCHANGED fate ELSE Quietly([s EXCEPT !.exit = FALSE])

\* A latch whose write failed may be found or not; where marker or desired state
\* ask for one, it is written or the process does not start.
FoundGates(x) ==
  IF x.gate = "latched" \/ x.marker \/ x.want = "shutdown" THEN {"latched"}
  ELSE IF x.gate = "failed" THEN {"open", "latched"} ELSE {"open"}

Start(io) ==
  /\ ~up /\ fate = "running"
  /\ up' = TRUE
  /\ \E gate \in FoundGates(s) : s' = Started(s, gate, io)
  /\ elapsed' = (elapsed \/ s'.journal)
  /\ UNCHANGED <<viewers, closing, fate>>

StopSucceeds == Alive /\ s.stopping /\ Gone(s) /\ fate' = "stopped"

\* The helper ends the stack and, if its marker is still there, starts a new one.
HelperReplaces ==
  /\ fate = "running"
  /\ s.helper /\ s.marker
  /\ Gone(s)
  /\ fate' = "replaced"

\* It fails before it has ended the process, or afterwards.
HelperGivesUp ==
  LET x == [s EXCEPT !.helper = FALSE]
  IN  /\ fate = "running"
      /\ s.helper
      /\ UNCHANGED <<fate, elapsed>>
      /\ \/ s' = x /\ UNCHANGED <<viewers, closing, up>>
         \/ Gone(x)

-----------------------------------------------------------------------------

Init ==
  \E w \in Wanted :
    /\ viewers = [p \in Viewers |-> "away"]
    /\ closing = {}
    /\ \E gate \in FoundGates([Fresh EXCEPT !.want = w]) :
         s = Started([Fresh EXCEPT !.want = w], gate, Good)
    /\ up = TRUE
    /\ fate = "running"
    /\ elapsed = FALSE

Timers(io) ==
  \/ ZeroFires(io) \/ GraceFires(io) \/ FirstFires(io)
  \/ EvidenceRetryFires(io) \/ RecycleRetryFires(io)

Next ==
  \/ \E p \in Viewers : Connect(p) \/ Negotiate(p) \/ Pause(p) \/ Disconnect(p)
  \/ Settle \/ Deadline \/ StopSucceeds
  \/ HelperReplaces \/ HelperGivesUp \/ ExitFallback \/ Crash
  \/ \E io \in Outcomes :
       \/ Timers(io) \/ StopFails(io) \/ Poll(io) \/ SecureEvidence(io)
       \/ \E mode \in Modes : Refresh(mode, io)
       \/ \E next \in Wanted, changed \in BOOLEAN : Respond(next, changed, io)
       \/ \E removed \in BOOLEAN : Acknowledge(removed, io)
       \/ Start(io)

Spec == Init /\ [][Next]_vars

\* Timers fire, a process that ended is started again, the control plane answers,
\* and what may fail is not made to fail for ever.
FairSpec ==
  /\ Spec
  /\ WF_vars(Deadline)
  /\ WF_vars(ZeroFires(Good)) /\ WF_vars(GraceFires(Good))
  /\ WF_vars(EvidenceRetryFires(Good)) /\ WF_vars(RecycleRetryFires(Good))
  /\ WF_vars(SecureEvidence(Good)) /\ WF_vars(Acknowledge(TRUE, Good))
  /\ WF_vars(\E next \in Wanted : Respond(next, TRUE, Good))
  /\ WF_vars(ExitFallback)
  /\ SF_vars(StopSucceeds) /\ SF_vars(HelperReplaces)

-----------------------------------------------------------------------------
(* Properties.                                                             *)

TypeOK ==
  /\ viewers \in [Viewers -> {"away", "pending", "live"}]
  /\ closing \subseteq Viewers
  /\ s \in State
  /\ up \in BOOLEAN
  /\ fate \in {"running", "replaced", "stopped"}
  /\ elapsed \in BOOLEAN

\* Once there is evidence that the customer did not come back in time, nobody
\* plays on a session ticket, in this process or in one started after it.
NobodyAfterDeadline ==
  elapsed /\ fate = "running" => \A p \in Managed : ~Playing(p)

\* Evidence is true when it is recorded: the deadline has passed and no viewer
\* of the customer plays.
EvidenceIsTrue ==
  [][s'.journal /\ ~elapsed =>
       s.phase \in {"waiting", "persisting"} /\ s.due /\ \A p \in Managed : ~Playing(p)]_vars

\* While the instance is being stopped or the stack replaced, the latch of the
\* gate is on disk.
DestructionIsFenced == s.stopping \/ s.helper => s.gate = "latched"

\* Nothing is torn down under a viewer with a ticket.
NoViewerTornDown ==
  s.stopping \/ s.helper => \A p \in Managed : ~Playing(p)

\* A committed teardown never shows Ready again.
CommittedStaysDown == s.committed => ~s.ready

\* A teardown is orderly: while the instance is being stopped or the stack replaced the
\* latch is on disk and no viewer with a ticket plays, and a committed one never shows
\* Ready again (requestStop, requestStackRecycle and their listeners).
TeardownIsOrderly == NoViewerTornDown /\ DestructionIsFenced /\ CommittedStaysDown

\* A managed window has a timer that ends it, and one that could not be made
\* durable a retry that goes on with it.
WindowsEnd ==
  /\ s.phase = "waiting" /\ s.window = "managed" =>
       s.zero = "managed" \/ s.graceOf = "managed"
  /\ s.phase = "persisting" => s.resume # "none"

\* A deadline that could not be made durable at once is made durable.
DeadlineBecomesDurable == s.phase = "persisting" ~> s.phase # "persisting"

\* Evidence is recorded of a deadline that passed while no viewer of the customer played;
\* and one that could not be made durable at once is made durable.
DeadlineIsTrueAndKept == EvidenceIsTrue /\ DeadlineBecomesDurable

\* An elapsed deadline ends the runtime: it is stopped or replaced, unless the
\* process ends first, and then again when it is back.
ElapsedEnds == elapsed ~> (fate # "running" \/ ~up)
=============================================================================
