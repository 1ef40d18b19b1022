--------------------------- MODULE RuntimeStatus ---------------------------
(***************************************************************************)
(* How the status of an instance reaches its EC2 tag: the wiring that      *)
(* derives it from the registered streamers (wireSignallingRuntimeStatus), *)
(* the idle watcher's own announcements, the wrapper that withholds Ready  *)
(* while commercial recovery blocks admission                              *)
(* (commercial-runtime-status.ts), and the publisher whose queue writes    *)
(* one tag at a time (createRuntimeStatusPublisher).                       *)
(*                                                                         *)
(* Everything up to the queue runs in one synchronous call, so a handler   *)
(* is one action on the record `r`; the tag write is awaited and may fail. *)
(***************************************************************************)
EXTENDS Integers, Sequences, FiniteSets

CONSTANTS
  Streamers,
  ReadySoak,    \* ticks a streamer is visible before the instance is Ready
  MaxStreamer,  \* bound: streamer connections, identifications, losses
  MaxIdle,      \* bound: announcements of the idle watcher
  MaxGate,      \* bound: recoveries required, journal blocks, restarts
  MaxFails,     \* bound: failed tag writes
  MaxQueue      \* bound: publications waiting for their turn

\* A definition whose comment says "Mutant" is a faulty variant of the one below it.

VARIABLES
  r,       \* the process (and the gate's block, which is on disk)
  tag,     \* ScaleWorldRuntimeStatus
  streak,  \* history: ticks for which some streamer has been visible
  left     \* what the environment may still do

vars == <<r, tag, streak, left>>

None == -1

\* "grace" stands for the statuses the idle watcher repeats with heartbeats
\* (reconnect_grace, idle_shutdown_pending), "resetting" for those it does not.
Statuses ==
  {"waiting", "warming", "stabilizing", "ready", "grace", "resetting"}

\* One waiting publication; `fresh` while no later transition was requested.
Task == [status: Statuses, beat: BOOLEAN, fresh: BOOLEAN]

\* `margin`: seconds until getCommercialRecoveryReadyNotBeforeEpochSeconds.
Gate == [required: BOOLEAN, margin: None .. 1, journal: BOOLEAN,
         proof: BOOLEAN]

Process ==
  [streamer: [Streamers -> {"none", "connected", "visible"}],
   status: Statuses \cup {"-"}, soak: None .. ReadySoak,
   idle: {"-", "grace", "resetting"}, said: Statuses \cup {"-"},
   observed: Statuses \cup {"-"}, block: BOOLEAN, release: BOOLEAN,
   gate: Gate,
   desired: Statuses \cup {"-"}, queue: Seq(Task), writing: BOOLEAN]

Visible(p) == {s \in Streamers : p.streamer[s] = "visible"}

-----------------------------------------------------------------------------
(* The publisher.                                                          *)

Superseded(q) == [i \in DOMAIN q |-> [q[i] EXCEPT !.fresh = FALSE]]

\* publish of createRuntimeStatusPublisher, up to the queue.
Publish(p, status, beat) ==
  LET task == [status |-> status, beat |-> beat, fresh |-> TRUE]
  IN  IF beat /\ p.desired \notin {"-", status} THEN p
      ELSE IF beat THEN [p EXCEPT !.queue = Append(@, task)]
      ELSE [p EXCEPT !.desired = status,
                     !.queue = Append(Superseded(@), task)]

-----------------------------------------------------------------------------
(* The wrapper that withholds Ready.                                       *)

Blocked(p) == p.gate.journal \/ p.gate.required

\* recordRuntimeStatus of the instance agent, as far as the block goes: Ready
\* with a proven replacement prepares the margin, and after it ends the recovery.
RecordRuntimeStatus(p, status) ==
  IF ~(status = "ready" /\ p.gate.proof /\ p.gate.required) THEN p
  ELSE IF p.gate.margin = None THEN [p EXCEPT !.gate.margin = 1]
  ELSE IF p.gate.margin > 0 THEN p
  ELSE [p EXCEPT !.gate.required = FALSE, !.gate.margin = None,
                 !.gate.proof = FALSE]

\* Mutant: a regression leaves the replacement's pending Ready in place.
ObserveKeepingRelease(p, status) == [p EXCEPT !.observed = status]

Observe(p, status) ==
  [p EXCEPT !.observed = status, !.release = @ /\ status = "ready"]

WithholdReady(p, beat) ==
  Publish([p EXCEPT !.block = TRUE, !.release = @ \/ p.gate.margin # None],
          "resetting", beat /\ p.block)

\* publish of createCommercialRuntimeStatusPublisher.
PublishCommercial(p, status, beat) ==
  LET seen == IF beat THEN p ELSE Observe(p, status)
      told == RecordRuntimeStatus(seen, status)
  IN  IF beat /\ p.observed \notin {"-", status} THEN Publish(p, status, beat)
      ELSE IF status # "ready" THEN Publish(told, status, beat)
      ELSE IF Blocked(told) THEN WithholdReady(told, beat)
      ELSE Publish([told EXCEPT !.block = FALSE, !.release = FALSE],
                   "ready", beat /\ ~told.block)

Announce(p, status) ==
  PublishCommercial([p EXCEPT !.said = status], status, FALSE)

-----------------------------------------------------------------------------
(* The derived status.                                                     *)

\* publishTransition
Transition(p, status, force) ==
  LET q == [p EXCEPT !.status = status]
  IN  IF force \/ p.status # status THEN Announce(q, status) ELSE q

\* Mutant: losing the last visible streamer does not restart the soak.
UnsoakedNever(p) == p

\* resetReadySoak
Unsoaked(p) == [p EXCEPT !.soak = None]

\* evaluateDerivedStatus
Evaluate(p, force) ==
  IF \A s \in Streamers : p.streamer[s] = "none"
  THEN Transition(Unsoaked(p), "waiting", force)
  ELSE IF Visible(p) = {} THEN Transition(Unsoaked(p), "warming", force)
  ELSE IF p.status = "ready" \/ p.soak = ReadySoak
  THEN Transition([p EXCEPT !.soak = None], "ready", force)
  ELSE Transition([p EXCEPT !.soak = IF @ = None THEN 0 ELSE @],
                  "stabilizing", force)

\* Bounds: a handler publishes at most twice, and intervals are so long that
\* no two heartbeats wait in the queue.
Room == Len(r.queue) + 2 <= MaxQueue

NoBeatWaits == \A i \in DOMAIN r.queue : ~r.queue[i].beat

Spend(what) ==
  /\ left[what] > 0
  /\ left' = [left EXCEPT ![what] = @ - 1]

\* The registry's 'added'.
Connect(s) ==
  /\ Room
  /\ Spend("streamer")
  /\ r.streamer[s] = "none"
  /\ r' = Evaluate([r EXCEPT !.streamer[s] = "connected"], TRUE)
  /\ UNCHANGED <<tag, streak>>

\* endpointId: the streamer streams from now on; id_changed is emitted before.
Identify(s) ==
  /\ Room
  /\ Spend("streamer")
  /\ r.streamer[s] # "none"
  /\ LET q == [r EXCEPT !.streamer[s] = "visible"]
     IN  r' = Evaluate(Evaluate(q, TRUE), TRUE)
  /\ UNCHANGED <<tag, streak>>

\* A streamer's ping evaluates; only of one not yet visible it forces.
Ping(s) ==
  /\ Room
  /\ Spend("streamer")
  /\ r.streamer[s] # "none"
  /\ r' = Evaluate(r, r.streamer[s] = "connected")
  /\ UNCHANGED <<tag, streak>>

\* The streamer's 'disconnect' is emitted while it is still registered, the
\* registry's 'removed' when it is not.
Disconnect(s) ==
  /\ Room
  /\ Spend("streamer")
  /\ r.streamer[s] # "none"
  /\ LET q == [Evaluate(r, TRUE) EXCEPT !.streamer[s] = "none"]
     IN  /\ r' = Evaluate(q, TRUE)
         /\ streak' = IF Visible(q) = {} THEN 0 ELSE streak
  /\ UNCHANGED tag

\* readySoakTimer
SoakTimer ==
  /\ r.soak = ReadySoak
  /\ r' = Evaluate(r, TRUE)
  /\ UNCHANGED <<tag, streak, left>>

\* publishHeartbeat, every heartbeatMs
WireHeartbeat ==
  /\ NoBeatWaits
  /\ r.status # "-"
  /\ r' = PublishCommercial(r, r.status, TRUE)
  /\ UNCHANGED <<tag, streak, left>>

\* commercialReadinessReleaseTimer
ReleaseTimer ==
  /\ r.release
  /\ r.gate.margin <= 0
  /\ r' = PublishCommercial([r EXCEPT !.release = FALSE], "ready", FALSE)
  /\ UNCHANGED <<tag, streak, left>>

-----------------------------------------------------------------------------
(* The idle watcher, the gate, time and the tag.                           *)

\* publishStatus, with or without startTransientStatusHeartbeat.
IdleAnnounce(status) ==
  /\ Room
  /\ Spend("idle")
  /\ r' = Announce([r EXCEPT !.idle = status], status)
  /\ UNCHANGED <<tag, streak>>

IdleHeartbeat ==
  /\ NoBeatWaits
  /\ r.idle = "grace"
  /\ r' = PublishCommercial(r, "grace", TRUE)
  /\ UNCHANGED <<tag, streak, left>>

\* clearTransientStatusHeartbeat and restoreRuntimeDerivedStatus
IdleRestore ==
  /\ Room
  /\ r.idle # "-"
  /\ r' = Evaluate([r EXCEPT !.idle = "-"], TRUE)
  /\ UNCHANGED <<tag, streak, left>>

RequireRecovery ==
  /\ Spend("gate")
  /\ ~r.gate.required
  /\ r' = [r EXCEPT !.gate.required = TRUE, !.gate.margin = None,
                    !.gate.proof = FALSE]
  /\ UNCHANGED <<tag, streak>>

\* setReconnectGraceEvidenceJournalBlock
JournalBlock ==
  /\ \/ Spend("gate") /\ ~r.gate.journal
     \/ r.gate.journal /\ UNCHANGED left
  /\ r' = [r EXCEPT !.gate.journal = ~@]
  /\ UNCHANGED <<tag, streak>>

Started(gate) ==
  Evaluate([streamer |-> [s \in Streamers |-> "none"], status |-> "-",
            soak |-> None, idle |-> "-", said |-> "-", observed |-> "-",
            block |-> FALSE, release |-> FALSE, gate |-> gate,
            desired |-> "-", queue |-> <<>>, writing |-> FALSE], TRUE)

\* The process starts again, with the marker's replacement proof when `proof`
\* (once written it stays until the recovery is over); the aws process of a
\* write that was under way may still have set the tag.
Restart(proof) ==
  /\ Spend("gate")
  /\ proof => r.gate.required
  /\ r.gate.proof => proof
  /\ r' = Started([r.gate EXCEPT !.journal = FALSE, !.proof = proof])
  /\ tag' \in {tag} \cup
       (IF r.writing THEN {Head(r.queue).status} ELSE {})
  /\ streak' = 0

Tick ==
  /\ \/ r.soak \in 0 .. ReadySoak - 1
     \/ r.gate.margin > 0
     \/ Visible(r) # {} /\ streak < ReadySoak
  /\ r.soak # ReadySoak
  /\ r' = [r EXCEPT !.soak = IF @ = None THEN @ ELSE @ + 1,
                    !.gate.margin = IF @ > 0 THEN @ - 1 ELSE @]
  /\ streak' = IF Visible(r) # {} /\ streak < ReadySoak THEN streak + 1
               ELSE streak
  /\ UNCHANGED <<tag, left>>

\* The next task looks whether a newer transition was requested meanwhile.
StartTask ==
  /\ r.queue # <<>>
  /\ ~r.writing
  /\ r' = IF Head(r.queue).fresh THEN [r EXCEPT !.writing = TRUE]
          ELSE [r EXCEPT !.queue = Tail(@)]
  /\ UNCHANGED <<tag, streak, left>>

\* writeInstanceTags: a failure is logged, and the next task runs.
EndTask ==
  /\ r.writing
  /\ r' = [r EXCEPT !.writing = FALSE, !.queue = Tail(@)]
  /\ \/ tag' = Head(r.queue).status /\ UNCHANGED left
     \/ Spend("fail") /\ UNCHANGED tag
  /\ UNCHANGED streak

-----------------------------------------------------------------------------
Init ==
  /\ \E required \in BOOLEAN, proof \in BOOLEAN :
       /\ proof => required
       /\ r = Started([required |-> required, margin |-> None,
                       journal |-> FALSE, proof |-> proof])
  /\ tag = "resetting"
  /\ streak = 0
  /\ left = [streamer |-> MaxStreamer, idle |-> MaxIdle, gate |-> MaxGate,
             fail |-> MaxFails]

Next ==
  \/ \E s \in Streamers :
       Connect(s) \/ Identify(s) \/ Ping(s) \/ Disconnect(s)
  \/ SoakTimer \/ WireHeartbeat \/ ReleaseTimer
  \/ \E status \in {"grace", "resetting"} : IdleAnnounce(status)
  \/ IdleHeartbeat \/ IdleRestore
  \/ RequireRecovery \/ JournalBlock
  \/ \E proof \in BOOLEAN : Restart(proof)
  \/ Tick \/ StartTask \/ EndTask

Spec == Init /\ [][Next]_vars

\* Timers fire, intervals repeat, and the tag writes return.
Fairness ==
  /\ WF_vars(SoakTimer)
  /\ WF_vars(WireHeartbeat)
  /\ WF_vars(IdleHeartbeat)
  /\ WF_vars(ReleaseTimer)
  /\ WF_vars(Tick)
  /\ WF_vars(StartTask)
  /\ WF_vars(EndTask)

FairSpec == Spec /\ Fairness

-----------------------------------------------------------------------------
(* Properties.                                                             *)

TypeOK ==
  /\ r \in Process
  /\ tag \in Statuses
  /\ streak \in 0 .. ReadySoak

\* The instance derives Ready only after some streamer has been visible for
\* the whole soak without a gap, whichever of ping, timer or event finds out.
ReadyIsSoaked == r.status = "ready" => streak = ReadySoak

\* What the tag should say of the last announcement.
Expected ==
  IF r.said = "ready" /\ Blocked(r) THEN "resetting" ELSE r.said

\* Whatever announcements, recoveries, failed writes and restarts crossed, the
\* tag ends up saying what was announced last, and "resetting" for as long as
\* the gate blocks a Ready.  An announced "resetting" has no heartbeat that
\* would repeat a write that failed.
TagSettles == <>[](tag = Expected \/ r.said = "resetting")
=============================================================================
