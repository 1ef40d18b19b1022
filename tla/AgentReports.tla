--------------------------- MODULE AgentReports ---------------------------
(***************************************************************************)
(* What the instance agent tells the control plane: the tick that          *)
(* bootstraps and sends heartbeats, the event outbox and the recycle       *)
(* marker whose completion it reports, the journal of elapsed reconnect    *)
(* windows, the codec evidence journal, the fault files of the watchdog,   *)
(* and the projection of the customer's entitlements.                      *)
(*                                                                         *)
(* Between two awaits the process runs alone.  At most one call of each    *)
(* kind is in flight; a call keeps what it submitted, and its reply is     *)
(* what the control plane made of it.  Control requests (bootstrap,        *)
(* heartbeat, events) are numbered by the code; only two can be in flight, *)
(* so a request knows whether it is the newer one, and a late one is       *)
(* marked when the newer one's response is applied.                        *)
(*                                                                         *)
(* Of the desired state only the recycle token is kept, as "asks": the     *)
(* token of the marker is still requested.  Commands are AgentCommands.    *)
(***************************************************************************)
EXTENDS Integers, FiniteSets, Sequences, SequencesExt, Functions

CONSTANTS
  Lives,        \* lifecycle events
  Qualities,    \* quality snapshots, all of one connection
  Evidences,    \* elapsed reconnect windows
  Poison,       \* evidence that the control plane never acknowledges
  Faults,       \* fault files written by the watchdog
  Codecs,       \* codec evidence
  Customers,    \* session requests the runtime may be assigned to
  Reset,        \* the completion of the recycle whose marker is on disk
  None,
  Workloads,    \* what may happen: sets of the above
  Writes,       \* outcomes of a journal write: "ok", "failed", "unsynced"
  MaxPending,   \* MAX_PENDING_EVENTS
  MaxFiles,     \* fault files per batch (20)
  MaxBatch,     \* codec evidence per batch (50)
  MaxCodecs,    \* capacity of the codec journal
  MaxFaults     \* lost calls, failed writes, revoked tokens, crashes

Events == Lives \cup Qualities

Durable == Evidences \cup Faults \cup Codecs \cup {Reset}

\* What the projection says when it names no customer.
Statuses == {"unassigned", "rejected", "fetch_failed", "unwritten"}

ASSUME KindAssumption ==
  /\ Events \cap Durable = {} /\ Lives \cap Qualities = {}
  /\ Evidences \cap Faults = {} /\ (Evidences \cup Faults) \cap Codecs = {}
  /\ Reset \notin Evidences \cup Faults \cup Codecs
  /\ None \notin Evidences \cup Seq(Evidences)
ASSUME CustomerAssumption == Customers \cap Statuses = {}
ASSUME FilesAssumption == IsFiniteSet(Faults)
ASSUME BoundAssumption ==
  /\ MaxPending \in Nat \ {0} /\ MaxFiles \in Nat /\ MaxBatch \in Nat \ {0}
  /\ Writes \subseteq {"ok", "failed", "unsynced"}

\* A definition whose comment says "Mutant" is a faulty variant of the one below it.

VARIABLES
  s,       \* memory of the agent and its calls in flight
  disk,    \* its files
  api,     \* the control plane
  todo,    \* what has still to happen
  left     \* faults that may still happen

vars == <<s, disk, api, todo, left>>

\* An event of the outbox: ids tell two completions of one recycle apart.
Event == [what : Events \cup {Reset}, id : Nat]

Fresh ==
  [token |-> 0,            \* no token is 0
   tick |-> None,          \* tickInFlight: the bootstrap or heartbeat
   flush |-> None,         \* eventFlushInFlight
   upload |-> None,        \* codecFlushInFlight
   asks |-> FALSE,         \* recycleRequestedToken of the desired state
   pending |-> <<>>,       \* pendingEvents
   awaiting |-> FALSE,     \* completedRecycleMarkerAwaitingEventAck
   clearing |-> FALSE,     \* acknowledgedRecycleMarkerToClear
   evidences |-> <<>>,     \* reconnectGraceElapsedEvidences
   blocked |-> FALSE,      \* reconnectGraceElapsedEvidenceJournalBlocked
   durable |-> FALSE,      \* the cutoff covers the latest expiry
   codecs |-> <<>>, failed |-> FALSE,       \* CodecEvidenceJournal
   projection |-> "unassigned", persisted |-> TRUE]

Least(m, n) == IF m < n THEN m ELSE n

\* Array.filter: a sequence without the elements that are out.
Less(q, out) ==
  LET kept[i \in 0 .. Len(q)] ==
        IF i = 0 THEN <<>>
        ELSE IF q[i] \in out THEN kept[i - 1] ELSE Append(kept[i - 1], q[i])
  IN kept[Len(q)]

Waits(call) == call # None /\ call.reply = None

\* The token of a call is one the control plane accepts.
Valid(call) == call.token = api.token

\* One of the bounded faults, when it is one.
Fault(is) == (is => left > 0) /\ left' = IF is THEN left - 1 ELSE left

-----------------------------------------------------------------------------
(* The event outbox.                                                       *)

\* Mutant: one event too many is kept.
OneMore(q) ==
  IF Len(q) > MaxPending + 1 THEN SubSeq(q, Len(q) - MaxPending, Len(q)) ELSE q

\* The newest MaxPending events.
Newest(q) == IF Len(q) > MaxPending
  THEN SubSeq(q, Len(q) - MaxPending + 1, Len(q)) ELSE q

\* Ids in use: of the outbox, and of the batch in flight.
UsedIds(x) ==
  {e.id : e \in ToSet(x.pending)} \cup
  (IF x.flush = None THEN {} ELSE {e.id : e \in ToSet(x.flush.events)})

\* queueEvent: the newest MaxPending events are kept.
Queued(x, what) ==
  LET id == CHOOSE n \in 1 .. Cardinality(UsedIds(x)) + 1 : n \notin UsedIds(x) IN
  [x EXCEPT !.pending = Newest(Append(@, [what |-> what, id |-> id]))]

\* The listener of session quality: a snapshot replaces the queued one of its
\* connection, and never crowds out other events.
QualityQueued(x, what) ==
  LET y == [x EXCEPT !.pending = Less(@, {e \in ToSet(@) : e.what \in Qualities})] IN
  IF Len(y.pending) >= MaxPending - 1 THEN y ELSE Queued(y, what)

\* ensureCompletedRecycleMarkerEventQueued
ResetEnsured(x) ==
  IF ~x.awaiting \/ \E e \in ToSet(x.pending) : e.what = Reset THEN x ELSE Queued(x, Reset)

Files(d) == SetToSeq(d.faults)

\* RuntimeRecovery.batch, then the outbox.
Batch(x, d) ==
  LET files == [i \in 1 .. Cardinality(d.faults) |-> [what |-> Files(d)[i], id |-> 0]]
      first == SubSeq(files, 1, Least(MaxFiles, Len(files)))
      all == first \o x.pending
  IN SubSeq(all, 1, Least(MaxPending, Len(all)))

\* flushEvents, up to its request.
Flushed(x, d) ==
  IF x.flush # None \/ x.token = 0 \/ Batch(x, d) = <<>> THEN x
  ELSE [x EXCEPT !.flush = [token |-> x.token, events |-> Batch(x, d),
                            newer |-> (x.tick # None), late |-> FALSE, reply |-> None],
                 !.tick = IF @ = None THEN @ ELSE [@ EXCEPT !.newer = FALSE]]

\* Mutant: acknowledged events are taken from the front of the outbox.
FrontRemoved(x, accepted) ==
  LET n == Cardinality({e \in accepted : e.id # 0}) IN
  [x EXCEPT !.pending = SubSeq(@, n + 1, Len(@))]

\* Only acknowledged objects are removed: the outbox may have moved on.
Removed(x, accepted) ==
  [x EXCEPT !.pending = Less(@, accepted)]

-----------------------------------------------------------------------------
(* The journal of elapsed windows: a file that is read before it is        *)
(* written, and replaced as a whole.                                       *)

\* inspectInstanceAgentReconnectGraceElapsedEvidenceJournal
Status(d) ==
  IF d.spoilt THEN "invalid" ELSE IF d.journal = None THEN "missing" ELSE "valid"

Recorded(d) == IF d.journal = None THEN <<>> ELSE d.journal

\* writeJournalAtomically: the new content is there unless the write failed.
Written(d, q, outcome) == IF outcome = "failed" THEN d ELSE [d EXCEPT !.journal = q]

\* appendInstanceAgentReconnectGraceElapsedEvidence; removing the last record
\* removes the file.
Appended(d, e) == IF e \in ToSet(Recorded(d)) THEN Recorded(d) ELSE Append(Recorded(d), e)

Without(d, e) ==
  LET q == Less(Recorded(d), {e}) IN
  IF e \notin ToSet(Recorded(d)) THEN d.journal ELSE IF q = <<>> THEN None ELSE q

\* Mutant: the submitted evidence keeps its place.
KeptFirst(d, e) == d.journal

\* rotateInstanceAgentReconnectGraceElapsedEvidenceAfterAttempt
Rotated(d, e) ==
  IF e \notin ToSet(Recorded(d)) THEN d.journal
  ELSE Append(Less(Recorded(d), {e}), e)

\* refreshReconnectGraceElapsedEvidenceJournalHealth; it is healthy unless blocked.
Inspected(x, d) ==
  IF Status(d) = "invalid" THEN [x EXCEPT !.blocked = TRUE]
  ELSE IF Status(d) = "valid" THEN [x EXCEPT !.evidences = d.journal, !.blocked = FALSE]
  ELSE IF x.blocked \/ x.evidences # <<>> THEN [x EXCEPT !.blocked = TRUE] ELSE x

\* What a write that returned its records, or nothing, leaves in memory.
Taken(x, d, outcome) ==
  IF outcome = "ok" THEN [x EXCEPT !.evidences = Recorded(d)] ELSE Inspected(x, d)

\* recordReconnectGraceElapsedEvidence
EvidenceRecorded(x, d, outcome) ==
  LET y == Taken(x, d, outcome) IN
  IF outcome = "ok" THEN [y EXCEPT !.durable = FALSE, !.blocked = FALSE] ELSE y

-----------------------------------------------------------------------------
(* A control response.                                                     *)

\* acceptControlResponse: the other call in flight, when it was sent before this
\* one, is late from now on.
Overtaken(call, own) ==
  IF call = None THEN None
  ELSE [call EXCEPT !.late = @ \/ (own.newer /\ ~own.late), !.newer = FALSE]

\* The control part of a response to the tick.
TickAccepted(x) ==
  LET y == [x EXCEPT !.flush = Overtaken(@, x.tick)] IN
  IF x.tick.late THEN y ELSE [y EXCEPT !.asks = x.tick.reply.asks]

\* The control part of a response to a flush.
FlushAccepted(x) ==
  LET y == [x EXCEPT !.tick = Overtaken(@, x.flush)] IN
  IF x.flush.late THEN y ELSE [y EXCEPT !.asks = x.flush.reply.asks]

\* A control request: the newer one when another is in flight.
TickSent(x, kind) ==
  [x EXCEPT !.tick = [kind |-> kind, token |-> x.token,
                      head |-> IF x.evidences = <<>> THEN None ELSE Head(x.evidences),
                      newer |-> (x.flush # None), late |-> FALSE, reply |-> None],
            !.flush = IF @ = None THEN @ ELSE [@ EXCEPT !.newer = FALSE]]

\* ensureBootstrap, or the heartbeat.
Sent(x) == TickSent(x, IF x.token = 0 THEN "bootstrap" ELSE "heartbeat")

\* authorizedFetch: a rejected token is dropped unless it was replaced.
TokenChecked(x, call) ==
  IF ~Valid(call) /\ x.token = call.token THEN [x EXCEPT !.token = 0] ELSE x

\* tryClearAcknowledgedRecycleMarker
Cleared(x, ok) == IF x.clearing /\ ok THEN [x EXCEPT !.clearing = FALSE] ELSE x

\* Mutant: an accepted completion clears the marker whatever is still asked.
ResetSettledEarly(x, accepted) ==
  IF ~x.awaiting \/ \A e \in accepted : e.what # Reset THEN x
  ELSE [x EXCEPT !.awaiting = FALSE, !.clearing = TRUE]

\* flushEvents: the accepted completion of a recycle; x has the response's wishes.
ResetSettled(x, accepted) ==
  IF ~x.awaiting \/ \A e \in accepted : e.what # Reset THEN x
  ELSE IF x.asks THEN ResetEnsured(x)
  ELSE [x EXCEPT !.awaiting = FALSE, !.clearing = TRUE]

-----------------------------------------------------------------------------
(* The codec journal and the entitlement projection.                       *)

\* append refuses when the journal failed or is full; ready keeps a margin for the
\* negotiations under way.
Appendable(x) == ~x.failed /\ Len(x.codecs) < MaxCodecs

\* Mutant: what is sent counts as acknowledged.
SentAcknowledged(q, call, acked) == Less(q, ToSet(call.batch))

\* acknowledge: exactly what the reply names goes.
Acknowledged(q, call, acked) == Less(q, acked)

\* Mutant: the projection is in memory before it is on disk.
ProjectedFirst(x, next, ok) ==
  [x EXCEPT !.projection = next, !.persisted = ok]

\* applyRuntimeEntitlementProjection
Projected(x, next, ok) ==
  IF x.projection = next /\ x.persisted THEN x
  ELSE IF ok THEN [x EXCEPT !.projection = next, !.persisted = TRUE]
  ELSE [x EXCEPT !.projection = "unwritten", !.persisted = FALSE]

-----------------------------------------------------------------------------
(* What happens on the host.                                               *)

\* startInstanceAgent, from the files it finds.
Started(d, cleared) ==
  LET x == [Fresh EXCEPT !.evidences = Recorded(d), !.codecs = d.codecs,
                         !.blocked = d.spoilt,
                         !.projection = IF cleared THEN "unassigned" ELSE "unwritten",
                         !.persisted = cleared]
  IN IF d.spoilt THEN [x EXCEPT !.evidences = <<>>] ELSE x

Init ==
  /\ todo \in Workloads
  /\ disk = [journal |-> None, spoilt |-> FALSE, codecs |-> <<>>, faults |-> {},
             marker |-> Reset \in todo, projection |-> "unassigned"]
  /\ s = Started(disk, TRUE)
  /\ api = [token |-> 0, asks |-> Reset \in todo, received |-> {}, assigned |-> "unassigned"]
  /\ left = MaxFaults

\* The registry's listeners, and whatever else queues an event.
Occur ==
  \E e \in todo \cap Events :
    /\ s' = IF e \in Qualities THEN QualityQueued(s, e) ELSE Queued(s, e)
    /\ todo' = todo \ {e}
    /\ UNCHANGED <<disk, api, left>>

\* recordRuntimeStatus, ready: the replacement whose marker was found is complete.
Completed ==
  /\ disk.marker /\ ~s.awaiting /\ ~s.clearing
  /\ s' = Queued([s EXCEPT !.awaiting = TRUE], Reset)
  /\ todo' = todo \ {Reset}
  /\ UNCHANGED <<disk, api, left>>

Elapse ==
  \E e \in todo \cap Evidences, outcome \in Writes :
    LET y == IF s.blocked THEN Inspected(s, disk) ELSE s
        d == Written(disk, Appended(disk, e), outcome)
    IN /\ Fault(outcome # "ok")
       /\ IF disk.spoilt \/ y.blocked
          THEN s' = Inspected(s, disk) /\ UNCHANGED <<disk, todo>>
          ELSE /\ disk' = d
               /\ s' = EvidenceRecorded(y, d, outcome)
               /\ todo' = IF outcome = "ok" THEN todo \ {e} ELSE todo
       /\ UNCHANGED api

\* CodecEvidenceJournal.append: recorded when it is on disk, or refused.
Negotiate ==
  \E c \in todo \cap Codecs, ok \in BOOLEAN :
    /\ Appendable(s) /\ Fault(~ok)
    /\ s' = IF ok THEN [s EXCEPT !.codecs = Append(@, c)] ELSE [s EXCEPT !.failed = TRUE]
    /\ disk' = IF ok THEN [disk EXCEPT !.codecs = Append(@, c)] ELSE disk
    /\ todo' = todo \ {c}
    /\ UNCHANGED api

\* The watchdog leaves a fault file.
Report ==
  \E f \in todo \cap Faults :
    /\ disk' = [disk EXCEPT !.faults = @ \cup {f}]
    /\ todo' = todo \ {f}
    /\ UNCHANGED <<s, api, left>>

Assign ==
  \E c \in (todo \cap Customers) \cup {"unassigned"} :
    /\ c # api.assigned
    /\ api' = [api EXCEPT !.assigned = c]
    /\ todo' = todo \ {c}
    /\ UNCHANGED <<s, disk, left>>

\* The journal becomes unreadable, and is restored by an operator.
Spoil ==
  /\ ~disk.spoilt /\ disk.journal # None /\ Fault(TRUE)
  /\ disk' = [disk EXCEPT !.spoilt = TRUE]
  /\ UNCHANGED <<s, api, todo>>

Restore ==
  /\ disk.spoilt
  /\ disk' = [disk EXCEPT !.spoilt = FALSE]
  /\ UNCHANGED <<s, api, todo, left>>

Crash ==
  \E cleared \in BOOLEAN :
    /\ Fault(TRUE)
    /\ s' = Started(disk, cleared)
    /\ disk' = IF cleared THEN [disk EXCEPT !.projection = "unassigned"] ELSE disk
    /\ UNCHANGED <<api, todo>>

-----------------------------------------------------------------------------
(* The tick.                                                               *)

\* runTick: the journal is healthy and the cutoff of its records is durable, or
\* there is no tick.
Tick ==
  LET x == Inspected(s, disk) IN
  /\ s.tick = None
  /\ \E ok \in BOOLEAN :
       /\ Fault(~ok)
       /\ ok \/ (~x.blocked /\ x.evidences # <<>> /\ ~x.durable)
       /\ s' = IF x.blocked \/ ~ok THEN x
               ELSE Sent([x EXCEPT !.durable = x.evidences # <<>>])
  /\ UNCHANGED <<disk, api, todo>>

\* handleReconnectGraceElapsedEvidenceResponse: the cutoff of an acknowledged
\* record is made durable, then the record goes; another one is moved back.
EvidenceAnswered(x, cutoff, outcome) ==
  LET e == x.tick.head
      acked == x.tick.reply.ack = e
      q == IF acked THEN Without(disk, e) ELSE Rotated(disk, e)
      wrote == IF q = disk.journal THEN "ok" ELSE outcome
      d == Written(disk, q, wrote)
  IN IF e = None \/ (acked /\ ~cutoff) THEN <<x, disk>>
     ELSE IF disk.spoilt THEN <<Inspected(x, disk), disk>>
     ELSE <<Taken(IF acked THEN [x EXCEPT !.durable = TRUE] ELSE x, d, wrote), d>>

\* The response to the bootstrap; the heartbeat follows.
Bootstrapped ==
  /\ s.tick # None /\ s.tick.kind = "bootstrap" /\ s.tick.reply # None
  /\ \E cutoff \in BOOLEAN, outcome \in Writes :
       LET x == TickAccepted([s EXCEPT !.token = s.tick.reply.token])
           r == EvidenceAnswered(x, cutoff, outcome)
       IN /\ Fault(~cutoff \/ outcome # "ok")
          /\ s' = Sent([r[1] EXCEPT !.tick = None])
          /\ disk' = r[2]
  /\ UNCHANGED <<api, todo>>

\* The response to the heartbeat; the events, the artifacts and the recovery of
\* a command follow.
Beaten ==
  /\ s.tick # None /\ s.tick.kind = "heartbeat" /\ s.tick.reply # None
  /\ IF s.tick.reply.code = "401"
     THEN s' = [TokenChecked(s, s.tick) EXCEPT !.tick = None] /\ UNCHANGED <<disk, left>>
     ELSE \E cutoff, clear \in BOOLEAN, outcome \in Writes :
       LET r == EvidenceAnswered(TickAccepted(s), cutoff, outcome)
           x == Flushed(ResetEnsured([r[1] EXCEPT !.tick = None]), r[2])
       IN /\ Fault(~cutoff \/ ~clear \/ outcome # "ok")
          /\ s' = Cleared(x, clear)
          /\ disk' = [r[2] EXCEPT !.marker = @ /\ ~(x.clearing /\ clear)]
  /\ UNCHANGED <<api, todo>>

\* flushEvents, from the response on.
FlushAnswered ==
  /\ s.flush # None /\ s.flush.reply # None
  /\ IF s.flush.reply.code = "401"
     THEN s' = [TokenChecked(s, s.flush) EXCEPT !.flush = None] /\ UNCHANGED <<disk, left>>
     ELSE \E clear \in BOOLEAN :
       LET accepted == ToSet(SubSeq(s.flush.events, 1, s.flush.reply.accepted))
           r == ResetSettled(FlushAccepted(Removed(s, accepted)), accepted)
           x == [r EXCEPT !.flush = None]
       IN /\ Fault(~clear)
          /\ s' = Cleared(x, clear)
          /\ disk' = [disk EXCEPT !.faults = @ \ {e.what : e \in accepted},
                                  !.marker = @ /\ ~(x.clearing /\ clear)]
  /\ UNCHANGED <<api, todo>>

\* flushCodecEvidence, every five seconds; an empty batch only tells readiness.
Upload ==
  /\ s.upload = None /\ s.token # 0 /\ s.codecs # <<>>
  /\ s' = [s EXCEPT !.upload =
             [token |-> s.token, batch |-> SubSeq(s.codecs, 1, Least(MaxBatch, Len(s.codecs)))]]
  /\ UNCHANGED <<disk, api, todo, left>>

\* The control plane acknowledges some of the batch, and the first of it always.
\* A rejected upload drops the token, whichever it is now; the journal that
\* cannot be written fails for good.
Uploaded ==
  /\ s.upload # None
  /\ IF Valid(s.upload)
     THEN \E acked \in SUBSET ToSet(s.upload.batch), ok \in BOOLEAN :
       LET q == Acknowledged(s.codecs, s.upload, acked) IN
       /\ Head(s.upload.batch) \in acked
       /\ Fault(~ok) /\ (ok \/ q # s.codecs)
       /\ api' = [api EXCEPT !.received = @ \cup acked]
       /\ s' = [s EXCEPT !.upload = None, !.codecs = IF ok THEN q ELSE @,
                         !.failed = @ \/ ~ok]
       /\ disk' = IF ok THEN [disk EXCEPT !.codecs = q] ELSE disk
     ELSE s' = [s EXCEPT !.token = 0, !.upload = None] /\ UNCHANGED <<disk, api, left>>
  /\ UNCHANGED todo

\* refreshRuntimeEntitlementProjection, one at a time, by the tick and by its own
\* timer: the customer, or a failure, is projected.
Refreshed ==
  /\ s.token # 0
  /\ \E lost, ok \in BOOLEAN :
       LET valid == s.token = api.token
           next == IF lost THEN "fetch_failed" ELSE IF valid THEN api.assigned ELSE "rejected"
           tried == ~(s.projection = next /\ s.persisted)
       IN /\ Fault(lost \/ ~ok) /\ (ok \/ tried)
          /\ s' = Projected(IF lost \/ valid THEN s ELSE [s EXCEPT !.token = 0], next, ok)
          /\ disk' = IF ok /\ tried THEN [disk EXCEPT !.projection = next] ELSE disk
  /\ UNCHANGED <<api, todo>>

-----------------------------------------------------------------------------
(* The control plane, as the agent's calls show it.                        *)

AnswerTick ==
  /\ Waits(s.tick)
  /\ LET boot == s.tick.kind = "bootstrap"
         token == IF boot THEN api.token + 1 ELSE api.token
         ack == IF s.tick.head \in Poison THEN None ELSE s.tick.head
     IN IF boot \/ Valid(s.tick)
        THEN /\ s' = [s EXCEPT !.tick.reply = [code |-> "200", token |-> token, asks |-> api.asks, ack |-> ack]]
             /\ api' = [api EXCEPT !.token = token, !.received = @ \cup ({ack} \ {None})]
        ELSE s' = [s EXCEPT !.tick.reply = [code |-> "401"]] /\ UNCHANGED api
  /\ UNCHANGED <<disk, todo, left>>

\* A prefix of the batch is accepted.
AnswerFlush ==
  /\ Waits(s.flush)
  /\ IF Valid(s.flush)
     THEN \E n \in 1 .. Len(s.flush.events) :
            /\ s' = [s EXCEPT !.flush.reply = [code |-> "200", accepted |-> n, asks |-> api.asks]]
            /\ api' = [api EXCEPT !.received =
                         @ \cup {s.flush.events[i].what : i \in 1 .. n}]
     ELSE s' = [s EXCEPT !.flush.reply = [code |-> "401"]] /\ UNCHANGED api
  /\ UNCHANGED <<disk, todo, left>>

\* The recycle is reported complete: its token is not asked for any more.
Withdraw ==
  /\ api.asks /\ Reset \in api.received
  /\ api' = [api EXCEPT !.asks = FALSE]
  /\ UNCHANGED <<s, disk, todo, left>>

Revoke ==
  /\ Fault(TRUE)
  /\ api' = [api EXCEPT !.token = @ + 1]
  /\ UNCHANGED <<s, disk, todo>>

\* A request or its response is lost, or the call exceeds its deadline.
Lose ==
  /\ Fault(TRUE)
  /\ \/ s.tick # None /\ s' = [s EXCEPT !.tick = None]
     \/ s.flush # None /\ s' = [s EXCEPT !.flush = None]
     \/ s.upload # None /\ s' = [s EXCEPT !.upload = None]
  /\ UNCHANGED <<disk, api, todo>>

Next ==
  \/ Occur \/ Completed \/ Elapse \/ Negotiate \/ Report \/ Assign
  \/ Spoil \/ Restore \/ Crash
  \/ Tick \/ Bootstrapped \/ Beaten \/ FlushAnswered
  \/ Upload \/ Uploaded \/ Refreshed
  \/ AnswerTick \/ AnswerFlush \/ Withdraw \/ Revoke \/ Lose

Spec == Init /\ [][Next]_vars

\* Timers fire, calls are answered or fail by their deadline, a recycle that was
\* reported is withdrawn and a spoilt journal is restored.
Fairness ==
  /\ WF_vars(Tick)
  /\ WF_vars(Bootstrapped)
  /\ WF_vars(Beaten)
  /\ WF_vars(FlushAnswered)
  /\ WF_vars(Upload)
  /\ WF_vars(Uploaded)
  /\ WF_vars(Refreshed)
  /\ WF_vars(Completed)
  /\ WF_vars(AnswerTick)
  /\ WF_vars(AnswerFlush)
  /\ WF_vars(Withdraw)
  /\ WF_vars(Restore)

FairSpec == Spec /\ Fairness

-----------------------------------------------------------------------------
(* Properties.                                                             *)

\* An event of a batch: of the outbox, or a fault file.
Sendable == [what : Events \cup {Reset} \cup Faults, id : Nat]

Refusal == [code : {"401"}]

TickCall ==
  [kind : {"bootstrap", "heartbeat"}, token : Nat, head : Evidences \cup {None},
   newer : BOOLEAN, late : BOOLEAN,
   reply : [code : {"200"}, token : Nat, asks : BOOLEAN, ack : Evidences \cup {None}]
             \cup Refusal \cup {None}]

FlushCall ==
  [token : Nat, events : Seq(Sendable), newer : BOOLEAN, late : BOOLEAN,
   reply : [code : {"200"}, accepted : Nat, asks : BOOLEAN] \cup Refusal \cup {None}]

Process ==
  [token : Nat, tick : TickCall \cup {None}, flush : FlushCall \cup {None},
   upload : [token : Nat, batch : Seq(Codecs)] \cup {None},
   asks : BOOLEAN, pending : Seq(Event), awaiting : BOOLEAN, clearing : BOOLEAN,
   evidences : Seq(Evidences), blocked : BOOLEAN, durable : BOOLEAN,
   codecs : Seq(Codecs), failed : BOOLEAN,
   projection : Statuses \cup Customers, persisted : BOOLEAN]

Storage ==
  [journal : Seq(Evidences) \cup {None}, spoilt : BOOLEAN, codecs : Seq(Codecs),
   faults : SUBSET Faults, marker : BOOLEAN, projection : Statuses \cup Customers]

ControlPlane ==
  [token : Nat, asks : BOOLEAN, received : SUBSET (Events \cup Durable),
   assigned : {"unassigned"} \cup Customers]

TypeOK ==
  /\ s \in Process /\ disk \in Storage /\ api \in ControlPlane
  /\ Len(s.pending) <= MaxPending /\ IsInjective(s.pending)
  /\ s.codecs = disk.codecs

\* What is owed, whatever becomes of the process.
Debt(d) ==
  ToSet(Recorded(d)) \cup ToSet(d.codecs) \cup d.faults
    \cup (IF d.marker THEN {Reset} ELSE {})

Owed == Debt(disk)

Delivery == INSTANCE AtLeastOnce
  WITH Items <- Durable, owed <- Owed, received <- api.received \cap Durable

\* Elapsed windows, codec evidence, fault files and the completion of a recycle
\* are kept until the control plane has them.
Delivered == Delivery!Spec

\* The marker of a recycle stays until its token is withdrawn: with the token
\* still asked for, only the marker tells that the recycle is done.
MarkerStays == api.asks => disk.marker

\* An event leaves the outbox when the control plane has it, when newer ones take
\* its place, when a newer snapshot replaces it, or with the process.
Held(x) == {e.what : e \in ToSet(x.pending)}

Accounted ==
  \A e \in Held(s) \ Held(s') :
    \/ e \in api.received \cup Qualities
    \/ Len(s.pending) = MaxPending /\ s.pending[1].what = e /\ s'.pending # <<>>
    \/ s' \in {Started(disk, TRUE), Started(disk, FALSE)}

NothingVanishes == [][Accounted]_vars

\* A customer the agent reports as projected is the one on disk.
ProjectedIsWritten == s.projection \in Customers => disk.projection = s.projection

\* In the end nothing is owed but what is never acknowledged, and that does not
\* hold up the rest.
Settles == <>[](Owed \subseteq Poison)

=============================================================================
