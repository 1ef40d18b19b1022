----------------------------- MODULE TicketGate -----------------------------
(***************************************************************************)
(* The connect-ticket runtime gate of the signalling web server            *)
(* (connect-ticket-runtime-state.ts), driven by the handlers that call it: *)
(* WebSocket admission (ConnectTicketAuth.ts), teardown (viewer-idle-stop) *)
(* and the recycle/recovery protocol (instance-agent.ts).                  *)
(*                                                                         *)
(* The gate owns one JSON file.  It is replaced by a temporary file, an    *)
(* fsync, a rename and an fsync of the directory, so a write has three     *)
(* outcomes: "durable", "lost" (nothing changed) and "renamed" (the new    *)
(* file is visible, the call still reports failure, and a host crash may   *)
(* bring the old file back).  disk is the file a process reads, stable the *)
(* content the storage guarantees after a host crash.                      *)
(*                                                                         *)
(* Time is the local clock in seconds, advanced by Tick.  The API signs    *)
(* tickets and stamps commands with a clock that is off by at most Skew.   *)
(*                                                                         *)
(* Every handler is one action: each runs to its end without awaiting.     *)
(***************************************************************************)
EXTENDS Integers, Sequences, FiniteSets

CONSTANTS
  Sessions,      \* managed session requests (customers)
  NoSession,
  Tokens,        \* recycle tokens (instance command ids)
  Untokened,     \* the token of a recycle launched without a command
  NoMarker,      \* no recycle marker on disk
  Shutdown,      \* a shutdown request, which no recycle completes
  MaxTokens,     \* MAX_COMPLETED_RECYCLE_TOKENS
  Skew,          \* accepted clock skew between API and host
  MaxTime,       \* bound: the environment is quiet from this time on
  Outcomes,      \* the write outcomes the storage produces
  Faults         \* what fails beyond these writes: "process" and "host" stop,
                 \* the recycle "marker" cannot be stamped

\* A definition whose comment says "Mutant" is a faulty variant of the one below it,
\* never used by it: each breaks one of the properties at the end.

NoTime == -1
Time == Nat \cup {NoTime}
Recycles == Tokens \cup {Untokened}

ASSUME SessionAssumption == NoSession \notin Sessions
ASSUME TokenAssumption ==
  /\ Untokened \notin Tokens
  /\ NoMarker \notin Recycles
  /\ Shutdown \notin Recycles
ASSUME BoundAssumption ==
  /\ Skew \in Nat
  /\ MaxTime \in Nat
  /\ MaxTokens \in Nat \ {0}
  /\ Outcomes \subseteq {"durable", "renamed", "lost"}
  /\ Faults \subseteq {"process", "host", "marker"}

VARIABLES
  disk,          \* the runtime state file as a process reads it
  stable,        \* what a host crash cannot take back
  up,            \* the signalling process is serving
  failed,        \* runtimeStatePersistenceFailureReason is set
  owner,         \* managedSessionRequestId, the process-local ownership
  admittedHere,  \* admittedInThisProcess
  hostBoot,      \* hostBootEpochSeconds
  requests,      \* teardown requests in the command journal or desired state
  marker,        \* the recycle marker file: whose recycle, or NoMarker
  proven,        \* the marker says replacement_started
  helper,        \* the recycle script is running
  pending,       \* pendingRecycleCompletion is set in this process
  now,
  occupants,     \* history: sessions admitted since the stack last started
  latched,       \* history: an acknowledged teardown awaits its recovery
  fence          \* history: tickets issued up to here were fenced off

volatile == <<failed, owner, admittedHere>>
recycle  == <<marker, proven, helper, pending>>
history  == <<occupants, latched, fence>>
vars == <<disk, stable, up, volatile, hostBoot, requests, recycle, now, history>>

-----------------------------------------------------------------------------
(* The file. preparedAt is history: when the ready margin was written.     *)

Snapshot ==
  [cutoff: Nat, required: BOOLEAN, ready: Time, preparedAt: Time,
   owner: Sessions \cup {NoSession}, admittedAt: Time, done: Seq(Tokens)]

Baseline ==
  [cutoff |-> 0, required |-> FALSE, ready |-> NoTime, preparedAt |-> NoTime,
   owner |-> NoSession, admittedAt |-> NoTime, done |-> <<>>]

Later(a, b) == IF a >= b THEN a ELSE b

Completed(s) == {s.done[i] : i \in 1..Len(s.done)}

\* Mutant: the token of a recycle without a command is kept like any other.
AnyToken(done, t) == IF Len(done) < MaxTokens THEN Append(done, t) ELSE done

\* The completed tokens are a set kept in order of completion, the last
\* MaxTokens of them.
WithToken(done, t) ==
  IF t \notin Tokens \/ \E i \in 1..Len(done) : done[i] = t THEN done
  ELSE IF Len(done) < MaxTokens THEN Append(done, t)
  ELSE Append(Tail(done), t)

\* Mutant: a rename is success, whatever the fsync of the directory says.
AcknowledgedByRename(w) == w # "lost"

\* The caller is told that the write is durable.
Acknowledged(w) == w = "durable"

Persist(new, w) ==
  /\ disk'   = IF w = "lost" THEN disk ELSE new
  /\ stable' = IF w = "durable" THEN new ELSE stable

-----------------------------------------------------------------------------
(* Teardown: markTeardownStarted. occurred is the stamp of the command,    *)
(* the desired state or the elapsed reconnect window.                      *)

Stamps == 0..(now + Skew)

\* Mutant: the cutoff is the stamp of the latest teardown.
LatchedAtStamp(occurred) ==
  [disk EXCEPT !.cutoff = occurred, !.required = TRUE,
               !.ready = NoTime, !.preparedAt = NoTime]

Latched(occurred) ==
  [disk EXCEPT !.cutoff = Later(@, occurred), !.required = TRUE,
               !.ready = NoTime, !.preparedAt = NoTime]

StartTeardown(occurred, w) ==
  /\ up
  /\ Persist(Latched(occurred), w)
  /\ failed' = ~Acknowledged(w)
  /\ latched' = (latched \/ Acknowledged(w))
  /\ UNCHANGED <<up, owner, admittedHere, hostBoot, requests, recycle, now,
                 occupants, fence>>

\* A read of the file that fails (locked, torn, unparsable) closes the gate.
ReadFailure ==
  /\ up
  /\ ~failed
  /\ failed' = TRUE
  /\ UNCHANGED <<disk, stable, up, owner, admittedHere, hostBoot, requests,
                 recycle, now, history>>

-----------------------------------------------------------------------------
(* Admission: rejectReasonForTicket, then recordManagedViewerAdmission.    *)

TeardownRequested ==
  \E q \in requests : q = Shutdown \/ q \notin Completed(disk)

\* rejectReasonForTicket returns null for a ticket of session s.
Admissible(s, iat) ==
  /\ up
  /\ ~TeardownRequested
  /\ ~failed
  /\ owner \in {NoSession, s}
  /\ ~disk.required
  /\ iat > disk.cutoff

WithAdmission(s) ==
  [disk EXCEPT !.owner = s,
               !.admittedAt = IF @ = NoTime THEN now ELSE @]

\* A first admission, or one that brings a new active session id, rewrites
\* the file.
Admit(s, iat, w) ==
  /\ Admissible(s, iat)
  /\ disk.owner \in {NoSession, s}
  /\ Persist(WithAdmission(s), w)
  /\ owner' = s
  /\ failed' = ~Acknowledged(w)
  /\ admittedHere' = (admittedHere \/ Acknowledged(w))
  /\ occupants' = IF Acknowledged(w) THEN occupants \cup {s} ELSE occupants
  /\ UNCHANGED <<up, hostBoot, requests, recycle, now, latched, fence>>

\* Mutant: a viewer admitted on the evidence of an earlier process is not
\* noted in this one.
ReadmitUnnoted(s, iat) ==
  /\ Admissible(s, iat)
  /\ disk.owner = s
  /\ owner' = s
  /\ occupants' = occupants \cup {s}
  /\ UNCHANGED <<disk, stable, up, failed, admittedHere, hostBoot, requests,
                 recycle, now, latched, fence>>

\* Any later admission of the session the file names leaves it alone.
Readmit(s, iat) ==
  /\ Admissible(s, iat)
  /\ disk.owner = s
  /\ owner' = s
  /\ admittedHere' = TRUE
  /\ occupants' = occupants \cup {s}
  /\ UNCHANGED <<disk, stable, up, failed, hostBoot, requests, recycle, now,
                 latched, fence>>

\* The ticket is good, but the evidence cannot be read: the process keeps the
\* ownership the first call took and rejects the viewer.
AdmitUnreadable(s, iat) ==
  /\ Admissible(s, iat)
  /\ owner' = s
  /\ failed' = TRUE
  /\ UNCHANGED <<disk, stable, up, admittedHere, hostBoot, requests, recycle,
                 now, history>>

\* What the API signs at time t carries an issue time from its own clock.
IssueTimes(t) == Later(0, t - Skew)..(t + Skew)

-----------------------------------------------------------------------------
(* reconcileAssignmentAfterHostBoot: an authenticated assignment response  *)
(* names no session, or another one than the process-local owner.          *)

Released ==
  [disk EXCEPT !.owner = NoSession, !.admittedAt = NoTime,
               !.cutoff = Later(@, now + Skew)]

\* Mutant: the boot time alone decides.
AdmittedBeforeBoot ==
  /\ owner # NoSession
  /\ disk.admittedAt # NoTime
  /\ disk.admittedAt + Skew < hostBoot
  /\ ~disk.required

Releasable ==
  /\ ~admittedHere
  /\ owner # NoSession
  /\ disk.admittedAt # NoTime
  /\ disk.admittedAt + Skew < hostBoot
  /\ ~disk.required

Reconcile(w) ==
  /\ up
  /\ Releasable
  /\ Persist(Released, w)
  /\ owner' = IF Acknowledged(w) THEN NoSession ELSE owner
  /\ fence' = IF Acknowledged(w) THEN Later(fence, now) ELSE fence
  /\ UNCHANGED <<up, failed, admittedHere, hostBoot, requests, recycle, now,
                 occupants, latched>>

-----------------------------------------------------------------------------
(* Recycle: the idle-stop module writes an intent marker, a script replaces*)
(* the stack and marks it started, and the new process recovers.           *)

\* requestStackRecycle launches only behind a durable cutoff, which it writes
\* unless this process already has; an attempt whose write fails is a
\* StartTeardown.  An intent found on disk keeps the token it was written for.
LaunchRecycle(t, occurred) ==
  /\ up
  /\ ~proven
  /\ marker # NoMarker => t = marker
  /\ t \notin Completed(disk)
  /\ Persist(Latched(occurred), "durable")
  /\ failed' = FALSE
  /\ latched' = TRUE
  /\ marker' = t
  /\ helper' = TRUE
  /\ UNCHANGED <<up, owner, admittedHere, hostBoot, requests, proven, pending,
                 now, occupants, fence>>

\* The helper process could not be started.
AbandonRecycle ==
  /\ up
  /\ helper
  /\ marker' = NoMarker
  /\ helper' = FALSE
  /\ UNCHANGED <<disk, stable, up, volatile, hostBoot, requests, proven, pending,
                 now, history>>

\* Mutant: the script advances the marker and leaves the runtime as it is.
ReplaceProcess ==
  /\ helper
  /\ proven' = TRUE
  /\ helper' = FALSE
  /\ up' = FALSE
  /\ pending' = FALSE
  /\ UNCHANGED <<disk, stable, volatile, hostBoot, requests, marker, now,
                 history>>

\* The script stops the process and the runtime before it advances the marker.
ReplaceStack ==
  /\ helper
  /\ proven' = TRUE
  /\ helper' = FALSE
  /\ up' = FALSE
  /\ pending' = FALSE
  /\ occupants' = {}
  /\ UNCHANGED <<disk, stable, volatile, hostBoot, requests, marker, now,
                 latched, fence>>

\* isCommercialRecoveryRequired
RecoveryRequired == failed \/ disk.required

\* Mutant: the cutoff is the local clock, without the skew.
PreparedNow ==
  LET cutoff == Later(disk.cutoff, now)
  IN  [disk EXCEPT !.cutoff = cutoff, !.ready = cutoff + Skew,
                   !.preparedAt = now]

Prepared ==
  LET cutoff == Later(disk.cutoff, now + Skew)
  IN  [disk EXCEPT !.cutoff = cutoff, !.ready = cutoff + Skew,
                   !.preparedAt = now]

\* Ready after a proven replacement: prepareCommercialRecoveryAfterReset
\* writes the margin, and the margin cannot have passed yet.
PrepareRecovery(w) ==
  /\ up
  /\ pending
  /\ disk.required
  /\ disk.ready = NoTime
  /\ Persist(Prepared, w)
  /\ failed' = ~Acknowledged(w)
  /\ UNCHANGED <<up, owner, admittedHere, hostBoot, requests, recycle, now,
                 history>>

\* Mutant: the recycle token is not recorded with the recovery.
RecoveredUnfenced ==
  [disk EXCEPT !.required = FALSE, !.ready = NoTime, !.preparedAt = NoTime,
               !.owner = NoSession, !.admittedAt = NoTime]

Recovered ==
  [disk EXCEPT !.required = FALSE, !.ready = NoTime, !.preparedAt = NoTime,
               !.owner = NoSession, !.admittedAt = NoTime,
               !.done = WithToken(@, marker)]

\* Mutant: the margin ends with its last second.
MarginReached == disk.ready # NoTime /\ now >= disk.ready

MarginPassed == disk.ready # NoTime /\ now > disk.ready

\* A later Ready finds the margin written; while it lasts nothing else happens.
AwaitMargin ==
  /\ up
  /\ pending
  /\ disk.required
  /\ disk.ready # NoTime
  /\ ~MarginPassed
  /\ failed
  /\ failed' = FALSE
  /\ UNCHANGED <<disk, stable, up, owner, admittedHere, hostBoot, requests,
                 recycle, now, history>>

\* Past the margin: completeCommercialRecoveryAfterReset. The handler then
\* stamps the marker; when that fails (stamped = FALSE) it is retried.
CompleteRecovery(w, stamped) ==
  /\ stamped \/ "marker" \in Faults
  /\ up
  /\ pending
  /\ disk.required
  /\ MarginPassed
  /\ Persist(Recovered, w)
  /\ failed' = ~Acknowledged(w)
  /\ owner' = IF Acknowledged(w) THEN NoSession ELSE owner
  /\ pending' = ~(Acknowledged(w) /\ stamped)
  /\ latched' = (latched /\ w = "lost")
  /\ fence' = IF Acknowledged(w) THEN Later(fence, disk.preparedAt) ELSE fence
  /\ UNCHANGED <<up, admittedHere, hostBoot, requests, marker, proven, helper,
                 now, occupants>>

\* Recovery is complete but the marker stamp had failed: the next Ready
\* finishes the recycle.
FinishRecycle ==
  /\ up
  /\ pending
  /\ ~RecoveryRequired
  /\ pending' = FALSE
  /\ UNCHANGED <<disk, stable, up, volatile, hostBoot, requests, marker, proven,
                 helper, now, history>>

\* The control plane acknowledged reset_completed: the marker is removed.
AcknowledgeReset ==
  /\ up
  /\ proven
  /\ ~pending
  /\ marker' = NoMarker
  /\ proven' = FALSE
  /\ UNCHANGED <<disk, stable, up, volatile, hostBoot, requests, helper, pending,
                 now, history>>

-----------------------------------------------------------------------------
(* Processes and hosts stop; a stopped process starts.                     *)

Crash ==
  /\ "process" \in Faults
  /\ up
  /\ up' = FALSE
  /\ pending' = FALSE
  /\ UNCHANGED <<disk, stable, volatile, hostBoot, requests, marker, proven,
                 helper, now, history>>

RebootHost ==
  /\ "host" \in Faults
  /\ up' = FALSE
  /\ pending' = FALSE
  /\ hostBoot' = now
  /\ disk' \in {disk, stable}
  /\ stable' = disk'
  /\ occupants' = {}
  /\ helper' = FALSE
  /\ UNCHANGED <<volatile, requests, marker, proven, now, latched, fence>>

\* createConnectTicketRuntimeGate and the recovery of the marker behind it.
\* live are the requests that have not expired. Several causes mark the
\* teardown one after the other; together they are one mark with the latest
\* stamp, or a start that failed after a durable mark, which is a Crash.
MustLatch(live) ==
  \/ \E q \in live : q = Shutdown \/ q \notin Completed(disk)
  \/ marker # NoMarker /\ ~disk.required

\* Mutant: a recycle without a token proves no replacement.
TokenedProof == proven /\ marker \in Tokens

\* isInstanceAgentRecycleReplacementProof
ReplacementProof == proven

Start(live, occurred, w) ==
  /\ ~up
  /\ failed' = FALSE
  /\ admittedHere' = FALSE
  /\ owner' = disk.owner
  /\ \/ /\ ~MustLatch(live)
        /\ w = "durable"
        /\ up' = TRUE
        /\ UNCHANGED <<disk, stable, latched>>
     \/ /\ MustLatch(live)
        /\ Persist(Latched(occurred), w)
        /\ up' = Acknowledged(w)
        /\ latched' = (latched \/ Acknowledged(w))
  /\ pending' = (up' /\ ReplacementProof)
  /\ UNCHANGED <<hostBoot, requests, marker, proven, helper, now, occupants,
                 fence>>

\* The control plane files, or withdraws, requests; a torn journal reads as
\* none.
ChangeRequests(rs) ==
  /\ requests' = rs
  /\ UNCHANGED <<disk, stable, up, volatile, hostBoot, recycle, now, history>>

\* The clock stops with the environment, except while a margin is running.
Tick ==
  /\ now < MaxTime \/ (disk.ready # NoTime /\ now <= disk.ready)
  /\ now' = now + 1
  /\ UNCHANGED <<disk, stable, up, volatile, hostBoot, requests, recycle, history>>

-----------------------------------------------------------------------------
Init ==
  /\ disk = Baseline
  /\ stable = Baseline
  /\ up = TRUE
  /\ failed = FALSE
  /\ owner = NoSession
  /\ admittedHere = FALSE
  /\ hostBoot = 0
  /\ requests = {}
  /\ marker = NoMarker
  /\ proven = FALSE
  /\ helper = FALSE
  /\ pending = FALSE
  /\ now = 0
  /\ occupants = {}
  /\ latched = FALSE
  /\ fence = NoTime

\* Viewers, the control plane, the idle-stop module and failures, up to MaxTime.
Environment ==
  /\ now < MaxTime
  /\ \/ \E w \in Outcomes :
          \/ \E occurred \in Stamps : StartTeardown(occurred, w)
          \/ \E s \in Sessions, t \in 0..now : \E iat \in IssueTimes(t) :
               Admit(s, iat, w)
          \/ Reconcile(w)
     \/ \E s \in Sessions, t \in 0..now : \E iat \in IssueTimes(t) :
          Readmit(s, iat)
     \/ \E s \in Sessions, t \in 0..now : \E iat \in IssueTimes(t) :
          AdmitUnreadable(s, iat)
     \/ \E t \in Recycles, occurred \in Stamps : LaunchRecycle(t, occurred)
     \/ \E rs \in SUBSET (Tokens \cup {Shutdown}) : ChangeRequests(rs)
     \/ ReadFailure
     \/ AbandonRecycle
     \/ ReplaceStack
     \/ Crash
     \/ RebootHost

Startup(w) ==
  \E live \in SUBSET requests, occurred \in Stamps : Start(live, occurred, w)

\* One runtime-status report of Ready in a process that awaits its recycle.
Ready(w) ==
  \/ PrepareRecovery(w)
  \/ \E stamped \in BOOLEAN : CompleteRecovery(w, stamped)
  \/ AwaitMargin
  \/ FinishRecycle

Recovery ==
  \/ \E w \in Outcomes : Startup(w) \/ Ready(w)
  \/ AcknowledgeReset
  \/ Tick

Next == Environment \/ Recovery

Spec == Init /\ [][Next]_vars

\* Liveness: the clock runs, runtime status is reported (a heartbeat every few
\* seconds), a stopped process is started again by its watchdog, and the
\* storage does not fail a write for ever.
Fairness ==
  /\ WF_vars(Tick)
  /\ WF_vars(Startup("durable"))
  /\ WF_vars(Ready("durable"))

FairSpec == Spec /\ Fairness

-----------------------------------------------------------------------------
(* Properties.                                                             *)

\* Every variable has its type.
TypeOK ==
  /\ disk \in Snapshot
  /\ stable \in Snapshot
  /\ up \in BOOLEAN
  /\ failed \in BOOLEAN
  /\ owner \in Sessions \cup {NoSession}
  /\ admittedHere \in BOOLEAN
  /\ hostBoot \in Nat
  /\ requests \in SUBSET (Tokens \cup {Shutdown})
  /\ marker \in Recycles \cup {NoMarker}
  /\ proven \in BOOLEAN
  /\ helper \in BOOLEAN
  /\ pending \in BOOLEAN
  /\ now \in Nat
  /\ occupants \in SUBSET Sessions
  /\ latched \in BOOLEAN
  /\ fence \in Time

\* Once a recovery or a release is acknowledged, no ticket the API signed
\* before the replacement was ready (or the assignment released) is admitted
\* again, whatever the API clock said within the skew, and whatever crashes,
\* lost renames and restarts follow (connect-ticket-runtime-state.ts:826).
FencedTicketsStayOut ==
  \A s \in Sessions, t \in 0..now :
    t <= fence => \A iat \in IssueTimes(t) : ~Admissible(s, iat)

\* A teardown that was acknowledged keeps admission closed, in the file and
\* in what a host crash leaves of it, until a recovery completes
\* (connect-ticket-runtime-state.ts:511).
TeardownStaysLatched ==
  latched => disk.required /\ stable.required

\* Whoever was admitted since the stack started is the customer the evidence
\* names: a runtime never serves two customers without being replaced.
OneCustomerPerRuntime ==
  \A s \in occupants : s = disk.owner

\* While a proven replacement waits for its recycle to finish and admission
\* is open, the recycle token is fenced: it cannot recycle the next customer.
ReopenedRecycleIsFenced ==
  proven /\ ~disk.required /\ marker \in Tokens => marker \in Completed(disk)

\* The cutoff that survives host crashes never decreases.
DurableCutoffNeverRegresses ==
  [][stable'.cutoff >= stable.cutoff]_vars

\* When a recovery reopens admission, every ticket the API signs from then on,
\* even with a clock that is late by the skew, is newer than the cutoff.
ReopenAdmitsNewTickets ==
  [][up /\ up' /\ disk.required /\ ~disk'.required
       => \A iat \in IssueTimes(now) : iat > disk'.cutoff]_vars

\* An assignment is released only from a runtime that admitted nobody since
\* it started ("require a host boot after the previous admission, and never
\* release a viewer admitted here", connect-ticket-runtime-state.ts:717).
ReleaseOnlyUnused ==
  [][up /\ up' /\ ~disk.required /\ ~disk'.required
       /\ disk.owner # NoSession /\ disk'.owner = NoSession
       => occupants = {}]_vars

\* A recovery completes only on a stack nobody was admitted to since it was
\* started: a teardown stays closed "through a completed replacement"
\* (connect-ticket-runtime-state.ts:511), not the one before it.
RecoveryNeedsReplacement ==
  [][up /\ up' /\ disk.required /\ ~disk'.required => occupants = {}]_vars

\* A required recovery whose replacement is proven reopens admission, when no
\* write is left half done (a completion that is "renamed" needs a restart).
RecoveryCompletes ==
  (proven /\ disk.required) ~> (~disk.required /\ ~failed /\ up)

=============================================================================
