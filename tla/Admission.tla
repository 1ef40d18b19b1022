------------------------------- MODULE Admission -------------------------------
(***************************************************************************)
(* The upgrade of a player's socket: the connect ticket and its claims     *)
(* (ConnectTicketAuth.ts), what it takes of the runtime gate               *)
(* (connect-ticket-runtime-state.ts: the session the process is of, and    *)
(* the durable evidence that a managed viewer was admitted), and the       *)
(* connection that begins with the validated identity                      *)
(* (SignallingServer.ts).  TicketGate has the gate's teardown and recovery *)
(* in full; here a teardown is asked for, stamps its cutoff and ends.      *)
(***************************************************************************)
EXTENDS Integers, Sequences, FiniteSets, SequencesExt

CONSTANTS
  Requests,   \* sessionRequestId
  Actives,    \* activeSessionId
  Wrong,      \* the claims that may be the first wrong one
  Sockets,    \* players' sockets
  MaxFaults   \* bound: failed writes, failed reads, restarts, teardowns

\* A definition whose comment says "Mutant" is a faulty variant of the one below it.

VARIABLES
  settings,  \* [mode, complete]
  gate,      \* the process: its session, failure reason; teardown asked for; cutoff
  evidence,  \* the durable evidence: [request, active]
  viewer,    \* per socket: open, and the identity it was given
  right,     \* history: requests a ticket was right for in all of them
  faults

vars == <<settings, gate, evidence, viewer, right, faults>>

None == "none"
Nobody == [request |-> None, active |-> None, shadow |-> FALSE]
Empty == [request |-> None, active |-> None]

\* validateSettings: what the process starts with.
ValidateSettings(s) == s.mode = "off" \/ s.complete

\* The claims in the order they are looked at; what makes each of them right (their
\* form, the signature, the clock) is left out.
Claims ==
  <<"present", "format", "decoded", "objects", "alg", "signature", "issuer", "audience",
    "exp", "nbf", "instance", "request", "shadow", "identity", "active", "route", "host">>

\* A ticket: the first claim that is wrong, the session or the shadow it is of, and
\* whether it was issued before the cutoff.
Tickets ==
  {t \in [wrong: (Wrong \cap ToSet(Claims)) \cup {None}, request: Requests \cup {None},
          active: Actives \cup {None}, shadow: BOOLEAN, old: BOOLEAN] :
     IF t.shadow THEN t.request = None /\ t.active = None ELSE t.request # None}

Fail(force) == [valid |-> FALSE, force |-> force, identity |-> Nobody]

\* The claims that reject whatever the mode.
Forced(t) == t.wrong \in {"shadow", "identity"} \/ (t.wrong = "audience" /\ t.shadow)

\* rejectReasonForTicket: whether the gate refuses the ticket.
Refuses(t) ==
  \/ gate.teardown \/ gate.failed
  \/ t.request # None /\ gate.owner # None /\ t.request # gate.owner
  \/ gate.cutoff /\ t.old

\* The session of the process, once the ticket of one is let in.
Owner(t) == IF t.request # None /\ gate.owner = None THEN t.request ELSE gate.owner

\* Mutant: evidence of the session is enough, whichever active session it names.
NamesRequest(t) == evidence.request = t.request

\* The evidence already says what the ticket does.
Recorded(t) == evidence.request = t.request /\ t.active \in {None, evidence.active}

Conflicts(t) ==
  \/ evidence.request \notin {None, t.request}
  \/ evidence.active # None /\ t.active \notin {None, evidence.active}

Evidence(t) ==
  [request |-> t.request,
   active |-> IF evidence.active # None THEN evidence.active ELSE t.active]

\* recordManagedViewerAdmission: [ok, evidence, failed]
RecordManagedViewerAdmission(t, written) ==
  CASE Conflicts(t) -> [ok |-> FALSE, evidence |-> evidence, failed |-> FALSE]
    [] ~Conflicts(t) /\ Recorded(t) -> [ok |-> TRUE, evidence |-> evidence, failed |-> FALSE]
    [] OTHER -> [ok |-> written, evidence |-> IF written THEN Evidence(t) ELSE evidence,
                 failed |-> ~written]

Identity(t) == [request |-> t.request, active |-> t.active, shadow |-> t.shadow]

\* Mutant: the gate is asked before the host is compared.
CheckedBeforeGate == SelectSeq(Claims, LAMBDA c : c # "host")

\* The claims that were right when the gate is asked.
BeforeGate == Claims

\* validateToken: the result, and the gate and the evidence afterwards.  `journal`:
\* the journal of reconnect-grace evidence blocks a managed ticket.
ValidateToken(t, journal, written) ==
  LET noted == RecordManagedViewerAdmission(t, written)
      passed == t.wrong \notin ToSet(BeforeGate)
      blocked == journal /\ t.request # None
      unchanged == [owner |-> gate.owner, failed |-> gate.failed, evidence |-> evidence]
  IN  CASE ~passed -> [result |-> Fail(Forced(t)), after |-> unchanged]
        [] passed /\ (blocked \/ Refuses(t)) -> [result |-> Fail(TRUE), after |-> unchanged]
        [] OTHER ->
             [result |-> IF t.wrong # None THEN Fail(Forced(t))
                         ELSE IF t.shadow \/ noted.ok
                         THEN [valid |-> TRUE, force |-> FALSE, identity |-> Identity(t)]
                         ELSE Fail(TRUE),
              after |-> IF t.shadow THEN unchanged
                        ELSE [owner |-> Owner(t), failed |-> noted.failed,
                              evidence |-> noted.evidence]]

Admitted(result) ==
  settings.mode = "off" \/ result.valid \/ (settings.mode = "soft" /\ ~result.force)

-----------------------------------------------------------------------------
\* onPlayerConnected: without an identity nothing is checked; with one the connection
\* needs its codec policy recorded.
Connected(s, result, recorded) ==
  IF ~Admitted(result) \/ (result.valid /\ ~recorded) THEN viewer
  ELSE [viewer EXCEPT ![s] = [open |-> TRUE, identity |-> result.identity]]

\* The callback verifyClient, and the connection it lets in; `thrown`: a hook of the
\* gate failed, before it changed anything.
VerifyClient(s, t, journal, written, recorded, thrown) ==
  /\ ~viewer[s].open
  /\ IF settings.mode = "off"
     THEN /\ viewer' = Connected(s, Fail(FALSE), TRUE)
          /\ UNCHANGED <<gate, evidence>>
     ELSE IF thrown THEN UNCHANGED <<viewer, gate, evidence>>
     ELSE LET v == ValidateToken(t, journal, written)
          IN  /\ viewer' = Connected(s, v.result, recorded)
              /\ gate' = [gate EXCEPT !.owner = v.after.owner, !.failed = v.after.failed]
              /\ evidence' = v.after.evidence
  /\ right' = IF t.wrong = None THEN right \cup {t.request} ELSE right
  /\ UNCHANGED settings

\* A ticket comes, and at most one of the things it needs fails.
Upgrade(s, t) ==
  \E fault \in {None, "journal", "write", "codec", "thrown"} :
    /\ fault = None \/ faults > 0
    /\ t.old => gate.cutoff
    /\ faults' = IF fault = None THEN faults ELSE faults - 1
    /\ VerifyClient(s, t, fault = "journal", fault # "write", fault # "codec",
                    fault = "thrown")

Close(s) ==
  /\ viewer[s].open
  /\ viewer' = [viewer EXCEPT ![s] = [open |-> FALSE, identity |-> Nobody]]
  /\ UNCHANGED <<settings, gate, evidence, right, faults>>

NobodyConnected == [s \in Sockets |-> [open |-> FALSE, identity |-> Nobody]]

\* A teardown is asked for, which stamps the cutoff.
StartTeardown ==
  /\ faults > 0 /\ ~gate.teardown
  /\ gate' = [gate EXCEPT !.teardown = TRUE, !.cutoff = TRUE]
  /\ faults' = faults - 1
  /\ UNCHANGED <<settings, evidence, viewer, right>>

\* The runtime was replaced: the evidence is cleared for the next session.
Replaced ==
  /\ gate.teardown
  /\ gate' = [gate EXCEPT !.teardown = FALSE, !.owner = None, !.failed = FALSE]
  /\ evidence' = Empty
  /\ viewer' = NobodyConnected
  /\ right' = {}
  /\ UNCHANGED <<settings, faults>>

\* The process starts again and reads the evidence.
Restart ==
  /\ faults > 0
  /\ gate' = [gate EXCEPT !.owner = evidence.request, !.failed = FALSE]
  /\ viewer' = NobodyConnected
  /\ faults' = faults - 1
  /\ UNCHANGED <<settings, evidence, right>>

-----------------------------------------------------------------------------
Init ==
  /\ settings \in {s \in [mode: {"off", "soft", "enforce"}, complete: BOOLEAN] :
                     ValidateSettings(s)}
  /\ gate = [owner |-> None, failed |-> FALSE, teardown |-> FALSE, cutoff |-> FALSE]
  /\ evidence = Empty
  /\ viewer = NobodyConnected
  /\ right = {}
  /\ faults = MaxFaults

Next ==
  \/ \E s \in Sockets, t \in Tickets : Upgrade(s, t)
  \/ \E s \in Sockets : Close(s)
  \/ StartTeardown
  \/ Replaced
  \/ Restart

Spec == Init /\ [][Next]_vars

-----------------------------------------------------------------------------
(* Properties.                                                             *)

TypeOK ==
  /\ settings \in [mode: {"off", "soft", "enforce"}, complete: BOOLEAN]
  /\ gate \in [owner: Requests \cup {None}, failed: BOOLEAN, teardown: BOOLEAN,
               cutoff: BOOLEAN]
  /\ evidence \in [request: Requests \cup {None}, active: Actives \cup {None}]
  /\ viewer \in [Sockets ->
       [open: BOOLEAN,
        identity: [request: Requests \cup {None}, active: Actives \cup {None},
                   shadow: BOOLEAN]]]
  /\ right \subseteq Requests \cup {None}

\* The process and its durable evidence are a session's only after a ticket of that
\* session that was right in every claim: a wrong one, in soft mode too, never takes
\* the runtime away from the customer it was started for.
OwnershipIsEarned ==
  {gate.owner, evidence.request} \ {None} \subseteq right

\* Every connected viewer of a managed session is in the durable evidence, with the
\* active session its ticket names: after a restart the runtime knows whose it is.
ViewersAreEvident ==
  \A s \in Sockets :
    LET i == viewer[s].identity
    IN  i.request # None => /\ evidence.request = i.request
                            /\ i.active \in {None, evidence.active}
=============================================================================
