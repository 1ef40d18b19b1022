------------------------------- MODULE Evidence -------------------------------
(***************************************************************************)
(* The durable outboxes of the instance, side by side: the agent's reports *)
(* and the artifacts of sessions.  In a behaviour one of them runs and the *)
(* other rests.                                                            *)
(***************************************************************************)
EXTENDS AgentReports

CONSTANTS
  Managers, ArtifactIds, Undeliverable, MaxDrain, MaxSelected, MaxSessions, MaxShots,
  MaxLines, MaxCaptures, MaxArtifactFaults

VARIABLES
  component, \* the one that runs in this behaviour
  manager, artifacts, artifactFiles, artifactWorld, artifactsLeft

Artifacts == INSTANCE SessionArtifacts WITH
  Ids <- ArtifactIds, Poison <- Undeliverable, MaxFiles <- MaxSelected,
  MaxFaults <- MaxArtifactFaults,
  x <- artifacts, d <- artifactFiles, w <- artifactWorld, left <- artifactsLeft

\* Ids are ranks, and null is no set of screenshots and no session.
ASSUME ArtifactAssumption ==
  /\ ArtifactIds \subseteq Nat /\ MaxSessions \in Nat
  /\ \A base \in SUBSET Artifacts!Shots :
       base # None /\ \A k \in 1 .. MaxSessions : [sess |-> k, base |-> base] # None

-----------------------------------------------------------------------------
artifactsVars == <<manager, artifacts, artifactFiles, artifactWorld, artifactsLeft>>

eitherVars == <<component, vars, artifactsVars>>

EitherInit ==
  /\ component \in {"reports", "artifacts"}
  /\ Init
  /\ component # "reports" => todo = CHOOSE t \in Workloads : TRUE
  /\ Artifacts!Init
  /\ component # "artifacts" => manager = CHOOSE m \in Managers : TRUE

EitherNext ==
  /\ UNCHANGED component
  /\ \/ component = "reports" /\ Next /\ UNCHANGED artifactsVars
     \/ component = "artifacts" /\ Artifacts!Next /\ UNCHANGED vars

\* The fairness each module states, of the component that runs.
EitherFairness ==
  /\ WF_vars(component = "reports" /\ Tick)
  /\ WF_vars(component = "reports" /\ Bootstrapped)
  /\ WF_vars(component = "reports" /\ Beaten)
  /\ WF_vars(component = "reports" /\ FlushAnswered)
  /\ WF_vars(component = "reports" /\ Upload)
  /\ WF_vars(component = "reports" /\ Uploaded)
  /\ WF_vars(component = "reports" /\ Refreshed)
  /\ WF_vars(component = "reports" /\ Completed)
  /\ WF_vars(component = "reports" /\ AnswerTick)
  /\ WF_vars(component = "reports" /\ AnswerFlush)
  /\ WF_vars(component = "reports" /\ Withdraw)
  /\ WF_vars(component = "reports" /\ Restore)
  /\ WF_artifactsVars(component = "artifacts" /\ Artifacts!Drain)
  /\ WF_artifactsVars(component = "artifacts" /\ Artifacts!NextRecord)
  /\ WF_artifactsVars(component = "artifacts" /\ Artifacts!Identified)
  /\ WF_artifactsVars(component = "artifacts" /\ Artifacts!Copied)
  /\ WF_artifactsVars(component = "artifacts" /\ Artifacts!Headed)
  /\ WF_artifactsVars(component = "artifacts" /\ Artifacts!Registered)

EitherSpec == EitherInit /\ [][EitherNext]_eitherVars /\ EitherFairness

-----------------------------------------------------------------------------
(* Properties.  What each says of its component is stated in its module.   *)

\* What proves something is not lost or mixed up: the marker of a recycle stays while its
\* token is asked for (instance-agent.ts:2436), the customer reported as projected is the
\* one on disk (instance-agent.ts:1741), the screenshots of a customer are not
\* bundled for a later one (session-screenshot-artifacts.ts:1166), and a log is cut only
\* where an uploaded bundle ends (session-log-artifacts.ts:647).
EvidenceIsKept ==
  MarkerStays /\ ProjectedIsWritten /\ Artifacts!NoEarlierShots /\ Artifacts!CutIsUploaded

\* No report and no bundle is lost or held up: what leaves the agent's outbox was
\* received, is a superseded sample or made room; a bundle is owed until the store has it
\* or it is given up (it implements AtLeastOnce); and in the end only what can never be
\* delivered is owed (codec-evidence-journal.ts:8, session-log-artifacts.ts:1395).
AllIsDelivered ==
  /\ NothingVanishes
  /\ Artifacts!Delivered
  /\ component = "reports" => Settles
  /\ component = "artifacts" => Artifacts!Settles

=============================================================================
