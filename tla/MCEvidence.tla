------------------------------ MODULE MCEvidence ------------------------------
(***************************************************************************)
(* The outboxes for TLC; README.md says why these values are enough.  An   *)
(* outbox of two reports, in seven mixtures of what may happen; two        *)
(* sessions and two artifacts, one of which cannot be uploaded.            *)
(***************************************************************************)
EXTENDS Evidence

CONSTANTS l1, l2, l3, q1, q2, e1, e2, f1, c1, c2, r1, r2

\* What happens to the agent in a behaviour.
Mixed ==
  {{l1, l2, l3}, {l1, q1, q2, f1}, {Reset, f1}, {l1, Reset}, {e1, e2, l1},
   {c1, c2, e1}, {r1, r2}}
=============================================================================
