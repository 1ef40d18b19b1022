---------------------------- MODULE AtLeastOnce ----------------------------
(***************************************************************************)
(* What a durable outbox promises: an item that is owed stays owed until   *)
(* the receiver has it.  It may be received more than once.                *)
(***************************************************************************)
CONSTANT Items

VARIABLES owed, received

Init == owed \subseteq Items /\ received = {}

Owe == owed \subseteq owed' /\ owed' \subseteq Items /\ UNCHANGED received

\* The receiver gets some of what is owed; what it has may be let go.
Deliver ==
  /\ received \subseteq received' /\ received' \subseteq received \cup owed
  /\ owed' \subseteq owed /\ owed \ owed' \subseteq received'

Next == Owe \/ Deliver

Spec == Init /\ [][Next]_<<owed, received>>

=============================================================================
