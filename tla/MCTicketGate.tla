---------------------------- MODULE MCTicketGate ----------------------------
(***************************************************************************)
(* Instances of TicketGate for TLC: the .cfg files give the constants.     *)
(* Customers are interchangeable, and so are recycle tokens.               *)
(***************************************************************************)
EXTENDS TicketGate, TLC

Symmetry == Permutations(Sessions) \cup Permutations(Tokens)

=============================================================================
