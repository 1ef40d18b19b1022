-------------------------- MODULE MCPlayerSession --------------------------
(* Model-checking values for PlayerSession: one browser player.            *)
EXTENDS PlayerSession

BothKinds == BOOLEAN
=============================================================================
