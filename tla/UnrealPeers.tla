---------------------------- MODULE UnrealPeers ----------------------------
(***************************************************************************)
(* What the signalling server promises the Unreal runtimes about media     *)
(* peers.  A peer is one subscription of one viewer: Unreal creates it on  *)
(* playerConnected and destroys it on playerDisconnected.  An id names one *)
(* peer for ever, so a late message for a peer that is gone can never      *)
(* reach a later one.                                                      *)
(***************************************************************************)
CONSTANTS Streamers, Peers

VARIABLES
  connected,   \* the peers each runtime has
  seen         \* every id that was ever used

vars == <<connected, seen>>

Init ==
  /\ connected = [u \in Streamers |-> {}]
  /\ seen = {}

\* Peers leave, one at a time or with the runtime that served them.
Leave ==
  /\ connected' \in [Streamers -> SUBSET Peers]
  /\ \A u \in Streamers : connected'[u] \subseteq connected[u]
  /\ UNCHANGED seen

\* A peer with a fresh id arrives; the peer it replaces leaves.
Arrive(u, x) ==
  /\ x \notin seen
  /\ seen' = seen \cup {x}
  /\ connected' \in [Streamers -> SUBSET Peers]
  /\ connected'[u] \subseteq connected[u] \cup {x}
  /\ x \in connected'[u]
  /\ \A v \in Streamers \ {u} : connected'[v] \subseteq connected[v]

Next == Leave \/ \E u \in Streamers, x \in Peers : Arrive(u, x)

Spec == Init /\ [][Next]_vars

=============================================================================
