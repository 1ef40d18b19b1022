------------------------------ MODULE Keepalive ------------------------------
(***************************************************************************)
(* How the server finds out that a player's socket is dead: the ping frames*)
(* of its watchdog (SignallingServer.ts) and, where it is configured, the  *)
(* ping messages of a KeepaliveMonitor (KeepaliveMonitor.ts). Either one   *)
(* terminates the socket. Time is counted in the ticks of each.            *)
(***************************************************************************)
EXTENDS Integers

CONSTANTS
  MaxMissedPongs, \* playerKeepaliveMaxMissedPongs
  Latency         \* bound: ticks of the watchdog within which a live player answers

\* A definition whose comment says "Mutant" is a faulty variant of the one below it.

VARIABLES
  socket, \* readyState: "open", "dead" without a close frame, "closed"
  missed, \* missedPongs of each monitor; of a KeepaliveMonitor, 1 when it is not alive
  pings,  \* ages, in ticks, of the pings that are not answered
  silent, \* ticks since the player fell silent
  ended   \* who ended the socket: "none", "monitor", "player"

vars == <<socket, missed, pings, silent, ended>>

Monitors == {"watchdog", "monitor"}

Limit(m) == IF m = "watchdog" THEN MaxMissedPongs ELSE 1

\* An answer to the monitor's ping is there before its next tick.
Within(m) == IF m = "watchdog" THEN Latency ELSE 1

-----------------------------------------------------------------------------
\* Mutant: one pong too many may be missing.
AlmostExhausted(m) == missed[m] > Limit(m)

Exhausted(m) == missed[m] >= Limit(m)

\* The close event: both monitors stop (unregisterPlayerKeepalive, stop).
Closed(by) ==
  /\ socket' = "closed" /\ ended' = by
  /\ missed' = [m \in Monitors |-> 0]
  /\ pings' = [m \in Monitors |-> {}]
  /\ silent' = [m \in Monitors |-> 0]

\* A live player has answered all that are old enough when the timer fires.
InTime(m) == socket = "open" => \A age \in pings[m] : age < Within(m)

\* runPlayerKeepaliveTick and sendHeartbeat: give the socket up, or ping it once more. A
\* ping that throws gives it up at once.
Tick(m) ==
  /\ socket # "closed"
  /\ InTime(m)
  /\ IF Exhausted(m) THEN Closed("monitor")
     ELSE /\ missed' = [missed EXCEPT ![m] = @ + 1]
          /\ pings' = [pings EXCEPT ![m] = {age + 1 : age \in @} \cup {1}]
          /\ silent' = [silent EXCEPT ![m] = IF socket = "dead" THEN @ + 1 ELSE 0]
          /\ UNCHANGED <<socket, ended>>

PingThrows ==
  /\ socket = "dead" /\ ~Exhausted("watchdog")
  /\ Closed("monitor")

\* Mutant: a pong is taken for one ping only.
OneLess(m) == missed[m] - 1

Reset(m) == 0

\* onHeartbeatResponse and the watchdog's pong handler: whichever ping is answered,
\* for a browser need not answer one when a later one is there.
Pong(m, age) ==
  /\ socket = "open"
  /\ age \in pings[m]
  /\ missed' = [missed EXCEPT ![m] = Reset(m)]
  /\ pings' = [pings EXCEPT ![m] = {a \in @ : a < age}]
  /\ UNCHANGED <<socket, silent, ended>>

\* The player is gone without a word; or closes.
FallsSilent ==
  /\ socket = "open"
  /\ socket' = "dead"
  /\ pings' = [m \in Monitors |-> {}]
  /\ UNCHANGED <<missed, silent, ended>>

Leaves ==
  /\ socket = "open"
  /\ Closed("player")

Init ==
  /\ socket = "open" /\ ended = "none"
  /\ missed = [m \in Monitors |-> 0]
  /\ pings = [m \in Monitors |-> {}]
  /\ silent = [m \in Monitors |-> 0]

Next ==
  \/ \E m \in Monitors : Tick(m)
  \/ PingThrows
  \/ \E m \in Monitors, age \in 1 .. Latency + 1 : Pong(m, age)
  \/ FallsSilent
  \/ Leaves

Spec == Init /\ [][Next]_vars

-----------------------------------------------------------------------------
(* Properties.                                                             *)

\* A socket that died without a close frame is given up after at most that many ticks, and
\* frees the place of its player (SignallingServer.ts:578, KeepaliveMonitor.ts:58).
SilentGoes == socket = "dead" => \A m \in Monitors : silent[m] <= Limit(m)
=============================================================================
