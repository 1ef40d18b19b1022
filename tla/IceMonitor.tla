------------------------------ MODULE IceMonitor ------------------------------
(***************************************************************************)
(* IceCandidateMonitor.ts of the signalling library: for each peer, the    *)
(* kinds of ICE candidates seen from the player and from the streamer,     *)
(* summarised once they stop coming, with the handlers that feed it in     *)
(* PlayerConnection.ts and StreamerConnection.ts.  Candidates are named by *)
(* their type; their counts, and what a summary says, are left out.        *)
(***************************************************************************)
EXTENDS Integers, FiniteSets, Sequences, SequencesExt, Functions

CONSTANTS
  Players,     \* players' sockets; governed ones have a media peer of their own
  Types,       \* types of candidates
  MaxTracked,  \* maxTrackedPlayers
  MaxMedia     \* bound: media generations of a player

\* A definition whose comment says "Mutant" is a faulty variant of the one below it.

VARIABLES
  viewer,   \* the players' sockets: open, and the generation of their media
  records,  \* records of the monitor, by id
  order,    \* their ids, the oldest first
  timers    \* ids of the records whose summaryTimer runs, deleted ones included

vars == <<viewer, records, order, timers>>

\* <<p, 0>> is the id of player p; <<p, g>> the id its peer has at the streamer in
\* the media generation g (streamerPlayerId).
MediaIds == Players \X (0 .. MaxMedia)

\* `warned`: the summary came with the warning that the streamer is host only.
Record ==
  [player: SUBSET Types, streamer: SUBSET Types, emitted: BOOLEAN, warned: BOOLEAN]

\* createEndpointStats, twice
NewRecord == [player |-> {}, streamer |-> {}, emitted |-> FALSE, warned |-> FALSE]

Monitor == [records |-> records, order |-> order, timers |-> timers]

\* hasOnlyHostCandidates
HasOnlyHostCandidates(stats) == stats = {"host"}

\* A record as its summary leaves it.
Summarised(r) ==
  [r EXCEPT !.emitted = TRUE,
            !.warned = @ \/ (~r.emitted /\ HasOnlyHostCandidates(r.streamer))]

\* emitSummary
EmitSummary(m, id) ==
  [m EXCEPT !.timers = @ \ {id}, !.records[id] = Summarised(@)]

\* Where an id is in the order: a Map has it once.
PlaceOf(m, id) == CHOOSE i \in DOMAIN m.order : m.order[i] = id

\* deleteRecord
DeleteRecord(m, id) ==
  [records |-> Restrict(m.records, DOMAIN m.records \ {id}),
   order |-> RemoveAt(m.order, PlaceOf(m, id)), timers |-> m.timers \ {id}]

\* flushPlayer
FlushPlayer(m, id) ==
  IF id \in DOMAIN m.records THEN DeleteRecord(EmitSummary(m, id), id) ELSE m

\* Mutant: the oldest record is dropped as it is.
Dropped(m) ==
  [records |-> Restrict(m.records, DOMAIN m.records \ {Head(m.order)}),
   order |-> Tail(m.order), timers |-> m.timers]

\* The record that makes room for another: the one that was created first.
Evicted(m) == FlushPlayer(m, Head(m.order))

\* getOrCreateRecord
GetOrCreateRecord(m, id) ==
  IF id \in DOMAIN m.records THEN m
  ELSE LET room == IF Len(m.order) >= MaxTracked THEN Evicted(m) ELSE m
       IN  [room EXCEPT !.records = [i \in DOMAIN @ \cup {id} |->
                                       IF i = id THEN NewRecord ELSE @[i]],
                        !.order = Append(@, id)]

\* recordCandidate, with scheduleSummary: the timer starts again.
RecordCandidate(m, id, endpoint, type) ==
  LET known == GetOrCreateRecord(m, id)
      seen == IF endpoint = "player" THEN [known EXCEPT !.records[id].player = @ \cup {type}]
              ELSE [known EXCEPT !.records[id].streamer = @ \cup {type}]
  IN  IF seen.records[id].emitted THEN seen
      ELSE [seen EXCEPT !.timers = @ \cup {id}]

Set(m) ==
  /\ records' = m.records
  /\ order' = m.order
  /\ timers' = m.timers

-----------------------------------------------------------------------------
\* A player's socket opens, or a governed player's media starts again.
Connect(p) ==
  /\ ~viewer[p].open
  /\ \E g \in {0, 1} : viewer' = [viewer EXCEPT ![p] = [open |-> TRUE, media |-> g]]
  /\ UNCHANGED <<records, order, timers>>

NextMedia(p) ==
  /\ viewer[p].open /\ viewer[p].media \in 1 .. MaxMedia - 1
  /\ viewer' = [viewer EXCEPT ![p].media = @ + 1]
  /\ UNCHANGED <<records, order, timers>>

\* recordPlayerCandidate, from onIceCandidateMessage of the player's connection.
PlayerCandidate(p, type) ==
  /\ viewer[p].open
  /\ Set(RecordCandidate(Monitor, <<p, 0>>, "player", type))
  /\ UNCHANGED viewer

\* recordStreamerCandidate, from onIceCandidateMessage of the streamer's: under the id
\* the streamer gives, before forwardMessage looks for the player it is of.
StreamerCandidate(id, type) ==
  /\ id[2] <= viewer[id[1]].media
  /\ Set(RecordCandidate(Monitor, id, "streamer", type))
  /\ UNCHANGED viewer

\* The timer of a record, deleted or not.
SummaryTimer(id) ==
  /\ id \in timers
  /\ IF id \in DOMAIN records THEN Set(EmitSummary(Monitor, id))
     ELSE timers' = timers \ {id} /\ UNCHANGED <<records, order>>
  /\ UNCHANGED viewer

\* onTransportClose of the player's connection
Close(p) ==
  /\ viewer[p].open
  /\ Set(FlushPlayer(Monitor, <<p, 0>>))
  /\ viewer' = [viewer EXCEPT ![p].open = FALSE]

-----------------------------------------------------------------------------
Init ==
  /\ viewer = [p \in Players |-> [open |-> FALSE, media |-> 0]]
  /\ records = << >>
  /\ order = << >>
  /\ timers = {}

Next ==
  \/ \E p \in Players : Connect(p) \/ NextMedia(p) \/ Close(p)
  \/ \E p \in Players, type \in Types : PlayerCandidate(p, type)
  \/ \E id \in MediaIds, type \in Types : StreamerCandidate(id, type)
  \/ \E id \in MediaIds : SummaryTimer(id)

Spec == Init /\ [][Next]_vars

-----------------------------------------------------------------------------
(* Properties.                                                             *)

\* Every record that has not been summarised has its timer, no other timer runs, and
\* the monitor keeps within its limit: whatever comes, is flushed or makes room, no
\* record goes unsaid and no timer outlives its record.
UnsaidIsTimed ==
  /\ timers = {id \in DOMAIN records : ~records[id].emitted}
  /\ Cardinality(DOMAIN records) <= MaxTracked /\ ToSet(order) = DOMAIN records

\* StreamerConnection.ts:154 "Keep browser/analytics identity stable while Unreal sees
\* a distinct media peer": candidates are recorded under the ids of players.
RecordsAreOfPlayers == \A id \in DOMAIN records : id[2] = 0
=============================================================================
