--------------------------- MODULE StreamerRegistry ---------------------------
(***************************************************************************)
(* How streamers get their names (StreamerRegistry.ts, with the connection *)
(* handler of SignallingServer.ts and the streamer of JSStreamer): a name  *)
(* by default, then the one the streamer asks for, made unique by a number.*)
(* A name is a base and the digits that end it.                            *)
(***************************************************************************)
EXTENDS Integers, Sequences, FiniteSets, SequencesExt

CONSTANTS
  None,       \* no name
  Programs,   \* streamers; each may connect again, also while its old socket lingers
  Wanted,     \* the names streamers are started with
  Default,    \* defaultStreamerIdPrefix
  Largest,    \* Number.MAX_SAFE_INTEGER
  MaxSockets, \* bound: connections of a streamer at one time
  MaxAsks     \* bound: endpointId messages

\* A definition whose comment says "Mutant" is a faulty variant of the one below it.

VARIABLES
  streamers, \* the registry's list of connections
  socket,    \* connections: "none", "open", "closing"
  name,      \* streamerId of a connection
  told,      \* what a connection was told first: "config", then "identify"; or the reverse
  asks,      \* endpointId messages left
  want,      \* id of each streamer
  authorizes \* an authorizer is configured

vars == <<streamers, socket, name, told, asks, want, authorizes>>

Connections == Programs \X (1 .. MaxSockets)
ProgramOf(c) == c[1]

Value[digits \in Seq(0 .. 9)] ==
  IF digits = <<>> THEN 0 ELSE 10 * Value[Front(digits)] + Last(digits)

Digits[n \in Nat] == IF n < 10 THEN <<n>> ELSE Append(Digits[n \div 10], n % 10)

Numbered(id, n) == <<id[1], id[2] \o Digits[n]>>

-----------------------------------------------------------------------------
(* The registry.                                                           *)

Find(id) == {c \in ToSet(streamers) : name[c] = id}

\* What follows the requested id in an id that begins with it, if that is a number.
Endings(id, ids) ==
  {SubSeq(e[2], Len(id[2]) + 1, Len(e[2])) : e \in {f \in ids : f[1] = id[1] /\ IsPrefix(id[2], f[2])}}

\* The suffixes that count: numbers that can be increased safely.
Postfixes(id, ids) == {n \in {Value[s] : s \in Endings(id, ids)} : n < Largest}

MaxOf(S) == CHOOSE n \in S : \A k \in S : k <= n
MinOf(S) == CHOOSE n \in S : \A k \in S : n <= k

\* Mutant: no look whether the candidate is an id already.
FirstCandidate(id, ids) ==
  IF Postfixes(id, ids) = {} THEN id ELSE Numbered(id, MaxOf(Postfixes(id, ids)) + 1)

\* The number after the largest one; if that is taken nevertheless, the first free one.
Candidate(id, ids) ==
  LET first == IF Postfixes(id, ids) = {} THEN id
               ELSE Numbered(id, MaxOf(Postfixes(id, ids)) + 1)
  IN IF first \notin ids THEN first
     ELSE Numbered(id, MinOf({n \in 1 .. Cardinality(ids) + 1 : Numbered(id, n) \notin ids}))

\* Mutant: the connection's own id counts.
IdsOfAll(excluded) == {name[c] : c \in ToSet(streamers)}

\* existingIds: of the connections other than the one that asks.
ExistingIds(excluded) == {name[c] : c \in ToSet(streamers) \ {excluded}}

\* sanitizeStreamerId
SanitizeStreamerId(asked, excluded) ==
  LET id == IF asked = None THEN Default ELSE asked
  IN IF excluded # None /\ name[excluded] = id /\ id \notin ExistingIds(excluded) THEN id
     ELSE Candidate(id, ExistingIds(excluded))

\* remove: the list without a connection that is in it.
Without(c) ==
  IF c \notin ToSet(streamers) THEN streamers
  ELSE RemoveAt(streamers, CHOOSE i \in DOMAIN streamers : streamers[i] = c)

\* add: a name is found again, and refused if it is taken; the streamer is to identify itself.
Add(c, id) ==
  LET found == SanitizeStreamerId(id, None)
  IN /\ name' = [name EXCEPT ![c] = found]
     /\ streamers' = IF Find(found) = {} THEN Append(streamers, c) ELSE streamers

-----------------------------------------------------------------------------
(* The server's handlers.                                                  *)

\* onStreamerConnected: the configuration goes first.
OnStreamerConnected(c) ==
  /\ socket[c] = "none"
  /\ Add(c, SanitizeStreamerId(None, None))
  /\ socket' = [socket EXCEPT ![c] = "open"]
  /\ told' = [told EXCEPT ![c] = <<"config", "identify">>]
  /\ UNCHANGED <<asks, want, authorizes>>

\* onSFUConnected: the configuration goes last.
OnSFUConnected(c) ==
  /\ socket[c] = "none"
  /\ Add(c, None)
  /\ socket' = [socket EXCEPT ![c] = "open"]
  /\ told' = [told EXCEPT ![c] = <<"identify", "config">>]
  /\ UNCHANGED <<asks, want, authorizes>>

\* A streamer that is turned away leaves the list at once, and is to close.
TurnedAway(c) ==
  /\ streamers' = Without(c)
  /\ socket' = [socket EXCEPT ![c] = "closing"]
  /\ UNCHANGED <<name, told, want, authorizes>>

\* What an authorizer may return: any name, or none.
Decisions(sanitized) ==
  IF authorizes THEN {sanitized, None} \cup Wanted ELSE {sanitized}

\* A name that another streamer holds is not given.
Refused(c, committed) ==
  authorizes /\ (committed = None \/ Find(committed) \ {c} # {})

\* onEndpointId; a streamer that is still there learns its name
\* (handleEndpointIdConfirmMessage).
OnEndpointId(c, asked) ==
  /\ socket[c] \in {"open", "closing"}
  /\ asks > 0
  /\ asks' = asks - 1
  /\ \E committed \in Decisions(SanitizeStreamerId(asked, c)) :
       IF Refused(c, committed) THEN TurnedAway(c)
       ELSE /\ name' = [name EXCEPT ![c] = committed]
            /\ want' = IF socket[c] = "open"
                       THEN [want EXCEPT ![ProgramOf(c)] = committed] ELSE want
            /\ UNCHANGED <<streamers, socket, told, authorizes>>

\* handleIdentifyMessage: the streamer asks for the name it was last known by; or for
\* another, while it is connected.
AskAgain(c) == OnEndpointId(c, want[ProgramOf(c)])
AskOther(c) == \E asked \in Wanted \cup {None} : OnEndpointId(c, asked)

\* An id that is not a string.
BadEndpointId(c) ==
  /\ socket[c] \in {"open", "closing"}
  /\ asks > 0
  /\ asks' = asks - 1
  /\ TurnedAway(c)

\* The transport closes.
Close(c) ==
  /\ socket[c] \in {"open", "closing"}
  /\ socket' = [socket EXCEPT ![c] = "none"]
  /\ streamers' = Without(c)
  /\ name' = [name EXCEPT ![c] = None]
  /\ told' = [told EXCEPT ![c] = <<>>]
  /\ UNCHANGED <<asks, want, authorizes>>

Init ==
  /\ streamers = <<>>
  /\ socket = [c \in Connections |-> "none"]
  /\ name = [c \in Connections |-> None]
  /\ told = [c \in Connections |-> <<>>]
  /\ asks = MaxAsks
  /\ want \in {[p \in Programs |-> id] : id \in Wanted} \* the usual clash
  /\ authorizes \in BOOLEAN

Next == \E c \in Connections :
  \/ OnStreamerConnected(c)
  \/ OnSFUConnected(c)
  \/ AskAgain(c)
  \/ AskOther(c)
  \/ BadEndpointId(c)
  \/ Close(c)

Spec == Init /\ [][Next]_vars

-----------------------------------------------------------------------------
(* Properties.                                                             *)

\* No two streamers of the list have one name, whatever they ask for and however large
\* the numbers of their names are: players, the SFU and the teardown find them by name.
IdsAreUnique ==
  \A c, d \in ToSet(streamers) : name[c] = name[d] => c = d

\* Docs/Security-Guidelines.md:56: "the registry accepts the requested id and appends a
\* numeric suffix if that id is already taken".
RenamedOnlyWhenTaken ==
  [][\A c \in ToSet(streamers), asked \in Wanted :
       ~authorizes /\ asked \notin ExistingIds(c) /\ OnEndpointId(c, asked)
         => name'[c] = asked]_vars
=============================================================================
