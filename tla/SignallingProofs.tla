-------------------------- MODULE SignallingProofs --------------------------
(***************************************************************************)
(* Theorems about the signalling server, for any sets of viewers and       *)
(* streamers, any policies, any limit of subscribers and any interleaving  *)
(* of messages, timers and closed sockets.                                 *)
(***************************************************************************)
EXTENDS Signalling, FiniteSetTheorems, WellFoundedInduction, TLAPS

-----------------------------------------------------------------------------
(* The registries, as sequences.                                           *)

\* A registry that takes one more holds what it held and the newcomer, once.
LEMMA AppendFacts ==
  ASSUME NEW S, NEW seq \in Seq(S), NEW x \in S, x \notin Elements(seq),
         \A i, j \in DOMAIN seq : seq[i] = seq[j] => i = j
  PROVE  /\ Append(seq, x) \in Seq(S)
         /\ Elements(Append(seq, x)) = Elements(seq) \cup {x}
         /\ \A i, j \in DOMAIN Append(seq, x) :
              Append(seq, x)[i] = Append(seq, x)[j] => i = j
<1> DEFINE long == Append(seq, x)
<1>1. /\ long \in Seq(S)
      /\ DOMAIN long = 1..(Len(seq) + 1) /\ DOMAIN seq = 1..Len(seq)
      /\ Len(seq) \in Nat
      /\ \A i \in 1..Len(seq) : long[i] = seq[i]
      /\ long[Len(seq) + 1] = x
  OBVIOUS
<1> HIDE DEF long
<1>2. Elements(long) = Elements(seq) \cup {x}
  <2>1. ASSUME NEW y \in Elements(long) PROVE y \in Elements(seq) \cup {x}
    BY <1>1 DEF Elements
  <2>2. ASSUME NEW y \in Elements(seq) PROVE y \in Elements(long)
    BY <1>1 DEF Elements
  <2>3. x \in Elements(long)
    BY <1>1 DEF Elements
  <2>4. QED BY <2>1, <2>2, <2>3
<1>3. \A i, j \in DOMAIN long : long[i] = long[j] => i = j
  BY <1>1 DEF Elements
<1>4. QED BY <1>1, <1>2, <1>3 DEF long

\* A registry that loses one keeps the others, once each.
LEMMA WithoutFacts ==
  ASSUME NEW S, NEW seq \in Seq(S), NEW x,
         \A i, j \in DOMAIN seq : seq[i] = seq[j] => i = j
  PROVE  /\ Without(seq, x) \in Seq(S)
         /\ Elements(Without(seq, x)) = Elements(seq) \ {x}
         /\ \A i, j \in DOMAIN Without(seq, x) :
              Without(seq, x)[i] = Without(seq, x)[j] => i = j
<1>1. CASE x \notin Elements(seq)
  BY <1>1 DEF Without
<1>2. CASE x \in Elements(seq)
  <2> DEFINE at == CHOOSE n \in DOMAIN seq : seq[n] = x
             short == [n \in 1..(Len(seq) - 1) |->
                         IF n < at THEN seq[n] ELSE seq[n + 1]]
  <2>1. Without(seq, x) = short
    BY <1>2 DEF Without
  <2>2. at \in 1..Len(seq) /\ seq[at] = x /\ Len(seq) \in Nat /\ DOMAIN seq = 1..Len(seq)
    BY <1>2 DEF Elements
  <2> HIDE DEF at
  <2>3. /\ DOMAIN short = 1..(Len(seq) - 1)
        /\ \A n \in 1..(Len(seq) - 1) : short[n] = IF n < at THEN seq[n] ELSE seq[n + 1]
        /\ short \in Seq(S)
    <3>1. \A n \in 1..(Len(seq) - 1) : short[n] \in S
      BY <2>2
    <3>2. Len(seq) - 1 \in Nat
      BY <2>2
    <3>3. QED BY <3>1, <3>2
  <2> HIDE DEF short
  <2>4. \A i, j \in DOMAIN short : short[i] = short[j] => i = j
    <3> SUFFICES ASSUME NEW i \in 1..(Len(seq) - 1), NEW j \in 1..(Len(seq) - 1),
                        short[i] = short[j]
                 PROVE  i = j
      BY <2>3
    <3>1. \A n \in 1..(Len(seq) - 1) : n \in 1..Len(seq) /\ n + 1 \in 1..Len(seq)
      BY <2>2
    <3>2. CASE i < at /\ j < at
      BY <3>1, <3>2, <2>2, <2>3
    <3>3. CASE ~(i < at) /\ ~(j < at)
      <4>1. i + 1 = j + 1
        BY <3>1, <3>3, <2>2, <2>3
      <4>2. QED BY <4>1
    <3>4. CASE i < at /\ ~(j < at)
      <4>1. i = j + 1
        BY <3>1, <3>4, <2>2, <2>3
      <4>2. QED BY <4>1, <3>4, <2>2
    <3>5. CASE ~(i < at) /\ j < at
      <4>1. i + 1 = j
        BY <3>1, <3>5, <2>2, <2>3
      <4>2. QED BY <4>1, <3>5, <2>2
    <3>6. QED BY <3>2, <3>3, <3>4, <3>5
  <2>5. Elements(short) = Elements(seq) \ {x}
    <3>1. ASSUME NEW i \in 1..(Len(seq) - 1) PROVE short[i] \in Elements(seq) \ {x}
      <4>1. CASE i < at
        BY <4>1, <2>2, <2>3 DEF Elements
      <4>2. CASE ~(i < at)
        <5>1. i + 1 \in 1..Len(seq) /\ i + 1 # at /\ short[i] = seq[i + 1]
          BY <4>2, <2>2, <2>3
        <5>2. QED BY <5>1, <2>2 DEF Elements
      <4>3. QED BY <4>1, <4>2
    <3>2. ASSUME NEW i \in 1..Len(seq), i # at PROVE seq[i] \in Elements(short)
      <4>1. CASE i < at
        <5>1. i \in 1..(Len(seq) - 1) /\ short[i] = seq[i]
          BY <4>1, <2>2, <2>3
        <5>2. QED BY <5>1, <2>3 DEF Elements
      <4>2. CASE i > at
        <5>1. i - 1 \in 1..(Len(seq) - 1) /\ short[i - 1] = seq[i]
          BY <4>2, <2>2, <2>3
        <5>2. QED BY <5>1, <2>3 DEF Elements
      <4>3. QED BY <4>1, <4>2, <3>2, <2>2
    <3>3. Elements(short) \subseteq Elements(seq) \ {x}
      BY <3>1, <2>3 DEF Elements
    <3>4. Elements(seq) \ {x} \subseteq Elements(short)
      BY <3>2, <2>2 DEF Elements
    <3>5. QED BY <3>3, <3>4
  <2>6. QED BY <2>1, <2>3, <2>4, <2>5
<1>3. QED BY <1>1, <1>2

-----------------------------------------------------------------------------
(* The owner a shadow watches.                                             *)

\* A set of positions has a first one.
LEMMA LeastPosition ==
  ASSUME NEW found \in SUBSET Nat, found # {}
  PROVE  \E i \in found : \A j \in found : i <= j
<1> DEFINE R == {ss \in Nat \X Nat : ss[1] < ss[2]}
<1>1. IsWellFoundedOn(R, Nat)
  BY NatLessThanWellFounded DEF OpToRel
<1>2. \E i \in found : \A j \in found : <<j, i>> \notin R
  BY <1>1, WFMin
<1>3. \A i, j \in Nat : <<j, i>> \notin R => i <= j
  OBVIOUS
<1> HIDE DEF R
<1>4. QED BY <1>2, <1>3

\* The source of a policy is a registered owner that can be watched, if there is
\* one.
LEMMA SourceFacts ==
  ASSUME registry \in Seq(Players), NEW k
  PROVE  \/ /\ Source(k) = NoPlayer
            /\ \A q \in Registered : ~Watchable(k, q)
         \/ Source(k) \in Registered /\ Watchable(k, Source(k))
<1> DEFINE found == {i \in DOMAIN registry : Watchable(k, registry[i])}
<1>1. CASE found = {}
  BY <1>1 DEF Source, Registered, Elements
<1>2. CASE found # {}
  <2>1. found \subseteq Nat
    OBVIOUS
  <2>2. PICK i \in found : \A j \in found : i <= j
    BY <1>2, <2>1, LeastPosition
  <2> DEFINE first == CHOOSE n \in found : \A j \in found : n <= j
  <2>3. first \in found
    BY <2>2
  <2>4. Source(k) = registry[first]
    BY <1>2 DEF Source
  <2>5. QED BY <2>3, <2>4 DEF Registered, Elements
<1>3. QED BY <1>1, <1>2

-----------------------------------------------------------------------------
(* Connections.                                                            *)

\* What the handlers rely on in the record of one connection: a socket that is
\* not there has no subscription and no deadline, generations begin with the
\* first subscription, an offer and an agreement are of the current one, and a
\* governed viewer that waits for its stream has a deadline.
Sound(p, c) ==
  /\ c \in Connection
  /\ c.sock = "none" => c = Idle
  /\ p \in Unmanaged => c.policy = NoPolicy
  /\ c.sock \notin {"open", "closing"} => c.sub = NoStreamer /\ ~c.timer
  /\ c.policy # NoPolicy /\ c.sub # NoStreamer => c.hasSub
  /\ ~c.hasSub => c.gen = 0
  /\ c.offer # NoOffer => c.offer.gen = c.gen
  /\ c.agreed # NoDeal => c.agreed = <<c.gen, c.gen>>
  /\ c.policy # NoPolicy /\ c.sub # NoStreamer /\ c.agreed = NoDeal => c.timer

\* A connection that was not opened is sound.
LEMMA IdleSound == ASSUME NEW p PROVE Sound(p, Idle)
<1>1. 0 \in Generations
  BY BoundAssumption DEF Generations
<1>2. Idle \in Connection
  BY <1>1 DEF Idle, Connection
<1>3. QED BY <1>2 DEF Sound, Idle

\* What a handler makes of a connection when it ends its subscription.
LEMMA LeavingSound ==
  ASSUME NEW p, NEW c, Sound(p, c), c.sock \in {"open", "closing"}
  PROVE  /\ Sound(p, Unsubscribed(c))
         /\ Sound(p, Disconnected(c))
         /\ Sound(p, Failed(c))
         /\ Sound(p, Closed(c))
<1>1. Sound(p, Unsubscribed(c))
  BY DEF Sound, Unsubscribed, Connection, Idle
<1>2. Sound(p, Disconnected(c))
  BY DEF Sound, Disconnected, Unsubscribed, Connection, Idle
<1>3. Sound(p, Failed(c))
  BY DEF Sound, Failed, Disconnected, Unsubscribed, Connection, Idle
<1>4. Sound(p, Closed(c))
  <2>1. c.hasSub \in BOOLEAN /\ c.gen \in Generations
    BY DEF Sound, Connection
  <2>2. Idle \in Connection
    BY IdleSound DEF Sound
  <2>3. Closed(c) \in Connection
    BY <2>1, <2>2 DEF Closed, Connection
  <2>5. /\ Closed(c).sock = "closed" /\ Closed(c).policy = NoPolicy
        /\ Closed(c).hasSub = c.hasSub /\ Closed(c).gen = c.gen
        /\ Closed(c).offer = NoOffer /\ Closed(c).agreed = NoDeal
        /\ Closed(c).sub = NoStreamer /\ ~Closed(c).timer
    BY DEF Closed, Idle
  <2>4. ~c.hasSub => c.gen = 0
    BY DEF Sound
  <2>6. QED BY <2>3, <2>4, <2>5 DEF Sound
<1>5. QED BY <1>1, <1>2, <1>3, <1>4

\* A subscription begins a generation of its own.
LEMMA JoinedSound ==
  ASSUME NEW p, NEW c, Sound(p, c), c.sock \in {"open", "closing"},
         c.gen < MaxGeneration, NEW u \in Streamers
  PROVE  /\ Sound(p, Joined(c, u))
         /\ Joined(c, u).sub = u
         /\ Joined(c, u).policy = c.policy
         /\ Joined(c, u).codec = c.codec
         /\ Joined(c, u).sock = c.sock
<1>1. c.gen \in Generations /\ c.gen + 1 \in Generations
  BY BoundAssumption DEF Sound, Connection, Generations
<1>2. u # NoStreamer
  BY PlayerAssumption
<1>3. CASE c.policy = NoPolicy
  BY <1>2, <1>3 DEF Sound, Joined, Connection, Idle
<1>4. CASE c.policy # NoPolicy /\ c.hasSub
  BY <1>1, <1>2, <1>4 DEF Sound, Joined, Restarted, Connection, Idle
<1>5. CASE c.policy # NoPolicy /\ ~c.hasSub
  BY <1>1, <1>2, <1>5 DEF Sound, Joined, Restarted, Connection, Idle
<1>6. QED BY <1>3, <1>4, <1>5

\* An offer, and an agreement, of the current generation.
LEMMA NegotiatedSound ==
  ASSUME NEW p, NEW c, Sound(p, c), c.sock \in {"open", "closing"},
         NEW from \in {"player", "streamer"}
  PROVE  /\ Sound(p, Offered(c, from, c.gen))
         /\ c.offer # NoOffer => Sound(p, Agreed(c, c.gen))
<1>1. [from |-> from, gen |-> c.gen] \in Offers
  BY DEF Sound, Connection, Offers
<1>2. Sound(p, Offered(c, from, c.gen))
  BY <1>1 DEF Sound, Offered, Connection, Idle
<1>3. ASSUME c.offer # NoOffer PROVE Sound(p, Agreed(c, c.gen))
  <2>1. c.offer.gen = c.gen /\ c.gen \in Generations
    BY <1>3 DEF Sound, Connection
  <2>2. <<c.gen, c.gen>> \in Deals /\ <<c.gen, c.gen>> # NoDeal
    BY <2>1, AbsenceAssumption DEF Deals
  <2>3. Agreed(c, c.gen) = [c EXCEPT !.finalized = TRUE, !.offer = NoOffer,
                                     !.agreed = <<c.gen, c.gen>>, !.timer = FALSE]
    BY <2>1 DEF Agreed
  <2>4. Agreed(c, c.gen) \in Connection
    BY <2>2, <2>3 DEF Sound, Connection
  <2>5. /\ Agreed(c, c.gen).sock = c.sock
        /\ Agreed(c, c.gen).policy = c.policy
        /\ Agreed(c, c.gen).hasSub = c.hasSub
        /\ Agreed(c, c.gen).gen = c.gen
        /\ Agreed(c, c.gen).offer = NoOffer
        /\ Agreed(c, c.gen).agreed = <<c.gen, c.gen>>
        /\ Agreed(c, c.gen).sub = c.sub
        /\ ~Agreed(c, c.gen).timer
    BY <2>3 DEF Sound, Connection
  <2>6. QED BY <2>2, <2>4, <2>5 DEF Sound
<1>4. QED BY <1>2, <1>3

-----------------------------------------------------------------------------
(* Every step is one of a few forms.                                       *)

Connected == {"open", "closing"}

\* Types, sound connections, and a registry in which whoever has a ticket has the
\* policy of it.
Typed ==
  /\ TypeOK
  /\ \A p \in Players : Sound(p, conn[p])
  /\ \A p \in Registered \ Unmanaged : Governed(p)

\* c is what a handler may make of the connection of p: its generation is the
\* same, and a registered connection keeps its policy and is not opened again.
Kept(p, c) ==
  /\ Sound(p, c)
  /\ c.hasSub = conn[p].hasSub /\ c.gen = conn[p].gen
  /\ p \in Registered =>
       /\ c.policy = conn[p].policy
       /\ c.sock \in Connected
       /\ c.sock = "open" => conn[p].sock = "open"

\* A subscription that stays is the same as before.
Stays(p, c) ==
  /\ c.sub = conn[p].sub
  /\ c.sub # NoStreamer => c.policy = conn[p].policy /\ c.codec = conn[p].codec

BecomesForm(p, c) == Kept(p, c) /\ Stays(p, c) /\ Become(p, c)

LeavesForm(p, c) == Kept(p, c) /\ c.sub = NoStreamer /\ Leave(p, c)

JoinsForm(p, u, c) ==
  /\ Kept(p, c) /\ Stays(p, c)
  /\ c.policy = conn[p].policy /\ c.codec = conn[p].codec /\ c.sock = conn[p].sock
  /\ c.sock \in Connected /\ c.gen < MaxGeneration
  /\ u \in Online
  /\ ~Mismatched(p, u) /\ ~Exclusive(p, u) /\ ~Full(p, u)
  /\ Join(p, u, c)

RegistersForm(p, c) ==
  /\ Sound(p, c)
  /\ conn[p] = Idle
  /\ c.sock = "open" /\ c.sub = NoStreamer /\ ~c.hasSub /\ c.gen = 0
  /\ p \notin Unmanaged => c.policy # NoPolicy
  /\ p \in Shadows => \E q \in Registered \cap Owners : conn[q].policy = c.policy
  /\ Register(p, c)

ViewerForm(p) ==
  \/ \E c : BecomesForm(p, c) \/ LeavesForm(p, c) \/ RegistersForm(p, c)
  \/ \E c : \E u \in Streamers : JoinsForm(p, u, c)

\* What is known of one connection.
LEMMA TypedFacts ==
  ASSUME Typed, NEW p \in Players
  PROVE  /\ Sound(p, conn[p]) /\ conn[p] \in Connection
         /\ Kept(p, conn[p]) /\ Stays(p, conn[p])
         /\ p \in Registered => Live(p)
         /\ conn[p].sock = "none" => p \notin Registered /\ conn[p] = Idle
<1>1. Sound(p, conn[p]) /\ conn[p] \in Connection
  BY DEF Typed, Sound
<1>2. p \in Registered => Live(p)
  BY DEF Typed, TypeOK
<1>3. QED BY <1>1, <1>2 DEF Kept, Stays, Live, Connected, Sound

\* Changes of a connection that no subscription depends on.
LEMMA MarkedFacts ==
  ASSUME NEW p \in Players, NEW c, Kept(p, c), c.sock \in Connected, NEW d,
         d = [c EXCEPT !.finalized = TRUE] \/ d = [c EXCEPT !.paused = FALSE]
  PROVE  /\ Kept(p, d) /\ d.sub = c.sub /\ d.policy = c.policy
         /\ d.codec = c.codec /\ d.sock = c.sock /\ d.gen = c.gen
         /\ d.hasSub = c.hasSub /\ d.offer = c.offer /\ d.failed = c.failed
<1>1. c \in Connection /\ Sound(p, c)
  BY DEF Kept, Sound
<1>2. /\ d.sub = c.sub /\ d.policy = c.policy /\ d.codec = c.codec
      /\ d.sock = c.sock /\ d.gen = c.gen /\ d.hasSub = c.hasSub
      /\ d.offer = c.offer /\ d.agreed = c.agreed /\ d.timer = c.timer
      /\ d.failed = c.failed /\ d \in Connection
  BY <1>1 DEF Connection
<1>3. Sound(p, d)
  BY <1>1, <1>2 DEF Sound, Connected
<1>4. QED BY <1>2, <1>3 DEF Kept

\* A connection that loses its subscription stays otherwise what it is.
LEMMA LeavingFacts ==
  ASSUME NEW p \in Players, NEW c, Kept(p, c), c.sock \in Connected
  PROVE  /\ Kept(p, Unsubscribed(c)) /\ Unsubscribed(c).sub = NoStreamer
         /\ Kept(p, Disconnected(c)) /\ Disconnected(c).sub = NoStreamer
         /\ Kept(p, Failed(c)) /\ Failed(c).sub = NoStreamer
<1>1. c \in Connection /\ Sound(p, c)
  BY DEF Kept, Sound
<1>2. Kept(p, Unsubscribed(c)) /\ Unsubscribed(c).sub = NoStreamer
  <2>1. /\ Unsubscribed(c).sub = NoStreamer /\ Unsubscribed(c).policy = c.policy
        /\ Unsubscribed(c).sock = c.sock /\ Unsubscribed(c).gen = c.gen
        /\ Unsubscribed(c).hasSub = c.hasSub
    BY <1>1 DEF Unsubscribed, Connection
  <2>2. QED BY <1>1, <2>1, LeavingSound DEF Kept, Connected
<1>3. Kept(p, Disconnected(c)) /\ Disconnected(c).sub = NoStreamer
  <2>1. /\ Disconnected(c).sub = NoStreamer /\ Disconnected(c).policy = c.policy
        /\ Disconnected(c).sock = "closing" /\ Disconnected(c).gen = c.gen
        /\ Disconnected(c).hasSub = c.hasSub
    BY <1>1 DEF Disconnected, Unsubscribed, Connection
  <2>2. QED BY <1>1, <2>1, LeavingSound DEF Kept, Connected
<1>4. Kept(p, Failed(c)) /\ Failed(c).sub = NoStreamer
  <2>1. /\ Failed(c).sub = NoStreamer /\ Failed(c).policy = c.policy
        /\ Failed(c).sock = "closing" /\ Failed(c).gen = c.gen
        /\ Failed(c).hasSub = c.hasSub
    BY <1>1 DEF Failed, Disconnected, Unsubscribed, Connection
  <2>2. QED BY <1>1, <2>1, LeavingSound DEF Kept, Connected
<1>5. QED BY <1>2, <1>3, <1>4

\* subscribe(): it joins, or leaves, or the streamer is not there.
LEMMA SubscribeForm ==
  ASSUME Typed, NEW p \in Players, NEW c, NEW u, NEW declined,
         Kept(p, c), Stays(p, c), c.sock \in Connected, c.sock = conn[p].sock,
         c.policy = conn[p].policy, c.codec = conn[p].codec,
         Kept(p, declined), declined.sub = NoStreamer,
         Subscribe(p, c, u, declined)
  PROVE  ViewerForm(p)
<1> DEFINE d == [c EXCEPT !.finalized = TRUE]
<1>1. /\ Kept(p, d) /\ d.sub = c.sub /\ d.policy = c.policy /\ d.codec = c.codec
      /\ d.sock = c.sock /\ d.gen = c.gen
  BY MarkedFacts
<1>2. Kept(p, Disconnected(d)) /\ Disconnected(d).sub = NoStreamer
      /\ Kept(p, Failed(d)) /\ Failed(d).sub = NoStreamer
  <2> HIDE DEF d
  <2>1. QED BY <1>1, LeavingFacts
<1>3. Stays(p, d)
  BY <1>1 DEF Stays
<1>4. \/ Leave(p, Disconnected(d))
      \/ Leave(p, Failed(d))
      \/ Leave(p, declined)
      \/ Become(p, d)
      \/ /\ u \in Online /\ ~Mismatched(p, u) /\ ~Exclusive(p, u) /\ ~Full(p, u)
         /\ d.gen < MaxGeneration /\ Join(p, u, d)
  BY DEF Subscribe
<1> HIDE DEF d
<1>5. CASE Leave(p, Disconnected(d))
  BY <1>2, <1>5 DEF ViewerForm, LeavesForm
<1>6. CASE Leave(p, Failed(d))
  BY <1>2, <1>6 DEF ViewerForm, LeavesForm
<1>7. CASE Leave(p, declined)
  BY <1>7 DEF ViewerForm, LeavesForm
<1>8. CASE Become(p, d)
  BY <1>1, <1>3, <1>8 DEF ViewerForm, BecomesForm
<1>9. CASE /\ u \in Online /\ ~Mismatched(p, u) /\ ~Exclusive(p, u) /\ ~Full(p, u)
           /\ d.gen < MaxGeneration /\ Join(p, u, d)
  <2>1. u \in Streamers
    BY <1>9 DEF Typed, TypeOK, Online, Elements
  <2>2. JoinsForm(p, u, d)
    BY <1>1, <1>3, <1>9 DEF JoinsForm
  <2>3. QED BY <2>1, <2>2 DEF ViewerForm
<1>10. QED BY <1>4, <1>5, <1>6, <1>7, <1>8, <1>9

LEMMA SubscribeFirstForm ==
  ASSUME Typed, NEW p \in Players, NEW c,
         Kept(p, c), Stays(p, c), c.sock \in Connected, c.sock = conn[p].sock,
         c.policy = conn[p].policy, c.codec = conn[p].codec,
         SubscribeFirst(p, c)
  PROVE  ViewerForm(p)
<1> DEFINE d == [c EXCEPT !.finalized = TRUE]
<1>1. Kept(p, d) /\ d.sock = c.sock /\ d.policy = c.policy
  BY MarkedFacts
<1>2. Kept(p, Disconnected(d)) /\ Disconnected(d).sub = NoStreamer
  <2> HIDE DEF d
  <2>1. QED BY <1>1, LeavingFacts
<1>3. Kept(p, Disconnected(c)) /\ Disconnected(c).sub = NoStreamer
  BY LeavingFacts
<1> HIDE DEF d
<1>4. CASE Leave(p, Disconnected(c))
  BY <1>3, <1>4 DEF ViewerForm, LeavesForm
<1>5. CASE Subscribe(p, c, Head(online), Disconnected(d))
  BY <1>2, <1>5, SubscribeForm
<1>6. QED BY <1>4, <1>5 DEF SubscribeFirst, d

\* Connecting.
LEMMA ConnectForm ==
  ASSUME Typed, NEW p \in Players,
         \/ ConnectUnmanaged(p) \/ ConnectUnjournaled(p)
         \/ \E k \in Policies, recorded \in BOOLEAN :
              ConnectOwner(p, k, recorded) \/ ConnectShadow(p, k, recorded)
  PROVE  ViewerForm(p)
<1>1. conn[p].sock = "none"
  BY DEF ConnectUnmanaged, ConnectUnjournaled, ConnectOwner, ConnectShadow
<1>2. p \notin Registered /\ conn[p] = Idle
  BY <1>1, TypedFacts
<1>3. \A k \in Policies : k.default \in Codecs /\ k # NoPolicy
  BY PolicyAssumption
<1>4. ASSUME NEW c \in Connection, c.sock \in Connected, c.sub = NoStreamer,
             c.hasSub = FALSE, c.gen = 0, c.offer = NoOffer, c.agreed = NoDeal,
             p \in Unmanaged => c.policy = NoPolicy
      PROVE  Sound(p, c)
  BY <1>4 DEF Sound, Connected
<1>5. ASSUME NEW c \in Connection, c.sock = "closing", c.sub = NoStreamer,
             c.hasSub = FALSE, c.gen = 0, c.offer = NoOffer, c.agreed = NoDeal,
             p \in Unmanaged => c.policy = NoPolicy, Become(p, c)
      PROVE  ViewerForm(p)
  <2>1. Sound(p, c)
    BY <1>4, <1>5 DEF Connected
  <2>2. conn[p].hasSub = FALSE /\ conn[p].gen = 0 /\ conn[p].sub = NoStreamer
    BY <1>2 DEF Idle
  <2>3. BecomesForm(p, c)
    BY <1>2, <1>5, <2>1, <2>2 DEF BecomesForm, Kept, Stays
  <2>4. QED BY <2>3 DEF ViewerForm
<1>6. ASSUME NEW c \in Connection, c.sock = "open", c.sub = NoStreamer,
             c.hasSub = FALSE, c.gen = 0, c.offer = NoOffer, c.agreed = NoDeal,
             p \in Unmanaged <=> c.policy = NoPolicy,
             p \in Shadows => \E q \in Registered \cap Owners : conn[q].policy = c.policy,
             Register(p, c)
      PROVE  ViewerForm(p)
  <2>1. Sound(p, c)
    BY <1>4, <1>6 DEF Connected
  <2>2. RegistersForm(p, c)
    BY <1>2, <1>6, <2>1 DEF RegistersForm
  <2>3. QED BY <2>2 DEF ViewerForm
<1>7. Idle \in Connection
  BY IdleSound DEF Sound
<1>8. CASE ConnectUnmanaged(p)
  <2> DEFINE c == [Idle EXCEPT !.sock = "open"]
  <2>1. /\ c \in Connection /\ c.sock = "open" /\ c.sub = NoStreamer
        /\ c.hasSub = FALSE /\ c.gen = 0 /\ c.offer = NoOffer /\ c.agreed = NoDeal
        /\ c.policy = NoPolicy
    BY <1>7 DEF Idle, Connection
  <2>2. p \in Unmanaged /\ p \notin Shadows /\ Register(p, c)
    BY <1>8, PlayerAssumption DEF ConnectUnmanaged
  <2> HIDE DEF c
  <2>3. QED BY <1>6, <2>1, <2>2
<1>9. CASE ConnectUnjournaled(p)
  <2> DEFINE c == [Idle EXCEPT !.sock = "closing"]
  <2>1. /\ c \in Connection /\ c.sock = "closing" /\ c.sub = NoStreamer
        /\ c.hasSub = FALSE /\ c.gen = 0 /\ c.offer = NoOffer /\ c.agreed = NoDeal
        /\ c.policy = NoPolicy
    BY <1>7 DEF Idle, Connection
  <2>2. Become(p, c)
    BY <1>9 DEF ConnectUnjournaled, Reject
  <2> HIDE DEF c
  <2>3. QED BY <1>5, <2>1, <2>2
<1>10. ASSUME NEW k \in Policies, NEW recorded \in BOOLEAN,
             ConnectOwner(p, k, recorded)
      PROVE  ViewerForm(p)
  <2> DEFINE c == [Idle EXCEPT !.policy = k, !.codec = k.default]
             opened == [c EXCEPT !.sock = "open", !.timer = TRUE]
             closed == [c EXCEPT !.sock = "closing"]
  <2>1. p \in Owners /\ p \notin Unmanaged /\ p \notin Shadows
    BY <1>10, PlayerAssumption DEF ConnectOwner
  <2>2. /\ opened \in Connection /\ opened.sock = "open" /\ opened.sub = NoStreamer
        /\ opened.hasSub = FALSE /\ opened.gen = 0 /\ opened.offer = NoOffer
        /\ opened.agreed = NoDeal /\ opened.policy = k
    BY <1>3, <1>7 DEF Idle, Connection
  <2>3. /\ closed \in Connection /\ closed.sock = "closing" /\ closed.sub = NoStreamer
        /\ closed.hasSub = FALSE /\ closed.gen = 0 /\ closed.offer = NoOffer
        /\ closed.agreed = NoDeal /\ closed.policy = k
    BY <1>3, <1>7 DEF Idle, Connection
  <2>4. Register(p, opened) \/ Become(p, closed)
    BY <1>10 DEF ConnectOwner, Reject
  <2> HIDE DEF opened, closed
  <2>5. CASE Register(p, opened)
    BY <1>3, <1>6, <2>1, <2>2, <2>5
  <2>6. CASE Become(p, closed)
    BY <1>3, <1>5, <2>1, <2>3, <2>6
  <2>7. QED BY <2>4, <2>5, <2>6
<1>11. ASSUME NEW k \in Policies, NEW recorded \in BOOLEAN,
             ConnectShadow(p, k, recorded)
      PROVE  ViewerForm(p)
  <2> DEFINE c == [Idle EXCEPT !.policy = k, !.codec = k.default]
             d == [c EXCEPT !.codec = SourceCodec(k)]
             opened == [d EXCEPT !.sock = "open", !.timer = TRUE]
             refused == [c EXCEPT !.sock = "closing"]
             closed == [d EXCEPT !.sock = "closing"]
  <2>1. p \in Shadows /\ p \notin Unmanaged
    BY <1>11, PlayerAssumption DEF ConnectShadow
  <2>2. SourceCodec(k) \in Codecs \cup {NoCodec}
    <3>1. registry \in Seq(Players)
      BY DEF Typed, TypeOK
    <3>2. CASE Source(k) = NoPlayer
      BY <3>2 DEF SourceCodec
    <3>3. CASE Source(k) # NoPlayer
      <4>1. Source(k) \in Players
        BY <3>1, <3>3, SourceFacts DEF Registered, Elements
      <4>2. conn[Source(k)] \in Connection
        BY <4>1, TypedFacts
      <4>3. QED BY <3>3, <4>2 DEF SourceCodec, Connection
    <3>4. QED BY <3>2, <3>3
  <2>3. /\ opened \in Connection /\ opened.sock = "open" /\ opened.sub = NoStreamer
        /\ opened.hasSub = FALSE /\ opened.gen = 0 /\ opened.offer = NoOffer
        /\ opened.agreed = NoDeal /\ opened.policy = k
    BY <1>3, <1>7, <2>2 DEF Idle, Connection
  <2>4. /\ refused \in Connection /\ refused.sock = "closing"
        /\ refused.sub = NoStreamer /\ refused.hasSub = FALSE /\ refused.gen = 0
        /\ refused.offer = NoOffer /\ refused.agreed = NoDeal /\ refused.policy = k
    BY <1>3, <1>7 DEF Idle, Connection
  <2>5. /\ closed \in Connection /\ closed.sock = "closing" /\ closed.sub = NoStreamer
        /\ closed.hasSub = FALSE /\ closed.gen = 0 /\ closed.offer = NoOffer
        /\ closed.agreed = NoDeal /\ closed.policy = k
    BY <1>3, <1>7, <2>2 DEF Idle, Connection
  <2>6. d.codec = SourceCodec(k)
    BY <1>7 DEF Idle, Connection
  <2>7. \/ Become(p, refused)
        \/ Become(p, closed)
        \/ SourceCodec(k) # NoCodec /\ Register(p, opened)
    BY <1>11, <2>6 DEF ConnectShadow, Reject
  <2> HIDE DEF opened, closed, refused
  <2>8. CASE Become(p, refused)
    BY <1>3, <1>5, <2>1, <2>4, <2>8
  <2>9. CASE Become(p, closed)
    BY <1>3, <1>5, <2>1, <2>5, <2>9
  <2>10. CASE SourceCodec(k) # NoCodec /\ Register(p, opened)
    <3>1. Source(k) \in Registered \cap Owners /\ conn[Source(k)].policy = k
      <4>1. registry \in Seq(Players) /\ Source(k) # NoPlayer
        BY <2>10 DEF Typed, TypeOK, SourceCodec
      <4>2. QED BY <4>1, SourceFacts DEF Watchable
    <3>2. QED BY <1>3, <1>6, <2>1, <2>3, <2>10, <3>1
  <2>11. QED BY <2>7, <2>8, <2>9, <2>10
<1>12. QED BY <1>8, <1>9, <1>10, <1>11

\* A handler that ends the subscription of a live connection.
LEMMA LeaveForm ==
  ASSUME Typed, NEW p \in Players, NEW c, Kept(p, c), c.sock \in Connected,
         \/ Leave(p, Unsubscribed(c))
         \/ Leave(p, Disconnected(c))
         \/ Leave(p, Failed(c))
  PROVE  ViewerForm(p)
BY LeavingFacts DEF ViewerForm, LeavesForm

\* Codec selection.
LEMMA CapabilitiesForm ==
  ASSUME Typed, NEW p \in Players, NEW supported \in SUBSET Codecs,
         NEW recorded \in BOOLEAN, Capabilities(p, supported, recorded)
  PROVE  ViewerForm(p)
<1> DEFINE c == [conn[p] EXCEPT !.finalized = TRUE]
           d == [c EXCEPT !.codec = Selection(p, supported)]
<1>1. /\ conn[p].sock \in Connected /\ Governed(p) /\ ~conn[p].hasSub
      /\ Become(p, d) \/ Leave(p, Failed(c))
  <2>1. c.hasSub = conn[p].hasSub
    BY TypedFacts DEF Connection
  <2>2. QED BY <2>1 DEF Capabilities, Live, Connected
<1>2. Kept(p, c) /\ c.sub = conn[p].sub /\ c.sock = conn[p].sock
  BY <1>1, TypedFacts, MarkedFacts
<1>3. Selection(p, supported) \in Codecs \cup {NoCodec}
  <2>1. conn[p].codec \in Codecs \cup {NoCodec} /\ conn[p].policy \in Policies
    BY <1>1, TypedFacts DEF Connection, Governed
  <2>2. conn[p].policy.default \in Codecs /\ "VP9" \in Codecs /\ "H264" \in Codecs
    BY <2>1, PolicyAssumption
  <2>3. QED BY <2>1, <2>2 DEF Selection, Preferred
<1>4. conn[p].sub = NoStreamer
  BY <1>1, TypedFacts DEF Sound, Governed
<1>5. CASE Leave(p, Failed(c))
  <2> HIDE DEF c
  <2>1. QED BY <1>1, <1>2, <1>5, LeaveForm
<1>6. CASE Become(p, d)
  <2>1. c \in Connection /\ Sound(p, c) /\ c.sub = NoStreamer
    BY <1>2, <1>4 DEF Kept, Sound
  <2> HIDE DEF c
  <2>2. /\ d \in Connection /\ d.sock = c.sock /\ d.policy = c.policy
        /\ d.sub = c.sub /\ d.hasSub = c.hasSub /\ d.gen = c.gen
        /\ d.offer = c.offer /\ d.agreed = c.agreed /\ d.timer = c.timer
    BY <1>3, <2>1 DEF Connection
  <2>3. Sound(p, d)
    BY <1>1, <1>2, <2>1, <2>2 DEF Sound, Connected
  <2>4. Kept(p, d) /\ Stays(p, d)
    BY <1>2, <1>4, <2>1, <2>2, <2>3 DEF Kept, Stays
  <2>5. BecomesForm(p, d)
    BY <1>6, <2>4 DEF BecomesForm
  <2> HIDE DEF d
  <2>6. QED BY <2>5 DEF ViewerForm
<1>7. QED BY <1>1, <1>5, <1>6

\* Subscription and its end, by request or by any message.
LEMMA RequestForm ==
  ASSUME Typed, NEW p \in Players,
         \/ \E u \in Streamers \cup {NoStreamer} : SubscribeRequest(p, u)
         \/ MalformedSubscribe(p) \/ UnsubscribeRequest(p) \/ ImplicitSubscribe(p)
  PROVE  ViewerForm(p)
<1> DEFINE old == conn[p]
<1>1. old.sock \in Connected /\ Kept(p, old) /\ Stays(p, old)
  BY TypedFacts DEF SubscribeRequest, MalformedSubscribe, UnsubscribeRequest,
                    ImplicitSubscribe, Live, Connected
<1>2. ASSUME NEW u \in Streamers \cup {NoStreamer}, SubscribeRequest(p, u)
      PROVE  ViewerForm(p)
  <2> DEFINE c == [conn[p] EXCEPT !.paused = FALSE]
             d == [c EXCEPT !.finalized = TRUE]
  <2>1. /\ Kept(p, c) /\ c.sub = old.sub /\ c.policy = old.policy
        /\ c.codec = old.codec /\ c.sock = old.sock
    BY <1>1, MarkedFacts
  <2>2. Stays(p, c)
    BY <2>1 DEF Stays
  <2>3. Subscribe(p, c, u, Unsubscribed(d))
    BY <1>2 DEF SubscribeRequest
  <2> HIDE DEF c
  <2>4. Kept(p, d) /\ d.sock = c.sock
    BY <1>1, <2>1, MarkedFacts
  <2> HIDE DEF d
  <2>5. Kept(p, Unsubscribed(d)) /\ Unsubscribed(d).sub = NoStreamer
    BY <1>1, <2>1, <2>4, LeavingFacts
  <2>6. QED BY <1>1, <2>1, <2>2, <2>3, <2>5, SubscribeForm
<1>3. CASE MalformedSubscribe(p)
  <2> DEFINE c == [conn[p] EXCEPT !.finalized = TRUE]
  <2>1. Kept(p, c) /\ c.sock = old.sock
    BY <1>1, MarkedFacts
  <2>2. Leave(p, Disconnected(c))
    BY <1>3 DEF MalformedSubscribe
  <2> HIDE DEF c
  <2>3. QED BY <1>1, <2>1, <2>2, LeaveForm
<1>4. CASE UnsubscribeRequest(p)
  <2> DEFINE c == Unsubscribed(conn[p])
             d == [c EXCEPT !.paused = @ \/ conn[p].hasSub]
  <2>1. Kept(p, c) /\ c.sub = NoStreamer
    BY <1>1, LeavingFacts
  <2>2. Leave(p, d)
    BY <1>4 DEF UnsubscribeRequest
  <2>3. c \in Connection /\ Sound(p, c) /\ c.sock = old.sock
    <3>1. old \in Connection
      BY TypedFacts
    <3>2. QED BY <2>1, <3>1 DEF Kept, Sound, Unsubscribed, Connection
  <2> HIDE DEF c
  <2>4. (c.paused \/ conn[p].hasSub) \in BOOLEAN
    OBVIOUS
  <2>5. /\ d \in Connection /\ d.sock = c.sock /\ d.policy = c.policy
        /\ d.sub = c.sub /\ d.hasSub = c.hasSub /\ d.gen = c.gen
        /\ d.offer = c.offer /\ d.agreed = c.agreed /\ d.timer = c.timer
    BY <2>3, <2>4 DEF Connection
  <2>6. Sound(p, d)
    BY <1>1, <2>1, <2>3, <2>5 DEF Sound, Connected
  <2>7. Kept(p, d)
    BY <2>1, <2>5, <2>6 DEF Kept
  <2> HIDE DEF d
  <2>8. LeavesForm(p, d)
    BY <2>1, <2>2, <2>5, <2>7 DEF LeavesForm
  <2>9. QED BY <2>8 DEF ViewerForm
<1>5. CASE ImplicitSubscribe(p)
  <2>1. SubscribeFirst(p, conn[p])
    BY <1>5 DEF ImplicitSubscribe
  <2>2. QED BY <1>1, <2>1, SubscribeFirstForm
<1>6. QED BY <1>2, <1>3, <1>4, <1>5

\* Descriptions, deadlines and closing sockets.
LEMMA NegotiationForm ==
  ASSUME Typed, NEW p \in Players,
         \/ \E ok \in BOOLEAN : FirstOffer(p, ok)
         \/ \E from \in {"player", "streamer"}, g \in Generations :
              BadDescription(p, from, g) \/ Offer(p, from, g) \/ Answer(p, from, g)
         \/ \E g \in Generations : Contradict(p, g)
         \/ DeadlineFires(p)
         \/ CloseSocket(p)
  PROVE  ViewerForm(p)
<1> DEFINE old == conn[p]
<1>1. old.sock \in Connected
  <2>1. CASE DeadlineFires(p)
    BY <2>1, TypedFacts DEF DeadlineFires, Sound, Connected
  <2>2. CASE ~DeadlineFires(p)
    BY <2>2 DEF FirstOffer, BadDescription, Offer, Answer, Contradict, CloseSocket,
                Negotiating, Live, Connected
  <2>3. QED BY <2>1, <2>2
<1>2. Kept(p, old) /\ Stays(p, old) /\ Sound(p, old) /\ old \in Connection
  BY TypedFacts
<1>3. ASSUME NEW from \in {"player", "streamer"}
      PROVE  LET d == Offered(old, from, old.gen)
             IN  /\ Kept(p, d) /\ Stays(p, d) /\ d.sock = old.sock
                 /\ d.policy = old.policy /\ d.codec = old.codec
  <2> DEFINE d == Offered(old, from, old.gen)
  <2>1. Sound(p, d)
    BY <1>1, <1>2, NegotiatedSound DEF Connected
  <2>2. /\ d.sock = old.sock /\ d.policy = old.policy /\ d.codec = old.codec
        /\ d.sub = old.sub /\ d.hasSub = old.hasSub /\ d.gen = old.gen
    BY <1>2 DEF Offered, Connection
  <2> HIDE DEF d
  <2>3. Kept(p, d) /\ Stays(p, d)
    BY <1>1, <1>2, <2>1, <2>2 DEF Kept, Stays
  <2>4. QED BY <2>2, <2>3 DEF d
<1>4. ASSUME NEW ok \in BOOLEAN, FirstOffer(p, ok) PROVE ViewerForm(p)
  <2> DEFINE c == [conn[p] EXCEPT !.finalized = TRUE]
             d == Offered(old, "player", old.gen)
  <2>1. old.gen = 0
    BY <1>2, <1>4 DEF FirstOffer, Sound
  <2>2. \/ Leave(p, Disconnected(old))
        \/ SubscribeFirst(p, d)
        \/ Leave(p, Failed(c))
    BY <1>4, <2>1 DEF FirstOffer
  <2>3. Kept(p, c) /\ c.sock = old.sock
    BY <1>1, <1>2, MarkedFacts
  <2>4. /\ Kept(p, d) /\ Stays(p, d) /\ d.sock = old.sock
        /\ d.policy = old.policy /\ d.codec = old.codec
    BY <1>3
  <2> HIDE DEF c, d
  <2>5. CASE Leave(p, Disconnected(old))
    BY <1>1, <1>2, <2>5, LeaveForm
  <2>6. CASE Leave(p, Failed(c))
    BY <1>1, <2>3, <2>6, LeaveForm
  <2>7. CASE SubscribeFirst(p, d)
    BY <1>1, <2>4, <2>7, SubscribeFirstForm
  <2>8. QED BY <2>2, <2>5, <2>6, <2>7
<1>5. ASSUME NEW from \in {"player", "streamer"}, NEW g \in Generations,
             BadDescription(p, from, g)
      PROVE  ViewerForm(p)
  <2> DEFINE c == [conn[p] EXCEPT !.finalized = TRUE]
  <2>1. Leave(p, Failed(c)) \/ Leave(p, Disconnected(old))
    BY <1>5 DEF BadDescription
  <2>2. Kept(p, c) /\ c.sock = old.sock
    BY <1>1, <1>2, MarkedFacts
  <2> HIDE DEF c
  <2>3. QED BY <1>1, <1>2, <2>1, <2>2, LeaveForm
<1>6. ASSUME NEW from \in {"player", "streamer"}, NEW g \in Generations,
             Offer(p, from, g)
      PROVE  ViewerForm(p)
  <2> DEFINE d == Offered(old, from, old.gen)
  <2>1. g = old.gen
    BY <1>6 DEF Offer, Negotiating, Current
  <2>2. Become(p, d) \/ Leave(p, Disconnected(old))
    BY <1>6, <2>1 DEF Offer
  <2>3. Kept(p, d) /\ Stays(p, d)
    BY <1>3
  <2> HIDE DEF d
  <2>4. CASE Become(p, d)
    BY <2>3, <2>4 DEF BecomesForm, ViewerForm
  <2>5. CASE Leave(p, Disconnected(old))
    BY <1>1, <1>2, <2>5, LeaveForm
  <2>6. QED BY <2>2, <2>4, <2>5
<1>7. ASSUME NEW from \in {"player", "streamer"}, NEW g \in Generations,
             Answer(p, from, g)
      PROVE  ViewerForm(p)
  <2> DEFINE d == Agreed(old, old.gen)
  <2>1. g = old.gen /\ old.offer # NoOffer
    BY <1>7 DEF Answer, Negotiating, Current
  <2>2. Become(p, d)
    BY <1>7, <2>1 DEF Answer
  <2>3. Sound(p, d)
    BY <1>1, <1>2, <2>1, NegotiatedSound DEF Connected
  <2>4. /\ d.sock = old.sock /\ d.policy = old.policy /\ d.codec = old.codec
        /\ d.sub = old.sub /\ d.hasSub = old.hasSub /\ d.gen = old.gen
    BY <1>2 DEF Agreed, Connection
  <2> HIDE DEF d
  <2>5. Kept(p, d) /\ Stays(p, d)
    BY <1>1, <1>2, <2>3, <2>4 DEF Kept, Stays
  <2>6. QED BY <2>2, <2>5 DEF BecomesForm, ViewerForm
<1>8. ASSUME NEW g \in Generations, Contradict(p, g) PROVE ViewerForm(p)
  BY <1>1, <1>2, <1>8, LeaveForm DEF Contradict
<1>9. CASE DeadlineFires(p)
  BY <1>1, <1>2, <1>9, LeaveForm DEF DeadlineFires
<1>10. CASE CloseSocket(p)
  <2> DEFINE d == [conn[p] EXCEPT !.sock = "closing"]
  <2>1. Become(p, d)
    BY <1>10 DEF CloseSocket
  <2>2. /\ d \in Connection /\ d.sock = "closing" /\ d.policy = old.policy
        /\ d.codec = old.codec /\ d.sub = old.sub /\ d.hasSub = old.hasSub
        /\ d.gen = old.gen /\ d.offer = old.offer /\ d.agreed = old.agreed
        /\ d.timer = old.timer
    BY <1>2 DEF Connection
  <2> HIDE DEF d
  <2>3. Sound(p, d)
    BY <1>2, <2>2 DEF Sound
  <2>4. Kept(p, d) /\ Stays(p, d)
    BY <1>1, <1>2, <2>2, <2>3 DEF Kept, Stays, Connected
  <2>5. QED BY <2>1, <2>4 DEF BecomesForm, ViewerForm
<1>11. QED BY <1>4, <1>5, <1>6, <1>7, <1>8, <1>9, <1>10

\* Every step is a form.
LEMMA StepForm ==
  ASSUME Typed, Next
  PROVE  \/ \E p \in Players : ViewerForm(p) \/ TransportClose(p)
         \/ \E u \in Streamers : StreamerConnect(u) \/ StreamerClose(u)
BY ConnectForm, CapabilitiesForm, RequestForm, NegotiationForm DEF Next

-----------------------------------------------------------------------------
(* Types.                                                                  *)

\* Ids and peers are of their types, and so is what is left of them.
LEMMA PeerFacts ==
  ASSUME Typed, NEW p \in Players, NEW c \in Connection
  PROVE  /\ Id(p) \in Players \cup {NoPlayer}
         /\ PeerOf(p, c) \in (Players \cup {NoPlayer}) \X Generations
<1>1. 0 \in Generations /\ c.gen \in Generations
  BY BoundAssumption DEF Generations, Connection
<1>2. QED BY <1>1 DEF Id, PeerOf

LEMMA WithoutTyped ==
  ASSUME Typed, NEW D
  PROVE  /\ SubscribersWithout(D) \in [Streamers -> SUBSET (Players \cup {NoPlayer})]
         /\ PeersWithout(D) \in
              [Streamers -> SUBSET ((Players \cup {NoPlayer}) \X Generations)]
BY DEF Typed, TypeOK, SubscribersWithout, PeersWithout

\* The viewers in D lose their subscriptions, and nobody gains one.
Departs(D) ==
  /\ D \subseteq Players
  /\ conn' \in [Players -> Connection]
  /\ \A q \in Players \ D : conn'[q] = conn[q]
  /\ \A q \in D :
       /\ Sound(q, conn'[q])
       /\ conn'[q].sub = NoStreamer
       /\ conn'[q].hasSub = conn[q].hasSub /\ conn'[q].gen = conn[q].gen
       /\ q \in Registered' =>
            /\ conn'[q].policy = conn[q].policy
            /\ conn'[q].sock \in Connected
            /\ conn'[q].sock = "open" => conn[q].sock = "open"
  /\ subscribers' = SubscribersWithout(D)
  /\ peers' = PeersWithout(D)
  /\ Registered' \subseteq Registered /\ Registered \ D \subseteq Registered'

\* Whoever leaves by request departs alone.
LEMMA LeavesDeparts ==
  ASSUME Typed, NEW p \in Players, NEW c, LeavesForm(p, c)
  PROVE  Departs({p}) /\ UNCHANGED <<registry, online>>
<1>1. /\ Kept(p, c) /\ c.sub = NoStreamer /\ c \in Connection
      /\ conn' = [conn EXCEPT ![p] = c]
      /\ subscribers' = SubscribersWithout({p}) /\ peers' = PeersWithout({p})
      /\ UNCHANGED <<registry, online>>
  BY DEF LeavesForm, Leave, Kept, Sound
<1>2. conn \in [Players -> Connection]
  BY DEF Typed, TypeOK
<1>3. Registered' = Registered
  BY <1>1 DEF Registered
<1>4. conn'[p] = c /\ \A q \in Players \ {p} : conn'[q] = conn[q]
  BY <1>1, <1>2
<1>5. conn' \in [Players -> Connection]
  BY <1>1, <1>2
<1>6. QED BY <1>1, <1>3, <1>4, <1>5 DEF Departs, Kept

\* A disconnection of many.
LEMMA DisconnectAllFacts ==
  ASSUME Typed, NEW D \in SUBSET Players, NEW p, DisconnectAll(D, p),
         \A q \in D : Live(q), p \in Players => p \in D
  PROVE  /\ conn' \in [Players -> Connection]
         /\ \A q \in Players \ D : conn'[q] = conn[q]
         /\ \A q \in D :
              /\ Sound(q, conn'[q])
              /\ conn'[q].sub = NoStreamer
              /\ conn'[q].hasSub = conn[q].hasSub /\ conn'[q].gen = conn[q].gen
              /\ q # p => conn'[q].policy = conn[q].policy /\ conn'[q].sock = "closing"
<1>1. \A q \in Players :
        conn'[q] = IF q = p THEN Closed(conn[q])
                   ELSE IF q \in D THEN Disconnected(conn[q]) ELSE conn[q]
  BY DEF DisconnectAll
<1>2. ASSUME NEW q \in D
      PROVE  /\ conn'[q] \in Connection /\ Sound(q, conn'[q])
             /\ conn'[q].sub = NoStreamer
             /\ conn'[q].hasSub = conn[q].hasSub /\ conn'[q].gen = conn[q].gen
             /\ q # p => conn'[q].policy = conn[q].policy /\ conn'[q].sock = "closing"
  <2>1. /\ Sound(q, conn[q]) /\ conn[q] \in Connection
        /\ conn[q].sock \in {"open", "closing"}
    BY TypedFacts DEF Live
  <2>2. Sound(q, Disconnected(conn[q])) /\ Sound(q, Closed(conn[q]))
    BY <2>1, LeavingSound
  <2>3. CASE q = p
    <3>1. conn'[q] = Closed(conn[q])
      BY <1>1, <2>3
    <3>2. /\ Closed(conn[q]).sub = NoStreamer
          /\ Closed(conn[q]).hasSub = conn[q].hasSub
          /\ Closed(conn[q]).gen = conn[q].gen
      BY DEF Closed, Idle
    <3>3. QED BY <2>2, <2>3, <3>1, <3>2 DEF Sound
  <2>4. CASE q # p
    <3>1. conn'[q] = Disconnected(conn[q])
      BY <1>1, <2>4
    <3>2. /\ Disconnected(conn[q]).sub = NoStreamer
          /\ Disconnected(conn[q]).policy = conn[q].policy
          /\ Disconnected(conn[q]).sock = "closing"
          /\ Disconnected(conn[q]).hasSub = conn[q].hasSub
          /\ Disconnected(conn[q]).gen = conn[q].gen
      BY <2>1 DEF Disconnected, Unsubscribed, Connection
    <3>3. QED BY <2>2, <3>1, <3>2 DEF Sound
  <2>5. QED BY <2>3, <2>4
<1>3. \A q \in Players \ D : conn'[q] = conn[q]
  BY <1>1
<1>4. conn' \in [Players -> Connection]
  <2>1. \A q \in Players : conn'[q] \in Connection
    BY <1>2, <1>3, TypedFacts
  <2>2. conn' = [q \in Players |-> conn'[q]]
    BY DEF DisconnectAll
  <2>3. QED BY <2>1, <2>2
<1>5. QED BY <1>2, <1>3, <1>4

\* Whoever has a subscription is connected.
LEMMA SubscribedIsLive ==
  ASSUME Typed, NEW q \in Players, conn[q].sub # NoStreamer
  PROVE  Live(q)
BY TypedFacts DEF Sound, Live

\* A closing transport takes its viewer, and the shadows it orphans.
LEMMA TransportCloseDeparts ==
  ASSUME Typed, NEW p \in Players, TransportClose(p)
  PROVE  LET D == {p} \cup (IF p \in Registered THEN OrphansOf(p) ELSE {})
         IN  /\ Departs(D)
             /\ Registered' = Registered \ {p}
             /\ registry' = Without(registry, p) /\ online' = online
             /\ \A q \in D \ {p} : conn'[q].sock = "closing"
<1> DEFINE D == {p} \cup (IF p \in Registered THEN OrphansOf(p) ELSE {})
<1>1. /\ DisconnectAll(D, p) /\ Live(p)
      /\ registry' = Without(registry, p) /\ online' = online
  BY DEF TransportClose
<1>2. registry \in Seq(Players) /\ \A i, j \in DOMAIN registry : registry[i] = registry[j] => i = j
  BY DEF Typed, TypeOK
<1>3. Registered \subseteq Players
  BY <1>2 DEF Registered, Elements
<1>4. Registered' = Registered \ {p}
  BY <1>1, <1>2, WithoutFacts DEF Registered
<1>5. D \in SUBSET Players /\ \A q \in D : Live(q)
  BY <1>1, <1>3, TypedFacts DEF OrphansOf
<1> HIDE DEF D
<1>6. p \in D
  BY DEF D
<1>7. /\ conn' \in [Players -> Connection]
      /\ \A q \in Players \ D : conn'[q] = conn[q]
      /\ \A q \in D :
           /\ Sound(q, conn'[q])
           /\ conn'[q].sub = NoStreamer
           /\ conn'[q].hasSub = conn[q].hasSub /\ conn'[q].gen = conn[q].gen
           /\ q # p => conn'[q].policy = conn[q].policy /\ conn'[q].sock = "closing"
  BY <1>1, <1>5, <1>6, DisconnectAllFacts
<1>8. subscribers' = SubscribersWithout(D) /\ peers' = PeersWithout(D)
  BY <1>1 DEF DisconnectAll
<1>9. Departs(D)
  BY <1>4, <1>5, <1>6, <1>7, <1>8 DEF Departs, Connected
<1>10. QED BY <1>1, <1>4, <1>7, <1>9 DEF D

\* A streamer that goes takes the subscriptions to it.
LEMMA StreamerCloseDeparts ==
  ASSUME Typed, NEW u \in Streamers, StreamerClose(u)
  PROVE  /\ Departs({p \in Players : conn[p].sub = u})
         /\ registry' = registry
         /\ online' = Without(online, u)
         /\ Online' = Online \ {u}
<1> DEFINE D == {p \in Players : conn[p].sub = u}
<1>1. /\ DisconnectAll(D, NoPlayer)
      /\ registry' = registry /\ online' = Without(online, u)
  BY DEF StreamerClose
<1>2. D \in SUBSET Players /\ \A q \in D : Live(q)
  BY SubscribedIsLive, PlayerAssumption
<1>3. subscribers' = SubscribersWithout(D) /\ peers' = PeersWithout(D)
  BY <1>1 DEF DisconnectAll
<1>4. Registered' = Registered
  BY <1>1 DEF Registered
<1>5. Online' = Online \ {u}
  BY <1>1, WithoutFacts DEF Online, Typed, TypeOK
<1> HIDE DEF D
<1>6. NoPlayer \notin Players
  BY PlayerAssumption
<1>7. /\ conn' \in [Players -> Connection]
      /\ \A q \in Players \ D : conn'[q] = conn[q]
      /\ \A q \in D :
           /\ Sound(q, conn'[q])
           /\ conn'[q].sub = NoStreamer
           /\ conn'[q].hasSub = conn[q].hasSub /\ conn'[q].gen = conn[q].gen
           /\ q # NoPlayer => conn'[q].policy = conn[q].policy /\ conn'[q].sock = "closing"
  BY <1>1, <1>2, <1>6, DisconnectAllFacts
<1>8. Departs(D)
  BY <1>2, <1>3, <1>4, <1>6, <1>7 DEF Departs, Connected
<1>9. QED BY <1>1, <1>5, <1>8 DEF D

\* A departure keeps the types.
LEMMA DepartsTyped ==
  ASSUME Typed, NEW D, Departs(D),
         registry' \in Seq(Players),
         \A i, j \in DOMAIN registry' : registry'[i] = registry'[j] => i = j,
         online' \in Seq(Streamers),
         \A i, j \in DOMAIN online' : online'[i] = online'[j] => i = j
  PROVE  Typed'
<1>1. \A q \in Players : Sound(q, conn'[q])
  BY TypedFacts DEF Departs
<1>2. \A q \in Registered' : q \in Registered /\ q \in Players
  <2>1. Registered \subseteq Players
    BY DEF Typed, TypeOK, Registered, Elements
  <2>2. QED BY <2>1 DEF Departs
<1>3. \A q \in Registered' : conn'[q].sock \in Connected /\ conn'[q].policy = conn[q].policy
  BY <1>2, TypedFacts DEF Departs, Live, Connected
<1>4. \A q \in Registered' \ Unmanaged : conn'[q].policy # NoPolicy
  BY <1>2, <1>3 DEF Typed, Governed
<1>5. TypeOK'
  BY <1>3, WithoutTyped DEF Departs, TypeOK, Live, Connected
<1>6. QED BY <1>1, <1>4, <1>5 DEF Typed, Governed

\* Nothing of the registries changes when a connection does.
LEMMA BecomesTyped ==
  ASSUME Typed, NEW p \in Players, NEW c, BecomesForm(p, c)
  PROVE  Typed'
<1>1. /\ Kept(p, c) /\ c \in Connection
      /\ conn' = [conn EXCEPT ![p] = c]
      /\ UNCHANGED <<registry, online, subscribers, peers>>
  BY DEF BecomesForm, Become, Kept, Sound
<1>2. conn \in [Players -> Connection]
  BY DEF Typed, TypeOK
<1>3. Registered' = Registered /\ Registered \subseteq Players
  BY <1>1 DEF Typed, TypeOK, Registered, Elements
<1>4. conn' \in [Players -> Connection]
      /\ conn'[p] = c /\ \A q \in Players \ {p} : conn'[q] = conn[q]
  BY <1>1, <1>2
<1>5. \A q \in Players : Sound(q, conn'[q])
  BY <1>1, <1>4, TypedFacts DEF Kept
<1>6. \A q \in Registered : conn'[q].sock \in Connected /\ conn'[q].policy = conn[q].policy
  BY <1>1, <1>3, <1>4, TypedFacts DEF Kept, Live, Connected
<1>7. TypeOK'
  BY <1>1, <1>3, <1>4, <1>6 DEF Typed, TypeOK, Live, Connected
<1>8. QED BY <1>3, <1>5, <1>6, <1>7 DEF Typed, Governed

\* A viewer that registers was not registered, and has the policy of its ticket.
LEMMA RegistersFacts ==
  ASSUME Typed, NEW p \in Players, NEW c, RegistersForm(p, c)
  PROVE  /\ Typed'
         /\ p \notin Registered /\ Registered' = Registered \cup {p}
         /\ conn[p].sub = NoStreamer
         /\ conn'[p] = c /\ \A q \in Players \ {p} : conn'[q] = conn[q]
         /\ UNCHANGED <<online, subscribers, peers>>
<1>1. /\ Sound(p, c) /\ c \in Connection /\ c.sock = "open"
      /\ p \notin Unmanaged => c.policy # NoPolicy
      /\ conn' = [conn EXCEPT ![p] = c]
      /\ registry' = Append(registry, p)
      /\ UNCHANGED <<online, subscribers, peers>>
      /\ conn[p].sock = "none" /\ conn[p].sub = NoStreamer
  BY DEF RegistersForm, Register, Sound, Idle
<1>2. conn \in [Players -> Connection] /\ registry \in Seq(Players)
      /\ \A i, j \in DOMAIN registry : registry[i] = registry[j] => i = j
  BY DEF Typed, TypeOK
<1>3. p \notin Registered
  BY <1>1, TypedFacts
<1>4. /\ registry' \in Seq(Players)
      /\ Registered' = Registered \cup {p}
      /\ \A i, j \in DOMAIN registry' : registry'[i] = registry'[j] => i = j
  BY <1>1, <1>2, <1>3, AppendFacts DEF Registered
<1>5. conn' \in [Players -> Connection]
      /\ conn'[p] = c /\ \A q \in Players \ {p} : conn'[q] = conn[q]
  BY <1>1, <1>2
<1>6. \A q \in Players : Sound(q, conn'[q])
  BY <1>1, <1>5, TypedFacts
<1>7. Registered \subseteq Players
  BY <1>2 DEF Registered, Elements
<1>8. \A q \in Registered' : conn'[q].sock \in Connected
  BY <1>1, <1>3, <1>4, <1>5, <1>7, TypedFacts DEF Live, Connected
<1>9. \A q \in Registered' \ Unmanaged : conn'[q].policy # NoPolicy
  BY <1>1, <1>3, <1>4, <1>5, <1>7 DEF Typed, Governed
<1>10. TypeOK'
  BY <1>1, <1>4, <1>5, <1>8 DEF Typed, TypeOK, Live, Connected
<1>11. Typed'
  BY <1>6, <1>9, <1>10 DEF Typed, Governed
<1>12. QED BY <1>1, <1>3, <1>4, <1>5, <1>11

\* The connection of a viewer that joins, after its old subscription.
Rejoined(c) == IF c.sub = NoStreamer THEN c ELSE Unsubscribed(c)

LEMMA JoinsFacts ==
  ASSUME Typed, NEW p \in Players, NEW u \in Streamers, NEW c, JoinsForm(p, u, c)
  PROVE  /\ Typed'
         /\ Registered' = Registered
         /\ UNCHANGED <<registry, online>>
         /\ \A q \in Players \ {p} : conn'[q] = conn[q]
         /\ conn'[p] \in Connection
         /\ conn'[p].sub = u /\ conn'[p].policy = conn[p].policy
         /\ conn'[p].codec = conn[p].codec /\ conn'[p].sock = conn[p].sock
         /\ conn'[p].policy = NoPolicy =>
              conn'[p].hasSub = conn[p].hasSub /\ conn'[p].gen = conn[p].gen
         /\ conn'[p].policy # NoPolicy =>
              /\ conn'[p].hasSub
              /\ conn'[p].gen = IF conn[p].hasSub THEN conn[p].gen + 1 ELSE 0
         /\ subscribers' = [SubscribersWithout({p}) EXCEPT ![u] = @ \cup {Id(p)}]
         /\ peers' = [PeersWithout({p}) EXCEPT ![u] = @ \cup {PeerOf(p, conn'[p])}]
<1> DEFINE d == Rejoined(c)
           joined == Joined(Rejoined(c), u)
<1>1. /\ Kept(p, c) /\ Sound(p, c) /\ c \in Connection
      /\ c.policy = conn[p].policy /\ c.codec = conn[p].codec /\ c.sock = conn[p].sock
      /\ c.sock \in Connected /\ c.gen < MaxGeneration
      /\ c.hasSub = conn[p].hasSub /\ c.gen = conn[p].gen
      /\ Join(p, u, c)
  BY DEF JoinsForm, Kept, Sound
<1>2. /\ Sound(p, d) /\ d \in Connection
      /\ d.policy = c.policy /\ d.codec = c.codec /\ d.sock = c.sock
      /\ d.gen = c.gen /\ d.hasSub = c.hasSub
  <2>1. CASE c.sub = NoStreamer
    BY <1>1, <2>1 DEF Rejoined
  <2>2. CASE c.sub # NoStreamer
    <3>1. d = Unsubscribed(c)
      BY <2>2 DEF Rejoined
    <3>2. Sound(p, Unsubscribed(c))
      BY <1>1, LeavingSound DEF Connected
    <3>3. /\ Unsubscribed(c).policy = c.policy /\ Unsubscribed(c).codec = c.codec
          /\ Unsubscribed(c).sock = c.sock /\ Unsubscribed(c).gen = c.gen
          /\ Unsubscribed(c).hasSub = c.hasSub
      BY <1>1 DEF Unsubscribed, Connection
    <3>4. QED BY <3>1, <3>2, <3>3 DEF Sound
  <2>3. QED BY <2>1, <2>2
<1>3. /\ conn' = [conn EXCEPT ![p] = joined]
      /\ subscribers' = [SubscribersWithout({p}) EXCEPT ![u] = @ \cup {Id(p)}]
      /\ peers' = [PeersWithout({p}) EXCEPT ![u] = @ \cup {PeerOf(p, joined)}]
      /\ UNCHANGED <<registry, online>>
  BY <1>1 DEF Join, Rejoined
<1>4. ~d.hasSub => d.gen = 0
  BY <1>2 DEF Sound
<1>5. /\ d.policy = NoPolicy => joined.hasSub = d.hasSub /\ joined.gen = d.gen
      /\ d.policy # NoPolicy =>
           joined.hasSub /\ joined.gen = IF d.hasSub THEN d.gen + 1 ELSE 0
  <2> HIDE DEF d
  <2> SUFFICES /\ d.policy = NoPolicy =>
                    Joined(d, u).hasSub = d.hasSub /\ Joined(d, u).gen = d.gen
               /\ d.policy # NoPolicy =>
                    /\ Joined(d, u).hasSub
                    /\ Joined(d, u).gen = IF d.hasSub THEN d.gen + 1 ELSE 0
    BY DEF d
  <2>1. CASE d.policy = NoPolicy
    BY <1>2, <2>1 DEF Joined, Connection
  <2>2. CASE d.policy # NoPolicy /\ d.hasSub
    BY <1>2, <2>2 DEF Joined, Restarted, Connection
  <2>3. CASE d.policy # NoPolicy /\ ~d.hasSub
    BY <1>2, <1>4, <2>3 DEF Joined, Restarted, Connection
  <2>4. QED BY <2>1, <2>2, <2>3
<1>6. /\ Sound(p, joined) /\ joined.sub = u /\ joined.policy = d.policy
      /\ joined.codec = d.codec /\ joined.sock = d.sock
  <2> HIDE DEF d
  <2>1. /\ Sound(p, Joined(d, u)) /\ Joined(d, u).sub = u
        /\ Joined(d, u).policy = d.policy /\ Joined(d, u).codec = d.codec
        /\ Joined(d, u).sock = d.sock
    BY <1>1, <1>2, JoinedSound DEF Connected
  <2>2. QED BY <2>1 DEF d
<1> HIDE DEF d, joined
<1>7. joined \in Connection
  BY <1>6 DEF Sound
<1>8. conn \in [Players -> Connection]
  BY DEF Typed, TypeOK
<1>9. conn' \in [Players -> Connection]
      /\ conn'[p] = joined /\ \A q \in Players \ {p} : conn'[q] = conn[q]
  BY <1>3, <1>7, <1>8
<1>10. \A q \in Players : Sound(q, conn'[q])
  BY <1>6, <1>9, TypedFacts
<1>11. Registered' = Registered /\ Registered \subseteq Players
  BY <1>3 DEF Typed, TypeOK, Registered, Elements
<1>12. \A q \in Registered : conn'[q].sock \in Connected /\ conn'[q].policy = conn[q].policy
  BY <1>1, <1>2, <1>6, <1>9, <1>11, TypedFacts DEF Live, Connected
<1>13. /\ subscribers' \in [Streamers -> SUBSET (Players \cup {NoPlayer})]
       /\ peers' \in [Streamers -> SUBSET ((Players \cup {NoPlayer}) \X Generations)]
  BY <1>3, <1>7, PeerFacts, WithoutTyped
<1>14. TypeOK'
  BY <1>3, <1>9, <1>11, <1>12, <1>13 DEF Typed, TypeOK, Live, Connected
<1>15. Typed'
  BY <1>10, <1>11, <1>12, <1>14 DEF Typed, Governed
<1>16. QED BY <1>1, <1>2, <1>3, <1>5, <1>6, <1>7, <1>9, <1>11, <1>15

\* A streamer that registers.
LEMMA StreamerConnectFacts ==
  ASSUME Typed, NEW u \in Streamers, StreamerConnect(u)
  PROVE  Typed' /\ Registered' = Registered /\ Online' = Online \cup {u}
<1>1. /\ u \notin Online /\ online' = Append(online, u)
      /\ UNCHANGED <<conn, registry, subscribers, peers>>
  BY DEF StreamerConnect
<1>2. /\ online' \in Seq(Streamers)
      /\ Online' = Online \cup {u}
      /\ \A i, j \in DOMAIN online' : online'[i] = online'[j] => i = j
  BY <1>1, AppendFacts DEF Online, Typed, TypeOK
<1>3. Registered' = Registered
  BY <1>1 DEF Registered
<1>4. TypeOK'
  BY <1>1, <1>2, <1>3 DEF Typed, TypeOK, Live
<1>5. QED BY <1>1, <1>2, <1>3, <1>4 DEF Typed, Governed

\* What is true of the types at first.
LEMMA InitTyped == ASSUME Init PROVE Typed
<1>1. registry = <<>> /\ online = <<>> /\ conn = [p \in Players |-> Idle]
      /\ subscribers = [u \in Streamers |-> {}] /\ peers = [u \in Streamers |-> {}]
  BY DEF Init
<1>2. Registered = {} /\ registry \in Seq(Players) /\ DOMAIN registry = {}
      /\ online \in Seq(Streamers) /\ DOMAIN online = {}
  BY <1>1 DEF Registered, Elements
<1>3. \A p \in Players : Sound(p, conn[p])
  BY <1>1, IdleSound
<1>4. conn \in [Players -> Connection]
  BY <1>1, IdleSound DEF Sound
<1>5. QED BY <1>1, <1>2, <1>3, <1>4 DEF Typed, TypeOK

\* No step breaks the types.
LEMMA NextTyped ==
  ASSUME Typed, [Next]_vars
  PROVE  Typed'
<1>1. CASE UNCHANGED vars
  <2>1. UNCHANGED <<conn, registry, online, subscribers, peers>>
    BY <1>1 DEF vars
  <2>2. Registered' = Registered
    BY <2>1 DEF Registered
  <2>3. TypeOK'
    BY <2>1, <2>2 DEF Typed, TypeOK, Live
  <2>4. QED BY <2>1, <2>2, <2>3 DEF Typed, Governed
<1>2. ASSUME NEW p \in Players, TransportClose(p) PROVE Typed'
  <2> DEFINE D == {p} \cup (IF p \in Registered THEN OrphansOf(p) ELSE {})
  <2>1. Departs(D) /\ registry' = Without(registry, p) /\ online' = online
    BY <1>2, TransportCloseDeparts
  <2>2. /\ registry' \in Seq(Players)
        /\ \A i, j \in DOMAIN registry' : registry'[i] = registry'[j] => i = j
    BY <2>1, WithoutFacts DEF Typed, TypeOK
  <2>3. online' \in Seq(Streamers)
        /\ \A i, j \in DOMAIN online' : online'[i] = online'[j] => i = j
    BY <2>1 DEF Typed, TypeOK
  <2> HIDE DEF D
  <2>4. QED BY <2>1, <2>2, <2>3, DepartsTyped
<1>3. ASSUME NEW p \in Players, NEW c, LeavesForm(p, c) PROVE Typed'
  <2>1. Departs({p}) /\ UNCHANGED <<registry, online>>
    BY <1>3, LeavesDeparts
  <2>2. /\ registry' \in Seq(Players)
        /\ \A i, j \in DOMAIN registry' : registry'[i] = registry'[j] => i = j
        /\ online' \in Seq(Streamers)
        /\ \A i, j \in DOMAIN online' : online'[i] = online'[j] => i = j
    BY <2>1 DEF Typed, TypeOK
  <2>3. QED BY <2>1, <2>2, DepartsTyped
<1>4. ASSUME NEW u \in Streamers, StreamerClose(u) PROVE Typed'
  <2>1. /\ Departs({p \in Players : conn[p].sub = u})
        /\ registry' = registry /\ online' = Without(online, u)
    BY <1>4, StreamerCloseDeparts
  <2>2. /\ online' \in Seq(Streamers)
        /\ \A i, j \in DOMAIN online' : online'[i] = online'[j] => i = j
    BY <2>1, WithoutFacts DEF Typed, TypeOK
  <2>3. registry' \in Seq(Players)
        /\ \A i, j \in DOMAIN registry' : registry'[i] = registry'[j] => i = j
    BY <2>1 DEF Typed, TypeOK
  <2>4. QED BY <2>1, <2>2, <2>3, DepartsTyped
<1>5. ASSUME NEW p \in Players, ViewerForm(p) PROVE Typed'
  BY <1>3, <1>5, BecomesTyped, RegistersFacts, JoinsFacts DEF ViewerForm
<1>6. QED BY <1>1, <1>2, <1>4, <1>5, StepForm, StreamerConnectFacts

\* Every variable has its type in every reachable state, and the registries hold
\* each player and each streamer once.
THEOREM TypeCorrect == Spec => []TypeOK
<1>1. Init => Typed
  BY InitTyped
<1>2. Typed /\ [Next]_vars => Typed'
  BY NextTyped
<1>3. Typed => TypeOK
  BY DEF Typed
<1>4. QED BY <1>1, <1>2, <1>3, PTL DEF Spec

-----------------------------------------------------------------------------
(* Negotiation.                                                            *)

\* What is agreed on is of the current generation in every reachable state, and a
\* governed viewer that waits for its stream has a deadline.
THEOREM NegotiationIsCurrent == Spec => [](DealIsCurrent /\ PendingHasDeadline)
<1>1. Typed => DealIsCurrent /\ PendingHasDeadline
  BY DEF Typed, Sound, DealIsCurrent, PendingHasDeadline, Governed
<1>2. Init => Typed
  BY InitTyped
<1>3. Typed /\ [Next]_vars => Typed'
  BY NextTyped
<1>4. QED BY <1>1, <1>2, <1>3, PTL DEF Spec

-----------------------------------------------------------------------------
(* H264 viewers are alone.                                                 *)

\* Whoever departs shares no streamer.
LEMMA DepartsAlone ==
  ASSUME Typed, H264ViewersAreAlone, NEW D, Departs(D)
  PROVE  H264ViewersAreAlone'
<1>1. \A p \in Registered' : p \in Registered /\ p \in Players
  <2>1. Registered \subseteq Players
    BY DEF Typed, TypeOK, Registered, Elements
  <2>2. QED BY <2>1 DEF Departs
<1>2. \A p \in Registered' : conn'[p].sub # NoStreamer => conn'[p] = conn[p]
  BY <1>1 DEF Departs
<1>3. QED BY <1>1, <1>2 DEF H264ViewersAreAlone, Governed

\* No form of a viewer's step puts an H264 viewer beside another.
LEMMA ViewerAlone ==
  ASSUME Typed, H264ViewersAreAlone, NEW p \in Players, ViewerForm(p)
  PROVE  H264ViewersAreAlone'
<1>1. ASSUME NEW c, BecomesForm(p, c) PROVE H264ViewersAreAlone'
  <2>1. /\ conn' = [conn EXCEPT ![p] = c] /\ registry' = registry /\ Stays(p, c)
        /\ Registered' = Registered
    BY <1>1 DEF BecomesForm, Become, Registered
  <2>2. conn'[p] = c /\ \A q \in Players \ {p} : conn'[q] = conn[q]
    BY <2>1 DEF Typed, TypeOK
  <2>3. Registered \subseteq Players
    BY DEF Typed, TypeOK, Registered, Elements
  <2>4. \A q \in Registered' : conn'[q].sub # NoStreamer =>
          /\ conn'[q].sub = conn[q].sub /\ conn'[q].policy = conn[q].policy
          /\ conn'[q].codec = conn[q].codec
    BY <2>1, <2>2, <2>3 DEF Stays
  <2>5. QED BY <2>1, <2>4 DEF H264ViewersAreAlone, Governed
<1>2. ASSUME NEW c, LeavesForm(p, c) PROVE H264ViewersAreAlone'
  BY <1>2, LeavesDeparts, DepartsAlone
<1>3. ASSUME NEW c, RegistersForm(p, c) PROVE H264ViewersAreAlone'
  <2>1. /\ Registered' = Registered \cup {p}
        /\ conn'[p].sub = NoStreamer /\ \A q \in Players \ {p} : conn'[q] = conn[q]
    BY <1>3, RegistersFacts DEF RegistersForm
  <2>2. Registered \subseteq Players
    BY DEF Typed, TypeOK, Registered, Elements
  <2>3. \A q \in Registered' : conn'[q].sub # NoStreamer =>
          q \in Registered /\ conn'[q] = conn[q]
    BY <2>1, <2>2
  <2>4. QED BY <2>3 DEF H264ViewersAreAlone, Governed
<1>4. ASSUME NEW c, NEW u \in Streamers, JoinsForm(p, u, c)
      PROVE  H264ViewersAreAlone'
  <2>1. /\ Registered' = Registered
        /\ conn'[p].sub = u /\ conn'[p].policy = conn[p].policy
        /\ conn'[p].codec = conn[p].codec
        /\ \A q \in Players \ {p} : conn'[q] = conn[q]
    BY <1>4, JoinsFacts
  <2>2. ~Exclusive(p, u)
    BY <1>4 DEF JoinsForm
  <2>3. Registered \subseteq Players
    BY DEF Typed, TypeOK, Registered, Elements
  <2>4. ASSUME NEW q \in Registered \ {p}, conn[p].policy # NoPolicy, conn[q].sub = u
        PROVE  conn[p].codec # "H264" /\ conn[q].codec # "H264"
    BY <2>2, <2>4 DEF Exclusive, Governed
  <2>5. ASSUME NEW a \in Registered, NEW b \in Registered, a # b,
               conn'[a].policy # NoPolicy, conn'[b].policy # NoPolicy,
               conn'[a].sub # NoStreamer, conn'[a].sub = conn'[b].sub
        PROVE  conn'[a].codec # "H264" /\ conn'[b].codec # "H264"
    <3>1. CASE a = p
      BY <2>1, <2>3, <2>4, <2>5, <3>1
    <3>2. CASE b = p
      BY <2>1, <2>3, <2>4, <2>5, <3>2
    <3>3. CASE a # p /\ b # p
      BY <2>1, <2>3, <2>5, <3>3 DEF H264ViewersAreAlone, Governed
    <3>4. QED BY <3>1, <3>2, <3>3
  <2>6. QED BY <2>1, <2>5 DEF H264ViewersAreAlone, Governed
<1>5. QED BY <1>1, <1>2, <1>3, <1>4 DEF ViewerForm

\* In no reachable state do two governed viewers share a streamer while one of
\* them plays H264.
THEOREM H264Alone == Spec => []H264ViewersAreAlone
<1>1. Init => Typed /\ H264ViewersAreAlone
  BY InitTyped DEF Init, H264ViewersAreAlone, Registered, Elements
<1>2. ASSUME Typed, H264ViewersAreAlone, [Next]_vars
      PROVE  H264ViewersAreAlone'
  <2>1. CASE UNCHANGED vars
    BY <1>2, <2>1 DEF vars, H264ViewersAreAlone, Registered, Governed
  <2>2. ASSUME NEW p \in Players, TransportClose(p) PROVE H264ViewersAreAlone'
    BY <1>2, <2>2, TransportCloseDeparts, DepartsAlone
  <2>3. ASSUME NEW u \in Streamers, StreamerClose(u) PROVE H264ViewersAreAlone'
    BY <1>2, <2>3, StreamerCloseDeparts, DepartsAlone
  <2>4. ASSUME NEW u \in Streamers, StreamerConnect(u) PROVE H264ViewersAreAlone'
    BY <1>2, <2>4 DEF StreamerConnect, H264ViewersAreAlone, Registered, Governed
  <2>5. QED BY <1>2, <2>1, <2>2, <2>3, <2>4, StepForm, ViewerAlone
<1>3. Typed /\ H264ViewersAreAlone /\ [Next]_vars => Typed' /\ H264ViewersAreAlone'
  BY <1>2, NextTyped
<1>4. QED BY <1>1, <1>3, PTL DEF Spec

-----------------------------------------------------------------------------
(* Shadows have owners.                                                    *)

\* The owners of a policy that are registered.
OwnersOf(k) == {q \in Registered \cap Owners : conn[q].policy = k}

\* A registered connection keeps its policy in a departure.
LEMMA DepartsPolicies ==
  ASSUME Typed, NEW D, Departs(D), NEW p \in Registered'
  PROVE  /\ p \in Registered /\ p \in Players
         /\ conn'[p].policy = conn[p].policy
         /\ conn'[p].sock = "open" => conn[p].sock = "open"
         /\ conn'[p].sub # NoStreamer => conn'[p] = conn[p] /\ p \notin D
<1>1. Registered \subseteq Players
  BY DEF Typed, TypeOK, Registered, Elements
<1>2. QED BY <1>1 DEF Departs

\* A departure of no registered owner orphans nobody.
LEMMA DepartsOwned ==
  ASSUME Typed, NoOrphanedShadow, NEW D, Departs(D), Registered' = Registered
  PROVE  NoOrphanedShadow'
<1>1. \A p \in Registered' :
        /\ p \in Registered /\ conn'[p].policy = conn[p].policy
        /\ conn'[p].sock = "open" => conn[p].sock = "open"
        /\ conn'[p].sub # NoStreamer => conn[p].sub # NoStreamer
  BY DepartsPolicies
<1>2. QED BY <1>1 DEF NoOrphanedShadow, IsShadow, Governed

\* A transport that closes takes the shadows with it that it orphans.
LEMMA TransportCloseOwned ==
  ASSUME Typed, NoOrphanedShadow, NEW p \in Players, TransportClose(p)
  PROVE  NoOrphanedShadow'
<1> DEFINE D == {p} \cup (IF p \in Registered THEN OrphansOf(p) ELSE {})
<1>1. /\ Departs(D) /\ Registered' = Registered \ {p}
      /\ \A q \in D \ {p} : conn'[q].sock = "closing"
  BY TransportCloseDeparts
<1>2. \A q \in Registered' :
        /\ q \in Registered /\ q \in Players /\ conn'[q].policy = conn[q].policy
        /\ conn'[q].sock = "open" => conn[q].sock = "open"
        /\ conn'[q].sub # NoStreamer => conn[q].sub # NoStreamer /\ q \notin D
  BY <1>1, DepartsPolicies
<1>3. SUFFICES ASSUME NEW q \in Registered', IsShadow(q)',
                      conn'[q].sock = "open" \/ conn'[q].sub # NoStreamer
               PROVE  \E r \in Registered' \cap Owners : conn'[r].policy = conn'[q].policy
  BY DEF NoOrphanedShadow
<1>4. q \in Registered /\ q # p /\ IsShadow(q) /\ conn'[q].policy = conn[q].policy
  BY <1>1, <1>2, <1>3 DEF IsShadow, Governed
<1>5. CASE p \notin Registered
  <2>1. Registered' = Registered
    BY <1>1, <1>5
  <2>2. QED BY <1>1, <1>3, <2>1, DepartsOwned DEF NoOrphanedShadow
<1>6. CASE p \in Registered
  <2>1. q \notin D
    BY <1>1, <1>2, <1>3, <1>4
  <2>2. q \notin OrphansOf(p)
    BY <1>6, <2>1
  <2>3. PICK r \in Registered \ {p} : Watchable(conn[q].policy, r)
    BY <1>4, <2>2 DEF OrphansOf
  <2>4. r \in Registered' /\ r \in Owners /\ conn[r].policy = conn[q].policy
    BY <1>1, <2>3 DEF Watchable
  <2>5. conn'[r].policy = conn'[q].policy
    BY <1>2, <1>4, <2>4
  <2>6. QED BY <2>4, <2>5
<1>7. QED BY <1>5, <1>6

\* A shadow registers, and subscribes, only where there is an owner.
LEMMA ViewerOwned ==
  ASSUME Typed, NoOrphanedShadow, NEW p \in Players, ViewerForm(p)
  PROVE  NoOrphanedShadow'
<1>1. Registered \subseteq Players
  BY DEF Typed, TypeOK, Registered, Elements
<1>2. ASSUME NEW c, BecomesForm(p, c) PROVE NoOrphanedShadow'
  <2>1. /\ conn' = [conn EXCEPT ![p] = c] /\ registry' = registry
        /\ Kept(p, c) /\ Stays(p, c) /\ Registered' = Registered
    BY <1>2 DEF BecomesForm, Become, Registered
  <2>2. conn'[p] = c /\ \A q \in Players \ {p} : conn'[q] = conn[q]
    BY <2>1 DEF Typed, TypeOK
  <2>3. \A q \in Registered :
          /\ conn'[q].policy = conn[q].policy
          /\ conn'[q].sock = "open" => conn[q].sock = "open"
          /\ conn'[q].sub = conn[q].sub
    BY <1>1, <2>1, <2>2 DEF Kept, Stays
  <2>4. QED BY <2>1, <2>3 DEF NoOrphanedShadow, IsShadow, Governed
<1>3. ASSUME NEW c, LeavesForm(p, c) PROVE NoOrphanedShadow'
  <2>1. Departs({p}) /\ registry' = registry
    BY <1>3, LeavesDeparts
  <2>2. Registered' = Registered
    BY <2>1 DEF Registered
  <2>3. QED BY <2>1, <2>2, DepartsOwned
<1>4. ASSUME NEW c, RegistersForm(p, c) PROVE NoOrphanedShadow'
  <2>1. /\ p \notin Registered /\ Registered' = Registered \cup {p}
        /\ conn'[p] = c /\ \A q \in Players \ {p} : conn'[q] = conn[q]
        /\ p \in Shadows => \E q \in Registered \cap Owners : conn[q].policy = c.policy
    BY <1>4, RegistersFacts DEF RegistersForm
  <2>2. \A q \in Registered : q # p /\ conn'[q] = conn[q]
    BY <1>1, <2>1
  <2>3. QED BY <2>1, <2>2 DEF NoOrphanedShadow, IsShadow, Governed
<1>5. ASSUME NEW c, NEW u \in Streamers, JoinsForm(p, u, c) PROVE NoOrphanedShadow'
  <2>1. /\ Registered' = Registered
        /\ conn'[p].policy = conn[p].policy
        /\ \A q \in Players \ {p} : conn'[q] = conn[q]
    BY <1>5, JoinsFacts
  <2>2. ~Mismatched(p, u) /\ u \in Online
    BY <1>5 DEF JoinsForm
  <2>3. ASSUME IsShadow(p)
        PROVE  \E q \in Registered \cap Owners : conn[q].policy = conn[p].policy
    <3>1. Source(conn[p].policy) # NoPlayer
      BY <2>2, <2>3 DEF Mismatched
    <3>2. registry \in Seq(Players)
      BY DEF Typed, TypeOK
    <3>3. /\ Source(conn[p].policy) \in Registered
          /\ Watchable(conn[p].policy, Source(conn[p].policy))
      BY <3>1, <3>2, SourceFacts
    <3>4. QED BY <3>3 DEF Watchable
  <2>4. \A q \in Registered : conn'[q].policy = conn[q].policy
    BY <1>1, <2>1
  <2>5. \A q \in Registered \ {p} : conn'[q] = conn[q]
    BY <1>1, <2>1
  <2>6. ASSUME NEW q \in Registered, IsShadow(q),
               q # p => conn[q].sock = "open" \/ conn[q].sub # NoStreamer
        PROVE  \E r \in Registered \cap Owners : conn'[r].policy = conn'[q].policy
    BY <2>3, <2>4, <2>6 DEF NoOrphanedShadow
  <2>7. QED BY <2>1, <2>4, <2>5, <2>6 DEF NoOrphanedShadow, IsShadow, Governed
<1>6. QED BY <1>2, <1>3, <1>4, <1>5 DEF ViewerForm

\* In every reachable state a registered shadow that is connected or subscribed
\* has a registered owner of its policy.
THEOREM ShadowsOwned == Spec => []NoOrphanedShadow
<1>1. Init => Typed /\ NoOrphanedShadow
  BY InitTyped DEF Init, NoOrphanedShadow, Registered, Elements
<1>2. ASSUME Typed, NoOrphanedShadow, [Next]_vars
      PROVE  NoOrphanedShadow'
  <2>1. CASE UNCHANGED vars
    BY <1>2, <2>1 DEF vars, NoOrphanedShadow, Registered, IsShadow, Governed
  <2>2. ASSUME NEW u \in Streamers, StreamerClose(u) PROVE NoOrphanedShadow'
    <3>1. Departs({p \in Players : conn[p].sub = u}) /\ registry' = registry
      BY <1>2, <2>2, StreamerCloseDeparts
    <3>2. Registered' = Registered
      BY <3>1 DEF Registered
    <3>3. QED BY <1>2, <3>1, <3>2, DepartsOwned
  <2>3. ASSUME NEW u \in Streamers, StreamerConnect(u) PROVE NoOrphanedShadow'
    BY <1>2, <2>3 DEF StreamerConnect, NoOrphanedShadow, Registered, IsShadow, Governed
  <2>4. QED
    BY <1>2, <2>1, <2>2, <2>3, StepForm, ViewerOwned, TransportCloseOwned
<1>3. Typed /\ NoOrphanedShadow /\ [Next]_vars => Typed' /\ NoOrphanedShadow'
  BY <1>2, NextTyped
<1>4. QED BY <1>1, <1>3, PTL DEF Spec

-----------------------------------------------------------------------------
(* The registries agree.                                                   *)

\* The registered viewers of a streamer, and the agreement of its subscriber set
\* with them.
ViewersOf(u) == {p \in Registered : conn[p].sub = u}

Counted(u) ==
  /\ IsFiniteSet(subscribers[u])
  /\ subscribers[u] \ {NoPlayer} = ViewersOf(u)
  /\ ViewersOf(u) # {} => u \in Online
  /\ MaxSubscribers > 0 => Cardinality(ViewersOf(u)) <= MaxSubscribers

AllCounted == \A u \in Streamers : Counted(u)

LEMMA CountedFacts == AllCounted => SubscriptionsAreCounted
BY DEF AllCounted, Counted, ViewersOf, SubscriptionsAreCounted

\* Fewer viewers are not too many.
LEMMA FewerViewers ==
  ASSUME NEW S, IsFiniteSet(S), NEW V \in SUBSET S,
         MaxSubscribers > 0 => Cardinality(S) <= MaxSubscribers
  PROVE  MaxSubscribers > 0 => Cardinality(V) <= MaxSubscribers
<1>1. IsFiniteSet(V) /\ Cardinality(V) <= Cardinality(S)
  BY FS_Subset
<1>2. Cardinality(V) \in Nat /\ Cardinality(S) \in Nat /\ MaxSubscribers \in Nat
  BY <1>1, FS_CardinalityType, BoundAssumption
<1>3. QED BY <1>1, <1>2

\* Viewers that depart leave the subscriber sets.
LEMMA DepartsCounted ==
  ASSUME Typed, NEW D, Departs(D), NEW u \in Streamers, Counted(u),
         ViewersOf(u)' # {} => u \in Online'
  PROVE  Counted(u)'
<1>1. Registered \subseteq Players /\ NoPlayer \notin Players
  BY PlayerAssumption DEF Typed, TypeOK, Registered, Elements
<1>2. ViewersOf(u)' = ViewersOf(u) \ D
  <2>1. u # NoStreamer
    BY PlayerAssumption
  <2>2. ASSUME NEW p \in ViewersOf(u)' PROVE p \in ViewersOf(u) \ D
    <3>1. p \in Registered' /\ conn'[p].sub = u
      BY DEF ViewersOf
    <3>2. p \in Registered /\ conn'[p] = conn[p] /\ p \notin D
      BY <2>1, <3>1, DepartsPolicies
    <3>3. QED BY <3>1, <3>2 DEF ViewersOf
  <2>3. ASSUME NEW p \in ViewersOf(u) \ D PROVE p \in ViewersOf(u)'
    <3>1. p \in Registered' /\ conn'[p] = conn[p]
      BY <1>1 DEF ViewersOf, Departs
    <3>2. QED BY <3>1 DEF ViewersOf
  <2>4. QED BY <2>2, <2>3
<1>3. subscribers'[u] = subscribers[u] \ {Id(p) : p \in {q \in D : conn[q].sub = u}}
  BY DEF Departs, SubscribersWithout
<1>4. subscribers'[u] \ {NoPlayer} = ViewersOf(u)'
  <2>1. ASSUME NEW x \in subscribers'[u] \ {NoPlayer} PROVE x \in ViewersOf(u) \ D
    <3>1. x \in ViewersOf(u)
      BY <1>3 DEF Counted
    <3>2. x \in Registered /\ conn[x].sub = u /\ Id(x) = x
      BY <3>1 DEF ViewersOf, Id
    <3>3. x \notin D
      BY <1>3, <3>2
    <3>4. QED BY <3>1, <3>3
  <2>2. ASSUME NEW x \in ViewersOf(u) \ D PROVE x \in subscribers'[u] \ {NoPlayer}
    <3>1. x \in subscribers[u] \ {NoPlayer}
      BY DEF Counted
    <3>2. ASSUME NEW q \in D PROVE Id(q) # x
      BY <3>1 DEF Id
    <3>3. QED BY <1>3, <3>1, <3>2
  <2>3. QED BY <1>2, <2>1, <2>2
<1>5. IsFiniteSet(subscribers'[u])
  <2>1. subscribers'[u] \subseteq subscribers[u]
    BY <1>3
  <2>2. QED BY <2>1, FS_Subset DEF Counted
<1>6. MaxSubscribers > 0 => Cardinality(ViewersOf(u)') <= MaxSubscribers
  <2>1. IsFiniteSet(ViewersOf(u))
    <3>1. ViewersOf(u) \subseteq subscribers[u]
      BY DEF Counted
    <3>2. QED BY <3>1, FS_Subset DEF Counted
  <2>2. QED BY <1>2, <2>1, FewerViewers DEF Counted
<1>7. QED BY <1>4, <1>5, <1>6 DEF Counted

\* A viewer that joins is counted, where there was a place.
LEMMA JoinsCounted ==
  ASSUME Typed, AllCounted, NEW p \in Players, NEW u \in Streamers, NEW c,
         JoinsForm(p, u, c)
  PROVE  AllCounted'
<1>1. Registered \subseteq Players /\ NoPlayer \notin Players
  BY PlayerAssumption DEF Typed, TypeOK, Registered, Elements
<1>2. /\ Registered' = Registered /\ online' = online
      /\ conn'[p].sub = u
      /\ \A q \in Players \ {p} : conn'[q] = conn[q]
      /\ subscribers' = [SubscribersWithout({p}) EXCEPT ![u] = @ \cup {Id(p)}]
  BY JoinsFacts
<1>3. Online' = Online /\ u \in Online /\ ~Full(p, u)
  BY <1>2 DEF JoinsForm, Online
<1> SUFFICES ASSUME NEW v \in Streamers PROVE Counted(v)'
  BY DEF AllCounted
<1> DEFINE left == SubscribersWithout({p})[v]
<1>4. left = IF conn[p].sub = v THEN subscribers[v] \ {Id(p)} ELSE subscribers[v]
  BY DEF SubscribersWithout
<1>5. subscribers'[v] = IF v = u THEN left \cup {Id(p)} ELSE left
  BY <1>2 DEF SubscribersWithout
<1>6. ViewersOf(v)' = IF v = u THEN ViewersOf(v) \cup ({p} \cap Registered)
                      ELSE ViewersOf(v) \ {p}
  BY <1>1, <1>2 DEF ViewersOf
<1>7. Counted(v)
  BY DEF AllCounted
<1>8. ASSUME NEW x PROVE x \in ViewersOf(v) <=> x \in subscribers[v] \ {NoPlayer}
  BY <1>7 DEF Counted
<1>9. p \in ViewersOf(v) <=> p \in Registered /\ conn[p].sub = v
  BY DEF ViewersOf
<1>10. Id(p) = IF p \in Registered THEN p ELSE NoPlayer
  BY DEF Id
<1> HIDE DEF left
<1>11. subscribers'[v] \ {NoPlayer} = ViewersOf(v)'
  <2>1. CASE v = u
    <3>1. subscribers'[v] \ {NoPlayer} =
            (subscribers[v] \ {NoPlayer}) \cup ({p} \cap Registered)
      BY <1>1, <1>4, <1>5, <1>10, <2>1
    <3>2. QED BY <1>6, <1>7, <2>1, <3>1 DEF Counted
  <2>2. CASE v # u
    <3>1. subscribers'[v] \ {NoPlayer} = (subscribers[v] \ {NoPlayer}) \ {p}
      <4>1. CASE conn[p].sub = v
        <5>1. p \notin Registered => p \notin subscribers[v]
          BY <1>1, <1>8, <1>9
        <5>2. QED BY <1>1, <1>4, <1>5, <1>10, <2>2, <4>1, <5>1
      <4>2. CASE conn[p].sub # v
        <5>1. p \notin subscribers[v]
          BY <1>1, <1>8, <1>9, <4>2
        <5>2. QED BY <1>4, <1>5, <2>2, <4>2, <5>1
      <4>3. QED BY <4>1, <4>2
    <3>2. QED BY <1>6, <1>7, <2>2, <3>1 DEF Counted
  <2>3. QED BY <2>1, <2>2
<1>12. IsFiniteSet(subscribers'[v])
  <2>1. IsFiniteSet(left)
    <3>1. left \subseteq subscribers[v]
      BY <1>4
    <3>2. QED BY <1>7, <3>1, FS_Subset DEF Counted
  <2>2. IsFiniteSet(left \cup {Id(p)})
    BY <2>1, FS_AddElement
  <2>3. QED BY <1>5, <2>1, <2>2
<1>13. MaxSubscribers > 0 => Cardinality(ViewersOf(v)') <= MaxSubscribers
  <2>1. CASE v = u
    <3>1. IsFiniteSet(left)
      <4>1. left \subseteq subscribers[v]
        BY <1>4
      <4>2. QED BY <1>7, <4>1, FS_Subset DEF Counted
    <3>2. MaxSubscribers > 0 => Cardinality(left) + 1 <= MaxSubscribers
      <4>1. MaxSubscribers > 0 => ~(Cardinality(left) >= MaxSubscribers)
        BY <1>3, <2>1 DEF Full, left
      <4>2. Cardinality(left) \in Nat /\ MaxSubscribers \in Nat
        BY <3>1, FS_CardinalityType, BoundAssumption
      <4>3. QED BY <4>1, <4>2
    <3>3. Cardinality(left \cup {Id(p)}) \in {Cardinality(left), Cardinality(left) + 1}
      BY <3>1, FS_AddElement
    <3>4. MaxSubscribers > 0 => Cardinality(subscribers'[v]) <= MaxSubscribers
      <4>1. Cardinality(left) \in Nat /\ MaxSubscribers \in Nat
        BY <3>1, FS_CardinalityType, BoundAssumption
      <4>2. QED BY <1>5, <2>1, <3>2, <3>3, <4>1
    <3>5. ViewersOf(v)' \subseteq subscribers'[v]
      BY <1>11
    <3>6. QED BY <1>12, <3>4, <3>5, FewerViewers
  <2>2. CASE v # u
    <3>1. ViewersOf(v)' \subseteq ViewersOf(v)
      BY <1>6, <2>2
    <3>2. ViewersOf(v) \subseteq subscribers[v]
      BY <1>7 DEF Counted
    <3>3. IsFiniteSet(ViewersOf(v))
      BY <1>7, <3>2, FS_Subset DEF Counted
    <3>4. QED BY <1>7, <3>1, <3>3, FewerViewers DEF Counted
  <2>3. QED BY <2>1, <2>2
<1>14. ViewersOf(v)' # {} => v \in Online'
  BY <1>3, <1>6, <1>7 DEF Counted
<1>15. QED BY <1>11, <1>12, <1>13, <1>14 DEF Counted

\* The other steps of a viewer change no count.
LEMMA ViewerCounted ==
  ASSUME Typed, AllCounted, NEW p \in Players, ViewerForm(p)
  PROVE  AllCounted'
<1>1. Registered \subseteq Players
  BY DEF Typed, TypeOK, Registered, Elements
<1>2. ASSUME NEW c, BecomesForm(p, c) PROVE AllCounted'
  <2>1. /\ conn' = [conn EXCEPT ![p] = c] /\ c.sub = conn[p].sub
        /\ UNCHANGED <<registry, online, subscribers>>
    BY <1>2 DEF BecomesForm, Become, Stays
  <2>2. \A q \in Players : conn'[q].sub = conn[q].sub
    BY <2>1 DEF Typed, TypeOK
  <2>3. Registered' = Registered /\ Online' = Online
    BY <2>1 DEF Registered, Online
  <2>4. \A u \in Streamers : ViewersOf(u)' = ViewersOf(u)
    BY <1>1, <2>2, <2>3 DEF ViewersOf
  <2>5. QED BY <2>1, <2>3, <2>4 DEF AllCounted, Counted
<1>3. ASSUME NEW c, LeavesForm(p, c) PROVE AllCounted'
  <2>1. Departs({p}) /\ UNCHANGED <<registry, online>>
    BY <1>3, LeavesDeparts
  <2>2. Online' = Online
    BY <2>1 DEF Online
  <2>3. ASSUME NEW u \in Streamers, ViewersOf(u)' # {} PROVE u \in Online'
    <3>1. PICK q \in Registered' : conn'[q].sub = u
      BY <2>3 DEF ViewersOf
    <3>2. u # NoStreamer
      BY PlayerAssumption
    <3>3. q \in Registered /\ conn'[q] = conn[q]
      BY <2>1, <3>1, <3>2, DepartsPolicies
    <3>4. QED BY <2>2, <3>1, <3>3 DEF AllCounted, Counted, ViewersOf
  <2>4. QED BY <2>1, <2>3, DepartsCounted DEF AllCounted
<1>4. ASSUME NEW c, RegistersForm(p, c) PROVE AllCounted'
  <2>1. /\ Registered' = Registered \cup {p} /\ p \notin Registered
        /\ conn'[p].sub = NoStreamer /\ \A q \in Players \ {p} : conn'[q] = conn[q]
        /\ UNCHANGED <<online, subscribers>>
    BY <1>4, RegistersFacts DEF RegistersForm
  <2>2. Online' = Online
    BY <2>1 DEF Online
  <2>3. \A u \in Streamers : ViewersOf(u)' = ViewersOf(u)
    BY <1>1, <2>1, PlayerAssumption DEF ViewersOf
  <2>4. QED BY <2>1, <2>2, <2>3 DEF AllCounted, Counted
<1>5. QED BY <1>2, <1>3, <1>4, JoinsCounted DEF ViewerForm

\* In every reachable state a streamer's subscriber set names the registered
\* viewers subscribed to it, it is registered if it has any, and it has no more
\* than it may.
THEOREM SubscriptionsCounted == Spec => []SubscriptionsAreCounted
<1>1. Init => Typed /\ AllCounted
  <2> SUFFICES ASSUME Init PROVE AllCounted
    BY InitTyped
  <2>1. registry = <<>> /\ \A u \in Streamers : subscribers[u] = {}
    BY DEF Init
  <2>2. Registered = {}
    BY <2>1 DEF Registered, Elements
  <2>3. \A u \in Streamers : ViewersOf(u) = {}
    BY <2>2 DEF ViewersOf
  <2>4. IsFiniteSet({}) /\ Cardinality({}) = 0
    BY FS_EmptySet
  <2>5. ASSUME NEW u \in Streamers PROVE Counted(u)
    <3>1. subscribers[u] \ {NoPlayer} = {} /\ ViewersOf(u) = {}
      BY <2>1, <2>3
    <3>2. Cardinality(ViewersOf(u)) <= MaxSubscribers
      BY <3>1, <2>4, BoundAssumption
    <3>3. subscribers[u] = {}
      BY <2>1
    <3>4. IsFiniteSet(subscribers[u])
      BY <3>3, <2>4
    <3>5. QED BY <3>1, <3>2, <3>4 DEF Counted
  <2>6. QED BY <2>3, <2>5 DEF AllCounted
<1>2. ASSUME Typed, AllCounted, [Next]_vars
      PROVE  AllCounted'
  <2>1. CASE UNCHANGED vars
    BY <1>2, <2>1 DEF vars, AllCounted, Counted, ViewersOf, Registered, Online
  <2>2. ASSUME NEW p \in Players, TransportClose(p) PROVE AllCounted'
    <3> DEFINE D == {p} \cup (IF p \in Registered THEN OrphansOf(p) ELSE {})
    <3>1. Departs(D) /\ online' = online
      BY <1>2, <2>2, TransportCloseDeparts
    <3>2. Online' = Online
      BY <3>1 DEF Online
    <3> HIDE DEF D
    <3>3. ASSUME NEW u \in Streamers, ViewersOf(u)' # {} PROVE u \in Online'
      <4>1. PICK q \in Registered' : conn'[q].sub = u
        BY <3>3 DEF ViewersOf
      <4>2. u # NoStreamer
        BY PlayerAssumption
      <4>3. q \in Registered /\ conn'[q] = conn[q]
        BY <1>2, <3>1, <4>1, <4>2, DepartsPolicies
      <4>4. QED BY <1>2, <3>2, <4>1, <4>3 DEF AllCounted, Counted, ViewersOf
    <3>4. QED BY <1>2, <3>1, <3>3, DepartsCounted DEF AllCounted
  <2>3. ASSUME NEW v \in Streamers, StreamerClose(v) PROVE AllCounted'
    <3>1. Departs({p \in Players : conn[p].sub = v}) /\ Online' = Online \ {v}
      BY <1>2, <2>3, StreamerCloseDeparts
    <3>2. ASSUME NEW u \in Streamers, ViewersOf(u)' # {} PROVE u \in Online'
      <4>1. PICK q \in Registered' : conn'[q].sub = u
        BY <3>2 DEF ViewersOf
      <4>2. u # NoStreamer
        BY PlayerAssumption
      <4>3. /\ q \in Registered /\ q \in Players /\ conn'[q] = conn[q]
            /\ q \notin {p \in Players : conn[p].sub = v}
        BY <1>2, <3>1, <4>1, <4>2, DepartsPolicies
      <4>4. u \in Online /\ u # v
        BY <1>2, <4>1, <4>3 DEF AllCounted, Counted, ViewersOf
      <4>5. QED BY <3>1, <4>4
    <3>3. QED BY <1>2, <3>1, <3>2, DepartsCounted DEF AllCounted
  <2>4. ASSUME NEW v \in Streamers, StreamerConnect(v) PROVE AllCounted'
    <3>1. /\ UNCHANGED <<conn, subscribers>>
          /\ Registered' = Registered /\ Online' = Online \cup {v}
      BY <1>2, <2>4, StreamerConnectFacts DEF StreamerConnect
    <3>2. QED BY <1>2, <3>1 DEF AllCounted, Counted, ViewersOf
  <2>5. QED
    BY <1>2, <2>1, <2>2, <2>3, <2>4, StepForm, ViewerCounted
<1>3. Typed /\ AllCounted /\ [Next]_vars => Typed' /\ AllCounted'
  BY <1>2, NextTyped
<1>4. QED BY <1>1, <1>3, CountedFacts, PTL DEF Spec

-----------------------------------------------------------------------------
(* Unreal's peers.                                                         *)

\* A peer names its viewer, if that is registered, and nobody else's peer does.
LEMMA PeerNames ==
  ASSUME Typed, NEW p \in Players, NEW c
  PROVE  /\ PeerOf(p, c)[1] \in {p, NoPlayer}
         /\ p \in Registered => PeerOf(p, c)[1] = p
BY DEF PeerOf, Id

\* The peers of viewers that depart leave, and no other.
LEMMA DepartsPeers ==
  ASSUME Typed, PeersAreSubscriptions, NEW D, Departs(D)
  PROVE  PeersAreSubscriptions'
<1>1. Registered \subseteq Players /\ NoPlayer \notin Players
  BY PlayerAssumption DEF Typed, TypeOK, Registered, Elements
<1>2. /\ D \subseteq Players /\ Registered' \subseteq Registered
      /\ Registered \ D \subseteq Registered'
      /\ \A q \in Players \ D : conn'[q] = conn[q]
      /\ \A q \in D : conn'[q].sub = NoStreamer
      /\ peers' = PeersWithout(D)
  BY DEF Departs
<1>3. \A q \in Players \ D : Peer(q)' = Peer(q)
  <2>1. \A q \in Players \ D : Id(q)' = Id(q)
    BY <1>2 DEF Id
  <2>2. QED BY <1>2, <2>1 DEF Peer, PeerOf
<1> SUFFICES ASSUME NEW u \in Streamers
             PROVE  /\ peers'[u] \subseteq
                         {Peer(p)' : p \in {q \in Players : conn'[q].sub = u}}
                    /\ \A p \in Registered' : conn'[p].sub = u => Peer(p)' \in peers'[u]
  BY DEF PeersAreSubscriptions
<1>4. peers'[u] = peers[u] \ {Peer(p) : p \in {q \in D : conn[q].sub = u}}
  BY <1>2 DEF PeersWithout
<1>5. u # NoStreamer
  BY PlayerAssumption
<1>6. ASSUME NEW x \in peers'[u]
      PROVE  x \in {Peer(p)' : p \in {q \in Players : conn'[q].sub = u}}
  <2>1. PICK p \in Players : conn[p].sub = u /\ x = Peer(p)
    BY <1>4 DEF PeersAreSubscriptions
  <2>2. p \notin D
    BY <1>4, <2>1
  <2>3. QED BY <1>2, <1>3, <2>1, <2>2
<1>7. ASSUME NEW p \in Registered', conn'[p].sub = u
      PROVE  Peer(p)' \in peers'[u]
  <2>1. p \in Registered /\ p \in Players /\ p \notin D
    BY <1>1, <1>2, <1>5, <1>7
  <2>2. Peer(p)' = Peer(p) /\ Peer(p) \in peers[u] /\ Peer(p)[1] = p
    BY <1>2, <1>3, <1>7, <2>1, PeerNames DEF PeersAreSubscriptions, Peer
  <2>3. ASSUME NEW r \in D PROVE Peer(r)[1] \in {r, NoPlayer}
    BY <1>2, PeerNames DEF Peer
  <2>4. QED BY <1>1, <1>4, <2>1, <2>2, <2>3
<1>8. QED BY <1>6, <1>7

\* A viewer that joins has a peer of its own, and its old one is gone.
LEMMA JoinsPeers ==
  ASSUME Typed, PeersAreSubscriptions, NEW p \in Players, NEW u \in Streamers, NEW c,
         JoinsForm(p, u, c)
  PROVE  PeersAreSubscriptions'
<1>1. Registered \subseteq Players /\ NoPlayer \notin Players
  BY PlayerAssumption DEF Typed, TypeOK, Registered, Elements
<1>2. /\ Registered' = Registered
      /\ \A q \in Players \ {p} : conn'[q] = conn[q]
      /\ conn'[p].sub = u
      /\ peers' = [PeersWithout({p}) EXCEPT ![u] = @ \cup {PeerOf(p, conn'[p])}]
  BY JoinsFacts
<1>3. \A q \in Players : Id(q)' = Id(q)
  BY <1>2 DEF Id
<1>4. /\ \A q \in Players \ {p} : Peer(q)' = Peer(q)
      /\ Peer(p)' = PeerOf(p, conn'[p])
  BY <1>2, <1>3 DEF Peer, PeerOf
<1> SUFFICES ASSUME NEW v \in Streamers
             PROVE  /\ peers'[v] \subseteq
                         {Peer(q)' : q \in {r \in Players : conn'[r].sub = v}}
                    /\ \A q \in Registered' : conn'[q].sub = v => Peer(q)' \in peers'[v]
  BY DEF PeersAreSubscriptions
<1> DEFINE left == peers[v] \ {Peer(q) : q \in {r \in {p} : conn[r].sub = v}}
<1>5. peers'[v] = IF v = u THEN left \cup {Peer(p)'} ELSE left
  BY <1>2, <1>4 DEF PeersWithout
<1>6. ASSUME NEW x \in peers'[v]
      PROVE  x \in {Peer(q)' : q \in {r \in Players : conn'[r].sub = v}}
  <2>1. CASE x \in left
    <3>1. PICK q \in Players : conn[q].sub = v /\ x = Peer(q)
      BY <2>1 DEF PeersAreSubscriptions
    <3>2. q # p
      BY <2>1, <3>1
    <3>3. QED BY <1>2, <1>4, <3>1, <3>2
  <2>2. CASE v = u /\ x = Peer(p)'
    BY <1>2, <2>2
  <2>3. QED BY <1>5, <2>1, <2>2
<1>7. ASSUME NEW q \in Registered', conn'[q].sub = v
      PROVE  Peer(q)' \in peers'[v]
  <2>1. CASE q = p
    BY <1>2, <1>5, <1>7, <2>1
  <2>2. CASE q # p
    <3>1. q \in Registered /\ q \in Players /\ conn[q].sub = v
      BY <1>1, <1>2, <1>7, <2>2
    <3>2. Peer(q)' = Peer(q) /\ Peer(q) \in peers[v] /\ Peer(q)[1] = q
      BY <1>4, <2>2, <3>1, PeerNames DEF PeersAreSubscriptions, Peer
    <3>3. Peer(p)[1] \in {p, NoPlayer}
      BY PeerNames DEF Peer
    <3>4. Peer(q) \in left
      BY <1>1, <2>2, <3>1, <3>2, <3>3
    <3>5. QED BY <1>5, <3>2, <3>4
  <2>3. QED BY <2>1, <2>2
<1>8. QED BY <1>6, <1>7

\* No form of a viewer's step leaves a peer behind or a viewer without one.
LEMMA ViewerPeers ==
  ASSUME Typed, PeersAreSubscriptions, NEW p \in Players, ViewerForm(p)
  PROVE  PeersAreSubscriptions'
<1>1. Registered \subseteq Players
  BY DEF Typed, TypeOK, Registered, Elements
<1>2. ASSUME NEW c, BecomesForm(p, c) PROVE PeersAreSubscriptions'
  <2>1. /\ conn' = [conn EXCEPT ![p] = c] /\ c.sub = conn[p].sub
        /\ c.gen = conn[p].gen
        /\ c.sub # NoStreamer => c.policy = conn[p].policy
        /\ UNCHANGED <<registry, peers>>
    BY <1>2 DEF BecomesForm, Become, Stays, Kept
  <2>2. \A q \in Players :
          /\ conn'[q].sub = conn[q].sub /\ conn'[q].gen = conn[q].gen
          /\ conn[q].sub # NoStreamer => conn'[q].policy = conn[q].policy
    BY <2>1 DEF Typed, TypeOK
  <2>3. Registered' = Registered
    BY <2>1 DEF Registered
  <2>4. \A q \in Players : conn[q].sub # NoStreamer => Peer(q)' = Peer(q)
    BY <2>2, <2>3 DEF Peer, PeerOf, Id
  <2>5. \A u \in Streamers : u # NoStreamer
    BY PlayerAssumption
  <2>6. QED BY <1>1, <2>1, <2>2, <2>3, <2>4, <2>5 DEF PeersAreSubscriptions
<1>3. ASSUME NEW c, LeavesForm(p, c) PROVE PeersAreSubscriptions'
  BY <1>3, LeavesDeparts, DepartsPeers
<1>4. ASSUME NEW c, RegistersForm(p, c) PROVE PeersAreSubscriptions'
  <2>1. /\ Registered' = Registered \cup {p} /\ p \notin Registered
        /\ conn[p].sub = NoStreamer /\ conn'[p].sub = NoStreamer
        /\ \A q \in Players \ {p} : conn'[q] = conn[q]
        /\ UNCHANGED peers
    BY <1>4, RegistersFacts DEF RegistersForm
  <2>2. \A q \in Players \ {p} : Peer(q)' = Peer(q)
    BY <2>1 DEF Peer, PeerOf, Id
  <2>3. \A u \in Streamers : u # NoStreamer
    BY PlayerAssumption
  <2>4. QED BY <1>1, <2>1, <2>2, <2>3 DEF PeersAreSubscriptions
<1>5. QED BY <1>2, <1>3, <1>4, JoinsPeers DEF ViewerForm

\* In every reachable state Unreal has the peers of the subscriptions there are,
\* all those of registered viewers and no other.
THEOREM PeersSubscribed == Spec => []PeersAreSubscriptions
<1>1. Init => Typed /\ PeersAreSubscriptions
  <2> SUFFICES ASSUME Init PROVE PeersAreSubscriptions
    BY InitTyped
  <2>1. registry = <<>> /\ \A u \in Streamers : peers[u] = {}
    BY DEF Init
  <2>2. Registered = {}
    BY <2>1 DEF Registered, Elements
  <2>3. QED BY <2>1, <2>2 DEF PeersAreSubscriptions
<1>2. ASSUME Typed, PeersAreSubscriptions, [Next]_vars
      PROVE  PeersAreSubscriptions'
  <2>1. CASE UNCHANGED vars
    <3>1. UNCHANGED <<conn, registry, peers>>
      BY <2>1 DEF vars
    <3>2. Registered' = Registered
      BY <3>1 DEF Registered
    <3>3. \A q \in Players : Peer(q)' = Peer(q)
      BY <3>1, <3>2 DEF Peer, PeerOf, Id
    <3>4. Registered \subseteq Players
      BY <1>2 DEF Typed, TypeOK, Registered, Elements
    <3>5. QED BY <1>2, <3>1, <3>2, <3>3, <3>4 DEF PeersAreSubscriptions
  <2>2. ASSUME NEW p \in Players, TransportClose(p) PROVE PeersAreSubscriptions'
    <3> DEFINE D == {p} \cup (IF p \in Registered THEN OrphansOf(p) ELSE {})
    <3>1. Departs(D)
      BY <1>2, <2>2, TransportCloseDeparts
    <3> HIDE DEF D
    <3>2. QED BY <1>2, <3>1, DepartsPeers
  <2>3. ASSUME NEW v \in Streamers, StreamerClose(v) PROVE PeersAreSubscriptions'
    BY <1>2, <2>3, StreamerCloseDeparts, DepartsPeers
  <2>4. ASSUME NEW v \in Streamers, StreamerConnect(v) PROVE PeersAreSubscriptions'
    <3>1. UNCHANGED <<conn, peers>> /\ Registered' = Registered
      BY <1>2, <2>4, StreamerConnectFacts DEF StreamerConnect
    <3>2. \A q \in Players : Peer(q)' = Peer(q)
      BY <3>1 DEF Peer, PeerOf, Id
    <3>3. Registered \subseteq Players
      BY <1>2 DEF Typed, TypeOK, Registered, Elements
    <3>4. QED BY <1>2, <3>1, <3>2, <3>3 DEF PeersAreSubscriptions
  <2>5. QED BY <1>2, <2>1, <2>2, <2>3, <2>4, StepForm, ViewerPeers
<1>3. Typed /\ PeersAreSubscriptions /\ [Next]_vars => Typed' /\ PeersAreSubscriptions'
  BY <1>2, NextTyped
<1>4. QED BY <1>1, <1>3, PTL DEF Spec

\* In every reachable state the registries agree with one another and with Unreal.
THEOREM RegistriesHold == Spec => []RegistriesAgree
BY SubscriptionsCounted, PeersSubscribed, PTL DEF RegistriesAgree

-----------------------------------------------------------------------------
(* The server implements UnrealPeers.                                      *)

\* A step that uses no new peer, and gives no streamer a governed one, is one in
\* which peers leave.
LEMMA LeavesUnreal ==
  ASSUME \A p \in Governable : conn'[p].hasSub = conn[p].hasSub /\ conn'[p].gen = conn[p].gen,
         \A u \in Streamers : GovernedPeers'[u] \subseteq GovernedPeers[u]
  PROVE  Unreal!Next
<1>1. UsedPeers' = UsedPeers
  <2>1. \A x \in Governable \X Generations :
          (x \in UsedPeers') <=> (x \in UsedPeers)
    BY DEF UsedPeers
  <2>2. QED BY <2>1 DEF UsedPeers
<1>2. GovernedPeers' \in [Streamers -> SUBSET (Governable \X Generations)]
  BY DEF GovernedPeers
<1>3. QED BY <1>1, <1>2 DEF Unreal!Next, Unreal!Leave

\* Viewers that depart take their peers along.
LEMMA DepartsUnreal ==
  ASSUME Typed, NEW D, Departs(D)
  PROVE  Unreal!Next
<1>1. /\ \A q \in Players \ D : conn'[q] = conn[q]
      /\ \A q \in D : conn'[q].hasSub = conn[q].hasSub /\ conn'[q].gen = conn[q].gen
      /\ peers' = PeersWithout(D)
  BY DEF Departs
<1>2. \A u \in Streamers : peers'[u] \subseteq peers[u]
  BY <1>1 DEF PeersWithout
<1>3. \A u \in Streamers : GovernedPeers'[u] \subseteq GovernedPeers[u]
  BY <1>2 DEF GovernedPeers
<1>4. QED BY <1>1, <1>3, LeavesUnreal DEF Governable, Players

\* A governed viewer arrives as a peer that never was; an ungoverned one is not
\* counted among the governed.
LEMMA JoinsUnreal ==
  ASSUME Typed, NEW p \in Players, NEW u \in Streamers, NEW c, JoinsForm(p, u, c)
  PROVE  Unreal!Next
<1> DEFINE x == PeerOf(p, conn'[p])
<1>1. /\ \A q \in Players \ {p} : conn'[q] = conn[q]
      /\ conn'[p] \in Connection
      /\ conn'[p].policy = conn[p].policy
      /\ conn'[p].policy = NoPolicy =>
           conn'[p].hasSub = conn[p].hasSub /\ conn'[p].gen = conn[p].gen
      /\ conn'[p].policy # NoPolicy =>
           /\ conn'[p].hasSub
           /\ conn'[p].gen = IF conn[p].hasSub THEN conn[p].gen + 1 ELSE 0
      /\ peers' = [PeersWithout({p}) EXCEPT ![u] = @ \cup {x}]
  BY JoinsFacts
<1> HIDE DEF x
<1>2. /\ \A v \in Streamers \ {u} : peers'[v] \subseteq peers[v]
      /\ peers'[u] \subseteq peers[u] \cup {x} /\ x \in peers'[u]
  BY <1>1 DEF PeersWithout
<1>3. Sound(p, conn[p]) /\ conn[p] \in Connection
  BY TypedFacts
<1>4. CASE conn'[p].policy = NoPolicy
  <2>1. x \notin Governable \X Generations
    <3>1. x = <<Id(p), 0>>
      BY <1>4 DEF x, PeerOf
    <3>2. Id(p) \notin Governable
      BY <1>1, <1>4, PlayerAssumption DEF Id, Typed, Governed, Governable, Players
    <3>3. QED BY <3>1, <3>2
  <2>2. \A v \in Streamers : GovernedPeers'[v] \subseteq GovernedPeers[v]
    BY <1>2, <2>1 DEF GovernedPeers
  <2>3. QED BY <1>1, <1>4, <2>2, LeavesUnreal DEF Governable, Players
<1>5. CASE conn'[p].policy # NoPolicy
  <2>1. p \in Governable
    BY <1>1, <1>3, <1>5 DEF Sound, Governable, Players
  <2>2. x = <<p, conn'[p].gen>> /\ conn'[p].gen \in Generations
    BY <1>1, <1>5 DEF x, PeerOf, Connection
  <2>3. x \in Governable \X Generations
    BY <2>1, <2>2
  <2>4. conn[p].gen \in Nat /\ conn'[p].gen \in Nat
    BY <1>1, <1>3, BoundAssumption DEF Connection, Generations
  <2>5. x \notin UsedPeers
    <3>1. conn[p].hasSub => ~(conn'[p].gen <= conn[p].gen)
      BY <1>1, <1>5, <2>4
    <3>2. QED BY <2>2, <3>1 DEF UsedPeers
  <2>6. UsedPeers' = UsedPeers \cup {x}
    <3>1. ASSUME NEW g \in Generations
          PROVE  (conn'[p].hasSub /\ g <= conn'[p].gen) <=>
                   ((conn[p].hasSub /\ g <= conn[p].gen) \/ g = conn'[p].gen)
      <4>1. g \in Nat
        BY BoundAssumption DEF Generations
      <4>2. CASE conn[p].hasSub
        BY <1>1, <1>5, <2>4, <4>1, <4>2
      <4>3. CASE ~conn[p].hasSub
        BY <1>1, <1>5, <2>4, <4>1, <4>3
      <4>4. QED BY <4>2, <4>3
    <3>2. ASSUME NEW q \in Governable, NEW g \in Generations
          PROVE  (<<q, g>> \in UsedPeers') <=> (<<q, g>> \in UsedPeers \cup {x})
      <4>1. CASE q = p
        BY <2>2, <3>1, <4>1 DEF UsedPeers
      <4>2. CASE q # p
        <5>1. conn'[q] = conn[q]
          BY <1>1, <4>2 DEF Governable, Players
        <5>2. QED BY <2>2, <4>2, <5>1 DEF UsedPeers
      <4>3. QED BY <4>1, <4>2
    <3>3. /\ UsedPeers' \subseteq Governable \X Generations
          /\ UsedPeers \cup {x} \subseteq Governable \X Generations
      BY <2>3 DEF UsedPeers
    <3>4. \A y \in Governable \X Generations : y \in UsedPeers' <=> y \in UsedPeers \cup {x}
      BY <3>2
    <3>5. QED BY <3>3, <3>4
  <2>7. /\ GovernedPeers' \in [Streamers -> SUBSET (Governable \X Generations)]
        /\ GovernedPeers'[u] \subseteq GovernedPeers[u] \cup {x}
        /\ x \in GovernedPeers'[u]
        /\ \A v \in Streamers \ {u} : GovernedPeers'[v] \subseteq GovernedPeers[v]
    BY <1>2, <2>3 DEF GovernedPeers
  <2>8. QED BY <2>3, <2>5, <2>6, <2>7 DEF Unreal!Next, Unreal!Arrive
<1>6. QED BY <1>4, <1>5

\* A viewer's step is one of the runtimes' peers.
LEMMA ViewerUnreal ==
  ASSUME Typed, NEW p \in Players, ViewerForm(p)
  PROVE  Unreal!Next
<1>1. ASSUME NEW c, BecomesForm(p, c) PROVE Unreal!Next
  <2>1. /\ conn' = [conn EXCEPT ![p] = c] /\ peers' = peers
        /\ c.hasSub = conn[p].hasSub /\ c.gen = conn[p].gen
    BY <1>1 DEF BecomesForm, Become, Kept
  <2>2. \A q \in Players : conn'[q].hasSub = conn[q].hasSub /\ conn'[q].gen = conn[q].gen
    BY <2>1 DEF Typed, TypeOK
  <2>3. \A u \in Streamers : GovernedPeers'[u] \subseteq GovernedPeers[u]
    BY <2>1 DEF GovernedPeers
  <2>4. QED BY <2>2, <2>3, LeavesUnreal DEF Governable, Players
<1>2. ASSUME NEW c, LeavesForm(p, c) PROVE Unreal!Next
  BY <1>2, LeavesDeparts, DepartsUnreal
<1>3. ASSUME NEW c, RegistersForm(p, c) PROVE Unreal!Next
  <2>1. /\ conn[p] = Idle /\ ~c.hasSub /\ c.gen = 0 /\ c \in Connection
    BY <1>3 DEF RegistersForm, Sound
  <2>2. /\ conn'[p] = c /\ peers' = peers
        /\ \A q \in Players \ {p} : conn'[q] = conn[q]
    BY <1>3, RegistersFacts
  <2>3. conn'[p].hasSub = conn[p].hasSub /\ conn'[p].gen = conn[p].gen
    <3>1. c.hasSub = FALSE /\ conn[p].hasSub = FALSE /\ conn[p].gen = 0
      BY <2>1 DEF Idle, Connection
    <3>2. QED BY <2>1, <2>2, <3>1
  <2>4. \A q \in Players : conn'[q].hasSub = conn[q].hasSub /\ conn'[q].gen = conn[q].gen
    BY <2>2, <2>3
  <2>5. \A u \in Streamers : GovernedPeers'[u] \subseteq GovernedPeers[u]
    BY <2>2 DEF GovernedPeers
  <2>6. QED BY <2>4, <2>5, LeavesUnreal DEF Governable, Players
<1>4. QED BY <1>1, <1>2, <1>3, JoinsUnreal DEF ViewerForm

\* The server implements UnrealPeers, with the peers of governed viewers for the
\* peers and those of their generations so far for the ids that were used: no id
\* is ever used twice.
THEOREM PeersFresh == Spec => PeersAreFresh
<1>1. Init => Unreal!Init
  BY DEF Init, Unreal!Init, GovernedPeers, UsedPeers, Governable, Players, Idle
<1>2. ASSUME Typed, [Next]_vars
      PROVE  [Unreal!Next]_(Unreal!vars)
  <2>1. CASE UNCHANGED vars
    BY <2>1 DEF vars, Unreal!vars, GovernedPeers, UsedPeers
  <2>2. ASSUME NEW p \in Players, TransportClose(p) PROVE Unreal!Next
    <3> DEFINE D == {p} \cup (IF p \in Registered THEN OrphansOf(p) ELSE {})
    <3>1. Departs(D)
      BY <1>2, <2>2, TransportCloseDeparts
    <3> HIDE DEF D
    <3>2. QED BY <1>2, <3>1, DepartsUnreal
  <2>3. ASSUME NEW v \in Streamers, StreamerClose(v) PROVE Unreal!Next
    BY <1>2, <2>3, StreamerCloseDeparts, DepartsUnreal
  <2>4. ASSUME NEW v \in Streamers, StreamerConnect(v) PROVE UNCHANGED Unreal!vars
    BY <2>4 DEF StreamerConnect, Unreal!vars, GovernedPeers, UsedPeers
  <2>5. QED BY <1>2, <2>1, <2>2, <2>3, <2>4, StepForm, ViewerUnreal
<1>3. Init => Typed
  BY InitTyped
<1>4. Typed /\ [Next]_vars => Typed'
  BY NextTyped
<1>5. QED BY <1>1, <1>2, <1>3, <1>4, PTL DEF Spec, PeersAreFresh, Unreal!Spec

=============================================================================
