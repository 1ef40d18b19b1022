------------------------ MODULE ReconnectGraceProofs ------------------------
(***************************************************************************)
(* Theorems about the end of a managed session, for any customers' viewers *)
(* and any outcome of the calls a handler makes, over any restarts.        *)
(*                                                                         *)
(* A handler is an operator from the state record to the next, so that the *)
(* invariant is one of records: Sound, which every operator keeps, relates *)
(* the record to what it cannot see: players are the viewers of the        *)
(* customer that play, away says that none of them is in the registry, and *)
(* over that evidence of an elapsed deadline was recorded.                 *)
(***************************************************************************)
EXTENDS ReconnectGrace, TLAPS

\* A customer's window waits for its deadline.
Waits(x) == x.phase = "waiting" /\ x.window = "managed"

\* What ties the record to the viewers.  A customer's window, or a committed teardown,
\* leaves no player; whatever destroys the runtime or owes it a recycle was decided
\* under the lock or when all were away, and what is away stays so because the gate is
\* latched or the recovery is required.
Rules(x, players, away, over) ==
  /\ x.committed => ~x.ready
  /\ x.durable \/ x.secured \/ x.deferred \/ x.stopping \/ x.helper => x.gate = "latched"
  /\ x.phase = "persisting" => x.window = "managed"
  /\ x.window = "managed" => ManagedWindow(x) \/ x.committed
  /\ ManagedWindow(x) => ~x.ready
  /\ players \subseteq x.known
  /\ ManagedWindow(x) \/ x.committed => players = {}
  /\ x.stopping \/ x.helper \/ x.required \/ x.deferred \/ x.journal \/ over
       => Locked(x) \/ away
  /\ x.journal => Locked(x) \/ x.required
  /\ x.passive => x.committed \/ x.gate # "open"
  /\ x.recycle => Locked(x) \/ (away /\ x.gate # "open" /\ ~Waits(x))
  /\ over => x.journal \/ x.gate = "latched"

Sound(x, players, away, over) == x \in State /\ Rules(x, players, away, over)

\* The window of a customer that waits has the one timer that ends it.
Timed(x) ==
  Waits(x) => \/ x.zero = "managed" /\ x.grace = "none" /\ x.graceOf = "none"
              \/ x.zero = "none" /\ x.grace # "none" /\ x.graceOf = "managed"

\* A deadline that is being made durable has a retry.
Retried(x) == x.phase = "persisting" => x.resume # "none"

\* Of the viewers and the history the rules speak about.
Context(players, away, over) ==
  /\ players \subseteq Managed /\ away \in BOOLEAN /\ over \in BOOLEAN
  /\ away => players = {}
  /\ Nobody => away

-----------------------------------------------------------------------------
(* Windows and status.                                                     *)

\* The status is restored unless the deadline is locked.
LEMMA RestoredSound ==
  ASSUME NEW x, NEW players, NEW away, NEW over,
         Sound(x, players, away, over), ~Waits(x) \/ Locked(x)
  PROVE  Sound(Restored(x), players, away, over)
<1>1. Restored(x) \in State
  <2>1. [x EXCEPT !.ready = TRUE] \in State
    BY ZenonT(90) DEF Sound, State
  <2>2. QED BY <2>1 DEF Restored, Sound
<1>2. Rules(Restored(x), players, away, over)
  BY DEF Restored, Sound, Rules, State, Waits, Locked, ManagedWindow
<1>3. QED BY <1>1, <1>2 DEF Sound

LEMMA RestoredKeeps ==
  ASSUME NEW x \in State
  PROVE  (Timed(x) => Timed(Restored(x))) /\ (Retried(x) => Retried(Restored(x)))
BY DEF Restored, State, Timed, Waits, Retried, Locked

LEMMA PublishedSound ==
  ASSUME NEW x, NEW players, NEW away, NEW over, Sound(x, players, away, over)
  PROVE  /\ Sound(Published(x), players, away, over)
         /\ Timed(x) => Timed(Published(x))
         /\ Retried(x) => Retried(Published(x))
<1>1. Published(x) \in State
  BY ZenonT(90) DEF Published, Sound, State
<1>2. Rules(Published(x), players, away, over)
  BY DEF Published, Sound, Rules, State, Waits, Locked, ManagedWindow
<1>3. QED BY <1>1, <1>2 DEF Sound, Published, State, Timed, Waits, Retried

LEMMA WindowClearedSound ==
  ASSUME NEW x, NEW players, NEW away, NEW over, Sound(x, players, away, over)
  PROVE  /\ Sound(WindowCleared(x), players, away, over)
         /\ ~Waits(WindowCleared(x))
         /\ Retried(x) => Retried(WindowCleared(x))
<1>1. WindowCleared(x) \in State
  <2>1. [x EXCEPT !.phase = "inactive", !.window = "none", !.due = FALSE] \in State
    BY ZenonT(90) DEF Sound, State, Owners
  <2>2. QED BY <2>1 DEF WindowCleared, Sound
<1>2. Rules(WindowCleared(x), players, away, over)
  BY DEF WindowCleared, Sound, Rules, State, Waits, Locked, ManagedWindow
<1>3. QED BY <1>1, <1>2 DEF Sound, WindowCleared, State, Waits, Retried

\* A timer of a window that does not wait for a customer may be dropped.
LEMMA TimersDropped ==
  ASSUME NEW x, NEW players, NEW away, NEW over, Sound(x, players, away, over)
  PROVE  /\ Sound([x EXCEPT !.zero = "none", !.grace = "none", !.graceOf = "none",
                            !.first = FALSE], players, away, over)
         /\ Sound([x EXCEPT !.zero = "none", !.first = FALSE], players, away, over)
         /\ Sound([x EXCEPT !.grace = "none", !.graceOf = "none"], players, away, over)
         /\ Sound([x EXCEPT !.first = FALSE], players, away, over)
<1>1. /\ [x EXCEPT !.zero = "none", !.grace = "none", !.graceOf = "none",
                   !.first = FALSE] \in State
      /\ [x EXCEPT !.zero = "none", !.first = FALSE] \in State
      /\ [x EXCEPT !.grace = "none", !.graceOf = "none"] \in State
      /\ [x EXCEPT !.first = FALSE] \in State
  <2>1. [x EXCEPT !.zero = "none", !.grace = "none", !.graceOf = "none",
                  !.first = FALSE] \in State
    BY ZenonT(90) DEF Sound, State, Owners
  <2>2. [x EXCEPT !.zero = "none", !.first = FALSE] \in State
    BY ZenonT(90) DEF Sound, State, Owners
  <2>3. [x EXCEPT !.grace = "none", !.graceOf = "none"] \in State
    BY ZenonT(90) DEF Sound, State, Owners
  <2>4. [x EXCEPT !.first = FALSE] \in State
    BY ZenonT(90) DEF Sound, State
  <2>5. QED BY <2>1, <2>2, <2>3, <2>4
<1>2. /\ Rules([x EXCEPT !.zero = "none", !.grace = "none", !.graceOf = "none",
                         !.first = FALSE], players, away, over)
      /\ Rules([x EXCEPT !.zero = "none", !.first = FALSE], players, away, over)
      /\ Rules([x EXCEPT !.grace = "none", !.graceOf = "none"], players, away, over)
      /\ Rules([x EXCEPT !.first = FALSE], players, away, over)
  BY DEF Sound, Rules, State, Waits, Locked, ManagedWindow
<1>3. QED BY <1>1, <1>2 DEF Sound

LEMMA AllClearedSound ==
  ASSUME NEW x, NEW players, NEW away, NEW over, Sound(x, players, away, over)
  PROVE  /\ Sound(AllCleared(x), players, away, over)
         /\ Timed(x) => Timed(AllCleared(x))
         /\ Retried(x) => Retried(AllCleared(x))
         /\ ~Waits(x) => ~Waits(AllCleared(x))
<1> DEFINE y == [x EXCEPT !.zero = "none", !.grace = "none", !.graceOf = "none",
                          !.first = FALSE]
<1>1. Sound(y, players, away, over) /\ Sound([x EXCEPT !.first = FALSE], players, away, over)
  BY TimersDropped
<1>2. Retried(x) => Retried(y)
  BY DEF Retried, Sound, State
<1>3. /\ Timed(x) => Timed([x EXCEPT !.first = FALSE])
      /\ Retried(x) => Retried([x EXCEPT !.first = FALSE])
      /\ ~Waits(x) => ~Waits([x EXCEPT !.first = FALSE])
  BY DEF Timed, Waits, Retried, Sound, State
<1> HIDE DEF y
<1>4. /\ Sound(WindowCleared(y), players, away, over)
      /\ ~Waits(WindowCleared(y))
      /\ Retried(y) => Retried(WindowCleared(y))
  BY <1>1, WindowClearedSound
<1>5. AllCleared(x) = IF ManagedWindow(x) THEN [x EXCEPT !.first = FALSE]
                      ELSE WindowCleared(y)
  BY DEF AllCleared, y
<1>6. QED BY <1>1, <1>2, <1>3, <1>4, <1>5 DEF Timed

LEMMA MarkedSound ==
  ASSUME NEW x, NEW players, NEW away, NEW over, NEW cut \in BOOLEAN,
         Sound(x, players, away, over)
  PROVE  /\ Sound(Marked(x, cut), players, away, over)
         /\ Timed(x) => Timed(Marked(x, cut))
         /\ Retried(x) => Retried(Marked(x, cut))
         /\ Marked(x, cut).gate # "open"
         /\ cut => Marked(x, cut).gate = "latched"
<1>1. Marked(x, cut) \in State
  BY ZenonT(90) DEF Marked, Sound, State
<1>2. Rules(Marked(x, cut), players, away, over)
  BY DEF Marked, Sound, Rules, State, Waits, Locked, ManagedWindow
<1>3. QED BY <1>1, <1>2 DEF Sound, Marked, State, Timed, Waits, Retried

LEMMA FencedSound ==
  ASSUME NEW x, NEW players, NEW away, NEW over, NEW cut \in BOOLEAN,
         Sound(x, players, away, over)
  PROVE  /\ Sound(Fenced(x, cut), players, away, over)
         /\ Timed(x) => Timed(Fenced(x, cut))
         /\ Retried(x) => Retried(Fenced(x, cut))
         /\ Fenced(x, cut).gate # "open"
         /\ Fenced(x, cut).durable => Fenced(x, cut).gate = "latched"
<1>1. /\ Sound(Marked(x, cut), players, away, over)
      /\ Timed(x) => Timed(Marked(x, cut))
      /\ Retried(x) => Retried(Marked(x, cut))
      /\ Marked(x, cut).gate # "open"
      /\ cut => Marked(x, cut).gate = "latched"
  BY MarkedSound
<1> DEFINE y == Marked(x, cut)
           z == [y EXCEPT !.durable = cut]
<1> HIDE DEF y
<1>2. z \in State
  BY <1>1, ZenonT(90) DEF Sound, State, y
<1>3. Rules(z, players, away, over)
  BY <1>1 DEF Sound, Rules, State, Waits, Locked, ManagedWindow, y
<1>4. /\ Timed(y) => Timed(z)
      /\ Retried(y) => Retried(z)
      /\ z.gate = y.gate /\ z.durable = cut
  BY <1>1 DEF Sound, State, Timed, Waits, Retried, y
<1>5. Fenced(x, cut) = IF x.durable THEN x ELSE z
  BY DEF Fenced, y
<1> HIDE DEF z
<1>6. CASE x.durable
  BY <1>5, <1>6 DEF Sound, Rules
<1>7. CASE ~x.durable
  BY <1>1, <1>2, <1>3, <1>4, <1>5, <1>7 DEF Sound, y
<1>8. QED BY <1>6, <1>7

-----------------------------------------------------------------------------
(* Scheduling.                                                             *)

\* A customer's window may start when none of its viewers plays.
MayWait(x, who, players) == who = "managed" => players = {} /\ (x.recycle => x.committed)

LEMMA WindowStartedSound ==
  ASSUME NEW x, NEW players, NEW away, NEW over, NEW who \in Owners,
         Sound(x, players, away, over), MayWait(x, who, players),
         x.phase # "persisting", ~x.ready
  PROVE  Sound(WindowStarted(x, who), players, away, over)
<1>1. WindowStarted(x, who) \in State
  BY ZenonT(90) DEF WindowStarted, Sound, State
<1>2. Rules(WindowStarted(x, who), players, away, over)
  BY DEF WindowStarted, MayWait, Sound, Rules, State, Owners, Waits, Locked, ManagedWindow
<1>3. QED BY <1>1, <1>2 DEF Sound

LEMMA StopScheduledSound ==
  ASSUME NEW x, NEW players, NEW away, NEW over,
         NEW who \in {"plain", "claimless", "managed"},
         Sound(x, players, away, over), MayWait(x, who, players)
  PROVE  /\ Sound(StopScheduled(x, who), players, away, over)
         /\ (Timed(x) \/ ~Suspended(x) \/ Locked(x)) /\ (who = "plain" \/ Timed(x))
              => Timed(StopScheduled(x, who))
         /\ Retried(x) => Retried(StopScheduled(x, who))
<1> DEFINE starts == who # "plain"
           a == IF ~starts /\ x.phase = "waiting" THEN WindowCleared(x) ELSE x
           y == [a EXCEPT !.grace = "none", !.graceOf = "none"]
           p == [y EXCEPT !.zero = who]
           z == Published(p)
           kept == \/ ~Locked(x) /\ Suspended(x)
                   \/ x.phase = "persisting"
                   \/ starts /\ x.phase # "inactive"
<1>1. StopScheduled(x, who) =
        IF kept THEN x
        ELSE IF ~Locked(y) /\ Suppressed(y) THEN Restored(AllCleared(y))
        ELSE IF starts THEN WindowStarted(z, who) ELSE z
  BY DEF StopScheduled
<1>2. /\ Sound(a, players, away, over)
      /\ ~kept => ~Waits(a) /\ a.phase # "persisting"
      /\ Retried(x) => Retried(a)
      /\ a.recycle = x.recycle /\ a.committed = x.committed
      /\ starts => a.phase = x.phase
  <2>1. /\ Sound(WindowCleared(x), players, away, over) /\ ~Waits(WindowCleared(x))
        /\ Retried(x) => Retried(WindowCleared(x))
    BY WindowClearedSound
  <2>2. CASE ~starts /\ x.phase = "waiting"
    <3>1. /\ WindowCleared(x).phase # "persisting"
          /\ WindowCleared(x).recycle = x.recycle
          /\ WindowCleared(x).committed = x.committed
      BY <2>2 DEF WindowCleared, Sound, State
    <3>2. QED BY <2>1, <2>2, <3>1
  <2>3. CASE ~(~starts /\ x.phase = "waiting")
    BY <2>3 DEF Waits
  <2>4. QED BY <2>2, <2>3
<1> HIDE DEF a
<1>3. /\ Sound(y, players, away, over)
      /\ ~kept => ~Waits(y) /\ y.phase # "persisting"
      /\ Retried(x) => Retried(y)
      /\ y.recycle = x.recycle /\ y.committed = x.committed
      /\ starts => y.phase = x.phase
      /\ y.grace = "none" /\ y.graceOf = "none"
  <2>1. Sound(y, players, away, over)
    BY <1>2, TimersDropped
  <2>2. QED BY <1>2, <2>1 DEF Waits, Sound, State, Retried
<1> HIDE DEF y
<1>4. /\ Sound(p, players, away, over)
      /\ ~kept => ~Waits(p) /\ p.phase # "persisting"
      /\ Retried(x) => Retried(p)
      /\ p.recycle = x.recycle /\ p.committed = x.committed
      /\ p.grace = "none" /\ p.graceOf = "none" /\ p.zero = who
  <2>1. p \in State
    BY <1>3, ZenonT(90) DEF Sound, State, Owners
  <2>2. Rules(p, players, away, over)
    BY <1>3 DEF Sound, Rules, State, Waits, Locked, ManagedWindow
  <2>3. QED BY <1>3, <2>1, <2>2 DEF Waits, Sound, State, Retried
<1> HIDE DEF p
<1>5. /\ Sound(z, players, away, over)
      /\ ~kept => ~Waits(z) /\ z.phase # "persisting"
      /\ Retried(x) => Retried(z)
      /\ z.recycle = x.recycle /\ z.committed = x.committed
      /\ z.grace = "none" /\ z.graceOf = "none" /\ z.zero = who /\ ~z.ready
  <2>1. Sound(z, players, away, over) /\ (Retried(p) => Retried(z))
    BY <1>4, PublishedSound
  <2>2. QED BY <1>4, <2>1 DEF Waits, Sound, State, Published
<1> HIDE DEF z
<1>6. CASE kept
  BY <1>1, <1>6 DEF Timed, Waits
<1>7. CASE ~kept /\ ~Locked(y) /\ Suppressed(y)
  <2>1. /\ Sound(AllCleared(y), players, away, over) /\ ~Waits(AllCleared(y))
        /\ Timed(y) => Timed(AllCleared(y))
        /\ Retried(y) => Retried(AllCleared(y))
    BY <1>3, <1>7, AllClearedSound
  <2>2. Timed(y)
    BY <1>3, <1>7 DEF Timed
  <2>3. /\ Sound(Restored(AllCleared(y)), players, away, over)
        /\ Timed(Restored(AllCleared(y)))
        /\ Retried(y) => Retried(Restored(AllCleared(y)))
    BY <2>1, <2>2, RestoredSound, RestoredKeeps DEF Sound
  <2>4. QED BY <1>1, <1>3, <1>7, <2>3
<1>8. CASE ~kept /\ ~(~Locked(y) /\ Suppressed(y)) /\ starts
  <2>1. who \in Owners /\ MayWait(z, who, players)
    BY <1>5, <1>8 DEF Owners, MayWait
  <2>2. Sound(WindowStarted(z, who), players, away, over)
    BY <1>5, <1>8, <2>1, WindowStartedSound
  <2>3. Timed(WindowStarted(z, who)) /\ Retried(WindowStarted(z, who))
    BY <1>5 DEF WindowStarted, Timed, Retried, Waits, Sound, State
  <2>4. QED BY <1>1, <1>8, <2>2, <2>3
<1>9. CASE ~kept /\ ~(~Locked(y) /\ Suppressed(y)) /\ ~starts
  BY <1>1, <1>5, <1>9 DEF Timed
<1>10. QED BY <1>6, <1>7, <1>8, <1>9

LEMMA GraceOpenedSound ==
  ASSUME NEW x, NEW players, NEW away, NEW over,
         NEW kind \in {"reset", "warm"}, NEW starts, NEW who \in {"claimless", "managed"},
         Sound(x, players, away, over), MayWait(x, who, players), x.phase # "persisting"
  PROVE  /\ Sound(GraceOpened(x, kind, starts, who), players, away, over)
         /\ Timed(x) => Timed(GraceOpened(x, kind, starts, who))
         /\ Retried(GraceOpened(x, kind, starts, who))
<1> DEFINE y == [x EXCEPT !.zero = "none", !.first = FALSE]
           q == Published(y)
           w == [q EXCEPT !.grace = kind, !.graceOf = who]
           g == [q EXCEPT !.grace = kind]
           windowed == starts \/ y.phase = "waiting" \/ y.seen
<1>1. GraceOpened(x, kind, starts, who) =
        IF y.grace # "none" THEN y ELSE IF windowed THEN WindowStarted(w, who) ELSE g
  BY DEF GraceOpened
<1>2. /\ Sound(y, players, away, over)
      /\ y.phase = x.phase /\ y.recycle = x.recycle /\ y.committed = x.committed
      /\ Timed(x) /\ y.grace # "none" => Timed(y)
  <2>1. Sound(y, players, away, over)
    BY TimersDropped
  <2>2. QED BY <2>1 DEF Sound, State, Timed, Waits
<1> HIDE DEF y
<1>3. /\ Sound(q, players, away, over) /\ ~q.ready
      /\ q.phase = x.phase /\ q.recycle = x.recycle /\ q.committed = x.committed
      /\ q.zero = y.zero /\ q.window = y.window
  <2>1. Sound(q, players, away, over)
    BY <1>2, PublishedSound
  <2>2. QED BY <1>2, <2>1 DEF Sound, State, Published
<1> HIDE DEF q
<1>4. y.zero = "none"
  BY DEF y, Sound, State
<1>5. /\ Sound(w, players, away, over) /\ ~w.ready
      /\ w.phase = x.phase /\ w.recycle = x.recycle /\ w.committed = x.committed
      /\ w.zero = "none" /\ w.grace = kind /\ w.graceOf = who
  <2>1. w \in State
    <3>1. who \in Owners /\ kind \in {"none", "reset", "warm"}
      BY DEF Owners
    <3>2. QED BY <1>3, <3>1, ZenonT(90) DEF Sound, State
  <2>2. Rules(w, players, away, over)
    BY <1>3 DEF Sound, Rules, State, Waits, Locked, ManagedWindow
  <2>3. QED BY <1>3, <1>4, <2>1, <2>2 DEF Sound, State
<1>6. /\ Sound(g, players, away, over)
      /\ g.phase = x.phase /\ g.window = y.window
  <2>1. g \in State
    BY <1>3, ZenonT(90) DEF Sound, State
  <2>2. Rules(g, players, away, over)
    BY <1>3 DEF Sound, Rules, State, Waits, Locked, ManagedWindow
  <2>3. QED BY <1>3, <2>1, <2>2 DEF Sound, State
<1> HIDE DEF w, g
<1>7. CASE y.grace # "none"
  BY <1>1, <1>2, <1>7 DEF Retried
<1>8. CASE y.grace = "none" /\ windowed
  <2>1. Sound(WindowStarted(w, who), players, away, over)
    BY <1>5, WindowStartedSound DEF MayWait, Owners
  <2>2. Timed(WindowStarted(w, who)) /\ Retried(WindowStarted(w, who))
    BY <1>5 DEF WindowStarted, Timed, Retried, Waits, Sound, State
  <2>3. QED BY <1>1, <1>8, <2>1, <2>2
<1>9. CASE y.grace = "none" /\ ~windowed
  BY <1>1, <1>2, <1>6, <1>9 DEF Timed, Waits, Retried
<1>10. QED BY <1>7, <1>8, <1>9

LEMMA ResetScheduledSound ==
  ASSUME NEW x, NEW players, NEW away, NEW over,
         NEW starts, NEW who \in {"claimless", "managed"},
         Sound(x, players, away, over), MayWait(x, who, players)
  PROVE  /\ Sound(ResetScheduled(x, starts, who), players, away, over)
         /\ Timed(x) => Timed(ResetScheduled(x, starts, who))
         /\ Retried(x) => Retried(ResetScheduled(x, starts, who))
<1> DEFINE a == IF x.phase = "waiting" THEN WindowCleared(x) ELSE x
           kept == Suspended(x) \/ x.phase = "persisting" \/ x.resetting \/ x.launched
<1>1. /\ Sound(a, players, away, over) /\ ~Waits(a)
      /\ Retried(x) => Retried(a)
  BY WindowClearedSound DEF Waits
<1>2. ResetScheduled(x, starts, who) =
        IF kept THEN x ELSE IF Recycling(x) THEN GraceOpened(x, "reset", starts, who)
        ELSE [a EXCEPT !.zero = "none", !.first = FALSE]
  BY DEF ResetScheduled
<1> HIDE DEF a
<1>3. /\ Sound([a EXCEPT !.zero = "none", !.first = FALSE], players, away, over)
      /\ Timed([a EXCEPT !.zero = "none", !.first = FALSE])
      /\ Retried(x) => Retried([a EXCEPT !.zero = "none", !.first = FALSE])
  <2>1. Sound([a EXCEPT !.zero = "none", !.first = FALSE], players, away, over)
    BY <1>1, TimersDropped
  <2>2. QED BY <1>1, <2>1 DEF Timed, Waits, Retried, Sound, State
<1>4. CASE kept
  BY <1>2, <1>4
<1>5. CASE ~kept /\ Recycling(x)
  BY <1>2, <1>5, GraceOpenedSound
<1>6. CASE ~kept /\ ~Recycling(x)
  BY <1>2, <1>3, <1>6
<1>7. QED BY <1>4, <1>5, <1>6

LEMMA WarmScheduledSound ==
  ASSUME NEW x, NEW players, NEW away, NEW over,
         NEW starts, NEW who \in {"claimless", "managed"},
         Sound(x, players, away, over), MayWait(x, who, players)
  PROVE  /\ Sound(WarmScheduled(x, starts, who), players, away, over)
         /\ Timed(x) => Timed(WarmScheduled(x, starts, who))
         /\ Retried(x) => Retried(WarmScheduled(x, starts, who))
BY GraceOpenedSound DEF WarmScheduled

LEMMA FirstEnsuredSound ==
  ASSUME NEW x, NEW players, NEW away, NEW over, Sound(x, players, away, over)
  PROVE  /\ Sound(FirstEnsured(x), players, away, over)
         /\ Timed(x) => Timed(FirstEnsured(x))
         /\ Retried(x) => Retried(FirstEnsured(x))
<1>1. FirstEnsured(x) \in State
  <2>1. (~(Suspended(x) \/ Suppressed(x) \/ x.seen \/ ~Nobody)) \in BOOLEAN
    OBVIOUS
  <2>2. QED BY <2>1, ZenonT(90) DEF FirstEnsured, Sound, State
<1>2. Rules(FirstEnsured(x), players, away, over)
  BY DEF FirstEnsured, Sound, Rules, State, Waits, Locked, ManagedWindow
<1>3. QED BY <1>1, <1>2 DEF Sound, FirstEnsured, State, Timed, Waits, Retried

-----------------------------------------------------------------------------
(* Stop.                                                                   *)

\* What a stop and a recycle that is given up leave of the automation.
LEMMA AutomationDropped ==
  ASSUME NEW x \in State
  PROVE  [x EXCEPT !.resetting = FALSE, !.launched = FALSE, !.passive = FALSE,
                   !.exit = FALSE, !.grace = "none", !.graceOf = "none"] \in State
BY ZenonT(180) DEF State, Owners

LEMMA StopRequestedSound ==
  ASSUME NEW x, NEW players, NEW away, NEW over, NEW io \in Outcome,
         Context(players, away, over), Sound(x, players, away, over)
  PROVE  /\ Sound(StopRequested(x, io), players, away, over)
         /\ Timed(x) \/ (~x.stopping /\ ~Suspended(x)) => Timed(StopRequested(x, io))
         /\ Retried(x) => Retried(StopRequested(x, io))
<1> DEFINE y == Fenced(x, io.cut)
           p == Published(y)
           c == WindowCleared(y)
           z == [c EXCEPT
                  !.resetting = FALSE, !.launched = FALSE, !.passive = FALSE,
                  !.exit = FALSE, !.grace = "none", !.graceOf = "none"]
           t == [z EXCEPT !.stopping = TRUE]
           soon == Timed(x) \/ (~x.stopping /\ ~Suspended(x))
<1>1. StopRequested(x, io) =
        IF x.phase = "persisting" \/ x.stopping THEN x
        ELSE IF ~y.durable THEN StopScheduled(p, "plain")
        ELSE IF z.committed THEN t
        ELSE IF Suspended(z) THEN z
        ELSE IF ~Nobody THEN Restored(z)
        ELSE IF ~Suppressed(z) THEN t
        ELSE IF z.seen THEN WarmScheduled(z, TRUE, "claimless")
        ELSE Restored(z)
  BY DEF StopRequested
<1>2. io.cut \in BOOLEAN
  BY DEF Outcome
<1>3. /\ Sound(y, players, away, over)
      /\ Timed(x) => Timed(y)
      /\ Retried(x) => Retried(y)
      /\ y.durable => y.gate = "latched"
  BY <1>2, FencedSound
<1>4. y.maintenance = x.maintenance /\ y.phase = x.phase
  BY DEF Fenced, Marked, Sound, State
<1> HIDE DEF y
<1>5. /\ Sound(p, players, away, over)
      /\ Timed(y) => Timed(p)
      /\ Retried(y) => Retried(p)
      /\ p.maintenance = y.maintenance
  <2>1. p.maintenance = y.maintenance
    BY <1>3 DEF Published, Sound, State
  <2>2. QED BY <1>3, <2>1, PublishedSound
<1>6. /\ Sound(c, players, away, over) /\ ~Waits(c)
      /\ c.gate = y.gate
      /\ x.phase # "persisting" => c.phase # "persisting"
  <2>1. Sound(c, players, away, over) /\ ~Waits(c)
    BY <1>3, WindowClearedSound
  <2>2. QED BY <1>3, <1>4, <2>1 DEF WindowCleared, Sound, State
<1> HIDE DEF c, p
<1>7. /\ Sound(z, players, away, over) /\ ~Waits(z)
      /\ z.gate = c.gate /\ z.phase = c.phase
  <2>1. z \in State
    BY <1>6, AutomationDropped DEF Sound
  <2>2. Rules(z, players, away, over)
    BY <1>6 DEF Sound, Rules, State, Waits, Locked, ManagedWindow
  <2>3. QED BY <1>6, <2>1, <2>2 DEF Sound, State, Waits
<1> HIDE DEF z
<1>8. ASSUME y.durable, z.committed \/ Nobody, x.phase # "persisting"
      PROVE  Sound(t, players, away, over) /\ Timed(t) /\ Retried(t)
  <2>1. t \in State
    BY <1>7, ZenonT(90) DEF Sound, State
  <2>2. z.gate = "latched"
    BY <1>3, <1>6, <1>7, <1>8
  <2>3. Rules(t, players, away, over)
    BY <1>7, <1>8, <2>2 DEF Context, Sound, Rules, State, Waits, Locked, ManagedWindow
  <2>4. Timed(t) /\ Retried(t)
    BY <1>6, <1>7, <1>8 DEF Sound, State, Waits, Timed, Retried
  <2>5. QED BY <2>1, <2>3, <2>4 DEF Sound
<1> HIDE DEF t
<1>9. CASE x.phase = "persisting" \/ x.stopping
  BY <1>1, <1>9 DEF Timed, Waits
<1>10. CASE ~(x.phase = "persisting" \/ x.stopping) /\ ~y.durable
  <2>1. soon => Timed(p) \/ ~Suspended(p)
    BY <1>3, <1>4, <1>5 DEF Suspended
  <2>2. /\ Sound(StopScheduled(p, "plain"), players, away, over)
        /\ soon => Timed(StopScheduled(p, "plain"))
        /\ Retried(p) => Retried(StopScheduled(p, "plain"))
    BY <1>5, <2>1, StopScheduledSound DEF MayWait
  <2>3. QED BY <1>1, <1>3, <1>5, <1>10, <2>2
<1>11. CASE ~(x.phase = "persisting" \/ x.stopping) /\ y.durable
  <2>1. /\ Sound(Restored(z), players, away, over)
        /\ Timed(Restored(z)) /\ Retried(Restored(z))
    BY <1>6, <1>7, <1>11, RestoredSound, RestoredKeeps DEF Sound, Timed, Retried
  <2>2. /\ Sound(WarmScheduled(z, TRUE, "claimless"), players, away, over)
        /\ Timed(WarmScheduled(z, TRUE, "claimless"))
        /\ Retried(WarmScheduled(z, TRUE, "claimless"))
    <3>1. Timed(z) /\ Retried(z)
      BY <1>6, <1>7, <1>11 DEF Timed, Retried
    <3>2. MayWait(z, "claimless", players)
      BY DEF MayWait
    <3>3. QED BY <1>7, <3>1, <3>2, WarmScheduledSound
  <2>3. Timed(z) /\ Retried(z)
    BY <1>6, <1>7, <1>11 DEF Timed, Retried
  <2>4. QED BY <1>1, <1>7, <1>8, <1>11, <2>1, <2>2, <2>3
<1>12. QED BY <1>9, <1>10, <1>11

LEMMA ShutdownResumedSound ==
  ASSUME NEW x, NEW players, NEW away, NEW over, NEW io \in Outcome,
         Context(players, away, over), Sound(x, players, away, over), Resumable(x)
  PROVE  /\ Sound(ShutdownResumed(x, io), players, away, over)
         /\ Timed(ShutdownResumed(x, io))
         /\ Retried(x) => Retried(ShutdownResumed(x, io))
<1> DEFINE a == [x EXCEPT !.zero = "none", !.first = FALSE]
           y == StopRequested(a, io)
<1>1. Sound(a, players, away, over)
  BY TimersDropped
<1>2. ~a.stopping /\ ~Suspended(a) /\ (Retried(x) => Retried(a))
  BY DEF Resumable, Suspended, Retried, Sound, State
<1> HIDE DEF a
<1>3. Sound(y, players, away, over) /\ Timed(y) /\ (Retried(x) => Retried(y))
  BY <1>1, <1>2, StopRequestedSound
<1>4. ShutdownResumed(x, io) = [y EXCEPT !.resumed = y.stopping]
  BY DEF ShutdownResumed, a
<1> HIDE DEF y
<1>5. y.stopping \in BOOLEAN
  BY <1>3 DEF Sound, State
<1>6. [y EXCEPT !.resumed = y.stopping] \in State
  BY <1>3, <1>5, ZenonT(90) DEF Sound, State
<1>7. Rules([y EXCEPT !.resumed = y.stopping], players, away, over)
  BY <1>3 DEF Sound, Rules, State, Waits, Locked, ManagedWindow
<1>8. /\ Timed([y EXCEPT !.resumed = y.stopping])
      /\ Retried(y) => Retried([y EXCEPT !.resumed = y.stopping])
  BY <1>3 DEF Sound, State, Waits, Timed, Retried
<1>9. QED BY <1>3, <1>4, <1>6, <1>7, <1>8 DEF Sound

-----------------------------------------------------------------------------
(* Recycle.                                                                *)

LEMMA WarmRestoredSound ==
  ASSUME NEW x, NEW players, NEW away, NEW over, NEW io \in Outcome,
         Context(players, away, over), Sound(x, players, away, over)
  PROVE  /\ Sound(WarmRestored(x, io), players, away, over)
         /\ Timed(WarmRestored(x, io))
         /\ Retried(x) => Retried(WarmRestored(x, io))
<1> DEFINE c == WindowCleared(x)
           y == [c EXCEPT
                  !.resetting = FALSE, !.launched = FALSE, !.passive = FALSE,
                  !.exit = FALSE, !.grace = "none", !.graceOf = "none"]
           z == [y EXCEPT !.seen = FALSE]
<1>1. WarmRestored(x, io) =
        IF ~Nobody \/ Suspended(y) THEN Restored(y)
        ELSE IF z.want = "shutdown" THEN StopRequested(z, io)
        ELSE IF z.want = "cold" THEN StopScheduled(z, "plain")
        ELSE Restored(z)
  BY DEF WarmRestored
<1>2. /\ Sound(c, players, away, over) /\ ~Waits(c)
      /\ Retried(x) => Retried(c)
  BY WindowClearedSound
<1> HIDE DEF c
<1>3. /\ Sound(y, players, away, over) /\ ~Waits(y)
      /\ Retried(x) => Retried(y)
  <2>1. y \in State
    BY <1>2, AutomationDropped DEF Sound
  <2>2. Rules(y, players, away, over)
    BY <1>2 DEF Sound, Rules, State, Waits, Locked, ManagedWindow
  <2>3. QED BY <1>2, <2>1, <2>2 DEF Sound, State, Waits, Retried
<1> HIDE DEF y
<1>4. /\ Sound(z, players, away, over) /\ ~Waits(z)
      /\ Retried(x) => Retried(z)
  <2>1. z \in State
    BY <1>3, ZenonT(90) DEF Sound, State
  <2>2. Rules(z, players, away, over)
    BY <1>3 DEF Sound, Rules, State, Waits, Locked, ManagedWindow
  <2>3. QED BY <1>3, <2>1, <2>2 DEF Sound, State, Waits, Retried
<1> HIDE DEF z
<1>5. /\ Sound(Restored(y), players, away, over) /\ Timed(Restored(y))
      /\ Retried(y) => Retried(Restored(y))
  BY <1>3, RestoredSound, RestoredKeeps DEF Sound, Timed
<1>6. /\ Sound(Restored(z), players, away, over) /\ Timed(Restored(z))
      /\ Retried(z) => Retried(Restored(z))
  BY <1>4, RestoredSound, RestoredKeeps DEF Sound, Timed
<1>7. Timed(z) /\ MayWait(z, "plain", players)
  BY <1>4 DEF Timed, MayWait
<1>8. /\ Sound(StopRequested(z, io), players, away, over)
      /\ Timed(StopRequested(z, io))
      /\ Retried(z) => Retried(StopRequested(z, io))
  BY <1>4, <1>7, StopRequestedSound
<1>9. /\ Sound(StopScheduled(z, "plain"), players, away, over)
      /\ Timed(StopScheduled(z, "plain"))
      /\ Retried(z) => Retried(StopScheduled(z, "plain"))
  BY <1>4, <1>7, StopScheduledSound
<1>10. QED BY <1>1, <1>3, <1>4, <1>5, <1>6, <1>8, <1>9

\* A recycle is retried when it is committed or nobody is there to be reset.
LEMMA RetriedSound ==
  ASSUME NEW x, NEW players, NEW away, NEW over, Sound(x, players, away, over),
         Locked(x) \/ (away /\ x.gate # "open" /\ ~Waits(x))
  PROVE  /\ Sound(RecycleRetried(Published([x EXCEPT !.resetting = TRUE])), players, away, over)
         /\ Timed(x) => Timed(RecycleRetried(Published([x EXCEPT !.resetting = TRUE])))
         /\ Retried(x) => Retried(RecycleRetried(Published([x EXCEPT !.resetting = TRUE])))
<1> DEFINE y == RecycleRetried(Published([x EXCEPT !.resetting = TRUE]))
<1>1. y = [x EXCEPT !.resetting = TRUE, !.ready = FALSE, !.recycle = TRUE]
  BY DEF RecycleRetried, Published, Sound, State
<1> HIDE DEF y
<1>2. y \in State
  BY <1>1, ZenonT(90) DEF Sound, State
<1>3. Rules(y, players, away, over)
  BY <1>1 DEF Sound, Rules, State, Waits, Locked, ManagedWindow
<1>4. (Timed(x) => Timed(y)) /\ (Retried(x) => Retried(y))
  BY <1>1 DEF Sound, State, Waits, Timed, Retried
<1>5. QED BY <1>2, <1>3, <1>4 DEF Sound, y

LEMMA LaunchFailedSound ==
  ASSUME NEW x, NEW players, NEW away, NEW over, NEW io \in Outcome,
         Context(players, away, over), Sound(x, players, away, over)
  PROVE  /\ Sound(LaunchFailed(x, io), players, away, over)
         /\ Timed(x) => Timed(LaunchFailed(x, io))
         /\ Retried(x) => Retried(LaunchFailed(x, io))
<1> DEFINE n == IF x.attempts < MaxAttempts THEN x.attempts + 1 ELSE x.attempts
           a == [x EXCEPT !.resetting = TRUE, !.passive = TRUE, !.attempts = n]
           y == Published(a)
           b == [y EXCEPT !.recycle = FALSE]
           r == RecycleRetried(y)
<1>1. LaunchFailed(x, io) =
        IF ~x.committed THEN WarmRestored(x, io)
        ELSE IF y.attempts = MaxAttempts THEN StopRequested(b, io) ELSE r
  BY DEF LaunchFailed
<1>2. CASE ~x.committed
  BY <1>1, <1>2, WarmRestoredSound
<1>3. CASE x.committed
  <2>1. n \in 0..MaxAttempts
    BY AttemptAssumption DEF Sound, State
  <2> HIDE DEF n
  <2>2. /\ Sound(a, players, away, over)
        /\ Timed(x) => Timed(a)
        /\ Retried(x) => Retried(a)
        /\ a.committed
    <3>1. a \in State
      BY <2>1, ZenonT(90) DEF Sound, State
    <3>2. Rules(a, players, away, over)
      BY <1>3 DEF Sound, Rules, State, Waits, Locked, ManagedWindow
    <3>3. QED BY <1>3, <3>1, <3>2 DEF Sound, State, Waits, Timed, Retried
  <2> HIDE DEF a
  <2>3. /\ Sound(y, players, away, over)
        /\ Timed(x) => Timed(y)
        /\ Retried(x) => Retried(y)
        /\ y.committed
    <3>1. y.committed
      BY <2>2 DEF Published, Sound, State
    <3>2. QED BY <2>2, <3>1, PublishedSound
  <2> HIDE DEF y
  <2>4. /\ Sound(b, players, away, over)
        /\ Timed(x) => Timed(b)
        /\ Retried(x) => Retried(b)
    <3>1. b \in State
      BY <2>3, ZenonT(90) DEF Sound, State
    <3>2. Rules(b, players, away, over)
      BY <2>3 DEF Sound, Rules, State, Waits, Locked, ManagedWindow
    <3>3. QED BY <2>3, <3>1, <3>2 DEF Sound, State, Waits, Timed, Retried
  <2> HIDE DEF b
  <2>5. /\ Sound(r, players, away, over)
        /\ Timed(x) => Timed(r)
        /\ Retried(x) => Retried(r)
    <3>1. r \in State
      BY <2>3, ZenonT(90) DEF RecycleRetried, Sound, State
    <3>2. Rules(r, players, away, over)
      BY <2>3 DEF RecycleRetried, Sound, Rules, State, Waits, Locked, ManagedWindow
    <3>3. QED BY <2>3, <3>1, <3>2 DEF RecycleRetried, Sound, State, Waits, Timed, Retried
  <2> HIDE DEF r
  <2>6. /\ Sound(StopRequested(b, io), players, away, over)
        /\ Timed(b) => Timed(StopRequested(b, io))
        /\ Retried(b) => Retried(StopRequested(b, io))
    BY <2>4, StopRequestedSound
  <2>7. QED BY <1>1, <1>3, <2>4, <2>5, <2>6
<1>4. QED BY <1>2, <1>3

LEMMA LaunchedSound ==
  ASSUME NEW x, NEW players, NEW away, NEW over, NEW io \in Outcome,
         Context(players, away, over), Sound(x, players, away, over),
         x.gate = "latched", x.committed \/ Nobody
  PROVE  /\ Sound(Launched(x, io), players, away, over)
         /\ Timed(x) => Timed(Launched(x, io))
         /\ Retried(x) => Retried(Launched(x, io))
<1> DEFINE y == [x EXCEPT !.launched = TRUE, !.attempts = 0, !.recycle = FALSE]
           a == [x EXCEPT !.launched = FALSE, !.exit = FALSE]
           b == [y EXCEPT !.launched = FALSE, !.exit = FALSE, !.marker = FALSE]
           c == [y EXCEPT !.exit = TRUE, !.marker = TRUE, !.helper = TRUE]
<1>1. Launched(x, io) =
        CASE io.launch = "failed" -> LaunchFailed(a, io)
          [] io.launch = "unstarted" -> LaunchFailed(b, io)
          [] OTHER -> c
  BY DEF Launched
<1>2. /\ Sound(y, players, away, over)
      /\ Timed(x) => Timed(y)
      /\ Retried(x) => Retried(y)
      /\ y.gate = "latched" /\ (y.committed \/ Nobody)
  <2>1. 0 \in 0..MaxAttempts
    BY AttemptAssumption
  <2>2. y \in State
    BY <2>1, ZenonT(90) DEF Sound, State
  <2>3. Rules(y, players, away, over)
    BY DEF Sound, Rules, State, Waits, Locked, ManagedWindow
  <2>4. QED BY <2>2, <2>3 DEF Sound, State, Waits, Timed, Retried
<1> HIDE DEF y
<1>3. /\ Sound(a, players, away, over)
      /\ Timed(x) => Timed(a)
      /\ Retried(x) => Retried(a)
  <2>1. a \in State
    BY ZenonT(90) DEF Sound, State
  <2>2. Rules(a, players, away, over)
    BY DEF Sound, Rules, State, Waits, Locked, ManagedWindow
  <2>3. QED BY <2>1, <2>2 DEF Sound, State, Waits, Timed, Retried
<1>4. /\ Sound(b, players, away, over)
      /\ Timed(y) => Timed(b)
      /\ Retried(y) => Retried(b)
  <2>1. b \in State
    BY <1>2, ZenonT(90) DEF Sound, State
  <2>2. Rules(b, players, away, over)
    BY <1>2 DEF Sound, Rules, State, Waits, Locked, ManagedWindow
  <2>3. QED BY <1>2, <2>1, <2>2 DEF Sound, State, Waits, Timed, Retried
<1>5. /\ Sound(c, players, away, over)
      /\ Timed(y) => Timed(c)
      /\ Retried(y) => Retried(c)
  <2>1. c \in State
    BY <1>2, ZenonT(90) DEF Sound, State
  <2>2. Rules(c, players, away, over)
    BY <1>2 DEF Context, Sound, Rules, State, Waits, Locked, ManagedWindow
  <2>3. QED BY <1>2, <2>1, <2>2 DEF Sound, State, Waits, Timed, Retried
<1> HIDE DEF a, b, c
<1>6. CASE io.launch = "failed"
  BY <1>1, <1>3, <1>6, LaunchFailedSound
<1>7. CASE io.launch = "unstarted"
  <2>1. Launched(x, io) = LaunchFailed(b, io)
    BY <1>1, <1>7
  <2>2. QED BY <1>2, <1>4, <2>1, LaunchFailedSound
<1>8. CASE io.launch \notin {"failed", "unstarted"}
  BY <1>1, <1>2, <1>5, <1>8
<1>9. QED BY <1>6, <1>7, <1>8

LEMMA RecycleRequestedSound ==
  ASSUME NEW x, NEW players, NEW away, NEW over, NEW io \in Outcome,
         Context(players, away, over), Sound(x, players, away, over),
         Locked(x) \/ (away /\ x.gate # "open" /\ ~Waits(x))
  PROVE  /\ Sound(RecycleRequested(x, io), players, away, over)
         /\ Timed(x) => Timed(RecycleRequested(x, io))
         /\ Retried(x) => Retried(RecycleRequested(x, io))
<1> DEFINE y == Fenced(x, io.cut)
           u == RecycleRetried(Published([x EXCEPT !.resetting = TRUE]))
           r == RecycleRetried(Published([y EXCEPT !.resetting = TRUE]))
           w == [x EXCEPT !.resetting = FALSE, !.recycle = FALSE]
<1>1. RecycleRequested(x, io) =
        IF x.phase = "persisting" \/ x.launched THEN x
        ELSE IF io.launch = "unreadable" THEN u
        ELSE IF ~x.committed /\ (Suspended(x) \/ ~Nobody) THEN Restored(x)
        ELSE IF Recycling(x) THEN IF y.durable THEN Launched(y, io) ELSE r
        ELSE IF x.want = "warm" THEN Restored(w)
        ELSE IF x.want = "shutdown" THEN StopRequested(x, io)
        ELSE StopScheduled(x, "plain")
  BY DEF RecycleRequested
<1>2. /\ Sound(u, players, away, over)
      /\ Timed(x) => Timed(u)
      /\ Retried(x) => Retried(u)
  BY RetriedSound
<1>3. /\ Sound(y, players, away, over)
      /\ Timed(x) => Timed(y)
      /\ Retried(x) => Retried(y)
      /\ y.gate # "open"
      /\ y.durable => y.gate = "latched"
      /\ y.committed = x.committed /\ y.phase = x.phase /\ y.window = x.window
  <2>1. io.cut \in BOOLEAN
    BY DEF Outcome
  <2>2. y.committed = x.committed /\ y.phase = x.phase /\ y.window = x.window
    BY DEF Fenced, Marked, Sound, State
  <2>3. QED BY <2>1, <2>2, FencedSound
<1> HIDE DEF y
<1>4. /\ Sound(r, players, away, over)
      /\ Timed(y) => Timed(r)
      /\ Retried(y) => Retried(r)
  <2>1. Locked(y) \/ (away /\ y.gate # "open" /\ ~Waits(y))
    BY <1>3 DEF Locked, Waits
  <2>2. QED BY <1>3, <2>1, RetriedSound
<1>5. ~Waits(x) \/ Locked(x)
  OBVIOUS
<1>6. ~Waits(x) \/ Locked(x) => Sound(Restored(x), players, away, over)
  BY RestoredSound
<1>7. /\ Timed(x) => Timed(Restored(x))
      /\ Retried(x) => Retried(Restored(x))
  BY RestoredKeeps DEF Sound
<1>8. /\ Sound(w, players, away, over)
      /\ Timed(x) => Timed(w)
      /\ Retried(x) => Retried(w)
      /\ ~Waits(w) \/ Locked(w)
  <2>1. w \in State
    BY ZenonT(90) DEF Sound, State
  <2>2. Rules(w, players, away, over)
    BY DEF Sound, Rules, State, Waits, Locked, ManagedWindow
  <2>3. QED BY <1>5, <2>1, <2>2 DEF Sound, State, Waits, Timed, Retried, Locked
<1> HIDE DEF u, r, w
<1>9. /\ Sound(Restored(w), players, away, over)
      /\ Timed(w) => Timed(Restored(w))
      /\ Retried(w) => Retried(Restored(w))
  BY <1>8, RestoredSound, RestoredKeeps DEF Sound
<1>10. /\ Sound(StopRequested(x, io), players, away, over)
       /\ Timed(x) => Timed(StopRequested(x, io))
       /\ Retried(x) => Retried(StopRequested(x, io))
  BY StopRequestedSound
<1>11. /\ Sound(StopScheduled(x, "plain"), players, away, over)
       /\ Timed(x) => Timed(StopScheduled(x, "plain"))
       /\ Retried(x) => Retried(StopScheduled(x, "plain"))
  <2>1. MayWait(x, "plain", players)
    BY DEF MayWait
  <2>2. QED BY <2>1, StopScheduledSound
<1>12. ASSUME y.durable, ~(~x.committed /\ (Suspended(x) \/ ~Nobody))
       PROVE  /\ Sound(Launched(y, io), players, away, over)
              /\ Timed(y) => Timed(Launched(y, io))
              /\ Retried(y) => Retried(Launched(y, io))
  BY <1>3, <1>12, LaunchedSound
<1>13. CASE Recycling(x)
  BY <1>1, <1>2, <1>3, <1>4, <1>5, <1>6, <1>7, <1>12, <1>13
<1>14. CASE ~Recycling(x)
  BY <1>1, <1>2, <1>5, <1>6, <1>7, <1>8, <1>9, <1>10, <1>11, <1>14
<1>15. QED BY <1>13, <1>14

LEMMA ResetStartedSound ==
  ASSUME NEW x, NEW players, NEW away, NEW over, NEW io \in Outcome,
         Context(players, away, over), Sound(x, players, away, over)
  PROVE  /\ Sound(ResetStarted(x, io), players, away, over)
         /\ Timed(ResetStarted(x, io))
         /\ Retried(x) => Retried(ResetStarted(x, io))
<1> DEFINE c == WindowCleared(x)
           y == [c EXCEPT !.grace = "none", !.graceOf = "none",
                          !.zero = "none", !.first = FALSE]
           a == [y EXCEPT !.resetting = TRUE]
           z == Published(a)
<1>1. ResetStarted(x, io) =
        IF x.phase = "persisting" THEN x
        ELSE IF ~x.committed /\ (Suspended(x) \/ ~Nobody) THEN c
        ELSE IF ~Recycling(y) THEN y
        ELSE RecycleRequested(z, io)
  BY DEF ResetStarted
<1>2. /\ Sound(c, players, away, over) /\ ~Waits(c)
      /\ Retried(x) => Retried(c)
      /\ c.committed = x.committed
  <2>1. c.committed = x.committed
    BY DEF WindowCleared, Sound, State
  <2>2. QED BY <2>1, WindowClearedSound
<1> HIDE DEF c
<1>3. /\ Sound(y, players, away, over) /\ ~Waits(y)
      /\ Retried(x) => Retried(y)
      /\ y.committed = x.committed
  <2>1. y \in State
    <3>1. /\ "none" \in Owners \cup {"plain"} /\ "none" \in Owners
          /\ "none" \in {"none", "reset", "warm"} /\ FALSE \in BOOLEAN
      BY DEF Owners
    <3>2. QED BY <1>2, <3>1, ZenonT(180) DEF Sound, State
  <2>2. Rules(y, players, away, over)
    BY <1>2 DEF Sound, Rules, State, Waits, Locked, ManagedWindow
  <2>3. QED BY <1>2, <2>1, <2>2 DEF Sound, State, Waits, Retried
<1> HIDE DEF y
<1>4. /\ Sound(a, players, away, over) /\ ~Waits(a)
      /\ Retried(x) => Retried(a)
      /\ a.committed = x.committed /\ a.passive = y.passive
  <2>1. a \in State
    BY <1>3, ZenonT(90) DEF Sound, State
  <2>2. Rules(a, players, away, over)
    BY <1>3 DEF Sound, Rules, State, Waits, Locked, ManagedWindow
  <2>3. QED BY <1>3, <2>1, <2>2 DEF Sound, State, Waits, Retried
<1> HIDE DEF a
<1>5. /\ Sound(z, players, away, over) /\ ~Waits(z)
      /\ Retried(x) => Retried(z)
      /\ z.committed = x.committed /\ z.passive = y.passive
  <2>1. ~Waits(z) /\ z.committed = x.committed /\ z.passive = y.passive
    BY <1>4 DEF Published, Sound, State, Waits
  <2>2. QED BY <1>4, <2>1, PublishedSound
<1> HIDE DEF z
<1>6. ASSUME Recycling(y), ~(~x.committed /\ (Suspended(x) \/ ~Nobody))
      PROVE  /\ Sound(RecycleRequested(z, io), players, away, over)
             /\ Timed(RecycleRequested(z, io))
             /\ Retried(z) => Retried(RecycleRequested(z, io))
  <2>1. Locked(z) \/ (away /\ z.gate # "open" /\ ~Waits(z))
    BY <1>5, <1>6 DEF Recycling, Sound, Rules, Locked, Context
  <2>2. Timed(z)
    BY <1>5 DEF Timed
  <2>3. QED BY <1>5, <2>1, <2>2, RecycleRequestedSound
<1>7. CASE x.phase = "persisting"
  BY <1>1, <1>7 DEF Timed, Waits
<1>8. CASE x.phase # "persisting"
  BY <1>1, <1>2, <1>3, <1>5, <1>6, <1>8 DEF Timed
<1>9. QED BY <1>7, <1>8

-----------------------------------------------------------------------------
(* The deadline.                                                           *)

LEMMA GraceEndedSound ==
  ASSUME NEW x, NEW players, NEW away, NEW over, NEW io \in Outcome, NEW kind, NEW who,
         Context(players, away, over), Sound(x, players, away, over), ~Waits(x)
  PROVE  /\ Sound(GraceEnded(x, kind, who, io), players, away, over)
         /\ Timed(GraceEnded(x, kind, who, io))
         /\ Retried(x) => Retried(GraceEnded(x, kind, who, io))
<1> DEFINE passive == [x EXCEPT !.passive = TRUE]
           marked == Marked(passive, io.mark)
           m == IF io.mark THEN marked ELSE Published(marked)
           c == WindowCleared(x)
<1>1. GraceEnded(x, kind, who, io) =
        IF x.committed
        THEN IF x.want = "shutdown" THEN StopRequested(x, io) ELSE ResetStarted(passive, io)
        ELSE IF Suspended(x) THEN c
        ELSE IF Cancels(x, who) THEN Restored(c)
        ELSE IF x.want = "shutdown" THEN StopRequested(x, io)
        ELSE IF kind = "reset" /\ Recycling(x) THEN ResetStarted(x, io)
        ELSE IF ~Suppressed(x) THEN StopScheduled(x, "plain")
        ELSE IF kind = "reset" \/ ~x.seenManaged THEN Restored(x)
        ELSE ResetStarted(m, io)
  BY DEF GraceEnded
<1>2. Timed(x)
  BY DEF Timed
<1>3. passive \in State
  BY ZenonT(90) DEF Sound, State
<1>4. ASSUME x.committed
      PROVE  Sound(passive, players, away, over) /\ (Retried(x) => Retried(passive))
  <2>1. Rules(passive, players, away, over)
    BY <1>4 DEF Sound, Rules, State, Waits, Locked, ManagedWindow
  <2>2. QED BY <1>3, <2>1 DEF Sound, State, Retried
<1>5. Sound(marked, players, away, over) /\ (Retried(x) => Retried(marked))
  <2>1. io.mark \in BOOLEAN
    BY DEF Outcome
  <2>2. marked = [x EXCEPT !.passive = TRUE, !.gate = IF io.mark THEN "latched"
                             ELSE IF x.gate = "open" THEN "failed" ELSE x.gate]
    BY DEF Marked, Sound, State
  <2> HIDE DEF marked
  <2>3. marked \in State
    BY <2>2, ZenonT(90) DEF Sound, State
  <2>4. Rules(marked, players, away, over)
    BY <2>2 DEF Sound, Rules, State, Waits, Locked, ManagedWindow
  <2>5. Retried(x) => Retried(marked)
    BY <2>2 DEF Sound, State, Retried
  <2>6. QED BY <2>3, <2>4, <2>5 DEF Sound
<1> HIDE DEF passive, marked
<1>6. Sound(m, players, away, over) /\ (Retried(x) => Retried(m))
  <2>1. /\ Sound(Published(marked), players, away, over)
        /\ Retried(marked) => Retried(Published(marked))
    BY <1>5, PublishedSound
  <2>2. QED BY <1>5, <2>1
<1>7. Sound(c, players, away, over) /\ ~Waits(c) /\ (Retried(x) => Retried(c))
  BY WindowClearedSound
<1> HIDE DEF m, c
<1>8. /\ Sound(Restored(c), players, away, over) /\ Timed(Restored(c))
      /\ Retried(c) => Retried(Restored(c))
  BY <1>7, RestoredSound, RestoredKeeps DEF Sound, Timed
<1>9. /\ Sound(Restored(x), players, away, over) /\ Timed(Restored(x))
      /\ Retried(x) => Retried(Restored(x))
  BY <1>2, RestoredSound, RestoredKeeps DEF Sound
<1>10. /\ Sound(StopRequested(x, io), players, away, over)
       /\ Timed(StopRequested(x, io))
       /\ Retried(x) => Retried(StopRequested(x, io))
  BY <1>2, StopRequestedSound
<1>11. /\ Sound(StopScheduled(x, "plain"), players, away, over)
       /\ Timed(StopScheduled(x, "plain"))
       /\ Retried(x) => Retried(StopScheduled(x, "plain"))
  <2>1. MayWait(x, "plain", players)
    BY DEF MayWait
  <2>2. QED BY <1>2, <2>1, StopScheduledSound
<1>12. /\ Sound(ResetStarted(x, io), players, away, over)
       /\ Timed(ResetStarted(x, io))
       /\ Retried(x) => Retried(ResetStarted(x, io))
  BY ResetStartedSound
<1>13. /\ Sound(ResetStarted(m, io), players, away, over)
       /\ Timed(ResetStarted(m, io))
       /\ Retried(m) => Retried(ResetStarted(m, io))
  BY <1>6, ResetStartedSound
<1>14. CASE x.committed
  <2>1. /\ Sound(ResetStarted(passive, io), players, away, over)
        /\ Timed(ResetStarted(passive, io))
        /\ Retried(passive) => Retried(ResetStarted(passive, io))
    BY <1>4, <1>14, ResetStartedSound
  <2>2. QED BY <1>1, <1>4, <1>10, <1>14, <2>1
<1>15. CASE ~x.committed
  <2>1. Timed(c)
    BY <1>7 DEF Timed
  <2>2. QED BY <1>1, <1>6, <1>7, <1>8, <1>9, <1>10, <1>11, <1>12, <1>13, <1>15, <2>1
<1>16. QED BY <1>14, <1>15

LEMMA ContinuedSound ==
  ASSUME NEW x, NEW players, NEW away, NEW over, NEW io \in Outcome, NEW next, NEW who,
         Context(players, away, over), Sound(x, players, away, over), ~Waits(x)
  PROVE  /\ Sound(Continued(x, next, who, io), players, away, over)
         /\ Timed(Continued(x, next, who, io))
         /\ Retried(x) => Retried(Continued(x, next, who, io))
<1>1. Timed(x)
  BY DEF Timed
<1>2. QED BY <1>1, StopRequestedSound, GraceEndedSound DEF Continued

\* The deadline locks the gate first; it is durable when the phase is elapsed.
LEMMA DeadlineDurableSound ==
  ASSUME NEW x, NEW players, NEW away, NEW over, NEW io \in Outcome,
         Sound(x, players, away, over)
  PROVE  /\ Sound(DeadlineDurable(x, io), players, away, over)
         /\ ~Waits(DeadlineDurable(x, io))
         /\ DeadlineDurable(x, io).resume = x.resume
<1> DEFINE j == x.journal \/ io.evidence # "lost"
           k == x.secured /\ io.evidence # "recorded"
           y == [x EXCEPT !.phase = "persisting", !.journal = j, !.secured = k]
           z == Fenced(y, io.cut)
           e == [x EXCEPT !.phase = "elapsed"]
           d == [z EXCEPT !.committed = TRUE, !.phase = "elapsed"]
<1>1. DeadlineDurable(x, io) =
        IF x.window # "managed" THEN IF x.phase = "waiting" THEN e ELSE x
        ELSE IF io.evidence # "recorded" THEN y
        ELSE IF ~z.durable THEN z ELSE d
  BY DEF DeadlineDurable
<1>2. CASE x.window # "managed"
  <2>1. e \in State
    BY ZenonT(90) DEF Sound, State
  <2>2. Rules(e, players, away, over)
    BY <1>2 DEF Sound, Rules, State, Waits, Locked, ManagedWindow
  <2>3. ~Waits(e) /\ ~Waits(x) /\ e.resume = x.resume
    BY <1>2 DEF Sound, State, Waits
  <2>4. QED BY <1>1, <1>2, <2>1, <2>2, <2>3 DEF Sound
<1>3. CASE x.window = "managed"
  <2>1. /\ Sound(y, players, away, over)
        /\ y.phase = "persisting" /\ y.window = "managed" /\ y.resume = x.resume
    <3>1. y \in State
      <4>1. j \in BOOLEAN /\ k \in BOOLEAN
        OBVIOUS
      <4> HIDE DEF j, k
      <4>2. QED BY <4>1, ZenonT(90) DEF Sound, State
    <3>2. Rules(y, players, away, over)
      BY <1>3 DEF Sound, Rules, State, Waits, Locked, ManagedWindow
    <3>3. QED BY <1>3, <3>1, <3>2 DEF Sound, State
  <2> HIDE DEF y
  <2>2. /\ Sound(z, players, away, over)
        /\ z.phase = "persisting" /\ z.window = "managed" /\ z.resume = x.resume
        /\ z.durable => z.gate = "latched"
    <3>1. io.cut \in BOOLEAN
      BY DEF Outcome
    <3>2. z.phase = "persisting" /\ z.window = "managed" /\ z.resume = x.resume
      BY <2>1 DEF Fenced, Marked, Sound, State
    <3>3. QED BY <2>1, <3>1, <3>2, FencedSound
  <2> HIDE DEF z
  <2>3. /\ Sound(d, players, away, over)
        /\ ~Waits(d) /\ d.resume = x.resume
    <3>1. d \in State
      BY <2>2, ZenonT(90) DEF Sound, State
    <3>2. Rules(d, players, away, over)
      BY <2>2 DEF Sound, Rules, State, Waits, Locked, ManagedWindow
    <3>3. QED BY <2>2, <3>1, <3>2 DEF Sound, State, Waits
  <2>4. QED BY <1>1, <1>3, <2>1, <2>2, <2>3 DEF Waits
<1>4. QED BY <1>2, <1>3

LEMMA ContinuedWhenDurableSound ==
  ASSUME NEW x, NEW players, NEW away, NEW over, NEW io \in Outcome,
         NEW next \in {"stop", "reset", "warm"}, NEW who,
         Context(players, away, over), Sound(x, players, away, over)
  PROVE  /\ Sound(ContinuedWhenDurable(x, next, who, io), players, away, over)
         /\ Timed(ContinuedWhenDurable(x, next, who, io))
         /\ Retried(ContinuedWhenDurable(x, next, who, io))
<1> DEFINE y == DeadlineDurable(x, io)
           c == WindowCleared(y)
           r == [y EXCEPT !.resume = IF @ = "none" THEN next ELSE @]
<1>1. ContinuedWhenDurable(x, next, who, io) =
        IF y.phase = "elapsed" THEN Continued(c, next, who, io) ELSE r
  BY DEF ContinuedWhenDurable
<1>2. Sound(y, players, away, over) /\ ~Waits(y)
  BY DeadlineDurableSound
<1> HIDE DEF y
<1>3. Sound(c, players, away, over) /\ ~Waits(c)
  BY <1>2, WindowClearedSound
<1>4. ASSUME y.phase = "elapsed" PROVE Retried(c)
  BY <1>2, <1>4 DEF WindowCleared, Retried, Sound, State
<1>5. Sound(r, players, away, over) /\ Timed(r) /\ Retried(r)
  <2>1. r \in State
    BY <1>2, ZenonT(90) DEF Sound, State
  <2>2. Rules(r, players, away, over)
    BY <1>2 DEF Sound, Rules, State, Waits, Locked, ManagedWindow
  <2>3. QED BY <1>2, <2>1, <2>2 DEF Sound, State, Waits, Timed, Retried
<1> HIDE DEF c, r
<1>6. /\ Sound(Continued(c, next, who, io), players, away, over)
      /\ Timed(Continued(c, next, who, io))
      /\ Retried(c) => Retried(Continued(c, next, who, io))
  BY <1>3, ContinuedSound
<1>7. QED BY <1>1, <1>4, <1>5, <1>6

LEMMA WindowEndedSound ==
  ASSUME NEW x, NEW players, NEW away, NEW over, NEW io \in Outcome,
         NEW next \in {"stop", "reset", "warm"}, NEW who,
         Context(players, away, over), Sound(x, players, away, over), Retried(x)
  PROVE  /\ Sound(WindowEnded(x, next, who, io), players, away, over)
         /\ Timed(WindowEnded(x, next, who, io))
         /\ Retried(WindowEnded(x, next, who, io))
<1> DEFINE c == WindowCleared(x)
<1>1. Sound(c, players, away, over) /\ ~Waits(c) /\ Retried(c)
  BY WindowClearedSound
<1> HIDE DEF c
<1>2. Sound(Restored(c), players, away, over) /\ Timed(Restored(c)) /\ Retried(Restored(c))
  BY <1>1, RestoredSound, RestoredKeeps DEF Sound, Timed
<1>3. QED BY <1>2, ContinuedWhenDurableSound DEF WindowEnded, c

-----------------------------------------------------------------------------
(* Maintenance and desired state.                                          *)

LEMMA IdleResumedSound ==
  ASSUME NEW x, NEW players, NEW away, NEW over, NEW io \in Outcome,
         Context(players, away, over), Sound(x, players, away, over)
  PROVE  /\ Sound(IdleResumed(x, io), players, away, over)
         /\ Timed(x) => Timed(IdleResumed(x, io))
         /\ Retried(x) => Retried(IdleResumed(x, io))
<1>1. MayWait(x, "claimless", players)
  BY DEF MayWait
<1>2. QED BY <1>1, ShutdownResumedSound, ResetScheduledSound, FirstEnsuredSound DEF IdleResumed

LEMMA AbandonedSound ==
  ASSUME NEW x, NEW players, NEW away, NEW over, NEW io \in Outcome,
         Context(players, away, over), Sound(x, players, away, over)
  PROVE  /\ Sound(Abandoned(x, io), players, away, over)
         /\ Timed(x) => Timed(Abandoned(x, io))
         /\ Retried(x) => Retried(Abandoned(x, io))
<1>1. MayWait(x, "plain", players)
  BY DEF MayWait
<1>2. QED BY <1>1, StopRequestedSound, StopScheduledSound DEF Abandoned

LEMMA DesiredChangedSound ==
  ASSUME NEW x, NEW players, NEW away, NEW over, NEW io \in Outcome,
         Context(players, away, over), Sound(x, players, away, over)
  PROVE  /\ Sound(DesiredChanged(x, io), players, away, over)
         /\ Timed(x) => Timed(DesiredChanged(x, io))
         /\ Retried(x) => Retried(DesiredChanged(x, io))
<1> DEFINE g == [x EXCEPT !.grace = "none", !.graceOf = "none"]
           noGrace == WindowCleared(g)
           first == FirstEnsured(x)
           a == AllCleared(x)
<1>1. /\ Sound(noGrace, players, away, over) /\ Timed(noGrace)
      /\ Retried(x) => Retried(noGrace)
  <2>1. Sound(g, players, away, over)
    BY TimersDropped
  <2>2. Retried(x) => Retried(g)
    BY DEF Sound, State, Retried
  <2> HIDE DEF g
  <2>3. QED BY <2>1, <2>2, WindowClearedSound DEF Timed
<1>2. /\ Sound(Abandoned(noGrace, io), players, away, over)
      /\ Timed(Abandoned(noGrace, io))
      /\ Retried(noGrace) => Retried(Abandoned(noGrace, io))
  BY <1>1, AbandonedSound
<1>3. /\ Sound(first, players, away, over)
      /\ Timed(x) => Timed(first)
      /\ Retried(x) => Retried(first)
  BY FirstEnsuredSound
<1>4. ASSUME ~(ManagedWindow(x) /\ x.want # "shutdown"), Suppressed(x)
      PROVE  /\ Sound(Restored(a), players, away, over)
             /\ Timed(x) => Timed(Restored(a))
             /\ Retried(x) => Retried(Restored(a))
  <2>1. ~Waits(x)
    BY <1>4 DEF Suppressed, Waits, ManagedWindow
  <2>2. /\ Sound(a, players, away, over) /\ ~Waits(a)
        /\ Timed(x) => Timed(a)
        /\ Retried(x) => Retried(a)
    BY <2>1, AllClearedSound
  <2> HIDE DEF a
  <2>3. QED BY <2>2, RestoredSound, RestoredKeeps DEF Sound
<1>5. Resumable(x) =>
        /\ Sound(ShutdownResumed(x, io), players, away, over)
        /\ Timed(ShutdownResumed(x, io))
        /\ Retried(x) => Retried(ShutdownResumed(x, io))
  BY ShutdownResumedSound
<1>6. /\ Sound(ResetScheduled(x, FALSE, "claimless"), players, away, over)
      /\ Timed(x) => Timed(ResetScheduled(x, FALSE, "claimless"))
      /\ Retried(x) => Retried(ResetScheduled(x, FALSE, "claimless"))
  <2>1. MayWait(x, "claimless", players)
    BY DEF MayWait
  <2>2. QED BY <2>1, ResetScheduledSound
<1>7. /\ Sound(StopRequested(first, io), players, away, over)
      /\ Timed(first) => Timed(StopRequested(first, io))
      /\ Retried(first) => Retried(StopRequested(first, io))
  BY <1>3, StopRequestedSound
<1>8. DesiredChanged(x, io) =
        IF ManagedWindow(x) /\ x.want # "shutdown" THEN x
        ELSE IF Suppressed(x) /\ ~x.seen THEN Restored(a)
        ELSE IF x.grace # "none" /\ ~Recycling(x)
        THEN IF Suppressed(x) THEN x ELSE Abandoned(noGrace, io)
        ELSE IF Resumable(x) THEN ShutdownResumed(x, io)
        ELSE IF Nobody /\ ~Suspended(x) /\ Recycling(x)
        THEN IF x.resetting THEN x ELSE ResetScheduled(x, FALSE, "claimless")
        ELSE IF x.want = "shutdown" /\ Nobody THEN StopRequested(first, io) ELSE first
  BY DEF DesiredChanged
<1> HIDE DEF noGrace, first, a, g
<1>9. QED BY <1>1, <1>2, <1>3, <1>4, <1>5, <1>6, <1>7, <1>8

LEMMA DesiredAppliedSound ==
  ASSUME NEW x, NEW players, NEW away, NEW over, NEW io \in Outcome,
         NEW next \in Wanted, NEW changed,
         Context(players, away, over), Sound(x, players, away, over)
  PROVE  /\ Sound(DesiredApplied(x, next, changed, io), players, away, over)
         /\ Timed(x) => Timed(DesiredApplied(x, next, changed, io))
         /\ Retried(x) => Retried(DesiredApplied(x, next, changed, io))
<1> DEFINE r == x.resumed /\ next = "shutdown"
           y == [x EXCEPT !.want = next, !.resumed = r]
           shuts == next = "shutdown" /\ x.want # "shutdown"
           z == IF shuts THEN Marked(y, io.mark) ELSE y
<1>1. DesiredApplied(x, next, changed, io) =
        IF ~changed THEN IF Resumable(y) THEN ShutdownResumed(y, io) ELSE y
        ELSE IF shuts /\ ~io.mark THEN StopRequested(z, io)
        ELSE DesiredChanged(z, io)
  BY DEF DesiredApplied
<1>2. /\ Sound(y, players, away, over)
      /\ Timed(x) => Timed(y)
      /\ Retried(x) => Retried(y)
  <2>1. r \in BOOLEAN
    OBVIOUS
  <2> HIDE DEF r
  <2>2. y \in State
    BY <2>1, ZenonT(90) DEF Sound, State
  <2>3. Rules(y, players, away, over)
    BY DEF Sound, Rules, State, Waits, Locked, ManagedWindow
  <2>4. QED BY <2>2, <2>3 DEF Sound, State, Waits, Timed, Retried
<1> HIDE DEF y
<1>3. /\ Sound(z, players, away, over)
      /\ Timed(y) => Timed(z)
      /\ Retried(y) => Retried(z)
  <2>1. io.mark \in BOOLEAN
    BY DEF Outcome
  <2>2. QED BY <1>2, <2>1, MarkedSound
<1> HIDE DEF z
<1>4. Resumable(y) =>
        /\ Sound(ShutdownResumed(y, io), players, away, over)
        /\ Timed(ShutdownResumed(y, io))
        /\ Retried(y) => Retried(ShutdownResumed(y, io))
  BY <1>2, ShutdownResumedSound
<1>5. /\ Sound(StopRequested(z, io), players, away, over)
      /\ Timed(z) => Timed(StopRequested(z, io))
      /\ Retried(z) => Retried(StopRequested(z, io))
  BY <1>3, StopRequestedSound
<1>6. /\ Sound(DesiredChanged(z, io), players, away, over)
      /\ Timed(z) => Timed(DesiredChanged(z, io))
      /\ Retried(z) => Retried(DesiredChanged(z, io))
  BY <1>3, DesiredChangedSound
<1>7. QED BY <1>1, <1>2, <1>3, <1>4, <1>5, <1>6

\* What is owed is owed for runtimes nobody of the customer plays on.
LEMMA RecoveryHeardSound ==
  ASSUME NEW x, NEW players, NEW away, NEW over, NEW io \in Outcome,
         Context(players, away, over), Sound(x, players, away, over)
  PROVE  /\ Sound(RecoveryHeard(x, io), players, away, over)
         /\ Timed(x) => Timed(RecoveryHeard(x, io))
         /\ Retried(x) => Retried(RecoveryHeard(x, io))
<1> DEFINE a == [x EXCEPT !.committed = TRUE, !.durable = FALSE, !.passive = TRUE]
           y == Published(a)
<1>1. RecoveryHeard(x, io) =
        IF x.committed \/ ~x.required \/ x.journal THEN x
        ELSE IF x.want = "shutdown" THEN StopRequested(y, io)
        ELSE ResetStarted(y, io)
  BY DEF RecoveryHeard
<1>2. CASE x.committed \/ ~x.required \/ x.journal
  BY <1>1, <1>2
<1>3. CASE ~(x.committed \/ ~x.required \/ x.journal)
  <2>1. y = [x EXCEPT !.committed = TRUE, !.durable = FALSE, !.passive = TRUE, !.ready = FALSE]
    BY DEF Published, Sound, State
  <2> HIDE DEF y
  <2>2. y \in State
    BY <2>1, ZenonT(90) DEF Sound, State
  <2>3. players = {}
    BY <1>3 DEF Context, Sound, Rules, Locked, ManagedWindow
  <2>4. Rules(y, players, away, over)
    BY <1>3, <2>1, <2>3 DEF Sound, Rules, State, Waits, Locked, ManagedWindow
  <2>5. (Timed(x) => Timed(y)) /\ (Retried(x) => Retried(y))
    BY <2>1 DEF Sound, State, Waits, Timed, Retried
  <2>6. Sound(y, players, away, over)
    BY <2>2, <2>4 DEF Sound
  <2>7. /\ Sound(StopRequested(y, io), players, away, over)
        /\ Timed(y) => Timed(StopRequested(y, io))
        /\ Retried(y) => Retried(StopRequested(y, io))
    BY <2>6, StopRequestedSound
  <2>8. /\ Sound(ResetStarted(y, io), players, away, over)
        /\ Timed(ResetStarted(y, io))
        /\ Retried(y) => Retried(ResetStarted(y, io))
    BY <2>6, ResetStartedSound
  <2>9. QED BY <1>1, <1>3, <2>5, <2>7, <2>8
<1>4. QED BY <1>2, <1>3

-----------------------------------------------------------------------------
(* Viewers.                                                                *)

\* Fewer players, and all of them away, are no harm.
LEMMA SoundShrinks ==
  ASSUME NEW x, NEW players, NEW away, NEW over, Sound(x, players, away, over),
         NEW fewer, fewer \subseteq players, NEW gone, away => gone
  PROVE  Sound(x, fewer, gone, over)
BY DEF Sound, Rules

\* Where the gate is open and no recovery is owed, somebody may come.
LEMMA SoundOpens ==
  ASSUME NEW x, NEW players, NEW away, NEW over, Sound(x, players, away, over),
         x.gate = "open", ~x.required
  PROVE  Sound(x, players, FALSE, over)
BY DEF Sound, Rules

LEMMA ViewerSeenSound ==
  ASSUME NEW x, NEW players, NEW away, NEW over, Sound(x, players, away, over),
         NEW p \in Viewers, NEW status, NEW now,
         now \subseteq Managed, now \subseteq players \cup {p},
         ViewerIsLate(x) \/ p \notin Managed \/ status = "pending" => p \notin now
  PROVE  /\ Sound(ViewerSeen(x, p, status), now, away, over)
         /\ Timed(x) => Timed(ViewerSeen(x, p, status))
         /\ Retried(x) => Retried(ViewerSeen(x, p, status))
<1> DEFINE m == x.seenManaged \/ p \in Managed
           k == x.known \cup ({p} \cap Managed)
           y == [x EXCEPT !.seen = TRUE, !.seenManaged = m, !.known = k]
           inWindow == IF p \in Managed THEN status = "pending" ELSE x.window = "managed"
           l == [x EXCEPT !.known = @ \ {p}]
           a == [y EXCEPT !.resetting = FALSE, !.launched = FALSE, !.passive = FALSE,
                          !.exit = FALSE, !.zero = "none", !.first = FALSE,
                          !.grace = "none", !.graceOf = "none"]
           c == WindowCleared(a)
<1>1. ViewerSeen(x, p, status) =
        IF ViewerIsLate(x) THEN l
        ELSE IF x.phase = "waiting" /\ inWindow THEN y ELSE Restored(c)
  BY DEF ViewerSeen
<1>2. x.known \subseteq Managed
  BY DEF Sound, State
<1>3. CASE ViewerIsLate(x)
  <2>1. l \in State
    <3>1. x.known \ {p} \in SUBSET Managed
      BY <1>2
    <3>2. QED BY <3>1, ZenonT(90) DEF Sound, State
  <2>2. now \subseteq players /\ now \subseteq x.known \ {p}
    BY <1>3 DEF Sound, Rules
  <2>3. Rules(l, now, away, over)
    BY <2>2 DEF Sound, Rules, State, Waits, Locked, ManagedWindow
  <2>4. (Timed(x) => Timed(l)) /\ (Retried(x) => Retried(l))
    BY DEF Sound, State, Waits, Timed, Retried
  <2>5. QED BY <1>1, <1>3, <2>1, <2>3, <2>4 DEF Sound
<1>4. y \in State
  <2>1. k \in SUBSET Managed /\ m \in BOOLEAN
    BY <1>2
  <2> HIDE DEF k, m
  <2>2. QED BY <2>1, ZenonT(90) DEF Sound, State
<1>5. now \subseteq y.known
  BY DEF Sound, Rules, State
<1>6. CASE ~ViewerIsLate(x) /\ x.phase = "waiting" /\ inWindow
  <2>1. now \subseteq players \/ ~Waits(x)
    BY <1>6 DEF Waits
  <2>2. Rules(y, now, away, over)
    BY <1>5, <1>6, <2>1 DEF ViewerIsLate, Sound, Rules, State, Waits, Locked, ManagedWindow
  <2>3. (Timed(x) => Timed(y)) /\ (Retried(x) => Retried(y))
    BY DEF Sound, State, Waits, Timed, Retried
  <2>4. QED BY <1>1, <1>4, <1>6, <2>2, <2>3 DEF Sound
<1>7. CASE ~ViewerIsLate(x) /\ ~(x.phase = "waiting" /\ inWindow)
  <2>1. a \in State
    <3>1. /\ "none" \in Owners \cup {"plain"} /\ "none" \in Owners
          /\ "none" \in {"none", "reset", "warm"} /\ FALSE \in BOOLEAN
      BY DEF Owners
    <3> HIDE DEF y
    <3>2. QED BY <1>4, <3>1, ZenonT(180) DEF State
  <2>2. c \in State
    <3>1. ASSUME NEW b \in State PROVE WindowCleared(b) \in State
      <4>1. [b EXCEPT !.phase = "inactive", !.window = "none", !.due = FALSE] \in State
        BY ZenonT(90) DEF State, Owners
      <4>2. QED BY <4>1 DEF WindowCleared
    <3> HIDE DEF a
    <3>2. QED BY <2>1, <3>1
  <2>3. ~x.committed /\ x.phase # "persisting"
    BY <1>7 DEF ViewerIsLate, Locked, Sound, Rules
  <2>4. Rules(c, now, away, over)
    BY <1>5, <2>3 DEF WindowCleared, Sound, Rules, State, Waits, Locked, ManagedWindow
  <2>5. ~Waits(c) /\ Retried(c)
    BY <2>3 DEF WindowCleared, Sound, State, Waits, Retried
  <2> HIDE DEF c
  <2>6. /\ Sound(Restored(c), now, away, over)
        /\ Timed(Restored(c)) /\ Retried(Restored(c))
    BY <2>2, <2>4, <2>5, RestoredSound, RestoredKeeps DEF Sound, Timed
  <2>7. QED BY <1>1, <1>7, <2>6
<1>8. QED BY <1>3, <1>6, <1>7

LEMMA ZeroViewersSound ==
  ASSUME NEW x, NEW players, NEW away, NEW over, NEW who \in {"claimless", "managed"},
         Sound(x, players, away, over), MayWait(x, who, players)
  PROVE  /\ Sound(ZeroViewers(x, who), players, away, over)
         /\ Timed(x) => Timed(ZeroViewers(x, who))
         /\ Retried(x) => Retried(ZeroViewers(x, who))
BY ResetScheduledSound, WarmScheduledSound, StopScheduledSound DEF ZeroViewers

LEMMA ViewerGoneSound ==
  ASSUME NEW x, NEW players, NEW away, NEW over, NEW p \in Viewers,
         Sound(x, players, away, over), p \in Managed => ~away,
         NEW gone, away => gone
  PROVE  /\ Sound(ViewerGone(x, p), players \ {p}, gone, over)
         /\ Timed(x) => Timed(ViewerGone(x, p))
         /\ Retried(x) => Retried(ViewerGone(x, p))
<1> DEFINE k == x.known \ {p}
           y == [x EXCEPT !.known = k]
           now == players \ {p}
           e == [y EXCEPT !.settling = TRUE]
           others == \E q \in Viewers \ {p} : viewers[q] # "away"
<1>1. ViewerGone(x, p) =
        IF Locked(x) THEN x
        ELSE IF p \in x.known THEN IF y.known # {} THEN y ELSE ZeroViewers(y, "managed")
        ELSE IF (x.phase = "waiting" /\ x.window = "managed") \/ others THEN y ELSE e
  BY DEF ViewerGone
<1>2. Sound(x, now, gone, over)
  BY SoundShrinks
<1>3. x.known \subseteq Managed
  BY DEF Sound, State
<1>4. now \subseteq k
  BY DEF Sound, Rules
<1>5. /\ Sound(y, now, gone, over)
      /\ Timed(x) => Timed(y)
      /\ Retried(x) => Retried(y)
      /\ y.known = k /\ y.recycle = x.recycle /\ y.committed = x.committed
  <2>1. y \in State
    <3>1. k \in SUBSET Managed
      BY <1>3
    <3> HIDE DEF k
    <3>2. QED BY <3>1, ZenonT(90) DEF Sound, State
  <2>2. Rules(y, now, gone, over)
    BY <1>2, <1>4 DEF Sound, Rules, State, Waits, Locked, ManagedWindow
  <2>3. QED BY <1>2, <2>1, <2>2 DEF Sound, State, Waits, Timed, Retried
<1> HIDE DEF y
<1>6. /\ Sound(e, now, gone, over)
      /\ Timed(y) => Timed(e)
      /\ Retried(y) => Retried(e)
  <2>1. e \in State
    BY <1>5, ZenonT(90) DEF Sound, State
  <2>2. Rules(e, now, gone, over)
    BY <1>5 DEF Sound, Rules, State, Waits, Locked, ManagedWindow
  <2>3. Timed(y) => Timed(e)
    BY <1>5 DEF Sound, State, Waits, Timed
  <2>4. Retried(y) => Retried(e)
    BY <1>5 DEF Sound, State, Retried
  <2>5. Sound(e, now, gone, over)
    BY <2>1, <2>2 DEF Sound
  <2>6. QED BY <2>3, <2>4, <2>5
<1> HIDE DEF e
<1>7. ASSUME ~Locked(x), p \in x.known, k = {}
      PROVE  /\ Sound(ZeroViewers(y, "managed"), now, gone, over)
             /\ Timed(y) => Timed(ZeroViewers(y, "managed"))
             /\ Retried(y) => Retried(ZeroViewers(y, "managed"))
  <2>1. now = {} /\ ~away
    BY <1>3, <1>4, <1>7
  <2>2. MayWait(y, "managed", now)
    BY <1>5, <1>7, <2>1 DEF MayWait, Sound, Rules
  <2>3. QED BY <1>5, <2>2, ZeroViewersSound
<1>8. QED BY <1>1, <1>2, <1>5, <1>6, <1>7

-----------------------------------------------------------------------------
(* The instance agent.                                                     *)

LEMMA EvidenceSecuredSound ==
  ASSUME NEW x, NEW players, NEW away, NEW over, NEW io \in Outcome,
         Sound(x, players, away, over), x.journal
  PROVE  /\ Sound(EvidenceSecured(x, io), players, away, over)
         /\ Timed(x) => Timed(EvidenceSecured(x, io))
         /\ Retried(x) => Retried(EvidenceSecured(x, io))
<1> DEFINE y == Marked(x, io.mark)
           z == [y EXCEPT !.secured = io.mark, !.required = @ \/ io.mark]
<1>1. io.mark \in BOOLEAN
  BY DEF Outcome
<1>2. /\ Sound(y, players, away, over)
      /\ Timed(x) => Timed(y)
      /\ Retried(x) => Retried(y)
      /\ io.mark => y.gate = "latched"
  BY <1>1, MarkedSound
<1>3. y.journal
  BY DEF Marked, Sound, State
<1> HIDE DEF y
<1>4. z \in State
  <2> DEFINE j == io.mark
             k == y.required \/ io.mark
  <2>1. j \in BOOLEAN /\ k \in BOOLEAN /\ z = [y EXCEPT !.secured = j, !.required = k]
    BY <1>1, <1>2 DEF Sound, State
  <2>2. y \in State
    BY <1>2 DEF Sound
  <2> HIDE DEF j, k, z
  <2>3. QED BY <2>1, <2>2, ZenonT(90) DEF State
<1>5. Rules(z, players, away, over)
  BY <1>1, <1>2, <1>3 DEF Sound, Rules, State, Waits, Locked, ManagedWindow
<1>6. (Timed(y) => Timed(z)) /\ (Retried(y) => Retried(z))
  BY <1>2 DEF Sound, State, Waits, Timed, Retried
<1>7. QED BY <1>2, <1>4, <1>5, <1>6 DEF EvidenceSecured, Sound, y

LEMMA AcknowledgedSound ==
  ASSUME NEW x, NEW players, NEW away, NEW over, NEW io \in Outcome, NEW removed \in BOOLEAN,
         Context(players, away, over), Sound(x, players, away, over), x.journal, x.secured
  PROVE  /\ Sound(Acknowledged(x, removed, io), players, away, over)
         /\ Timed(x) => Timed(Acknowledged(x, removed, io))
         /\ Retried(x) => Retried(Acknowledged(x, removed, io))
<1> DEFINE y == [x EXCEPT !.required = TRUE, !.journal = ~removed]
<1>1. y \in State
  <2> DEFINE n == ~removed
  <2>1. n \in BOOLEAN /\ y = [x EXCEPT !.required = TRUE, !.journal = n]
    OBVIOUS
  <2> HIDE DEF n, y
  <2>2. QED BY <2>1, ZenonT(90) DEF Sound, State
<1>2. Rules(y, players, away, over)
  BY DEF Sound, Rules, State, Waits, Locked, ManagedWindow
<1>3. (Timed(x) => Timed(y)) /\ (Retried(x) => Retried(y))
  BY DEF Sound, State, Waits, Timed, Retried
<1>4. Sound(y, players, away, over)
  BY <1>1, <1>2 DEF Sound
<1> HIDE DEF y
<1>5. QED BY <1>3, <1>4, RecoveryHeardSound DEF Acknowledged, y

LEMMA DesiredConfirmedSound ==
  ASSUME NEW x, NEW players, NEW away, NEW over, NEW io \in Outcome,
         NEW next \in Wanted, NEW changed,
         Context(players, away, over), Sound(x, players, away, over)
  PROVE  /\ Sound(DesiredConfirmed(x, next, changed, io), players, away, over)
         /\ Timed(x) => Timed(DesiredConfirmed(x, next, changed, io))
         /\ Retried(x) => Retried(DesiredConfirmed(x, next, changed, io))
<1> DEFINE heard == changed \/ ~x.confirmed
           a == IF heard THEN DesiredApplied(x, next, changed, io) ELSE x
           y == [a EXCEPT !.confirmed = TRUE]
           z == [y EXCEPT !.deferred = FALSE, !.required = TRUE]
<1>1. DesiredConfirmed(x, next, changed, io) =
        IF y.deferred /\ next # "shutdown" THEN RecoveryHeard(z, io)
        ELSE IF ~x.confirmed THEN RecoveryHeard(y, io) ELSE y
  BY DEF DesiredConfirmed
<1>2. /\ Sound(a, players, away, over)
      /\ Timed(x) => Timed(a)
      /\ Retried(x) => Retried(a)
  BY DesiredAppliedSound
<1> HIDE DEF a
<1>3. /\ Sound(y, players, away, over)
      /\ Timed(a) => Timed(y)
      /\ Retried(a) => Retried(y)
  <2>1. y \in State
    BY <1>2, ZenonT(90) DEF Sound, State
  <2>2. Rules(y, players, away, over)
    BY <1>2 DEF Sound, Rules, State, Waits, Locked, ManagedWindow
  <2>3. QED BY <1>2, <2>1, <2>2 DEF Sound, State, Waits, Timed, Retried
<1> HIDE DEF y
<1>4. ASSUME y.deferred
      PROVE  /\ Sound(z, players, away, over)
             /\ Timed(y) => Timed(z)
             /\ Retried(y) => Retried(z)
  <2>1. z \in State
    BY <1>3, ZenonT(90) DEF Sound, State
  <2>2. Rules(z, players, away, over)
    BY <1>3, <1>4 DEF Sound, Rules, State, Waits, Locked, ManagedWindow
  <2>3. QED BY <1>3, <2>1, <2>2 DEF Sound, State, Waits, Timed, Retried
<1> HIDE DEF z
<1>5. CASE y.deferred /\ next # "shutdown"
  BY <1>1, <1>2, <1>3, <1>4, <1>5, RecoveryHeardSound
<1>6. CASE ~(y.deferred /\ next # "shutdown")
  BY <1>1, <1>2, <1>3, <1>6, RecoveryHeardSound
<1>7. QED BY <1>5, <1>6

-----------------------------------------------------------------------------
(* A process starts.                                                       *)

LEMMA FreshIsState == Fresh \in State
BY AttemptAssumption DEF Fresh, State, Owners, Wanted

LEMMA SurvivorIsState ==
  ASSUME NEW w \in Wanted, NEW g \in {"open", "failed", "latched"},
         NEW j \in BOOLEAN, NEW m \in BOOLEAN, NEW h \in BOOLEAN
  PROVE  [Fresh EXCEPT !.want = w, !.gate = g, !.journal = j, !.marker = m,
                       !.helper = h] \in State
BY FreshIsState, ZenonT(180) DEF State

LEMMA OpeningIsState ==
  ASSUME NEW gate \in {"open", "failed", "latched"}, NEW j \in BOOLEAN, NEW m \in BOOLEAN,
         NEW h \in BOOLEAN, NEW r \in BOOLEAN, NEW d \in BOOLEAN
  PROVE  [Fresh EXCEPT !.gate = gate, !.journal = j, !.marker = m,
                       !.helper = h, !.required = r, !.deferred = d] \in State
BY FreshIsState, ZenonT(180) DEF State

LEMMA StartedSound ==
  ASSUME NEW x, NEW over \in BOOLEAN, NEW io \in Outcome,
         NEW gate \in {"open", "failed", "latched"},
         x.journal \in BOOLEAN, x.marker \in BOOLEAN, x.helper \in BOOLEAN, x.want \in Wanted,
         x.helper => gate = "latched", over => x.journal \/ gate = "latched"
  PROVE  /\ Sound(Started(x, gate, io), {}, TRUE, over)
         /\ Timed(Started(x, gate, io))
         /\ Retried(Started(x, gate, io))
<1> DEFINE j == x.journal
           m == x.marker
           h == x.helper
           r == x.journal \/ x.marker
           d == ~x.journal /\ ~x.marker /\ gate = "latched"
           y == [Fresh EXCEPT !.gate = gate, !.journal = j, !.marker = m,
                              !.helper = h, !.required = r, !.deferred = d]
           z == RecoveryHeard(y, io)
<1>1. /\ j \in BOOLEAN /\ m \in BOOLEAN /\ h \in BOOLEAN /\ r \in BOOLEAN /\ d \in BOOLEAN
      /\ h => gate = "latched"
      /\ d => gate = "latched"
      /\ j => r
      /\ over => j \/ gate = "latched"
  OBVIOUS
<1>2. Started(x, gate, io) = DesiredApplied(z, x.want, TRUE, io)
  BY DEF Started
<1> HIDE DEF j, m, h, r, d
<1>3. y \in State
  BY <1>1, OpeningIsState
<1>4. Rules(y, {}, TRUE, over)
  BY <1>1 DEF Fresh, Rules, Waits, Locked, ManagedWindow
<1>5. Timed(y) /\ Retried(y)
  BY DEF Fresh, Timed, Waits, Retried
<1>6. Context({}, TRUE, over)
  BY DEF Context
<1> HIDE DEF y
<1>7. Sound(z, {}, TRUE, over) /\ Timed(z) /\ Retried(z)
  BY <1>3, <1>4, <1>5, <1>6, RecoveryHeardSound DEF Sound
<1> HIDE DEF z
<1>8. QED BY <1>2, <1>6, <1>7, DesiredAppliedSound

-----------------------------------------------------------------------------
(* The invariant.                                                          *)

Players == {p \in Managed : Playing(p)}

Away == \A p \in Managed : viewers[p] = "away"

\* What is left of a process that ended, until the next one starts.
AtRest ==
  /\ viewers = [p \in Viewers |-> "away"]
  /\ closing = {}
  /\ s.phase = "inactive" /\ s.window = "none"
  /\ ~s.committed /\ ~s.stopping
  /\ s.helper => s.gate = "latched"
  /\ elapsed /\ fate = "running" => s.journal \/ s.gate = "latched"

Inv ==
  /\ TypeOK
  /\ s.journal => elapsed
  /\ up => /\ fate = "running"
           /\ Sound(s, Players, Away, elapsed)
           /\ Timed(s) /\ Retried(s)
  /\ ~up => AtRest

\* What the handlers may ask of the viewers is true of them.
LEMMA ContextHolds == ASSUME Inv PROVE Context(Players, Away, elapsed)
<1>1. elapsed \in BOOLEAN /\ Players \subseteq Managed /\ Away \in BOOLEAN
  BY DEF Inv, TypeOK, Players, Away
<1>2. Away => Players = {}
  BY DEF Players, Away, Playing
<1>3. Nobody => Away
  BY DEF Nobody, Away, Viewers
<1>4. QED BY <1>1, <1>2, <1>3 DEF Context

\* A handler that keeps the rules of the record keeps the invariant.
LEMMA HandledKeeps ==
  ASSUME Inv, NEW x, Handled(x),
         viewers' \in [Viewers -> {"away", "pending", "live"}], closing' \subseteq Viewers,
         Sound(x, Players', Away', elapsed), Timed(x), Retried(x)
  PROVE  Inv'
<1>1. /\ s' = x /\ up' = up /\ fate' = fate /\ up /\ fate = "running"
      /\ elapsed' = (elapsed \/ x.journal)
  BY DEF Handled, Alive
<1>2. x \in State /\ x.journal \in BOOLEAN /\ elapsed \in BOOLEAN
  BY DEF Sound, State, Inv, TypeOK
<1>3. Sound(x, Players', Away', elapsed')
  BY <1>1, <1>2 DEF Sound, Rules
<1>4. TypeOK'
  BY <1>1, <1>2 DEF Inv, TypeOK
<1>5. Timed(s') /\ Retried(s') /\ Sound(s', Players', Away', elapsed')
  BY <1>1, <1>3
<1>6. s'.journal => elapsed'
  BY <1>1
<1>7. QED BY <1>1, <1>4, <1>5, <1>6 DEF Inv, Timed, Waits, Retried

LEMMA QuietlyKeeps ==
  ASSUME Inv, NEW x, Quietly(x), Sound(x, Players, Away, elapsed), Timed(x), Retried(x)
  PROVE  Inv'
<1>1. viewers' = viewers /\ closing' = closing /\ Handled(x)
  BY DEF Quietly
<1>2. Players' = Players /\ Away' = Away
  BY <1>1 DEF Players, Away, Playing
<1>3. /\ viewers' \in [Viewers -> {"away", "pending", "live"}]
      /\ closing' \subseteq Viewers
  BY <1>1 DEF Inv, TypeOK
<1>4. QED BY <1>1, <1>2, <1>3, HandledKeeps

\* The process goes, and what it leaves is fenced.
LEMMA GoneKeeps ==
  ASSUME Inv, NEW x \in State, Gone(x), fate' \in {"running", "replaced", "stopped"},
         x.helper => x.gate = "latched", x.journal => elapsed,
         elapsed /\ fate' = "running" => x.journal \/ x.gate = "latched"
  PROVE  Inv'
<1> DEFINE w == x.want
           g == x.gate
           j == x.journal
           m == x.marker
           h == x.helper
           y == [Fresh EXCEPT !.want = w, !.gate = g, !.journal = j, !.marker = m,
                              !.helper = h]
<1>1. /\ w \in Wanted /\ g \in {"open", "failed", "latched"}
      /\ j \in BOOLEAN /\ m \in BOOLEAN /\ h \in BOOLEAN
  BY DEF State
<1>2. s' = y /\ ~up' /\ elapsed' = elapsed /\ closing' = {}
      /\ viewers' = [p \in Viewers |-> "away"]
  BY DEF Gone, Survivor
<1>3. y.helper = h /\ y.gate = g /\ y.journal = j
      /\ y.phase = "inactive" /\ y.window = "none" /\ ~y.committed /\ ~y.stopping
  BY DEF Fresh
<1>4. y \in State
  BY <1>1, SurvivorIsState
<1> HIDE DEF y
<1>5. TypeOK'
  <2>1. up' \in BOOLEAN
    BY DEF Gone
  <2>2. QED BY <1>2, <1>4, <2>1 DEF Inv, TypeOK
<1>6. AtRest'
  BY <1>2, <1>3 DEF AtRest
<1>7. s'.journal => elapsed'
  BY <1>2, <1>3
<1>8. QED BY <1>2, <1>5, <1>6, <1>7 DEF Inv

-----------------------------------------------------------------------------
(* The steps of the viewers.                                               *)

\* What the invariant says while the process runs.
LEMMA AliveIsSound ==
  ASSUME Inv, Alive
  PROVE  /\ Sound(s, Players, Away, elapsed) /\ Timed(s) /\ Retried(s) /\ s \in State
         /\ viewers \in [Viewers -> {"away", "pending", "live"}] /\ closing \subseteq Viewers
BY DEF Inv, Alive, TypeOK

LEMMA AppearsKeeps ==
  ASSUME Inv, NEW p \in Viewers, NEW status \in {"pending", "live"},
         NEW away, Sound(s, Players, away, elapsed),
         away => viewers[p] # "away" \/ p \notin Managed, away => Away,
         Appears(p, status)
  PROVE  Inv'
<1> DEFINE x == ViewerSeen(s, p, status)
<1>1. /\ Handled(x)
      /\ viewers' = [viewers EXCEPT ![p] = status]
      /\ closing' = IF ViewerIsLate(s) THEN closing \cup {p} ELSE closing
  BY DEF Appears
<1>2. /\ Timed(s) /\ Retried(s)
      /\ viewers \in [Viewers -> {"away", "pending", "live"}] /\ closing \subseteq Viewers
  BY <1>1, AliveIsSound DEF Handled
<1>3. /\ viewers' \in [Viewers -> {"away", "pending", "live"}] /\ closing' \subseteq Viewers
  BY <1>1, <1>2
<1>4. Players' \subseteq Managed /\ Players' \subseteq Players \cup {p}
  BY <1>1, <1>2 DEF Players, Playing, Viewers
<1>5. ViewerIsLate(s) \/ p \notin Managed \/ status = "pending" => p \notin Players'
  BY <1>1, <1>2 DEF Players, Playing
<1>6. away => Away'
  BY <1>1, <1>2 DEF Away, Viewers
<1>7. Sound(x, Players', away, elapsed) /\ Timed(x) /\ Retried(x)
  BY <1>2, <1>4, <1>5, ViewerSeenSound
<1> HIDE DEF x
<1>8. Sound(x, Players', Away', elapsed)
  BY <1>6, <1>7, SoundShrinks
<1>9. QED BY <1>1, <1>3, <1>7, <1>8, HandledKeeps

LEMMA ConnectKeeps == ASSUME Inv, NEW p \in Viewers, Connect(p) PROVE Inv'
<1>1. Sound(s, Players, Away, elapsed)
  BY AliveIsSound DEF Connect, Appears, Handled
<1>2. CASE p \in Managed
  <2>1. Sound(s, Players, FALSE, elapsed) /\ Appears(p, "pending")
    BY <1>1, <1>2, SoundOpens DEF Connect, Admitted
  <2>2. QED BY <2>1, AppearsKeeps
<1>3. CASE p \notin Managed
  <2>1. Appears(p, "live")
    BY <1>3 DEF Connect
  <2>2. QED BY <1>1, <1>3, <2>1, AppearsKeeps
<1>4. QED BY <1>2, <1>3

LEMMA NegotiateKeeps == ASSUME Inv, NEW p \in Viewers, Negotiate(p) PROVE Inv'
<1>1. Sound(s, Players, Away, elapsed) /\ viewers[p] # "away" /\ Appears(p, "live")
  BY AliveIsSound DEF Negotiate, Appears, Handled
<1>2. QED BY <1>1, AppearsKeeps

LEMMA PauseKeeps == ASSUME Inv, NEW p \in Viewers, Pause(p) PROVE Inv'
<1>1. /\ Handled(s) /\ closing' = closing /\ p \in Managed /\ viewers[p] = "live"
      /\ viewers' = [viewers EXCEPT ![p] = "pending"]
  BY DEF Pause
<1>2. /\ Sound(s, Players, Away, elapsed) /\ Timed(s) /\ Retried(s)
      /\ viewers \in [Viewers -> {"away", "pending", "live"}] /\ closing \subseteq Viewers
  BY <1>1, AliveIsSound DEF Handled
<1>3. viewers' \in [Viewers -> {"away", "pending", "live"}] /\ closing' \subseteq Viewers
  BY <1>1, <1>2
<1>4. Players' \subseteq Players /\ ~Away
  BY <1>1, <1>2 DEF Players, Playing, Viewers, Away
<1>5. Sound(s, Players', Away', elapsed)
  BY <1>2, <1>4, SoundShrinks
<1>6. QED BY <1>1, <1>2, <1>3, <1>5, HandledKeeps

LEMMA DisconnectKeeps == ASSUME Inv, NEW p \in Viewers, Disconnect(p) PROVE Inv'
<1> DEFINE x == ViewerGone(s, p)
<1>1. /\ Handled(x) /\ closing' = closing \ {p} /\ viewers[p] # "away"
      /\ viewers' = [viewers EXCEPT ![p] = "away"]
  BY DEF Disconnect
<1>2. /\ Sound(s, Players, Away, elapsed) /\ Timed(s) /\ Retried(s)
      /\ viewers \in [Viewers -> {"away", "pending", "live"}] /\ closing \subseteq Viewers
  BY <1>1, AliveIsSound DEF Handled
<1>3. viewers' \in [Viewers -> {"away", "pending", "live"}] /\ closing' \subseteq Viewers
  BY <1>1, <1>2
<1>4. Players' = Players \ {p}
  BY <1>1, <1>2 DEF Players, Playing, Viewers
<1>5. (p \in Managed => ~Away) /\ (Away => Away')
  BY <1>1, <1>2 DEF Away, Viewers
<1>6. Sound(x, Players', Away', elapsed) /\ Timed(x) /\ Retried(x)
  BY <1>2, <1>4, <1>5, ViewerGoneSound
<1> HIDE DEF x
<1>7. QED BY <1>1, <1>3, <1>6, HandledKeeps

LEMMA SettleKeeps == ASSUME Inv, Settle PROVE Inv'
<1> DEFINE x == [s EXCEPT !.settling = FALSE]
           y == ZeroViewers(x, "claimless")
<1>1. Quietly(IF Nobody THEN y ELSE x)
  BY DEF Settle
<1>2. /\ Sound(s, Players, Away, elapsed) /\ Timed(s) /\ Retried(s) /\ s \in State
  BY <1>1, AliveIsSound DEF Quietly, Handled
<1>3. Sound(x, Players, Away, elapsed) /\ Timed(x) /\ Retried(x)
  <2>1. x \in State
    BY <1>2, ZenonT(90) DEF State
  <2>2. Rules(x, Players, Away, elapsed)
    BY <1>2 DEF Sound, Rules, State, Waits, Locked, ManagedWindow
  <2>3. QED BY <1>2, <2>1, <2>2 DEF Sound, State, Waits, Timed, Retried
<1> HIDE DEF x
<1>4. MayWait(x, "claimless", Players)
  BY DEF MayWait
<1>5. Sound(y, Players, Away, elapsed) /\ Timed(y) /\ Retried(y)
  BY <1>3, <1>4, ZeroViewersSound
<1> HIDE DEF y
<1>6. QED BY <1>1, <1>3, <1>5, QuietlyKeeps

-----------------------------------------------------------------------------
(* The steps of the timers.                                                *)

LEMMA DeadlineKeeps == ASSUME Inv, Deadline PROVE Inv'
<1> DEFINE x == [s EXCEPT !.due = TRUE]
<1>1. Quietly(x)
  BY DEF Deadline
<1>2. /\ Sound(s, Players, Away, elapsed) /\ Timed(s) /\ Retried(s) /\ s \in State
  BY <1>1, AliveIsSound DEF Quietly, Handled
<1>3. Sound(x, Players, Away, elapsed) /\ Timed(x) /\ Retried(x)
  <2>1. x \in State
    BY <1>2, ZenonT(90) DEF State
  <2>2. Rules(x, Players, Away, elapsed)
    BY <1>2 DEF Sound, Rules, State, Waits, Locked, ManagedWindow
  <2>3. QED BY <1>2, <2>1, <2>2 DEF Sound, State, Waits, Timed, Retried
<1> HIDE DEF x
<1>4. QED BY <1>1, <1>3, QuietlyKeeps

\* The timer of a customer's window that fires is gone; what follows needs none.
LEMMA ZeroFiresKeeps == ASSUME Inv, NEW io \in Outcome, ZeroFires(io) PROVE Inv'
<1> DEFINE x == [s EXCEPT !.zero = "none"]
           y == StopRequested(x, io)
           z == WindowEnded(x, "stop", s.zero, io)
<1>1. Quietly(IF s.zero = "plain" THEN y ELSE z) /\ s.zero # "none"
  BY DEF ZeroFires
<1>2. /\ Sound(s, Players, Away, elapsed) /\ Timed(s) /\ Retried(s) /\ s \in State
  BY <1>1, AliveIsSound DEF Quietly, Handled
<1>3. Sound(x, Players, Away, elapsed) /\ Retried(x)
  <2>1. x \in State
    BY <1>2, ZenonT(90) DEF State, Owners
  <2>2. Rules(x, Players, Away, elapsed)
    BY <1>2 DEF Sound, Rules, State, Waits, Locked, ManagedWindow
  <2>3. QED BY <1>2, <2>1, <2>2 DEF Sound, State, Retried
<1>4. s.zero = "plain" => Timed(x)
  BY <1>2 DEF Timed, Waits, State
<1> HIDE DEF x
<1>5. Context(Players, Away, elapsed)
  BY ContextHolds
<1>6. CASE s.zero = "plain"
  <2>1. Sound(y, Players, Away, elapsed) /\ Timed(y) /\ Retried(y)
    BY <1>3, <1>4, <1>5, <1>6, StopRequestedSound
  <2> HIDE DEF y
  <2>2. QED BY <1>1, <1>6, <2>1, QuietlyKeeps
<1>7. CASE s.zero # "plain"
  <2>1. Sound(z, Players, Away, elapsed) /\ Timed(z) /\ Retried(z)
    BY <1>3, <1>5, WindowEndedSound
  <2> HIDE DEF z
  <2>2. QED BY <1>1, <1>7, <2>1, QuietlyKeeps
<1>8. QED BY <1>6, <1>7

LEMMA GraceFiresKeeps == ASSUME Inv, NEW io \in Outcome, GraceFires(io) PROVE Inv'
<1> DEFINE x == [s EXCEPT !.grace = "none", !.graceOf = "none"]
           y == GraceEnded(x, s.grace, "claimless", io)
           z == WindowEnded(x, s.grace, s.graceOf, io)
<1>1. Quietly(IF s.graceOf = "none" THEN y ELSE z) /\ s.grace # "none"
  BY DEF GraceFires
<1>2. /\ Sound(s, Players, Away, elapsed) /\ Timed(s) /\ Retried(s) /\ s \in State
  BY <1>1, AliveIsSound DEF Quietly, Handled
<1>3. Sound(x, Players, Away, elapsed) /\ Retried(x)
  <2>1. Sound(x, Players, Away, elapsed)
    BY <1>2, TimersDropped
  <2>2. QED BY <1>2, <2>1 DEF State, Retried
<1>4. s.graceOf = "none" => ~Waits(x)
  BY <1>1, <1>2 DEF Timed, Waits, State
<1>5. s.grace \in {"reset", "warm"}
  BY <1>1, <1>2 DEF State
<1> HIDE DEF x
<1>6. Context(Players, Away, elapsed)
  BY ContextHolds
<1>7. CASE s.graceOf = "none"
  <2>1. Sound(y, Players, Away, elapsed) /\ Timed(y) /\ Retried(y)
    BY <1>3, <1>4, <1>6, <1>7, GraceEndedSound
  <2> HIDE DEF y
  <2>2. QED BY <1>1, <1>7, <2>1, QuietlyKeeps
<1>8. CASE s.graceOf # "none"
  <2>1. Sound(z, Players, Away, elapsed) /\ Timed(z) /\ Retried(z)
    BY <1>3, <1>5, <1>6, WindowEndedSound
  <2> HIDE DEF z
  <2>2. QED BY <1>1, <1>8, <2>1, QuietlyKeeps
<1>9. QED BY <1>7, <1>8

LEMMA FirstFiresKeeps == ASSUME Inv, NEW io \in Outcome, FirstFires(io) PROVE Inv'
<1> DEFINE x == [s EXCEPT !.first = FALSE]
           y == StopRequested(x, io)
<1>1. Quietly(x) \/ Quietly(y)
  BY DEF FirstFires
<1>2. /\ Sound(s, Players, Away, elapsed) /\ Timed(s) /\ Retried(s) /\ s \in State
  BY <1>1, AliveIsSound DEF Quietly, Handled
<1>3. Sound(x, Players, Away, elapsed) /\ Timed(x) /\ Retried(x)
  <2>1. Sound(x, Players, Away, elapsed)
    BY <1>2, TimersDropped
  <2>2. QED BY <1>2, <2>1 DEF State, Retried, Waits, Timed
<1> HIDE DEF x
<1>4. Context(Players, Away, elapsed)
  BY ContextHolds
<1>5. Sound(y, Players, Away, elapsed) /\ Timed(y) /\ Retried(y)
  BY <1>3, <1>4, StopRequestedSound
<1> HIDE DEF y
<1>6. QED BY <1>1, <1>3, <1>5, QuietlyKeeps

LEMMA EvidenceRetryFiresKeeps ==
  ASSUME Inv, NEW io \in Outcome, EvidenceRetryFires(io) PROVE Inv'
<1> DEFINE x == DeadlineDurable(s, io)
           y == [x EXCEPT !.resume = "none"]
           z == Continued(y, s.resume, s.window, io)
<1>1. Quietly(IF x.phase = "elapsed" THEN z ELSE x) /\ s.resume # "none"
  BY DEF EvidenceRetryFires
<1>2. /\ Sound(s, Players, Away, elapsed) /\ Timed(s) /\ Retried(s) /\ s \in State
  BY <1>1, AliveIsSound DEF Quietly, Handled
<1>3. Sound(x, Players, Away, elapsed) /\ ~Waits(x) /\ x.resume = s.resume
  BY <1>2, DeadlineDurableSound
<1> HIDE DEF x
<1>4. CASE x.phase = "elapsed"
  <2>1. y \in State
    BY <1>3, ZenonT(90) DEF Sound, State
  <2>2. Rules(y, Players, Away, elapsed)
    BY <1>3 DEF Sound, Rules, State, Waits, Locked, ManagedWindow
  <2>3. ~Waits(y) /\ Retried(y) /\ Sound(y, Players, Away, elapsed)
    BY <1>3, <1>4, <2>1, <2>2 DEF Sound, State, Waits, Retried
  <2> HIDE DEF y
  <2>4. Sound(z, Players, Away, elapsed) /\ Timed(z) /\ Retried(z)
    BY <2>3, ContextHolds, ContinuedSound
  <2> HIDE DEF z
  <2>5. QED BY <1>1, <1>4, <2>4, QuietlyKeeps
<1>5. CASE x.phase # "elapsed"
  <2>1. Timed(x) /\ Retried(x)
    BY <1>1, <1>3 DEF Timed, Retried
  <2>2. QED BY <1>1, <1>3, <1>5, <2>1, QuietlyKeeps
<1>6. QED BY <1>4, <1>5

LEMMA RecycleRetryFiresKeeps ==
  ASSUME Inv, NEW io \in Outcome, RecycleRetryFires(io) PROVE Inv'
<1> DEFINE x == [s EXCEPT !.recycle = FALSE]
           y == RecycleRequested(x, io)
<1>1. Quietly(y) /\ s.recycle
  BY DEF RecycleRetryFires
<1>2. /\ Sound(s, Players, Away, elapsed) /\ Timed(s) /\ Retried(s) /\ s \in State
  BY <1>1, AliveIsSound DEF Quietly, Handled
<1>3. Sound(x, Players, Away, elapsed) /\ Timed(x) /\ Retried(x)
  <2>1. x \in State
    BY <1>2, ZenonT(90) DEF State
  <2>2. Rules(x, Players, Away, elapsed)
    BY <1>2 DEF Sound, Rules, State, Waits, Locked, ManagedWindow
  <2>3. QED BY <1>2, <2>1, <2>2 DEF Sound, State, Waits, Timed, Retried
<1>4. Locked(x) \/ (Away /\ x.gate # "open" /\ ~Waits(x))
  BY <1>1, <1>2 DEF Sound, Rules, State, Locked, Waits
<1> HIDE DEF x
<1>5. Sound(y, Players, Away, elapsed) /\ Timed(y) /\ Retried(y)
  BY <1>3, <1>4, ContextHolds, RecycleRequestedSound
<1> HIDE DEF y
<1>6. QED BY <1>1, <1>5, QuietlyKeeps

-----------------------------------------------------------------------------
(* The steps of the stop, of maintenance and of the agent.                 *)

LEMMA StopFailsKeeps == ASSUME Inv, NEW io \in Outcome, StopFails(io) PROVE Inv'
<1> DEFINE x == [s EXCEPT !.stopping = FALSE]
           failed == Published(x)
           y == StopScheduled(failed, "plain")
<1>1. Quietly(failed) \/ Quietly(y)
  BY DEF StopFails
<1>2. /\ Sound(s, Players, Away, elapsed) /\ Timed(s) /\ Retried(s) /\ s \in State
  BY <1>1, AliveIsSound DEF Quietly, Handled
<1>3. Sound(x, Players, Away, elapsed) /\ Timed(x) /\ Retried(x)
  <2>1. x \in State
    BY <1>2, ZenonT(90) DEF State
  <2>2. Rules(x, Players, Away, elapsed)
    BY <1>2 DEF Sound, Rules, State, Waits, Locked, ManagedWindow
  <2>3. QED BY <1>2, <2>1, <2>2 DEF Sound, State, Waits, Timed, Retried
<1> HIDE DEF x
<1>4. Sound(failed, Players, Away, elapsed) /\ Timed(failed) /\ Retried(failed)
  BY <1>3, PublishedSound
<1> HIDE DEF failed
<1>5. MayWait(failed, "plain", Players)
  BY DEF MayWait
<1>6. Sound(y, Players, Away, elapsed) /\ Timed(y) /\ Retried(y)
  BY <1>4, <1>5, StopScheduledSound
<1> HIDE DEF y
<1>7. QED BY <1>1, <1>4, <1>6, QuietlyKeeps

LEMMA RefreshKeeps ==
  ASSUME Inv, NEW io \in Outcome, NEW mode \in {"on", "off"}, Refresh(mode, io) PROVE Inv'
<1> DEFINE x == [s EXCEPT !.maintenance = mode]
           y == IdleResumed(x, io)
           z == AllCleared(x)
<1>1. Quietly(y) \/ Quietly(s) \/ Quietly(z)
  BY DEF Refresh
<1>2. /\ Sound(s, Players, Away, elapsed) /\ Timed(s) /\ Retried(s) /\ s \in State
  BY <1>1, AliveIsSound DEF Quietly, Handled
<1>3. Sound(x, Players, Away, elapsed) /\ Timed(x) /\ Retried(x)
  <2>1. x \in State
    <3>1. mode \in {"unknown", "on", "off"}
      OBVIOUS
    <3>2. QED BY <1>2, <3>1, ZenonT(90) DEF State
  <2>2. Rules(x, Players, Away, elapsed)
    BY <1>2 DEF Sound, Rules, State, Waits, Locked, ManagedWindow
  <2>3. QED BY <1>2, <2>1, <2>2 DEF Sound, State, Waits, Timed, Retried
<1> HIDE DEF x
<1>4. Sound(y, Players, Away, elapsed) /\ Timed(y) /\ Retried(y)
  BY <1>3, ContextHolds, IdleResumedSound
<1>5. Sound(z, Players, Away, elapsed) /\ Timed(z) /\ Retried(z)
  BY <1>3, AllClearedSound
<1> HIDE DEF y, z
<1>6. QED BY <1>1, <1>2, <1>4, <1>5, QuietlyKeeps

LEMMA PollKeeps == ASSUME Inv, NEW io \in Outcome, Poll(io) PROVE Inv'
<1> DEFINE y == DesiredApplied(s, s.want, FALSE, io)
<1>1. Quietly(y)
  BY DEF Poll
<1>2. /\ Sound(s, Players, Away, elapsed) /\ Timed(s) /\ Retried(s) /\ s \in State
  BY <1>1, AliveIsSound DEF Quietly, Handled
<1>3. s.want \in Wanted
  BY <1>2 DEF State
<1>4. Sound(y, Players, Away, elapsed) /\ Timed(y) /\ Retried(y)
  BY <1>2, <1>3, ContextHolds, DesiredAppliedSound
<1> HIDE DEF y
<1>5. QED BY <1>1, <1>4, QuietlyKeeps

LEMMA SecureEvidenceKeeps == ASSUME Inv, NEW io \in Outcome, SecureEvidence(io) PROVE Inv'
<1> DEFINE y == EvidenceSecured(s, io)
<1>1. Quietly(y) /\ s.journal
  BY DEF SecureEvidence
<1>2. /\ Sound(s, Players, Away, elapsed) /\ Timed(s) /\ Retried(s)
  BY <1>1, AliveIsSound DEF Quietly, Handled
<1>3. Sound(y, Players, Away, elapsed) /\ Timed(y) /\ Retried(y)
  BY <1>1, <1>2, EvidenceSecuredSound
<1> HIDE DEF y
<1>4. QED BY <1>1, <1>3, QuietlyKeeps

LEMMA RespondKeeps ==
  ASSUME Inv, NEW io \in Outcome, NEW next \in Wanted, NEW changed \in BOOLEAN,
         Respond(next, changed, io)
  PROVE  Inv'
<1> DEFINE y == DesiredConfirmed(s, next, changed, io)
<1>1. Quietly(y)
  BY DEF Respond
<1>2. /\ Sound(s, Players, Away, elapsed) /\ Timed(s) /\ Retried(s)
  BY <1>1, AliveIsSound DEF Quietly, Handled
<1>3. Sound(y, Players, Away, elapsed) /\ Timed(y) /\ Retried(y)
  BY <1>2, ContextHolds, DesiredConfirmedSound
<1> HIDE DEF y
<1>4. QED BY <1>1, <1>3, QuietlyKeeps

LEMMA AcknowledgeKeeps ==
  ASSUME Inv, NEW io \in Outcome, NEW removed \in BOOLEAN, Acknowledge(removed, io)
  PROVE  Inv'
<1> DEFINE y == Acknowledged(s, removed, io)
<1>1. Quietly(y) /\ s.journal /\ s.secured
  BY DEF Acknowledge
<1>2. /\ Sound(s, Players, Away, elapsed) /\ Timed(s) /\ Retried(s)
  BY <1>1, AliveIsSound DEF Quietly, Handled
<1>3. Sound(y, Players, Away, elapsed) /\ Timed(y) /\ Retried(y)
  BY <1>1, <1>2, ContextHolds, AcknowledgedSound
<1> HIDE DEF y
<1>4. QED BY <1>1, <1>3, QuietlyKeeps

-----------------------------------------------------------------------------
(* The process ends and starts.                                            *)

\* What a process leaves behind is fenced already.
LEMMA Fences ==
  ASSUME Inv
  PROVE  /\ s \in State
         /\ s.journal => elapsed
         /\ s.helper => s.gate = "latched"
         /\ elapsed /\ fate = "running" => s.journal \/ s.gate = "latched"
<1>1. s \in State /\ (s.journal => elapsed)
  BY DEF Inv, TypeOK
<1>2. CASE up
  BY <1>1, <1>2 DEF Inv, Sound, Rules
<1>3. CASE ~up
  BY <1>1, <1>3 DEF Inv, AtRest
<1>4. QED BY <1>1, <1>2, <1>3 DEF Inv, TypeOK

LEMMA EndsKeep ==
  ASSUME Inv, Gone(s), fate' = fate \/ fate' \in {"replaced", "stopped"}
  PROVE  Inv'
<1>1. fate' \in {"running", "replaced", "stopped"} /\ (fate' = "running" => fate = "running")
  BY DEF Inv, TypeOK
<1>2. /\ s \in State
      /\ s.journal => elapsed
      /\ s.helper => s.gate = "latched"
      /\ elapsed /\ fate' = "running" => s.journal \/ s.gate = "latched"
  BY <1>1, Fences
<1>3. QED BY <1>1, <1>2, GoneKeeps

LEMMA ExitFallbackKeeps == ASSUME Inv, ExitFallback PROVE Inv'
<1> DEFINE x == [s EXCEPT !.exit = FALSE]
<1>1. Alive /\ IF s.launched THEN Gone(s) /\ UNCHANGED fate ELSE Quietly(x)
  BY DEF ExitFallback
<1>2. CASE s.launched
  BY <1>1, <1>2, EndsKeep
<1>3. CASE ~s.launched
  <2>1. /\ Sound(s, Players, Away, elapsed) /\ Timed(s) /\ Retried(s) /\ s \in State
    BY <1>1, AliveIsSound
  <2>2. Sound(x, Players, Away, elapsed) /\ Timed(x) /\ Retried(x)
    <3>1. x \in State
      BY <2>1, ZenonT(90) DEF State
    <3>2. Rules(x, Players, Away, elapsed)
      BY <2>1 DEF Sound, Rules, State, Waits, Locked, ManagedWindow
    <3>3. QED BY <2>1, <3>1, <3>2 DEF Sound, State, Waits, Timed, Retried
  <2> HIDE DEF x
  <2>3. QED BY <1>1, <1>3, <2>2, QuietlyKeeps
<1>4. QED BY <1>2, <1>3

LEMMA HelperGivesUpKeeps == ASSUME Inv, HelperGivesUp PROVE Inv'
<1> DEFINE x == [s EXCEPT !.helper = FALSE]
<1>1. /\ fate = "running" /\ fate' = fate /\ elapsed' = elapsed
      /\ \/ s' = x /\ viewers' = viewers /\ closing' = closing /\ up' = up
         \/ Gone(x)
  BY DEF HelperGivesUp
<1>2. /\ s \in State
      /\ s.journal => elapsed
      /\ elapsed /\ fate = "running" => s.journal \/ s.gate = "latched"
  BY Fences
<1>3. x \in State /\ x.journal = s.journal /\ x.gate = s.gate /\ ~x.helper
  <2>1. s \in State
    BY <1>2
  <2>2. x \in State
    BY <2>1, ZenonT(90) DEF State
  <2>3. QED BY <2>1 DEF State
<1>4. CASE Gone(x)
  BY <1>1, <1>2, <1>3, <1>4, GoneKeeps DEF Inv, TypeOK
<1>5. CASE s' = x /\ viewers' = viewers /\ closing' = closing /\ up' = up
  <2>1. TypeOK'
    BY <1>1, <1>3, <1>5 DEF Inv, TypeOK
  <2>2. Players' = Players /\ Away' = Away
    BY <1>5 DEF Players, Away, Playing
  <2>3. ASSUME up PROVE Sound(x, Players, Away, elapsed) /\ Timed(x) /\ Retried(x)
    <3>1. Sound(s, Players, Away, elapsed) /\ Timed(s) /\ Retried(s)
      BY <2>3 DEF Inv
    <3>2. Rules(x, Players, Away, elapsed)
      BY <1>2, <3>1 DEF Sound, Rules, State, Waits, Locked, ManagedWindow
    <3>3. QED BY <1>2, <1>3, <3>1, <3>2 DEF Sound, State, Waits, Timed, Retried
  <2>4. ASSUME ~up PROVE AtRest'
    <3>1. x.phase = s.phase /\ x.window = s.window /\ x.committed = s.committed
          /\ x.stopping = s.stopping
      BY <1>2 DEF State
    <3> HIDE DEF x
    <3>2. QED BY <1>1, <1>2, <1>3, <1>5, <2>4, <3>1 DEF Inv, AtRest
  <2>5. up => /\ fate' = "running" /\ Sound(s', Players', Away', elapsed')
              /\ Timed(s') /\ Retried(s')
    BY <1>1, <1>5, <2>2, <2>3
  <2> HIDE DEF x
  <2>6. s'.journal => elapsed'
    BY <1>1, <1>2, <1>3, <1>5
  <2>7. QED BY <1>5, <2>1, <2>4, <2>5, <2>6 DEF Inv, Timed, Waits, Retried
<1>6. QED BY <1>1, <1>4, <1>5

LEMMA FoundIsSound ==
  ASSUME NEW x, x.gate \in {"open", "failed", "latched"}, NEW gate \in FoundGates(x)
  PROVE  gate \in {"open", "latched"} /\ (x.gate = "latched" => gate = "latched")
BY DEF FoundGates

\* A process that starts meets nobody, and owes what evidence and latch say.
LEMMA StartKeeps == ASSUME Inv, NEW io \in Outcome, Start(io) PROVE Inv'
<1>1. PICK gate \in FoundGates(s) : s' = Started(s, gate, io)
  BY DEF Start
<1>2. /\ ~up /\ up' /\ fate = "running" /\ fate' = fate /\ elapsed' = (elapsed \/ s'.journal)
      /\ viewers' = viewers /\ closing' = closing /\ up' = TRUE
  BY DEF Start
<1>3. /\ viewers = [p \in Viewers |-> "away"] /\ closing = {}
      /\ s.helper => s.gate = "latched"
      /\ elapsed => s.journal \/ s.gate = "latched"
      /\ s \in State /\ elapsed \in BOOLEAN
  BY <1>2 DEF Inv, AtRest, TypeOK
<1>4. /\ gate \in {"open", "failed", "latched"} /\ (s.gate = "latched" => gate = "latched")
  BY <1>3, FoundIsSound DEF State
<1>5. /\ s.journal \in BOOLEAN /\ s.marker \in BOOLEAN /\ s.helper \in BOOLEAN
      /\ s.want \in Wanted
  BY <1>3 DEF State
<1>6. Sound(s', {}, TRUE, elapsed) /\ Timed(s') /\ Retried(s')
  BY <1>1, <1>3, <1>4, <1>5, StartedSound
<1>7. Players' = {} /\ Away' = TRUE
  BY <1>2, <1>3 DEF Players, Away, Playing, Viewers
<1>8. s' \in State /\ s'.journal \in BOOLEAN
  BY <1>6 DEF Sound, State
<1>9. Sound(s', Players', Away', elapsed')
  BY <1>2, <1>3, <1>6, <1>7, <1>8 DEF Sound, Rules
<1>10. TypeOK'
  BY <1>2, <1>3, <1>8 DEF Inv, TypeOK
<1>11. s'.journal => elapsed'
  BY <1>2
<1>12. QED BY <1>2, <1>6, <1>9, <1>10, <1>11 DEF Inv, Timed, Waits, Retried

\* Nothing is recorded by a process that starts with nothing.
LEMMA StartsQuietly ==
  ASSUME NEW x \in State, NEW io,
         x.phase = "inactive", x.maintenance = "unknown", x.grace = "none",
         ~x.passive, ~x.committed, ~x.journal
  PROVE  ~DesiredChanged(x, io).journal
<1> DEFINE f == FirstEnsured(x)
           r == Restored(AllCleared(x))
           t == StopRequested(f, io)
<1>1. ~ManagedWindow(x) /\ ~Recycling(x) /\ ~Resumable(x) /\ Suspended(x)
  BY DEF ManagedWindow, Recycling, Resumable, Suspended
<1>2. ~f.journal /\ f.maintenance = "unknown" /\ f.phase = "inactive" /\ ~f.committed
  BY DEF FirstEnsured, State
<1>3. ~r.journal
  BY DEF Restored, AllCleared, WindowCleared, ManagedWindow, State
<1>4. ~t.journal
  <2>1. f \in State
    <3> DEFINE b == ~(Suspended(x) \/ Suppressed(x) \/ x.seen \/ ~Nobody)
    <3>1. b \in BOOLEAN /\ f = [x EXCEPT !.first = b]
      BY DEF FirstEnsured
    <3> HIDE DEF b, f
    <3>2. QED BY <3>1, ZenonT(90) DEF State
  <2> HIDE DEF f
  <2> DEFINE y == Fenced(f, io.cut)
             p == Published(y)
             z == [WindowCleared(y) EXCEPT
                     !.resetting = FALSE, !.launched = FALSE, !.passive = FALSE,
                     !.exit = FALSE, !.grace = "none", !.graceOf = "none"]
  <2>2. /\ ~p.journal /\ p.phase = "inactive" /\ ~p.committed
        /\ p.maintenance = "unknown"
    BY <1>2, <2>1 DEF Fenced, Marked, Published, State
  <2>3. ~z.journal /\ z.maintenance = "unknown" /\ ~z.committed
    BY <1>2, <2>1 DEF Fenced, Marked, WindowCleared, State
  <2>4. StopScheduled(p, "plain") = p
    BY <2>2 DEF StopScheduled, Locked, Suspended
  <2>5. t \in {f, StopScheduled(p, "plain"), z}
    <3>1. t = IF f.phase = "persisting" \/ f.stopping THEN f
              ELSE IF ~y.durable THEN StopScheduled(p, "plain")
              ELSE IF z.committed THEN [z EXCEPT !.stopping = TRUE]
              ELSE IF Suspended(z) THEN z
              ELSE IF ~Nobody THEN Restored(z)
              ELSE IF ~Suppressed(z) THEN [z EXCEPT !.stopping = TRUE]
              ELSE IF z.seen THEN WarmScheduled(z, TRUE, "claimless")
              ELSE Restored(z)
      BY DEF StopRequested
    <3>2. Suspended(z)
      BY <2>3 DEF Suspended
    <3> HIDE DEF t, p, z, y
    <3>3. QED BY <2>3, <3>1, <3>2
  <2> HIDE DEF t, p, z, y
  <2>6. QED BY <1>2, <2>2, <2>3, <2>4, <2>5
<1> HIDE DEF f, r, t
<1>5. DesiredChanged(x, io) \in {r, t, f}
  BY <1>1 DEF DesiredChanged, f, r, t
<1>6. QED BY <1>2, <1>3, <1>4, <1>5

LEMMA InitSound == ASSUME Init PROVE Inv
<1>1. PICK w \in Wanted :
        /\ viewers = [p \in Viewers |-> "away"] /\ closing = {}
        /\ \E gate \in FoundGates([Fresh EXCEPT !.want = w]) :
             s = Started([Fresh EXCEPT !.want = w], gate, Good)
        /\ up = TRUE /\ fate = "running" /\ elapsed = FALSE
  BY DEF Init
<1> DEFINE x == [Fresh EXCEPT !.want = w]
<1>2. /\ x.journal = FALSE /\ x.marker = FALSE /\ x.helper = FALSE /\ x.want = w
      /\ x.gate = "open"
  BY DEF Fresh
<1>3. PICK gate \in FoundGates(x) : s = Started(x, gate, Good)
  BY <1>1
<1> HIDE DEF x
<1>4. gate \in {"open", "failed", "latched"}
  BY <1>2, FoundIsSound
<1>5. Good \in Outcome
  BY OutcomeAssumption
<1>6. Sound(s, {}, TRUE, FALSE) /\ Timed(s) /\ Retried(s)
  BY <1>2, <1>3, <1>4, <1>5, StartedSound
<1>7. Players = {} /\ Away = TRUE
  BY <1>1 DEF Players, Away, Playing, Viewers
<1>8. s.journal => elapsed
  <2> DEFINE r == x.journal \/ x.marker
             d == ~x.journal /\ ~x.marker /\ gate = "latched"
             y == [Fresh EXCEPT !.gate = gate, !.journal = x.journal, !.marker = x.marker,
                                !.helper = x.helper, !.required = r, !.deferred = d]
             z == [y EXCEPT !.want = w, !.resumed = @ /\ w = "shutdown"]
             m == Marked(z, Good.mark)
  <2>1. Good.mark = TRUE
    BY DEF Good
  <2>2. s = DesiredApplied(y, w, TRUE, Good)
    BY <1>2, <1>3 DEF Started, RecoveryHeard, Fresh
  <2>3. /\ z.phase = "inactive" /\ z.maintenance = "unknown" /\ z.grace = "none"
        /\ ~z.passive /\ ~z.committed /\ ~z.journal
        /\ m.phase = "inactive" /\ m.maintenance = "unknown" /\ m.grace = "none"
        /\ ~m.passive /\ ~m.committed /\ ~m.journal
    BY <1>2 DEF Fresh, Marked
  <2>6. z \in State /\ m \in State
    <3> DEFINE k == y.resumed /\ w = "shutdown"
    <3>1. r \in BOOLEAN /\ d \in BOOLEAN
      OBVIOUS
    <3> HIDE DEF r, d
    <3>2. y \in State
      BY <1>2, <1>4, <3>1, OpeningIsState
    <3>3. k \in BOOLEAN /\ z = [y EXCEPT !.want = w, !.resumed = k]
      OBVIOUS
    <3> HIDE DEF k, y, z
    <3>4. z \in State
      BY <3>2, <3>3, ZenonT(90) DEF State
    <3>5. m \in State
      BY <2>1, <3>4, ZenonT(90) DEF State, Marked
    <3>6. QED BY <3>4, <3>5
  <2>4. s = DesiredChanged(z, Good) \/ s = DesiredChanged(m, Good)
    BY <2>1, <2>2 DEF DesiredApplied
  <2> HIDE DEF y, z, m
  <2>5. QED BY <2>3, <2>4, <2>6, StartsQuietly
<1>9. QED BY <1>1, <1>6, <1>7, <1>8 DEF Inv, TypeOK, Sound

LEMMA StepKeeps == ASSUME Inv, Next PROVE Inv'
<1>1. ASSUME NEW p \in Viewers, Connect(p) \/ Negotiate(p) \/ Pause(p) \/ Disconnect(p)
      PROVE  Inv'
  BY <1>1, ConnectKeeps, NegotiateKeeps, PauseKeeps, DisconnectKeeps
<1>2. ASSUME Settle \/ Deadline
      PROVE  Inv'
  BY <1>2, SettleKeeps, DeadlineKeeps
<1>3. ASSUME StopSucceeds \/ HelperReplaces \/ Crash
      PROVE  Inv'
  BY <1>3, EndsKeep DEF StopSucceeds, HelperReplaces, Crash
<1>4. ASSUME HelperGivesUp \/ ExitFallback
      PROVE  Inv'
  BY <1>4, HelperGivesUpKeeps, ExitFallbackKeeps
<1>5. ASSUME NEW io \in Outcomes, Timers(io)
      PROVE  Inv'
  BY <1>5, OutcomeAssumption, ZeroFiresKeeps, GraceFiresKeeps, FirstFiresKeeps,
     EvidenceRetryFiresKeeps, RecycleRetryFiresKeeps DEF Timers
<1>6. ASSUME NEW io \in Outcomes,
             \/ StopFails(io) \/ Poll(io) \/ SecureEvidence(io) \/ Start(io)
             \/ \E mode \in Modes : Refresh(mode, io)
             \/ \E next \in Wanted, changed \in BOOLEAN : Respond(next, changed, io)
             \/ \E removed \in BOOLEAN : Acknowledge(removed, io)
      PROVE  Inv'
  <2>1. io \in Outcome
    BY <1>6, OutcomeAssumption
  <2>2. CASE StopFails(io) \/ Poll(io) \/ SecureEvidence(io) \/ Start(io)
    BY <2>1, <2>2, StopFailsKeeps, PollKeeps, SecureEvidenceKeeps, StartKeeps
  <2>3. CASE \E mode \in Modes : Refresh(mode, io)
    BY <2>1, <2>3, ModeAssumption, RefreshKeeps
  <2>4. CASE \E next \in Wanted, changed \in BOOLEAN : Respond(next, changed, io)
    BY <2>1, <2>4, RespondKeeps
  <2>5. CASE \E removed \in BOOLEAN : Acknowledge(removed, io)
    BY <2>1, <2>5, AcknowledgeKeeps
  <2>6. QED BY <1>6, <2>2, <2>3, <2>4, <2>5
<1>7. QED BY <1>1, <1>2, <1>3, <1>4, <1>5, <1>6 DEF Next

\* The invariant holds through every run: each handler keeps the rules of the record
\* with the viewers, and what a process leaves behind is fenced.
THEOREM InvHolds == Spec => []Inv
<1>1. Init => Inv
  BY InitSound
<1>2. Inv /\ [Next]_vars => Inv'
  <2> SUFFICES ASSUME Inv, [Next]_vars PROVE Inv'
    OBVIOUS
  <2>1. CASE Next
    BY <2>1, StepKeeps
  <2>2. CASE UNCHANGED vars
    BY <2>2 DEF vars, Inv, TypeOK, AtRest, Players, Playing, Away, Timed, Waits, Retried
  <2>3. QED BY <2>1, <2>2
<1>3. QED BY <1>1, <1>2, PTL DEF Spec

-----------------------------------------------------------------------------
(* The theorems.                                                           *)

\* Every variable keeps its type.
THEOREM TypesHold == Spec => []TypeOK
<1>1. Inv => TypeOK
  BY DEF Inv
<1>2. QED BY <1>1, InvHolds, PTL

\* Once evidence of an elapsed deadline was recorded, no viewer of the customer plays,
\* in this process or in one started after it (isCommercialReconnectDeadlineLocked,
\* the latch of the gate and the recovery that is owed), whatever failed on the way.
THEOREM NobodyAfterDeadlineHolds == Spec => []NobodyAfterDeadline
<1>1. Inv => NobodyAfterDeadline
  <2> SUFFICES ASSUME Inv, elapsed, NEW p \in Managed PROVE ~Playing(p)
    BY DEF NobodyAfterDeadline
  <2>1. CASE up
    <3>1. Players = {}
      BY <2>1, ContextHolds DEF Inv, Sound, Rules, Context, Locked, ManagedWindow
    <3>2. QED BY <3>1 DEF Players
  <2>2. CASE ~up
    BY <2>2 DEF Inv, AtRest, Playing, Viewers
  <2>3. QED BY <2>1, <2>2 DEF Inv, TypeOK
<1>2. QED BY <1>1, InvHolds, PTL

\* Whatever stops the instance or replaces the stack has the latch on disk and no viewer
\* of the customer playing, and a committed teardown never shows Ready again
\* (requestStop, requestStackRecycle, their retries and listeners).
THEOREM TeardownIsOrderlyHolds == Spec => []TeardownIsOrderly
<1>1. Inv => NoViewerTornDown
  <2> SUFFICES ASSUME Inv, s.stopping \/ s.helper, NEW p \in Managed PROVE ~Playing(p)
    BY DEF NoViewerTornDown
  <2>1. CASE up
    <3>1. Players = {}
      BY <2>1, ContextHolds DEF Inv, Sound, Rules, Context, Locked, ManagedWindow
    <3>2. QED BY <3>1 DEF Players
  <2>2. CASE ~up
    BY <2>2 DEF Inv, AtRest, Playing, Viewers
  <2>3. QED BY <2>1, <2>2 DEF Inv, TypeOK
<1>2. Inv => DestructionIsFenced /\ CommittedStaysDown
  <2> SUFFICES ASSUME Inv PROVE DestructionIsFenced /\ CommittedStaysDown
    OBVIOUS
  <2>1. CASE up
    BY <2>1 DEF Inv, Sound, Rules, DestructionIsFenced, CommittedStaysDown
  <2>2. CASE ~up
    BY <2>2 DEF Inv, AtRest, DestructionIsFenced, CommittedStaysDown
  <2>3. QED BY <2>1, <2>2 DEF Inv, TypeOK
<1>3. Inv => TeardownIsOrderly
  BY <1>1, <1>2 DEF TeardownIsOrderly
<1>4. QED BY <1>3, InvHolds, PTL

\* The window of a customer always has the timer that ends it, and a deadline that is
\* being made durable a retry that goes on with it: no call of a handler, refused or
\* failed, leaves a window that nothing ends.
THEOREM WindowsEndHolds == Spec => []WindowsEnd
<1>1. Inv => WindowsEnd
  <2> SUFFICES ASSUME Inv PROVE WindowsEnd
    OBVIOUS
  <2>1. CASE up
    BY <2>1 DEF Inv, Timed, Waits, Retried, WindowsEnd
  <2>2. CASE ~up
    BY <2>2 DEF Inv, AtRest, WindowsEnd
  <2>3. QED BY <2>1, <2>2 DEF Inv, TypeOK
<1>2. QED BY <1>1, InvHolds, PTL

=============================================================================
