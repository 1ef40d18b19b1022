------------------------ MODULE AgentCommandsProofs ------------------------
(***************************************************************************)
(* Theorems about instance commands, for any commands the control plane    *)
(* issues, any number of them open at once, and any number of lost calls,  *)
(* crashes and failed launches: no stack is replaced twice for one token,  *)
(* and a command found in the journal is quarantined.  And while the       *)
(* control plane has one command open at a time: one that is reported      *)
(* complete was carried out.                                               *)
(*                                                                         *)
(* The handlers are operators from a state record to the next, and the     *)
(* invariant is one of records, which every operator keeps.                *)
(***************************************************************************)
EXTENDS AgentCommands, FiniteSetTheorems, TLAPS

\* What is owed for a token is owed while its replaced stack is the one that runs; a
\* token whose replacement is intended, or asked for, has not been completed; and what
\* the process goes by was listed to it.
Rules(x) ==
  /\ x.pending # None => Replaced(x)
  /\ Intended(x) => x.marker.for \notin x.fence
  /\ \A call \in x.calls :
       call.by = "launch" => ~Replaced(x) /\ call.cmd \in Recycles \ x.fence
  /\ \A call \in x.calls : call.cmd \in x.heard
  /\ x.observed # None => x.observed \in x.heard
  /\ x.confirmed /\ x.active # None => x.active \in x.heard
  /\ x.capturing # None => x.capturing \in x.heard

Sound(x) == x \in State /\ Rules(x)

\* A handler from x to y keeps the rules, what was completed and what was listed.
Keeps(x, y) == Sound(y) /\ y.fence = x.fence /\ y.heard = x.heard

\* The fields the rules speak about.
Alike(x, y) ==
  /\ y.pending = x.pending /\ y.marker = x.marker /\ y.fence = x.fence
  /\ y.calls = x.calls /\ y.heard = x.heard /\ y.observed = x.observed
  /\ y.active = x.active /\ y.confirmed = x.confirmed /\ y.capturing = x.capturing

LEMMA AlikeKeeps ==
  ASSUME NEW x, Sound(x), NEW y \in State, Alike(x, y)
  PROVE  Keeps(x, y)
BY DEF Sound, Rules, Keeps, Alike, Replaced, Intended

LEMMA KeepsThrough ==
  ASSUME NEW x, NEW y, NEW z, Keeps(x, y), Keeps(y, z)
  PROVE  Keeps(x, z)
BY DEF Keeps

\* The command idle stop goes by was listed to this process.
LEMMA TrackedIsHeard ==
  ASSUME NEW x, Sound(x)
  PROVE  /\ Tracked(x) # None => Tracked(x) \in x.heard
         /\ ActiveRecycle(x) # None =>
              ActiveRecycle(x) \in x.heard /\ ActiveRecycle(x) \in Recycles \ x.fence
         /\ ActiveShutdown(x) # None =>
              ActiveShutdown(x) \in x.heard /\ ActiveShutdown(x) \in Shutdowns
         /\ Tracked(x) \in Commands \cup {None}
         /\ x.heard \subseteq Commands
<1>1. Tracked(x) # None => Tracked(x) \in x.heard
  BY DEF Tracked, Sound, Rules
<1>2. x.heard \subseteq Commands /\ None \notin Commands
  BY CommandAssumption DEF Sound, State
<1>3. QED BY <1>1, <1>2 DEF ActiveRecycle, ActiveShutdown, Completed, Commands

-----------------------------------------------------------------------------
(* Calls, journal, status.                                                 *)

LEMMA AskedKeeps ==
  ASSUME NEW x, Sound(x), NEW kind \in Kinds, NEW c \in x.heard, NEW by \in By,
         by = "launch" => ~Replaced(x) /\ c \in Recycles \ x.fence
  PROVE  Keeps(x, Asked(x, kind, c, by))
<1> DEFINE call == [kind |-> kind, cmd |-> c, by |-> by, reply |-> "none"]
           k == x.calls \cup {call}
           y == [x EXCEPT !.calls = k]
<1>1. call \in Call
  BY DEF Sound, State, Call
<1>2. call.by = by /\ call.cmd = c
  OBVIOUS
<1> HIDE DEF call
<1>3. k \in SUBSET Call
  BY <1>1 DEF Sound, State
<1> HIDE DEF k
<1>4. y \in State
  BY <1>3, ZenonT(60) DEF Sound, State
<1>5. /\ y.calls = k /\ y.pending = x.pending /\ y.marker = x.marker /\ y.fence = x.fence
      /\ y.heard = x.heard /\ y.observed = x.observed
      /\ y.active = x.active /\ y.confirmed = x.confirmed /\ y.capturing = x.capturing
  BY DEF Sound, State
<1>6. Asked(x, kind, c, by) = y
  BY DEF Asked, k, call
<1> HIDE DEF y
<1>7. \A d \in k : d \in x.calls \/ d = call
  BY DEF k
<1>8. QED
  BY <1>2, <1>4, <1>5, <1>6, <1>7 DEF Keeps, Sound, Rules, Replaced, Intended

LEMMA PersistedKeeps ==
  ASSUME NEW x, Sound(x), NEW c \in x.heard, NEW st \in {"acked", "running"}
  PROVE  Keeps(x, Persisted(x, c, st))
<1> DEFINE y == [x EXCEPT !.active = c, !.st = st, !.confirmed = TRUE, !.journal = c]
<1>1. c \in Commands \cup {None}
  BY DEF Sound, State
<1>2. y \in State
  BY <1>1, ZenonT(60) DEF Sound, State
<1>3. /\ y.calls = x.calls /\ y.pending = x.pending /\ y.marker = x.marker
      /\ y.fence = x.fence /\ y.heard = x.heard /\ y.observed = x.observed
      /\ y.active = c /\ y.capturing = x.capturing
  BY DEF Sound, State
<1> HIDE DEF y
<1>4. Keeps(x, y)
  BY <1>2, <1>3 DEF Keeps, Sound, Rules, Replaced, Intended
<1>5. QED BY <1>4 DEF Persisted, y

LEMMA ClearedKeeps ==
  ASSUME NEW x, Sound(x)
  PROVE  Keeps(x, Cleared(x))
<1> DEFINE y == [x EXCEPT !.active = None, !.recovered = None, !.confirmed = TRUE,
                          !.journal = None]
<1>1. y \in State
  <2>1. None \in Commands \cup {None} /\ TRUE \in BOOLEAN
    OBVIOUS
  <2>2. QED BY <2>1, ZenonT(60) DEF Sound, State
<1>2. /\ y.calls = x.calls /\ y.pending = x.pending /\ y.marker = x.marker
      /\ y.fence = x.fence /\ y.heard = x.heard /\ y.observed = x.observed
      /\ y.active = None /\ y.capturing = x.capturing
  BY DEF Sound, State
<1> HIDE DEF y
<1>3. Keeps(x, y)
  BY <1>1, <1>2 DEF Keeps, Sound, Rules, Replaced, Intended
<1>4. QED BY <1>3 DEF Cleared, y

LEMMA ClearedOfKeeps ==
  ASSUME NEW x, Sound(x), NEW c
  PROVE  Keeps(x, ClearedOf(x, c))
BY ClearedKeeps DEF ClearedOf, Keeps

LEMMA InvalidatedKeeps ==
  ASSUME NEW x, Sound(x), NEW c
  PROVE  Keeps(x, Invalidated(x, c))
<1> DEFINE a == ClearedOf(x, c)
           y == [a EXCEPT !.deferred = FALSE, !.required = TRUE, !.wished = FALSE]
<1>1. Keeps(x, a)
  BY ClearedOfKeeps
<1> HIDE DEF a
<1>2. y \in State
  BY <1>1, ZenonT(60) DEF Keeps, Sound, State
<1>3. Alike(a, y)
  BY <1>1 DEF Alike, Keeps, Sound, State
<1> HIDE DEF y
<1>4. Keeps(a, y)
  BY <1>1, <1>2, <1>3, AlikeKeeps DEF Keeps
<1>5. QED BY <1>1, <1>4, KeepsThrough DEF Invalidated, a, y

LEMMA PublishedKeeps ==
  ASSUME NEW x, Sound(x)
  PROVE  Keeps(x, Published(x)) /\ Published(x).marker = x.marker
<1> DEFINE y == [x EXCEPT !.ready = FALSE, !.reset = TRUE]
<1>1. y \in State
  BY ZenonT(60) DEF Sound, State
<1>2. Alike(x, y)
  BY DEF Alike, Sound, State
<1> HIDE DEF y
<1>3. QED BY <1>1, <1>2, AlikeKeeps DEF Published, y, Alike

LEMMA ResettingKeeps ==
  ASSUME NEW x, Sound(x)
  PROVE  Keeps(x, Resetting(x)) /\ Resetting(x).marker = x.marker
<1> DEFINE a == Published(x)
           y == [a EXCEPT !.resetting = TRUE]
<1>1. Keeps(x, a) /\ a.marker = x.marker
  BY PublishedKeeps
<1> HIDE DEF a
<1>2. y \in State
  BY <1>1, ZenonT(60) DEF Keeps, Sound, State
<1>3. Alike(a, y)
  BY <1>1 DEF Alike, Keeps, Sound, State
<1> HIDE DEF y
<1>4. Keeps(a, y)
  BY <1>1, <1>2, <1>3, AlikeKeeps DEF Keeps
<1>5. QED BY <1>1, <1>3, <1>4, KeepsThrough DEF Resetting, a, y, Alike

LEMMA RestoredKeeps ==
  ASSUME NEW x, Sound(x)
  PROVE  Keeps(x, Restored(x))
<1> DEFINE y == [x EXCEPT !.ready = TRUE, !.reset = FALSE]
<1>1. y \in State
  BY ZenonT(60) DEF Sound, State
<1>2. Alike(x, y)
  BY DEF Alike, Sound, State
<1> HIDE DEF y
<1>3. Keeps(x, y) /\ Keeps(x, x)
  BY <1>1, <1>2, AlikeKeeps DEF Keeps
<1>4. QED BY <1>3 DEF Restored, y

\* The command a report is for.
LEMMA CorrelatedIsHeard ==
  ASSUME NEW x, Sound(x), Correlated(x) # None
  PROVE  Correlated(x) \in x.heard
BY CommandAssumption DEF Correlated, Sound, Rules, Commands

\* What a completed replacement is recorded for was owed to it, so nothing is being
\* launched: only here a token becomes a completed one.
LEMMA ReadyRecordedSound ==
  ASSUME NEW x, Sound(x)
  PROVE  /\ Sound(ReadyRecorded(x))
         /\ x.fence \subseteq ReadyRecorded(x).fence
         /\ ReadyRecorded(x).heard = x.heard
         /\ ReadyRecorded(x).marker = x.marker
<1> DEFINE f == x.fence \cup ({x.pending} \cap Recycles)
           done == [x EXCEPT !.latched = FALSE, !.required = FALSE, !.fence = f]
           y == IF x.pending # None /\ x.latched THEN done ELSE x
           r == [y EXCEPT !.ready = TRUE]
           z == [r EXCEPT !.reset = FALSE, !.pending = None]
           c == Correlated(y)
<1>1. (Sound(done) /\ x.fence \subseteq f) \/ x.pending = None
  <2>1. f \in SUBSET Recycles /\ x.fence \subseteq f
    BY DEF Sound, State
  <2> HIDE DEF f
  <2>2. done \in State
    BY <2>1, ZenonT(60) DEF Sound, State
  <2>3. /\ done.calls = x.calls /\ done.pending = x.pending /\ done.marker = x.marker
        /\ done.fence = f /\ done.heard = x.heard /\ done.observed = x.observed
        /\ done.active = x.active /\ done.confirmed = x.confirmed
        /\ done.capturing = x.capturing
    BY DEF Sound, State
  <2> HIDE DEF done
  <2>4. x.pending # None => Rules(done)
    BY <2>3 DEF Sound, Rules, Replaced, Intended
  <2>5. QED BY <2>1, <2>2, <2>4 DEF Sound
<1>2. /\ done.heard = x.heard /\ done.marker = x.marker /\ done.fence = f
  BY DEF Sound, State
<1> HIDE DEF f, done
<1>3. Sound(y) /\ x.fence \subseteq y.fence /\ y.heard = x.heard /\ y.marker = x.marker
  BY <1>1, <1>2
<1>4. c # None => c \in y.heard
  BY <1>3, CorrelatedIsHeard
<1> HIDE DEF y, c
<1>5. Sound(r) /\ Keeps(y, r) /\ r.marker = y.marker
  <2>1. r \in State
    BY <1>3, ZenonT(60) DEF Sound, State
  <2>2. Alike(y, r)
    BY <1>3 DEF Alike, Sound, State
  <2>3. QED BY <1>3, <2>1, <2>2, AlikeKeeps DEF Keeps, Alike
<1> HIDE DEF r
<1>6. Keeps(r, z) /\ z.marker = r.marker
  <2>1. z \in State
    <3>1. None \in Tokens \cup {None} /\ FALSE \in BOOLEAN
      OBVIOUS
    <3>2. QED BY <1>5, <3>1, ZenonT(60) DEF Sound, State
  <2>2. /\ z.calls = r.calls /\ z.pending = None /\ z.marker = r.marker
        /\ z.fence = r.fence /\ z.heard = r.heard /\ z.observed = r.observed
        /\ z.active = r.active /\ z.confirmed = r.confirmed /\ z.capturing = r.capturing
    BY <1>5 DEF Sound, State
  <2> HIDE DEF z
  <2>3. QED BY <1>5, <2>1, <2>2 DEF Keeps, Sound, Rules, Replaced, Intended
<1> HIDE DEF z
<1>7. c # None => /\ Keeps(z, Asked(z, "complete", c, "report"))
                  /\ Asked(z, "complete", c, "report").marker = z.marker
  <2> SUFFICES ASSUME c # None PROVE /\ Keeps(z, Asked(z, "complete", c, "report"))
                                     /\ Asked(z, "complete", c, "report").marker = z.marker
    OBVIOUS
  <2>1. c \in z.heard
    BY <1>4, <1>5, <1>6 DEF Keeps
  <2>2. "complete" \in Kinds /\ "report" \in By
    BY DEF Kinds, By
  <2>3. Keeps(z, Asked(z, "complete", c, "report"))
    BY <1>6, <2>1, <2>2, AskedKeeps DEF Keeps
  <2>4. Asked(z, "complete", c, "report").marker = z.marker
    BY <1>6 DEF Asked, Keeps, Sound, State
  <2>5. QED BY <2>3, <2>4
<1>8. ReadyRecorded(x) = IF (~y.reset /\ y.pending = None) \/ y.latched THEN r
                         ELSE IF c # None THEN Asked(z, "complete", c, "report") ELSE z
  BY DEF ReadyRecorded, c, z, r, y, done, f
<1>9. QED BY <1>3, <1>5, <1>6, <1>7, <1>8 DEF Keeps

LEMMA StoppingRecordedKeeps ==
  ASSUME NEW x, Sound(x)
  PROVE  Keeps(x, StoppingRecorded(x))
<1> DEFINE m == IF x.pending # None THEN None ELSE x.marker
           z == [x EXCEPT !.ready = FALSE, !.reset = FALSE, !.pending = None, !.marker = m]
           c == Correlated(x)
<1>1. StoppingRecorded(x) = IF (x.reset \/ x.pending # None) /\ c # None
                            THEN Asked(z, "fail", c, "report") ELSE z
  BY DEF StoppingRecorded
<1>2. z \in State
  <2>1. m \in Marker \cup {None} /\ None \in Tokens \cup {None} /\ FALSE \in BOOLEAN
    BY DEF Sound, State
  <2> HIDE DEF m
  <2>2. QED BY <2>1, ZenonT(60) DEF Sound, State
<1>3. /\ z.calls = x.calls /\ z.pending = None /\ z.marker = m
      /\ z.fence = x.fence /\ z.heard = x.heard /\ z.observed = x.observed
      /\ z.active = x.active /\ z.confirmed = x.confirmed /\ z.capturing = x.capturing
  BY DEF Sound, State
<1>4. m = None \/ m = x.marker
  OBVIOUS
<1> HIDE DEF z, m
<1>5. Keeps(x, z)
  BY <1>2, <1>3, <1>4 DEF Keeps, Sound, Rules, Replaced, Intended
<1>6. c # None => Keeps(z, Asked(z, "fail", c, "report"))
  <2>1. c # None => c \in z.heard
    BY <1>3, CorrelatedIsHeard
  <2>2. "fail" \in Kinds /\ "report" \in By /\ "report" # "launch"
    BY DEF Kinds, By
  <2>3. QED BY <1>5, <2>1, <2>2, AskedKeeps DEF Keeps
<1>7. QED BY <1>1, <1>5, <1>6, KeepsThrough

-----------------------------------------------------------------------------
(* Teardown.                                                               *)

LEMMA StopRequestedKeeps ==
  ASSUME NEW x, Sound(x)
  PROVE  Keeps(x, StopRequested(x))
<1> DEFINE y == [x EXCEPT !.latched = TRUE, !.resetting = FALSE, !.launched = FALSE,
                          !.passive = FALSE]
           a == [y EXCEPT !.stop = "starting"]
           h == [y EXCEPT !.stop = "halting"]
           c == ActiveShutdown(y)
<1>1. Keeps(x, y)
  <2>1. y \in State
    BY ZenonT(60) DEF Sound, State
  <2>2. Alike(x, y)
    BY DEF Alike, Sound, State
  <2>3. QED BY <2>1, <2>2, AlikeKeeps
<1> HIDE DEF y
<1>2. Keeps(y, a) /\ Keeps(y, h)
  <2>1. a \in State /\ h \in State
    <3>1. a \in State
      BY <1>1, ZenonT(60) DEF Keeps, Sound, State
    <3>2. h \in State
      BY <1>1, ZenonT(60) DEF Keeps, Sound, State
    <3>3. QED BY <3>1, <3>2
  <2>2. Alike(y, a) /\ Alike(y, h)
    BY <1>1 DEF Keeps, Alike, Sound, State
  <2>3. QED BY <1>1, <2>1, <2>2, AlikeKeeps DEF Keeps
<1>3. Keeps(y, Restored(y))
  BY <1>1, RestoredKeeps DEF Keeps
<1>4. c # None => Keeps(a, Asked(a, "start", c, "stop"))
  <2>1. c # None => c \in a.heard
    BY <1>1, <1>2, TrackedIsHeard DEF Keeps
  <2>2. "start" \in Kinds /\ "stop" \in By /\ "stop" # "launch"
    BY DEF Kinds, By
  <2> HIDE DEF a, c
  <2>3. QED BY <1>2, <2>1, <2>2, AskedKeeps DEF Keeps
<1>5. StopRequested(x) = IF x.stop # "none" THEN x
                         ELSE IF ~x.committed /\ x.viewers THEN Restored(y)
                         ELSE IF ~x.committed /\ Suppressed(y) THEN Restored(y)
                         ELSE IF c # None THEN Asked(a, "start", c, "stop")
                         ELSE h
  BY DEF StopRequested, y
<1> HIDE DEF a, h, c
<1>6. Keeps(x, x)
  BY DEF Keeps
<1>7. QED BY <1>1, <1>2, <1>3, <1>4, <1>5, <1>6, KeepsThrough

LEMMA LaunchFailedKeeps ==
  ASSUME NEW x, Sound(x)
  PROVE  Keeps(x, LaunchFailed(x))
<1> DEFINE a == Resetting(x)
           b == [a EXCEPT !.passive = TRUE, !.retry = TRUE]
           d == [x EXCEPT !.resetting = FALSE, !.launched = FALSE, !.passive = FALSE]
<1>1. Keeps(x, a)
  BY ResettingKeeps
<1> HIDE DEF a
<1>2. Keeps(a, b)
  <2>1. b \in State
    BY <1>1, ZenonT(60) DEF Keeps, Sound, State
  <2>2. Alike(a, b)
    BY <1>1 DEF Keeps, Alike, Sound, State
  <2>3. QED BY <1>1, <2>1, <2>2, AlikeKeeps DEF Keeps
<1>3. Keeps(x, d)
  <2>1. d \in State
    BY ZenonT(60) DEF Sound, State
  <2>2. Alike(x, d)
    BY DEF Alike, Sound, State
  <2>3. QED BY <2>1, <2>2, AlikeKeeps
<1> HIDE DEF b, d
<1>4. Keeps(d, Restored(d))
  BY <1>3, RestoredKeeps DEF Keeps
<1>5. LaunchFailed(x) = IF x.committed THEN b ELSE Restored(d)
  BY DEF LaunchFailed, a, b, d
<1>6. QED BY <1>1, <1>2, <1>3, <1>4, <1>5, KeepsThrough

\* A marker is written for a token that has not been completed.
LEMMA LaunchKeeps ==
  ASSUME NEW x, Sound(x), NEW cmd, cmd # None => cmd \in x.heard,
         NEW tok \in Tokens, Replaced(x) \/ tok \notin x.fence, NEW ok
  PROVE  Keeps(x, Launch(x, cmd, tok, ok))
<1> DEFINE y == [x EXCEPT !.launching = FALSE]
           w == [y EXCEPT !.resetting = TRUE, !.retry = TRUE]
           m == [phase |-> "intent", for |-> tok]
           l == [y EXCEPT !.marker = m, !.helper = TRUE, !.launched = TRUE, !.retry = FALSE]
           z == [y EXCEPT !.marker = None, !.launched = FALSE]
           f == IF cmd # None THEN Asked(z, "fail", cmd, "report") ELSE z
<1>1. Keeps(x, y) /\ Alike(x, y)
  <2>1. y \in State
    BY ZenonT(60) DEF Sound, State
  <2>2. Alike(x, y)
    BY DEF Alike, Sound, State
  <2>3. QED BY <2>1, <2>2, AlikeKeeps
<1>2. Replaced(y) <=> Replaced(x)
  BY <1>1 DEF Alike, Replaced
<1> HIDE DEF y
<1>3. Keeps(y, w)
  <2>1. w \in State
    BY <1>1, ZenonT(60) DEF Keeps, Sound, State
  <2>2. Alike(y, w)
    BY <1>1 DEF Keeps, Alike, Sound, State
  <2>3. QED BY <1>1, <2>1, <2>2, AlikeKeeps DEF Keeps
<1>4. ~Replaced(x) => Keeps(y, l) /\ Keeps(y, z)
  <2>1. m \in Marker \cup {None} /\ m.phase = "intent" /\ m.for = tok /\ m \in Marker
    BY DEF Marker
  <2> HIDE DEF m
  <2>2. l \in State
    BY <1>1, <2>1, ZenonT(60) DEF Keeps, Sound, State
  <2>3. z \in State
    <3>1. None \in Marker \cup {None}
      OBVIOUS
    <3>2. QED BY <1>1, <3>1, ZenonT(60) DEF Keeps, Sound, State
  <2>4. /\ l.calls = y.calls /\ l.pending = y.pending /\ l.marker = m
        /\ l.fence = y.fence /\ l.heard = y.heard /\ l.observed = y.observed
        /\ l.active = y.active /\ l.confirmed = y.confirmed /\ l.capturing = y.capturing
    BY <1>1 DEF Keeps, Sound, State
  <2>5. /\ z.calls = y.calls /\ z.pending = y.pending /\ z.marker = None
        /\ z.fence = y.fence /\ z.heard = y.heard /\ z.observed = y.observed
        /\ z.active = y.active /\ z.confirmed = y.confirmed /\ z.capturing = y.capturing
    BY <1>1 DEF Keeps, Sound, State
  <2> HIDE DEF l, z
  <2>6. ~Replaced(x) => Keeps(y, l)
    BY <1>1, <1>2, <2>1, <2>2, <2>4 DEF Keeps, Sound, Rules, Replaced, Intended
  <2>7. ~Replaced(x) => Keeps(y, z)
    BY <1>1, <1>2, <2>3, <2>5 DEF Keeps, Sound, Rules, Replaced, Intended
  <2>8. QED BY <2>6, <2>7
<1> HIDE DEF w, l, z, m
<1>5. ~Replaced(x) => Keeps(z, f)
  <2>1. ~Replaced(x) => (cmd # None => cmd \in z.heard)
    BY <1>1, <1>4 DEF Keeps
  <2>2. "fail" \in Kinds /\ "report" \in By /\ "report" # "launch"
    BY DEF Kinds, By
  <2>3. Keeps(y, z) => Keeps(z, z)
    BY DEF Keeps
  <2>4. QED BY <1>4, <2>1, <2>2, <2>3, AskedKeeps DEF Keeps
<1> HIDE DEF f
<1>6. ~Replaced(x) => Keeps(f, LaunchFailed(f))
  BY <1>5, LaunchFailedKeeps DEF Keeps
<1>7. Launch(x, cmd, tok, ok) = IF Replaced(x) THEN w ELSE IF ok THEN l ELSE LaunchFailed(f)
  BY DEF Launch, w, l, z, f, m, y
<1>8. QED BY <1>1, <1>3, <1>4, <1>5, <1>6, <1>7, KeepsThrough

LEMMA RecycleRequestedKeeps ==
  ASSUME NEW x, Sound(x), NEW ok
  PROVE  Keeps(x, RecycleRequested(x, ok))
<1> DEFINE w == [x EXCEPT !.resetting = TRUE, !.retry = TRUE]
           d == [x EXCEPT !.resetting = FALSE, !.retry = FALSE]
           y == [x EXCEPT !.latched = TRUE, !.launching = TRUE]
           t == ToStart(x)
           tok == LaunchToken(x)
           a == Asked(y, "start", t, "launch")
           l == Launch(y, None, tok, ok)
<1>1. RecycleRequested(x, ok) =
        IF x.launching \/ x.launched THEN x
        ELSE IF Replaced(x) THEN w
        ELSE IF ~x.committed /\ x.viewers THEN Restored(x)
        ELSE IF ~Intent(x) THEN Restored(d)
        ELSE IF Completed(x, tok) THEN d
        ELSE IF t # None THEN a ELSE l
  BY DEF RecycleRequested
<1>2. Keeps(x, w) /\ Keeps(x, d) /\ Keeps(x, y) /\ Alike(x, y)
  <2>1. w \in State
    BY ZenonT(60) DEF Sound, State
  <2>2. d \in State
    BY ZenonT(60) DEF Sound, State
  <2>3. y \in State
    BY ZenonT(60) DEF Sound, State
  <2>4. Alike(x, w) /\ Alike(x, d) /\ Alike(x, y)
    BY DEF Alike, Sound, State
  <2>5. QED BY <2>1, <2>2, <2>3, <2>4, AlikeKeeps
<1>3. tok \in Tokens /\ t \in x.heard \cup {None} /\ (t # None => t \in Recycles \ x.fence)
  <2>1. ActiveRecycle(x) # None => ActiveRecycle(x) \in x.heard \cap (Recycles \ x.fence)
    BY TrackedIsHeard
  <2>2. Intended(x) => x.marker.for \in Tokens
    BY DEF Intended, Sound, State, Marker
  <2>3. QED BY <2>1, <2>2 DEF LaunchToken, ToStart, Tokens
<1>4. Replaced(y) <=> Replaced(x)
  BY <1>2 DEF Alike, Replaced
<1> HIDE DEF w, d, y, t, tok
<1>5. Keeps(d, Restored(d)) /\ Keeps(x, Restored(x)) /\ Keeps(x, x)
  BY <1>2, RestoredKeeps DEF Keeps
<1>6. ~Replaced(x) /\ t # None => Keeps(y, a)
  <2>1. t # None => t \in y.heard /\ t \in Recycles \ y.fence
    BY <1>2, <1>3 DEF Keeps
  <2>2. "start" \in Kinds /\ "launch" \in By
    BY DEF Kinds, By
  <2>3. QED BY <1>2, <1>4, <2>1, <2>2, AskedKeeps DEF Keeps
<1>7. ~Completed(x, tok) => Keeps(y, l)
  <2>1. ~Completed(x, tok) => tok \notin y.fence
    BY <1>2 DEF Keeps, Completed
  <2>2. Sound(y)
    BY <1>2 DEF Keeps
  <2>3. QED BY <1>3, <2>1, <2>2, LaunchKeeps
<1> HIDE DEF a, l
<1>8. QED BY <1>1, <1>2, <1>5, <1>6, <1>7, KeepsThrough

LEMMA ResetStartedKeeps ==
  ASSUME NEW x, Sound(x), NEW ok
  PROVE  Keeps(x, ResetStarted(x, ok))
<1> DEFINE a == Resetting(x)
<1>1. Keeps(x, a) /\ Keeps(x, x)
  BY ResettingKeeps DEF Keeps
<1> HIDE DEF a
<1>2. Keeps(a, RecycleRequested(a, ok)) /\ Keeps(x, RecycleRequested(x, ok))
  BY <1>1, RecycleRequestedKeeps DEF Keeps
<1>3. Keeps(x, RecycleRequested(a, ok))
  BY <1>1, <1>2, KeepsThrough
<1>4. QED BY <1>1, <1>2, <1>3 DEF ResetStarted, a

LEMMA ResumedKeeps ==
  ASSUME NEW x, Sound(x), NEW ok
  PROVE  Keeps(x, RecycleResumed(x, ok)) /\ Keeps(x, ShutdownResumed(x))
<1>1. Keeps(x, x)
  BY DEF Keeps
<1>2. Keeps(x, RecycleResumed(x, ok))
  BY <1>1, ResetStartedKeeps DEF RecycleResumed
<1>3. Keeps(x, ShutdownResumed(x))
  BY <1>1, StopRequestedKeeps DEF ShutdownResumed
<1>4. QED BY <1>2, <1>3

LEMMA RecoveryHeardKeeps ==
  ASSUME NEW x, Sound(x), NEW ok
  PROVE  Keeps(x, RecoveryHeard(x, ok))
<1> DEFINE y == [x EXCEPT !.committed = TRUE, !.passive = TRUE]
           p == Published(y)
<1>1. Keeps(x, y)
  <2>1. y \in State
    BY ZenonT(60) DEF Sound, State
  <2>2. Alike(x, y)
    BY DEF Alike, Sound, State
  <2>3. QED BY <2>1, <2>2, AlikeKeeps
<1>2. RecoveryHeard(x, ok) = IF ~x.required \/ x.pending # None \/ x.committed THEN x
                             ELSE IF Replaced(x) THEN RecycleRequested(y, ok)
                             ELSE IF ActiveShutdown(x) # None THEN StopRequested(p)
                             ELSE ResetStarted(p, ok)
  BY DEF RecoveryHeard
<1> HIDE DEF y
<1>3. Keeps(y, p) /\ Keeps(x, p)
  BY <1>1, PublishedKeeps, KeepsThrough DEF Keeps
<1> HIDE DEF p
<1>4. Keeps(p, StopRequested(p)) /\ Keeps(p, ResetStarted(p, ok))
      /\ Keeps(y, RecycleRequested(y, ok)) /\ Keeps(x, x)
  BY <1>1, <1>3, StopRequestedKeeps, ResetStartedKeeps, RecycleRequestedKeeps DEF Keeps
<1>5. Keeps(x, StopRequested(p)) /\ Keeps(x, ResetStarted(p, ok))
  BY <1>3, <1>4, KeepsThrough
<1>6. Keeps(x, RecycleRequested(y, ok))
  BY <1>1, <1>4, KeepsThrough
<1>7. QED BY <1>2, <1>4, <1>5, <1>6

-----------------------------------------------------------------------------
(* A control response.                                                     *)

LEMMA DesiredAppliedKeeps ==
  ASSUME NEW x, Sound(x), NEW listed, NEW ok
  PROVE  Keeps(x, DesiredApplied(x, listed, ok))
<1> DEFINE y == [x EXCEPT !.wished = TRUE]
           z == IF x.wished \/ Suppressed(y) THEN y
                ELSE IF ActiveShutdown(y) # None THEN ShutdownResumed(y)
                ELSE RecycleResumed(y, ok)
           d == [z EXCEPT !.deferred = FALSE, !.required = TRUE]
<1>1. Keeps(x, y)
  <2>1. y \in State
    BY ZenonT(60) DEF Sound, State
  <2>2. Alike(x, y)
    BY DEF Alike, Sound, State
  <2>3. QED BY <2>1, <2>2, AlikeKeeps
<1>2. DesiredApplied(x, listed, ok) =
        IF x.deferred /\ listed = {} /\ x.active = None THEN RecoveryHeard(d, ok)
        ELSE IF ~x.wished THEN RecoveryHeard(z, ok) ELSE z
  BY DEF DesiredApplied
<1> HIDE DEF y
<1>3. Keeps(x, z)
  <2>1. Keeps(y, ShutdownResumed(y)) /\ Keeps(y, RecycleResumed(y, ok))
    BY <1>1, ResumedKeeps DEF Keeps
  <2>2. QED BY <1>1, <2>1, KeepsThrough
<1> HIDE DEF z
<1>4. Keeps(z, d)
  <2>1. d \in State
    BY <1>3, ZenonT(60) DEF Keeps, Sound, State
  <2>2. Alike(z, d)
    BY <1>3 DEF Keeps, Alike, Sound, State
  <2>3. QED BY <1>3, <2>1, <2>2, AlikeKeeps DEF Keeps
<1> HIDE DEF d
<1>5. Keeps(d, RecoveryHeard(d, ok)) /\ Keeps(z, RecoveryHeard(z, ok))
  BY <1>3, <1>4, RecoveryHeardKeeps DEF Keeps
<1>6. Keeps(x, d)
  BY <1>3, <1>4, KeepsThrough
<1>7. Keeps(x, RecoveryHeard(d, ok)) /\ Keeps(x, RecoveryHeard(z, ok))
  BY <1>3, <1>5, <1>6, KeepsThrough
<1>8. QED BY <1>2, <1>3, <1>7

\* The journal's command counts once it is listed, and is forgotten when it is not.
LEMMA ConfirmedSound ==
  ASSUME NEW x, Sound(x), NEW listed \in SUBSET Commands
  PROVE  /\ Sound(Confirmed(x, listed))
         /\ Confirmed(x, listed).fence = x.fence
         /\ Confirmed(x, listed).heard = x.heard \cup listed
<1> DEFINE a == StillOpen(x, listed)
           c == [x EXCEPT !.confirmed = TRUE]
           h == a.heard \cup listed
           y == [a EXCEPT !.heard = h]
<1>1. c \in State
  BY ZenonT(60) DEF Sound, State
<1>2. /\ c.calls = x.calls /\ c.pending = x.pending /\ c.marker = x.marker
      /\ c.fence = x.fence /\ c.heard = x.heard /\ c.observed = x.observed
      /\ c.active = x.active /\ c.capturing = x.capturing
  BY DEF Sound, State
<1>3. Keeps(x, Cleared(x)) /\ Keeps(x, Invalidated(x, x.active)) /\ Keeps(x, x)
  BY ClearedKeeps, InvalidatedKeeps DEF Keeps
<1>4. a = x \/ (a = c /\ x.active \in listed) \/ a = Cleared(x) \/ a = Invalidated(x, x.active)
  BY DEF StillOpen
<1>5. a = c \/ Keeps(x, a)
  BY <1>3, <1>4
<1> HIDE DEF c
<1>6. a \in State /\ a.fence = x.fence /\ a.heard = x.heard
  BY <1>1, <1>2, <1>5 DEF Keeps, Sound
<1>7. Rules(a) \/ (a = c /\ x.active \in listed)
  BY <1>3, <1>4 DEF Keeps, Sound
<1> HIDE DEF a
<1>8. y \in State
  <2>1. h \in SUBSET Commands
    BY <1>6 DEF State
  <2> HIDE DEF h
  <2>2. QED BY <1>6, <2>1, ZenonT(60) DEF State
<1>9. /\ y.calls = a.calls /\ y.pending = a.pending /\ y.marker = a.marker
      /\ y.fence = a.fence /\ y.heard = h /\ y.observed = a.observed
      /\ y.active = a.active /\ y.confirmed = a.confirmed /\ y.capturing = a.capturing
  BY <1>6 DEF State
<1> HIDE DEF y
<1>10. a.heard \subseteq h /\ listed \subseteq h /\ h = x.heard \cup listed
  BY <1>6
<1> HIDE DEF h
<1>11. Rules(y)
  <2>1. CASE Rules(a)
    BY <1>9, <1>10, <2>1 DEF Rules, Replaced, Intended
  <2>2. CASE a = c /\ x.active \in listed
    BY <1>2, <1>9, <1>10, <2>2 DEF Sound, Rules, Replaced, Intended
  <2>3. QED BY <1>7, <2>1, <2>2
<1>12. QED BY <1>6, <1>8, <1>9, <1>10, <1>11 DEF Confirmed, Sound, y, h, a

LEMMA ListenedKeeps ==
  ASSUME NEW x, Sound(x), NEW listed, listed \subseteq x.heard, NEW tracked,
         NEW last \in listed \cup {None}
  PROVE  Keeps(x, Listened(x, listed, tracked, last))
<1> DEFINE news == {c \in listed : Verdict(x, c, tracked) # "known"}
           new == {Reaction(x, c, tracked) : c \in news}
           k == x.calls \cup new
           o == IF last # None THEN last ELSE x.observed
           g == x.latched \/ last # None
           y == [x EXCEPT !.calls = k, !.observed = o, !.latched = g]
<1>1. Listened(x, listed, tracked, last) = y
  BY DEF Listened
<1>2. x.heard \subseteq Commands
  BY DEF Sound, State
<1>3. \A d \in new : d \in Call /\ d.by # "launch" /\ d.cmd \in x.heard
  <2> SUFFICES ASSUME NEW c \in news
               PROVE  /\ Reaction(x, c, tracked) \in Call
                      /\ Reaction(x, c, tracked).by # "launch"
                      /\ Reaction(x, c, tracked).cmd \in x.heard
    OBVIOUS
  <2>1. Verdict(x, c, tracked) \in {"fail", "complete", "known", "ack"}
    BY DEF Verdict
  <2>2. Verdict(x, c, tracked) \in Kinds /\ c \in x.heard /\ c \in Commands
    BY <1>2, <2>1 DEF Kinds
  <2>3. QED BY <2>2 DEF Reaction, Call, By
<1> HIDE DEF new
<1>4. k \in SUBSET Call /\ g \in BOOLEAN /\ o \in Commands \cup {None}
  BY <1>2, <1>3 DEF Sound, State
<1>5. o # None => o \in x.heard
  BY DEF Sound, Rules
<1>6. \A d \in k : d \in x.calls \/ d \in new
  OBVIOUS
<1> HIDE DEF k, o, g
<1>7. y \in State
  BY <1>4, ZenonT(60) DEF Sound, State
<1>8. /\ y.calls = k /\ y.pending = x.pending /\ y.marker = x.marker
      /\ y.fence = x.fence /\ y.heard = x.heard /\ y.observed = o
      /\ y.active = x.active /\ y.confirmed = x.confirmed /\ y.capturing = x.capturing
  BY DEF Sound, State
<1> HIDE DEF y
<1>9. QED BY <1>1, <1>3, <1>5, <1>6, <1>7, <1>8 DEF Keeps, Sound, Rules, Replaced, Intended

LEMMA ResponseAppliedSound ==
  ASSUME NEW x, Sound(x), NEW listed \in SUBSET Commands, NEW last \in listed \cup {None},
         NEW ok
  PROVE  /\ Sound(ResponseApplied(x, listed, last, ok))
         /\ ResponseApplied(x, listed, last, ok).fence = x.fence
         /\ ResponseApplied(x, listed, last, ok).heard = x.heard \cup listed
<1> DEFINE y == Confirmed(x, listed)
           z == DesiredApplied(y, listed, ok)
           t == Tracked(y)
           f == Asked(z, "fail", t, "report")
           w == IF Superseded(y, t) /\ listed # {} THEN f ELSE z
<1>1. Sound(y) /\ y.fence = x.fence /\ y.heard = x.heard \cup listed
  BY ConfirmedSound
<1> HIDE DEF y
<1>2. Keeps(y, z)
  BY <1>1, DesiredAppliedKeeps
<1> HIDE DEF z
<1>3. Superseded(y, t) => Keeps(z, f)
  <2>1. Superseded(y, t) => t \in z.heard
    BY <1>1, <1>2, TrackedIsHeard DEF Keeps, Superseded
  <2>2. "fail" \in Kinds /\ "report" \in By /\ "report" # "launch"
    BY DEF Kinds, By
  <2> HIDE DEF t
  <2>3. QED BY <1>2, <2>1, <2>2, AskedKeeps DEF Keeps
<1>4. ResponseApplied(x, listed, last, ok) = Listened(w, listed, Known(y), last)
  BY DEF ResponseApplied, y, z
<1> HIDE DEF t, f
<1>5. Keeps(y, w)
  BY <1>2, <1>3, KeepsThrough
<1> HIDE DEF w
<1>6. Keeps(w, Listened(w, listed, Known(y), last))
  BY <1>1, <1>5, ListenedKeeps DEF Keeps
<1>7. QED BY <1>1, <1>4, <1>5, <1>6 DEF Keeps

-----------------------------------------------------------------------------
(* Replies.                                                                *)

LEMMA TransitionedKeeps ==
  ASSUME NEW x, Sound(x), NEW call \in Call, call.reply # "none", call.cmd \in x.heard
  PROVE  Keeps(x, Transitioned(x, call))
<1> DEFINE st == IF call.reply = "accepted"
                 THEN IF call.kind = "ack" THEN "acked" ELSE "running"
                 ELSE call.reply
<1>1. Transitioned(x, call) = IF call.reply = "ended" THEN Invalidated(x, call.cmd)
                              ELSE Persisted(x, call.cmd, st)
  BY DEF Transitioned
<1>2. call.reply # "ended" => st \in {"acked", "running"}
  BY DEF Call
<1> HIDE DEF st
<1>3. QED BY <1>1, <1>2, InvalidatedKeeps, PersistedKeeps

LEMMA LaunchedStartedKeeps ==
  ASSUME NEW x, Sound(x)
  PROVE  Keeps(x, LaunchedStarted(x))
<1> DEFINE c == ActiveRecycle(x)
           a == Asked(x, "start", c, "launched")
<1>1. LaunchedStarted(x) = x \/ (c # None /\ LaunchedStarted(x) = a)
  BY DEF LaunchedStarted
<1>2. c # None => c \in x.heard
  BY TrackedIsHeard
<1> HIDE DEF c
<1>3. "start" \in Kinds /\ "launched" \in By /\ "launched" # "launch"
  BY DEF Kinds, By
<1>4. c # None => Keeps(x, a)
  BY <1>2, <1>3, AskedKeeps
<1>5. Keeps(x, x)
  BY DEF Keeps
<1>6. QED BY <1>1, <1>4, <1>5

LEMMA AckRepliedKeeps ==
  ASSUME NEW x, Sound(x), NEW call \in Call, call.reply # "none", call.cmd \in x.heard,
         NEW ok
  PROVE  Keeps(x, AckReplied(x, call, ok))
<1> DEFINE t == Transitioned(x, call)
           y == [t EXCEPT !.observed = None]
           w == [y EXCEPT !.told = TRUE]
<1>1. Keeps(x, t)
  BY TransitionedKeeps
<1> HIDE DEF t
<1>2. Keeps(t, y)
  <2>1. y \in State
    <3>1. None \in Commands \cup {None}
      OBVIOUS
    <3>2. QED BY <1>1, <3>1, ZenonT(60) DEF Keeps, Sound, State
  <2>2. /\ y.calls = t.calls /\ y.pending = t.pending /\ y.marker = t.marker
        /\ y.fence = t.fence /\ y.heard = t.heard /\ y.observed = None
        /\ y.active = t.active /\ y.confirmed = t.confirmed /\ y.capturing = t.capturing
    BY <1>1 DEF Keeps, Sound, State
  <2> HIDE DEF y
  <2>3. QED BY <1>1, <2>1, <2>2 DEF Keeps, Sound, Rules, Replaced, Intended
<1>3. AckReplied(x, call, ok) \in
        {y, w, StopRequested(y), LaunchedStarted(y), RecycleResumed(y, ok)}
  BY DEF AckReplied, t
<1> HIDE DEF y
<1>4. Keeps(x, y)
  BY <1>1, <1>2, KeepsThrough
<1>5. Keeps(y, w)
  <2>1. w \in State
    BY <1>2, ZenonT(60) DEF Keeps, Sound, State
  <2>2. Alike(y, w)
    BY <1>2 DEF Keeps, Alike, Sound, State
  <2>3. QED BY <1>2, <2>1, <2>2, AlikeKeeps DEF Keeps
<1> HIDE DEF w
<1>6. /\ Keeps(y, StopRequested(y)) /\ Keeps(y, LaunchedStarted(y))
      /\ Keeps(y, RecycleResumed(y, ok))
  BY <1>2, StopRequestedKeeps, LaunchedStartedKeeps, ResumedKeeps DEF Keeps
<1>7. QED BY <1>3, <1>4, <1>5, <1>6, KeepsThrough

\* A launch is allowed what its call was allowed.
LaunchAllowed(x, call) ==
  call.by = "launch" => ~Replaced(x) /\ call.cmd \in Recycles \ x.fence

LEMMA CallLaunchKeeps ==
  ASSUME NEW x, Sound(x), NEW y, Keeps(x, y), NEW call \in Call, call.cmd \in x.heard,
         LaunchAllowed(x, call), call.by = "launch", NEW ok
  PROVE  Keeps(x, Launch(y, call.cmd, call.cmd, ok))
<1> DEFINE c == call.cmd
<1>1. c \in Tokens /\ c \notin y.fence /\ c \in y.heard
  BY DEF Keeps, LaunchAllowed, Tokens
<1> HIDE DEF c
<1>2. Sound(y)
  BY DEF Keeps
<1>3. Keeps(y, Launch(y, c, c, ok))
  BY <1>1, <1>2, LaunchKeeps
<1>4. QED BY <1>3, KeepsThrough DEF c

LEMMA StopSetKeeps ==
  ASSUME NEW x, Sound(x), NEW st \in {"none", "starting", "halting", "ending"}
  PROVE  Keeps(x, [x EXCEPT !.stop = st])
<1> DEFINE y == [x EXCEPT !.stop = st]
<1>1. y \in State
  BY ZenonT(60) DEF Sound, State
<1>2. Alike(x, y)
  BY DEF Alike, Sound, State
<1>3. QED BY <1>1, <1>2, AlikeKeeps

LEMMA StartRepliedKeeps ==
  ASSUME NEW x, Sound(x), NEW call \in Call, call.reply # "none", call.cmd \in x.heard,
         LaunchAllowed(x, call), NEW ok
  PROVE  Keeps(x, StartReplied(x, call, ok))
<1> DEFINE y == Transitioned(x, call)
           p == [y EXCEPT !.passive = TRUE]
           z == IF call.reply = "ended" THEN p ELSE y
           st == IF call.reply = "ended" THEN "none" ELSE "halting"
           t == [y EXCEPT !.stop = st]
           l == Launch(z, call.cmd, call.cmd, ok)
<1>1. Keeps(x, y)
  BY TransitionedKeeps
<1>2. StartReplied(x, call, ok) \in {y, z, t} \/ (call.by = "launch" /\ StartReplied(x, call, ok) = l)
  <2>1. CASE call.by = "launch"
    BY <2>1 DEF StartReplied
  <2>2. CASE call.by = "launched"
    BY <2>2 DEF StartReplied
  <2>3. CASE call.by = "stop"
    BY <2>3 DEF StartReplied
  <2>4. CASE call.by \notin {"launch", "launched", "stop"}
    BY <2>4 DEF StartReplied
  <2>5. QED BY <2>1, <2>2, <2>3, <2>4
<1> HIDE DEF y
<1>3. Keeps(y, p)
  <2>1. p \in State
    BY <1>1, ZenonT(60) DEF Keeps, Sound, State
  <2>2. Alike(y, p)
    BY <1>1 DEF Keeps, Alike, Sound, State
  <2>3. QED BY <1>1, <2>1, <2>2, AlikeKeeps DEF Keeps
<1> HIDE DEF p
<1>4. Keeps(x, z)
  BY <1>1, <1>3, KeepsThrough
<1> HIDE DEF z
<1>5. Keeps(y, t)
  <2>1. st \in {"none", "starting", "halting", "ending"}
    OBVIOUS
  <2> HIDE DEF st
  <2>2. QED BY <1>1, <2>1, StopSetKeeps DEF Keeps
<1> HIDE DEF t
<1>6. call.by = "launch" => Keeps(x, l)
  BY <1>4, CallLaunchKeeps
<1> HIDE DEF l
<1>7. QED BY <1>1, <1>2, <1>4, <1>5, <1>6, KeepsThrough

LEMMA StopEndedKeeps ==
  ASSUME NEW x, Sound(x)
  PROVE  Keeps(x, StopEnded(x))
<1> DEFINE n == [x EXCEPT !.stop = "none"]
           r == StoppingRecorded(x)
           y == [r EXCEPT !.stop = "none", !.again = TRUE]
<1>1. Keeps(x, n)
  BY StopSetKeeps
<1>2. Keeps(x, r)
  BY StoppingRecordedKeeps
<1>3. StopEnded(x) = IF x.halted THEN n ELSE y
  BY DEF StopEnded
<1> HIDE DEF n, r
<1>4. Keeps(r, y)
  <2>1. y \in State
    BY <1>2, ZenonT(60) DEF Keeps, Sound, State
  <2>2. Alike(r, y)
    BY <1>2 DEF Keeps, Alike, Sound, State
  <2>3. QED BY <1>2, <2>1, <2>2, AlikeKeeps DEF Keeps
<1> HIDE DEF y
<1>5. QED BY <1>1, <1>2, <1>3, <1>4, KeepsThrough

LEMMA EndRepliedKeeps ==
  ASSUME NEW x, Sound(x), NEW call
  PROVE  Keeps(x, EndReplied(x, call))
<1> DEFINE y == ClearedOf(x, call.cmd)
<1>1. Keeps(x, y)
  BY ClearedOfKeeps
<1>2. EndReplied(x, call) = IF call.by = "stop" THEN StopEnded(y) ELSE y
  BY DEF EndReplied
<1> HIDE DEF y
<1>3. Keeps(y, StopEnded(y))
  BY <1>1, StopEndedKeeps DEF Keeps
<1>4. QED BY <1>1, <1>2, <1>3, KeepsThrough

LEMMA RepliedKeeps ==
  ASSUME NEW x, Sound(x), NEW call \in Call, call.reply # "none", call.cmd \in x.heard,
         LaunchAllowed(x, call), NEW ok
  PROVE  Keeps(x, Replied(x, call, ok))
<1>1. CASE call.kind = "ack"
  BY <1>1, AckRepliedKeeps DEF Replied
<1>2. CASE call.kind = "start"
  BY <1>2, StartRepliedKeeps DEF Replied
<1>3. CASE call.kind \notin {"ack", "start"}
  BY <1>3, EndRepliedKeeps DEF Replied
<1>4. QED BY <1>1, <1>2, <1>3

LEMMA CallFailedKeeps ==
  ASSUME NEW x, Sound(x), NEW call \in Call, call.cmd \in x.heard, LaunchAllowed(x, call),
         NEW ok
  PROVE  Keeps(x, CallFailed(x, call, ok))
<1> DEFINE y == [x EXCEPT !.observed = None]
           h == [x EXCEPT !.stop = "halting"]
           l == Launch(x, call.cmd, call.cmd, ok)
<1>1. CallFailed(x, call, ok) \in {x, y, h, StopEnded(x)}
      \/ (call.by = "launch" /\ CallFailed(x, call, ok) = l)
  BY DEF CallFailed
<1>2. Keeps(x, y)
  <2>1. y \in State
    <3>1. None \in Commands \cup {None}
      OBVIOUS
    <3>2. QED BY <3>1, ZenonT(60) DEF Sound, State
  <2>2. /\ y.calls = x.calls /\ y.pending = x.pending /\ y.marker = x.marker
        /\ y.fence = x.fence /\ y.heard = x.heard /\ y.observed = None
        /\ y.active = x.active /\ y.confirmed = x.confirmed /\ y.capturing = x.capturing
    BY DEF Sound, State
  <2> HIDE DEF y
  <2>3. QED BY <2>1, <2>2 DEF Keeps, Sound, Rules, Replaced, Intended
<1>3. Keeps(x, h) /\ Keeps(x, x) /\ Keeps(x, StopEnded(x))
  BY StopSetKeeps, StopEndedKeeps DEF Keeps
<1>4. call.by = "launch" => Keeps(x, l)
  BY <1>3, CallLaunchKeeps
<1> HIDE DEF y, h, l
<1>5. QED BY <1>1, <1>2, <1>3, <1>4

-----------------------------------------------------------------------------
(* A process that dies, is replaced, and starts again.                     *)

\* What startInstanceAgent and setupViewerIdleStop read, before the recovery is heard.
Booted(x, expired) ==
  LET c == IF x.journal \in expired THEN None ELSE x.journal
  IN [Fresh EXCEPT
        !.active = c, !.st = x.st, !.confirmed = (c = None), !.recovered = c,
        !.journal = c, !.marker = x.marker, !.helper = x.helper,
        !.pending = IF Replaced(x) THEN x.marker.for ELSE None,
        !.latched = x.latched \/ x.marker # None, !.fence = x.fence,
        !.required = (x.marker # None),
        !.deferred = (x.marker = None /\ x.latched)]

LEMMA BootedSound ==
  ASSUME NEW x, Sound(x), NEW expired
  PROVE  LET y == Booted(x, expired) IN
         /\ Sound(y)
         /\ y.fence = x.fence /\ y.marker = x.marker /\ y.heard = {} /\ y.calls = {}
         /\ y.observed = None /\ (y.confirmed <=> y.active = None)
         /\ y.pending # None => Replaced(x)
         /\ y.marker # None => y.latched
         /\ y.reset = FALSE /\ y.launching = FALSE /\ y.launched = FALSE
<1> DEFINE c == IF x.journal \in expired THEN None ELSE x.journal
           cf == (c = None)
           p == IF Replaced(x) THEN x.marker.for ELSE None
           g == (x.latched \/ x.marker # None)
           r == (x.marker # None)
           d == (x.marker = None /\ x.latched)
           y == [Fresh EXCEPT
                   !.active = c, !.st = x.st, !.confirmed = cf, !.recovered = c,
                   !.journal = c, !.marker = x.marker, !.helper = x.helper,
                   !.pending = p, !.latched = g, !.fence = x.fence,
                   !.required = r, !.deferred = d]
<1>1. Booted(x, expired) = y
  BY DEF Booted
<1>2. /\ c \in Commands \cup {None} /\ cf \in BOOLEAN /\ g \in BOOLEAN /\ r \in BOOLEAN
      /\ d \in BOOLEAN
  BY DEF Sound, State
<1>3. p \in Tokens \cup {None}
  BY DEF Sound, State, Replaced, Marker
<1>4. cf /\ c # None => FALSE
  OBVIOUS
<1>5. (p # None => Replaced(x)) /\ (x.marker # None => g) /\ (cf <=> c = None)
  OBVIOUS
<1> HIDE DEF c, cf, p, g, r, d
<1>6. /\ x.st \in {"acked", "running"} /\ x.marker \in Marker \cup {None}
      /\ x.helper \in BOOLEAN /\ x.fence \in SUBSET Recycles
  BY DEF Sound, State
<1>8. y \in State
  <2> DEFINE m == x.marker  s0 == x.st  h == x.helper  f == x.fence
  <2>1. m \in Marker \cup {None} /\ s0 \in {"acked", "running"} /\ h \in BOOLEAN
        /\ f \in SUBSET Recycles
    BY <1>6
  <2> HIDE DEF m, s0, h, f
  <2> DEFINE e == [active |-> c, st |-> s0, confirmed |-> cf, recovered |-> c,
               wished |-> FALSE, deferred |-> d, required |-> r, pending |-> p,
               reset |-> FALSE, ready |-> FALSE, observed |-> None, resetting |-> FALSE,
               launching |-> FALSE, launched |-> FALSE, passive |-> FALSE,
               committed |-> FALSE, retry |-> FALSE, stop |-> "none", again |-> FALSE,
               capturing |-> None, viewers |-> FALSE, told |-> FALSE, old |-> {}, calls |-> {},
               heard |-> {}, journal |-> c, marker |-> m, helper |-> h,
               latched |-> g, fence |-> f, halted |-> FALSE]
  <2>2. y = [Fresh EXCEPT
               !.active = c, !.st = s0, !.confirmed = cf, !.recovered = c,
               !.journal = c, !.marker = m, !.helper = h, !.pending = p, !.latched = g,
               !.fence = f, !.required = r, !.deferred = d]
    BY DEF m, s0, h, f
  <2>3. /\ None \in Commands \cup {None} /\ None \in Tokens \cup {None}
        /\ {} \in SUBSET Call /\ {} \in SUBSET Commands
    OBVIOUS
  <2>4. e \in State
    BY <1>2, <1>3, <2>1, <2>3 DEF State
  <2> HIDE DEF y
  <2>5. y = e
    BY <2>2 DEF Fresh
  <2> HIDE DEF e
  <2>6. QED BY <2>4, <2>5
<1>9. /\ y.calls = {} /\ y.pending = p /\ y.marker = x.marker /\ y.fence = x.fence
      /\ y.heard = {} /\ y.observed = None /\ y.active = c /\ y.confirmed = cf
      /\ y.capturing = None /\ y.latched = g
      /\ y.reset = FALSE /\ y.launching = FALSE /\ y.launched = FALSE
  BY DEF Fresh
<1> HIDE DEF y
<1>10. Sound(y)
  BY <1>4, <1>5, <1>8, <1>9 DEF Sound, Rules, Replaced, Intended
<1>11. QED BY <1>1, <1>5, <1>9, <1>10

LEMMA RecoveredSound ==
  ASSUME NEW x, Sound(x), NEW expired, NEW ok
  PROVE  Sound(Recovered(x, expired, ok)) /\ Recovered(x, expired, ok).fence = x.fence
         /\ Recovered(x, expired, ok).heard = {}
<1>1. Recovered(x, expired, ok) = RecoveryHeard(Booted(x, expired), ok)
  BY DEF Recovered, Booted
<1>2. /\ Sound(Booted(x, expired)) /\ Booted(x, expired).fence = x.fence
      /\ Booted(x, expired).heard = {}
  BY BootedSound
<1>3. QED BY <1>1, <1>2, RecoveryHeardKeeps DEF Keeps

\* What a dead process leaves.
LEMMA DeadKeeps ==
  ASSUME NEW x, Sound(x), NEW torn
  PROVE  Keeps(x, Dead(x, torn)) /\ Dead(x, torn).marker = x.marker
         /\ Dead(x, torn).calls = {}
<1> DEFINE j == IF torn THEN None ELSE x.journal
           y == [x EXCEPT !.calls = {}, !.journal = j]
<1>1. Dead(x, torn) = y
  BY DEF Dead
<1>2. j \in Commands \cup {None} /\ {} \in SUBSET Call
  BY DEF Sound, State
<1> HIDE DEF j
<1>3. y \in State
  BY <1>2, ZenonT(60) DEF Sound, State
<1>4. /\ y.calls = {} /\ y.pending = x.pending /\ y.marker = x.marker
      /\ y.fence = x.fence /\ y.heard = x.heard /\ y.observed = x.observed
      /\ y.active = x.active /\ y.confirmed = x.confirmed /\ y.capturing = x.capturing
  BY DEF Sound, State
<1> HIDE DEF y
<1>5. QED BY <1>1, <1>3, <1>4 DEF Keeps, Sound, Rules, Replaced, Intended

\* The helper advances the marker, with nothing in flight.
LEMMA ReplacedKeeps ==
  ASSUME NEW x, Sound(x)
  PROVE  LET y == [Dead(x, FALSE) EXCEPT
                     !.helper = FALSE,
                     !.marker = IF Intended(x) THEN [@ EXCEPT !.phase = "replaced"] ELSE @]
         IN Keeps(x, y) /\ (Intended(y) => y.marker = x.marker)
<1> DEFINE d == Dead(x, FALSE)
           n == [x.marker EXCEPT !.phase = "replaced"]
           m == IF Intended(x) THEN n ELSE x.marker
           y == [d EXCEPT !.helper = FALSE, !.marker = m]
<1>1. Keeps(x, d) /\ d.marker = x.marker /\ d.calls = {}
  BY DeadKeeps
<1> HIDE DEF d
<1>2. Intended(x) => n \in Marker /\ n.phase = "replaced"
  BY DEF Sound, State, Intended, Marker
<1>3. /\ m \in Marker \cup {None} /\ (Intended(x) => m.phase = "replaced")
      /\ ~Intended(x) => m = x.marker
  <2>1. x.marker \in Marker \cup {None}
    BY DEF Sound, State
  <2>2. QED BY <1>2, <2>1
<1> HIDE DEF m
<1>4. y \in State
  BY <1>1, <1>3, ZenonT(60) DEF Keeps, Sound, State
<1>5. /\ y.calls = {} /\ y.pending = d.pending /\ y.marker = m
      /\ y.fence = d.fence /\ y.heard = d.heard /\ y.observed = d.observed
      /\ y.active = d.active /\ y.confirmed = d.confirmed /\ y.capturing = d.capturing
  BY <1>1 DEF Keeps, Sound, State
<1> HIDE DEF y
<1>6. Rules(d)
  BY <1>1 DEF Keeps, Sound
<1>7. Intended(x) => d.pending = None
  BY <1>1, <1>6 DEF Rules, Intended, Replaced
<1>8. Keeps(x, y) /\ (Intended(y) => y.marker = x.marker)
  BY <1>1, <1>3, <1>4, <1>5, <1>6, <1>7 DEF Keeps, Sound, Rules, Replaced, Intended
<1>9. QED BY <1>1, <1>8 DEF y, m, d

-----------------------------------------------------------------------------
(* The invariant, and every action.                                        *)

\* Whatever is listed, to this process or on its way to it, was issued.
Issued == \A c \in s.heard \cup poll : c \in Commands => api[c] # "unissued"

IInv == TypeOK /\ Rules(s) /\ Issued

\* A step grows what is completed, and lists to the process what was on its way.
Goes == Sound(s') /\ s.fence \subseteq s'.fence /\ s'.heard \subseteq s.heard \cup poll

LEMMA KeepsGoes ==
  ASSUME Keeps(s, s')
  PROVE  Goes
BY DEF Keeps, Goes

\* A call that was answered is taken from the calls.
LEMMA TakenKeeps ==
  ASSUME NEW x, Sound(x), NEW call \in x.calls
  PROVE  LET y == [x EXCEPT !.calls = @ \ {call}]
         IN Keeps(x, y) /\ call \in Call /\ call.cmd \in y.heard /\ LaunchAllowed(y, call)
<1> DEFINE k == x.calls \ {call}
           y == [x EXCEPT !.calls = k]
<1>1. k \in SUBSET Call /\ k \subseteq x.calls /\ call \in Call
  BY DEF Sound, State
<1>2. call.cmd \in x.heard /\ LaunchAllowed(x, call)
  BY DEF Sound, Rules, LaunchAllowed
<1>3. y = [x EXCEPT !.calls = @ \ {call}]
  OBVIOUS
<1> HIDE DEF k
<1>4. y \in State
  BY <1>1, ZenonT(60) DEF Sound, State
<1>5. /\ y.calls = k /\ y.pending = x.pending /\ y.marker = x.marker
      /\ y.fence = x.fence /\ y.heard = x.heard /\ y.observed = x.observed
      /\ y.active = x.active /\ y.confirmed = x.confirmed /\ y.capturing = x.capturing
  BY DEF Sound, State
<1> HIDE DEF y
<1>6. Keeps(x, y)
  BY <1>1, <1>4, <1>5 DEF Keeps, Sound, Rules, Replaced, Intended
<1>7. LaunchAllowed(y, call)
  BY <1>2, <1>5 DEF LaunchAllowed, Replaced
<1>8. QED BY <1>1, <1>2, <1>3, <1>5, <1>6, <1>7

LEMMA InitHolds == Init => IInv
<1> SUFFICES ASSUME Init PROVE IInv
  OBVIOUS
<1> DEFINE e == [active |-> None, st |-> "acked", confirmed |-> TRUE, recovered |-> None,
                 wished |-> TRUE, deferred |-> FALSE, required |-> FALSE, pending |-> None,
                 reset |-> FALSE, ready |-> TRUE, observed |-> None, resetting |-> FALSE,
                 launching |-> FALSE, launched |-> FALSE, passive |-> FALSE,
                 committed |-> FALSE, retry |-> FALSE, stop |-> "none", again |-> FALSE,
                 capturing |-> None, viewers |-> FALSE, told |-> FALSE, old |-> {},
                 calls |-> {}, heard |-> {}, journal |-> None, marker |-> None,
                 helper |-> FALSE, latched |-> FALSE, fence |-> {}, halted |-> FALSE]
<1>1. s = [Fresh EXCEPT !.ready = TRUE, !.wished = TRUE]
  BY DEF Init
<1>2. s = e
  BY <1>1 DEF Fresh
<1>3. e \in State
  <2>1. /\ None \in Commands \cup {None} /\ None \in Tokens \cup {None}
        /\ None \in Marker \cup {None} /\ {} \in SUBSET Call /\ {} \in SUBSET Commands
        /\ {} \in SUBSET Recycles
    OBVIOUS
  <2>2. QED BY <2>1 DEF State
<1>4. /\ s.calls = {} /\ s.pending = None /\ s.marker = None /\ s.heard = {}
      /\ s.observed = None /\ s.active = None /\ s.capturing = None
  BY <1>2
<1> HIDE DEF e
<1>5. Rules(s)
  BY <1>4 DEF Rules, Replaced, Intended
<1>6. Issued
  BY <1>4, CommandAssumption DEF Init, NoPoll, Issued
<1>7. TypeOK
  BY <1>2, <1>3 DEF Init, TypeOK, Open, Ended
<1>8. QED BY <1>5, <1>6, <1>7 DEF IInv

LEMMA ResponseGoes ==
  ASSUME Sound(s), NEW listed \in SUBSET Commands, listed \subseteq poll,
         NEW last \in listed \cup {None},
         Step(LAMBDA ok : ResponseApplied(s, listed, last, ok))
  PROVE  Goes
<1>1. s' = ResponseApplied(s, listed, last, TRUE) \/ s' = ResponseApplied(s, listed, last, FALSE)
  BY DEF Step
<1>2. \A ok : /\ Sound(ResponseApplied(s, listed, last, ok))
              /\ ResponseApplied(s, listed, last, ok).fence = s.fence
              /\ ResponseApplied(s, listed, last, ok).heard = s.heard \cup listed
  BY ResponseAppliedSound
<1>3. Sound(s') /\ s'.fence = s.fence /\ s'.heard = s.heard \cup listed
  BY <1>1, <1>2
<1>4. QED BY <1>3 DEF Goes

LEMMA ApplyGoes ==
  ASSUME IInv, Apply
  PROVE  Goes
<1> DEFINE listed == {c \in poll : api[c] # "expired"}
           taken == Taken(s, listed, Known(Confirmed(s, listed)))
<1>1. PICK last \in IF taken = {} THEN {None} ELSE taken :
        Step(LAMBDA ok : ResponseApplied(s, listed, last, ok))
  BY DEF Apply
<1>2. poll \in SUBSET Commands /\ last \in listed \cup {None}
  BY DEF Apply, IInv, TypeOK, Taken
<1>3. Sound(s)
  BY DEF IInv, TypeOK, Sound
<1>4. listed \subseteq poll /\ listed \in SUBSET Commands
  BY <1>2
<1> HIDE DEF taken, listed
<1>5. QED BY <1>1, <1>2, <1>3, <1>4, ResponseGoes

LEMMA AnswerKeeps ==
  ASSUME Sound(s), NEW kind, Answer(kind)
  PROVE  Keeps(s, s')
<1>1. PICK call \in s.calls :
        /\ call.reply # "none"
        /\ Step(LAMBDA ok : Replied([s EXCEPT !.calls = @ \ {call}], call, ok))
  BY DEF Answer
<1> DEFINE x == [s EXCEPT !.calls = @ \ {call}]
<1>2. s' = Replied(x, call, TRUE) \/ s' = Replied(x, call, FALSE)
  BY <1>1 DEF Step
<1>3. Keeps(s, x) /\ call \in Call /\ call.cmd \in x.heard /\ LaunchAllowed(x, call)
  BY TakenKeeps
<1> HIDE DEF x
<1>4. Keeps(x, Replied(x, call, TRUE)) /\ Keeps(x, Replied(x, call, FALSE))
  BY <1>1, <1>3, RepliedKeeps DEF Keeps
<1>5. Keeps(s, Replied(x, call, TRUE)) /\ Keeps(s, Replied(x, call, FALSE))
  BY <1>3, <1>4, KeepsThrough
<1>6. QED BY <1>2, <1>5

LEMMA LoseKeeps ==
  ASSUME Sound(s), Lose
  PROVE  Keeps(s, s')
<1>1. PICK call \in s.calls :
        s' = CallFailed([s EXCEPT !.calls = @ \ {call}], call, TRUE)
  BY DEF Lose
<1> DEFINE x == [s EXCEPT !.calls = @ \ {call}]
<1>2. Keeps(s, x) /\ call \in Call /\ call.cmd \in x.heard /\ LaunchAllowed(x, call)
  BY TakenKeeps
<1>3. s' = CallFailed(x, call, TRUE)
  BY <1>1
<1> HIDE DEF x
<1>4. Keeps(x, CallFailed(x, call, TRUE))
  BY <1>2, CallFailedKeeps DEF Keeps
<1>5. QED BY <1>2, <1>3, <1>4, KeepsThrough

\* The control plane writes its reply into the call.
LEMMA ProcessKeeps ==
  ASSUME IInv, NEW kind \in Kinds, Process(kind)
  PROVE  /\ Keeps(s, s')
         /\ api' \in [Commands -> {"unissued"} \cup Open \cup Ended]
         /\ \A c \in Commands : api[c] # "unissued" => api'[c] # "unissued"
<1> DEFINE was(call) == api[call.cmd]
           now(call) == Transition(call.kind, was(call))
           said(call) == IF call.kind \in {"complete", "fail"} THEN "ended"
                         ELSE IF now(call) # was(call) THEN "accepted"
                         ELSE IF was(call) \in Ended THEN "ended" ELSE was(call)
<1>1. PICK call \in s.calls :
        /\ call.kind = kind
        /\ api' = [api EXCEPT ![call.cmd] = now(call)]
        /\ s' = [s EXCEPT !.calls = (@ \ {call}) \cup {[call EXCEPT !.reply = said(call)]}]
  BY DEF Process
<1>2. s \in State /\ Rules(s) /\ call \in Call /\ call.cmd \in s.heard
      /\ s.heard \subseteq Commands
  BY DEF IInv, TypeOK, Rules, State
<1>3. was(call) \in Open \cup Ended
  BY <1>2 DEF IInv, TypeOK, Issued
<1>4. call.kind \in Kinds
  BY <1>2 DEF Call
<1>5. /\ now(call) \in Open \cup Ended
      /\ said(call) \in {"none", "accepted", "acked", "running", "ended"}
  <2>1. CASE call.kind = "ack"
    BY <1>3, <2>1 DEF Transition, Open, Ended
  <2>2. CASE call.kind = "start"
    BY <1>3, <2>2 DEF Transition, Open, Ended
  <2>3. CASE call.kind = "complete"
    BY <1>3, <2>3 DEF Transition, Open, Ended
  <2>4. CASE call.kind = "fail"
    BY <1>3, <2>4 DEF Transition, Open, Ended
  <2>5. QED BY <1>4, <2>1, <2>2, <2>3, <2>4 DEF Kinds
<1> DEFINE r == said(call)
           d == [call EXCEPT !.reply = r]
           k == (s.calls \ {call}) \cup {d}
           y == [s EXCEPT !.calls = k]
<1>6. s' = y
  BY <1>1
<1>7. /\ api' \in [Commands -> {"unissued"} \cup Open \cup Ended]
      /\ \A c \in Commands : api[c] # "unissued" => api'[c] # "unissued"
  BY <1>1, <1>5 DEF IInv, TypeOK, Open, Ended
<1>8. r \in {"none", "accepted", "acked", "running", "ended"}
  BY <1>5
<1> HIDE DEF r
<1>9. d \in Call /\ d.cmd = call.cmd /\ d.by = call.by
  BY <1>2, <1>8 DEF Call
<1> HIDE DEF d
<1>10. k \in SUBSET Call /\ \A e \in k : e \in s.calls \/ e = d
  BY <1>2, <1>9 DEF State
<1> HIDE DEF k
<1>11. y \in State
  BY <1>2, <1>10, ZenonT(60) DEF State
<1>12. /\ y.calls = k /\ y.pending = s.pending /\ y.marker = s.marker
       /\ y.fence = s.fence /\ y.heard = s.heard /\ y.observed = s.observed
       /\ y.active = s.active /\ y.confirmed = s.confirmed /\ y.capturing = s.capturing
  BY <1>2 DEF State
<1> HIDE DEF y
<1>13. Keeps(s, y)
  <2>1. d.by = "launch" => ~Replaced(s) /\ d.cmd \in Recycles \ s.fence
    BY <1>2, <1>9 DEF Rules
  <2>2. QED
    BY <1>2, <1>9, <1>10, <1>11, <1>12, <2>1 DEF Keeps, Sound, Rules, Replaced, Intended
<1>14. QED BY <1>6, <1>7, <1>13

\* The steps of the process that no reply brings on.
LEMMA WorkKeeps ==
  ASSUME Sound(s), Work \/ Finalize
  PROVE  Keeps(s, s')
<1> DEFINE a == Asked(s, "start", s.active, "recovered")
           g == [s EXCEPT !.capturing = s.active]
           x == [s EXCEPT !.capturing = None]
           c == Asked(x, "complete", s.active, "report")
<1>1. \/ s.active \in Recycles /\ s.confirmed /\ s' = a
      \/ Finalizable(s) /\ s' = g
      \/ s' = s
      \/ Finalizable(s) /\ s' = c
      \/ s' = x
  BY DEF Work, Finalize
<1>2. s.active \in Recycles /\ s.confirmed => s.active \in s.heard
  BY CommandAssumption DEF Sound, Rules, Commands
<1>3. Finalizable(s) => s.active \in Recycles /\ s.confirmed
  BY DEF Finalizable
<1>4. /\ "start" \in Kinds /\ "complete" \in Kinds /\ "recovered" \in By /\ "report" \in By
      /\ "recovered" # "launch" /\ "report" # "launch"
  BY DEF Kinds, By
<1>5. Keeps(s, x) /\ x.heard = s.heard
  <2>1. x \in State
    <3>1. None \in Commands \cup {None}
      OBVIOUS
    <3>2. QED BY <3>1, ZenonT(60) DEF Sound, State
  <2>2. /\ x.calls = s.calls /\ x.pending = s.pending /\ x.marker = s.marker
        /\ x.fence = s.fence /\ x.heard = s.heard /\ x.observed = s.observed
        /\ x.active = s.active /\ x.confirmed = s.confirmed /\ x.capturing = None
    BY DEF Sound, State
  <2> HIDE DEF x
  <2>3. QED BY <2>1, <2>2 DEF Keeps, Sound, Rules, Replaced, Intended
<1>6. s.active \in s.heard => Keeps(s, g)
  <2>1. g \in State
    <3> DEFINE t == s.active
    <3>1. t \in Commands \cup {None}
      BY DEF Sound, State
    <3>2. g = [s EXCEPT !.capturing = t]
      OBVIOUS
    <3> HIDE DEF t, g
    <3>3. [s EXCEPT !.capturing = t] \in State
      BY <3>1, ZenonT(60) DEF Sound, State
    <3>4. QED BY <3>2, <3>3
  <2>2. /\ g.calls = s.calls /\ g.pending = s.pending /\ g.marker = s.marker
        /\ g.fence = s.fence /\ g.heard = s.heard /\ g.observed = s.observed
        /\ g.active = s.active /\ g.confirmed = s.confirmed /\ g.capturing = s.active
    BY DEF Sound, State
  <2> HIDE DEF g
  <2>3. QED BY <2>1, <2>2 DEF Keeps, Sound, Rules, Replaced, Intended
<1> HIDE DEF g, x
<1>7. s.active \in s.heard => Keeps(s, a) /\ Keeps(x, c)
  BY <1>4, <1>5, AskedKeeps DEF Keeps
<1> HIDE DEF a, c
<1>8. s.active \in s.heard => Keeps(s, c)
  BY <1>5, <1>7, KeepsThrough
<1>9. Keeps(s, s)
  BY DEF Keeps
<1>10. QED BY <1>1, <1>2, <1>3, <1>5, <1>6, <1>7, <1>8, <1>9

LEMMA TimersKeep ==
  ASSUME Sound(s), Refresh \/ RetryRecycle \/ RetryStop
  PROVE  Keeps(s, s')
<1>1. CASE Refresh
  <2>1. \E ok \in BOOLEAN : s' \in {RecycleResumed(s, ok), ResetStarted(s, ok)}
    BY <1>1 DEF Refresh, Step
  <2>2. QED BY <2>1, ResumedKeeps, ResetStartedKeeps
<1>2. CASE RetryRecycle
  <2> DEFINE x == [s EXCEPT !.retry = FALSE]
  <2>1. x \in State
    BY ZenonT(60) DEF Sound, State
  <2>2. Alike(s, x)
    BY DEF Alike, Sound, State
  <2>3. s' = RecycleRequested(x, TRUE) \/ s' = RecycleRequested(x, FALSE)
    BY <1>2 DEF RetryRecycle, Step
  <2> HIDE DEF x
  <2>4. Keeps(s, x)
    BY <2>1, <2>2, AlikeKeeps
  <2>5. Keeps(x, RecycleRequested(x, TRUE)) /\ Keeps(x, RecycleRequested(x, FALSE))
    BY <2>4, RecycleRequestedKeeps DEF Keeps
  <2>6. Keeps(s, RecycleRequested(x, TRUE)) /\ Keeps(s, RecycleRequested(x, FALSE))
    BY <2>4, <2>5, KeepsThrough
  <2>7. QED BY <2>3, <2>6
<1>3. CASE RetryStop
  <2> DEFINE x == [s EXCEPT !.again = FALSE]
  <2>1. x \in State
    BY ZenonT(60) DEF Sound, State
  <2>2. Alike(s, x)
    BY DEF Alike, Sound, State
  <2>3. s' = StopRequested(x)
    BY <1>3 DEF RetryStop
  <2> HIDE DEF x
  <2>4. Keeps(s, x)
    BY <2>1, <2>2, AlikeKeeps
  <2>5. Keeps(x, StopRequested(x))
    BY <2>4, StopRequestedKeeps DEF Keeps
  <2>6. QED BY <2>3, <2>4, <2>5, KeepsThrough
<1>4. QED BY <1>1, <1>2, <1>3

LEMMA HaltKeeps ==
  ASSUME Sound(s), Halt
  PROVE  Keeps(s, s')
<1>1. PICK ok \in BOOLEAN :
        LET x == [StoppingRecorded(s) EXCEPT !.stop = "ending", !.halted = @ \/ ok]
            c == ActiveShutdown(s)
        IN s' = IF c # None THEN Asked(x, IF ok THEN "complete" ELSE "fail", c, "stop")
                ELSE StopEnded(x)
  BY DEF Halt
<1> DEFINE r == StoppingRecorded(s)
           h == (r.halted \/ ok)
           x == [r EXCEPT !.stop = "ending", !.halted = h]
           c == ActiveShutdown(s)
           kind == IF ok THEN "complete" ELSE "fail"
           a == Asked(x, kind, c, "stop")
<1>2. Keeps(s, r)
  BY StoppingRecordedKeeps
<1>3. s' = IF c # None THEN a ELSE StopEnded(x)
  BY <1>1
<1>4. c # None => c \in s.heard
  BY TrackedIsHeard
<1>5. kind \in Kinds /\ "stop" \in By /\ "stop" # "launch"
  BY DEF Kinds, By
<1> HIDE DEF r, c, kind
<1>6. Keeps(r, x)
  <2>1. h \in BOOLEAN
    BY <1>2 DEF Keeps, Sound, State
  <2> HIDE DEF h
  <2>2. x \in State
    BY <1>2, <2>1, ZenonT(60) DEF Keeps, Sound, State
  <2>3. Alike(r, x)
    BY <1>2 DEF Keeps, Alike, Sound, State
  <2>4. QED BY <1>2, <2>2, <2>3, AlikeKeeps DEF Keeps
<1> HIDE DEF x
<1>7. Keeps(s, x)
  BY <1>2, <1>6, KeepsThrough
<1>8. Keeps(x, StopEnded(x))
  BY <1>7, StopEndedKeeps DEF Keeps
<1>9. c # None => Keeps(x, a)
  BY <1>4, <1>5, <1>7, AskedKeeps DEF Keeps
<1> HIDE DEF a
<1>10. QED BY <1>3, <1>7, <1>8, <1>9, KeepsThrough

\* What is tracked of another session is reported as failed.
LEMMA SupersededKeeps ==
  ASSUME NEW x, Sound(x), Superseded(x, Tracked(x))
  PROVE  Keeps(x, Asked(x, "fail", Tracked(x), "report"))
<1> DEFINE t == Tracked(x)
<1>1. t \in x.heard
  BY TrackedIsHeard DEF Superseded
<1> HIDE DEF t
<1>2. "fail" \in Kinds /\ "report" \in By /\ "report" # "launch"
  BY DEF Kinds, By
<1>3. Keeps(x, Asked(x, "fail", t, "report"))
  BY <1>1, <1>2, AskedKeeps
<1>4. QED BY <1>3 DEF t

LEMMA SessionBeginsKeeps ==
  ASSUME Sound(s), SessionBegins
  PROVE  Keeps(s, s')
<1> DEFINE o == Listed
           x == [s EXCEPT !.viewers = TRUE, !.old = o, !.resetting = FALSE,
                          !.launched = FALSE, !.passive = FALSE]
           a == Asked(x, "fail", Tracked(x), "report")
           y == IF Superseded(x, Tracked(x)) THEN a ELSE x
<1>1. s' = Restored(y)
  BY DEF SessionBegins
<1>2. Keeps(s, x)
  <2>1. o \in SUBSET Commands
    BY DEF Listed
  <2> HIDE DEF o
  <2>2. x \in State
    BY <2>1, ZenonT(60) DEF Sound, State
  <2>3. Alike(s, x)
    BY DEF Alike, Sound, State
  <2>4. QED BY <2>2, <2>3, AlikeKeeps
<1> HIDE DEF x
<1>3. Superseded(x, Tracked(x)) => Keeps(x, a)
  BY <1>2, SupersededKeeps DEF Keeps
<1> HIDE DEF a
<1>4. Keeps(s, y)
  BY <1>2, <1>3, KeepsThrough
<1> HIDE DEF y
<1>5. Keeps(y, Restored(y))
  BY <1>4, RestoredKeeps DEF Keeps
<1>6. QED BY <1>1, <1>4, <1>5, KeepsThrough

LEMMA SessionEndsKeeps ==
  ASSUME Sound(s), SessionEnds
  PROVE  Keeps(s, s')
<1> DEFINE y == [s EXCEPT !.viewers = FALSE, !.told = FALSE]
           a == Asked(y, "fail", Tracked(y), "report")
           x == IF Superseded(y, Tracked(y)) THEN a ELSE y
<1>1. \E ok \in BOOLEAN : s' \in {ResetStarted(x, ok), StopRequested(x), x}
  BY DEF SessionEnds, Step
<1>2. Keeps(s, y)
  <2>1. y \in State
    BY ZenonT(60) DEF Sound, State
  <2>2. Alike(s, y)
    BY DEF Alike, Sound, State
  <2>3. QED BY <2>1, <2>2, AlikeKeeps
<1> HIDE DEF y
<1>3. Superseded(y, Tracked(y)) => Keeps(y, a)
  BY <1>2, SupersededKeeps DEF Keeps
<1> HIDE DEF a
<1>4. Keeps(s, x)
  BY <1>2, <1>3, KeepsThrough
<1> HIDE DEF x
<1>5. Sound(x)
  BY <1>4 DEF Keeps
<1>6. ASSUME NEW ok PROVE Keeps(s, ResetStarted(x, ok))
  <2>1. Keeps(x, ResetStarted(x, ok))
    BY <1>5, ResetStartedKeeps
  <2>2. QED BY <1>4, <2>1, KeepsThrough
<1>7. Keeps(s, StopRequested(x))
  <2>1. Keeps(x, StopRequested(x))
    BY <1>5, StopRequestedKeeps
  <2>2. QED BY <1>4, <2>1, KeepsThrough
<1>8. QED BY <1>1, <1>4, <1>6, <1>7

LEMMA MarkerClearedKeeps ==
  ASSUME Sound(s), MarkerCleared
  PROVE  Keeps(s, s')
<1> DEFINE y == [s EXCEPT !.marker = None]
<1>1. s' = y /\ s.pending = None
  BY DEF MarkerCleared
<1>2. y \in State
  <2>1. None \in Marker \cup {None}
    OBVIOUS
  <2>2. QED BY <2>1, ZenonT(60) DEF Sound, State
<1>3. /\ y.calls = s.calls /\ y.pending = s.pending /\ y.marker = None
      /\ y.fence = s.fence /\ y.heard = s.heard /\ y.observed = s.observed
      /\ y.active = s.active /\ y.confirmed = s.confirmed /\ y.capturing = s.capturing
  BY DEF Sound, State
<1> HIDE DEF y
<1>4. Keeps(s, y)
  BY <1>1, <1>2, <1>3 DEF Keeps, Sound, Rules, Replaced, Intended
<1>5. QED BY <1>1, <1>4

LEMMA DeathKeeps ==
  ASSUME Sound(s), Crash \/ Exit \/ PowerOff \/ Replace
  PROVE  Keeps(s, s')
<1>1. CASE Crash \/ Exit \/ PowerOff
  <2>1. \E torn \in BOOLEAN : s' = Dead(s, torn)
    BY <1>1 DEF Crash, Exit, PowerOff, Died
  <2>2. QED BY <2>1, DeadKeeps
<1>2. CASE Replace
  BY <1>2, ReplacedKeeps DEF Replace
<1>3. QED BY <1>1, <1>2

-----------------------------------------------------------------------------
(* The induction.                                                          *)

LEMMA ReadyGoes ==
  ASSUME Sound(s), Ready
  PROVE  Goes
<1>1. s' = ReadyRecorded(s)
  BY DEF Ready
<1>2. QED BY <1>1, ReadyRecordedSound DEF Goes

LEMMA StartGoes ==
  ASSUME Sound(s), Start
  PROVE  Goes
<1> DEFINE expired == {c \in Commands : api[c] = "expired"}
<1>1. s' = Recovered(s, expired, TRUE) \/ s' = Recovered(s, expired, FALSE)
  BY DEF Start, Step
<1> HIDE DEF expired
<1>2. ASSUME NEW ok
      PROVE  /\ Sound(Recovered(s, expired, ok))
             /\ Recovered(s, expired, ok).fence = s.fence
             /\ Recovered(s, expired, ok).heard = {}
  BY RecoveredSound
<1>3. Sound(s') /\ s'.fence = s.fence /\ s'.heard = {}
  BY <1>1, <1>2
<1>4. QED BY <1>3 DEF Goes

\* A step of the control plane issues or expires; a step of the process leaves the
\* control plane's statuses alone; and what is on its way is what was, or what is open.
LEMMA StepGoes ==
  ASSUME IInv, Next
  PROVE  /\ Goes
         /\ api' \in [Commands -> {"unissued"} \cup Open \cup Ended]
         /\ \A c \in Commands : api[c] # "unissued" => api'[c] # "unissued"
         /\ poll' \in {poll, NoPoll, Listed}
         /\ up' \in BOOLEAN
<1>1. Sound(s) /\ api \in [Commands -> {"unissued"} \cup Open \cup Ended] /\ up \in BOOLEAN
  BY DEF IInv, TypeOK, Sound
<1>2. UNCHANGED s => Goes
  BY <1>1, KeepsGoes DEF Keeps
<1>3. CASE Issue
  BY <1>1, <1>2, <1>3 DEF Issue, Open, Ended
<1>4. CASE Expire
  BY <1>1, <1>2, <1>4 DEF Expire, Listed, Open, Ended
<1>5. CASE Respond
  BY <1>1, <1>2, <1>5 DEF Respond
<1>6. CASE Apply
  <2>1. Goes
    BY <1>6, ApplyGoes
  <2>2. QED BY <1>1, <1>6, <2>1 DEF Apply
<1>7. ASSUME NEW kind \in Kinds, Process(kind)
      PROVE  /\ Goes
             /\ api' \in [Commands -> {"unissued"} \cup Open \cup Ended]
             /\ \A c \in Commands : api[c] # "unissued" => api'[c] # "unissued"
             /\ poll' = poll /\ up' = up
  BY <1>7, ProcessKeeps, KeepsGoes DEF Process
<1>8. ASSUME NEW kind \in Kinds, Answer(kind)
      PROVE  Goes /\ UNCHANGED <<api, poll, up>>
  BY <1>1, <1>8, AnswerKeeps, KeepsGoes DEF Answer
<1>9. CASE Lose
  BY <1>1, <1>9, LoseKeeps, KeepsGoes DEF Lose
<1>10. CASE Ready
  BY <1>1, <1>10, ReadyGoes DEF Ready
<1>11. CASE Work \/ Finalize
  BY <1>1, <1>11, WorkKeeps, KeepsGoes DEF Work, Finalize
<1>12. CASE Refresh \/ RetryRecycle \/ RetryStop
  BY <1>1, <1>12, TimersKeep, KeepsGoes DEF Refresh, RetryRecycle, RetryStop
<1>13. CASE Halt
  BY <1>1, <1>13, HaltKeeps, KeepsGoes DEF Halt
<1>14. CASE SessionBegins
  BY <1>1, <1>14, SessionBeginsKeeps, KeepsGoes DEF SessionBegins
<1>15. CASE SessionEnds
  BY <1>1, <1>15, SessionEndsKeeps, KeepsGoes DEF SessionEnds
<1>16. CASE MarkerCleared
  BY <1>1, <1>16, MarkerClearedKeeps, KeepsGoes DEF MarkerCleared
<1>17. CASE Crash \/ Exit \/ PowerOff \/ Replace
  <2>1. Goes
    BY <1>1, <1>17, DeathKeeps, KeepsGoes
  <2>2. UNCHANGED api /\ poll' = NoPoll /\ up' = FALSE
    BY <1>17 DEF Crash, Exit, PowerOff, Replace, Died
  <2>3. QED BY <1>1, <2>1, <2>2
<1>18. CASE Start
  BY <1>1, <1>18, StartGoes DEF Start
<1>19. QED
  BY <1>1, <1>3, <1>4, <1>5, <1>6, <1>7, <1>8, <1>9, <1>10, <1>11, <1>12, <1>13, <1>14,
     <1>15, <1>16, <1>17, <1>18 DEF Next

LEMMA NextHolds ==
  ASSUME IInv, [Next]_vars
  PROVE  IInv' /\ s.fence \subseteq s'.fence
<1>1. CASE Next
  <2>1. /\ Goes
        /\ api' \in [Commands -> {"unissued"} \cup Open \cup Ended]
        /\ \A c \in Commands : api[c] # "unissued" => api'[c] # "unissued"
        /\ poll' \in {poll, NoPoll, Listed}
        /\ up' \in BOOLEAN
    BY <1>1, StepGoes
  <2>2. TypeOK' /\ Rules(s)'
    BY <2>1 DEF Goes, Sound, IInv, TypeOK, Listed
  <2>3. Issued'
    <3> SUFFICES ASSUME NEW c \in s'.heard \cup poll', c \in Commands
                 PROVE  api'[c] # "unissued"
      BY DEF Issued
    <3>1. c \in s.heard \cup poll \cup Listed
      BY <2>1, CommandAssumption DEF Goes, NoPoll
    <3>2. c \in Listed => api[c] # "unissued"
      BY DEF Listed, Open
    <3>3. api[c] # "unissued"
      BY <3>1, <3>2 DEF IInv, Issued
    <3>4. QED BY <2>1, <3>3
  <2>4. QED BY <2>1, <2>2, <2>3 DEF IInv, Goes
<1>2. CASE UNCHANGED vars
  BY <1>2 DEF vars, IInv, TypeOK, Rules, Issued, Replaced, Intended
<1>3. QED BY <1>1, <1>2

LEMMA IInvHolds == Spec => []IInv
<1>1. IInv /\ [Next]_vars => IInv'
  BY NextHolds
<1>2. QED BY InitHolds, <1>1, PTL DEF Spec

\* Every handler of instance-agent.ts and viewer-idle-stop.ts leaves a state of the
\* types it declares.
THEOREM TypesHold == Spec => []TypeOK
<1>1. IInv => TypeOK
  BY DEF IInv
<1>2. QED BY IInvHolds, <1>1, PTL

\* applyInstanceAgentControlResponse, tryLoadActiveCommand: a command from the journal
\* is not reported, started or torn down for before a response to this process lists it.
THEOREM QuarantinedHolds == Spec => []Quarantined
<1>1. IInv => Quarantined
  BY DEF IInv, Rules, Quarantined
<1>2. QED BY IInvHolds, <1>1, PTL

\* requestStackRecycle never writes an intent for a token that was completed, whatever
\* happened between its check and the reply to the start it awaits.
THEOREM ReplacedOnceHolds == Spec => ReplacedOnce
<1> DEFINE Once == s'.marker # s.marker /\ s'.marker # None /\ s'.marker.phase = "intent"
                     => s'.marker.for \notin s.fence
<1>1. IInv /\ IInv' /\ [Next]_vars => [Once]_vars
  <2> SUFFICES ASSUME IInv, IInv', [Next]_vars PROVE Once
    OBVIOUS
  <2>1. s.fence \subseteq s'.fence
    BY NextHolds
  <2>2. QED BY <2>1 DEF IInv, Rules, Intended
<1>2. QED BY IInvHolds, <1>1, PTL DEF Spec, ReplacedOnce

-----------------------------------------------------------------------------
(* A command that is reported complete was carried out.                    *)
(*                                                                         *)
(* Every report of a recycle follows from its token being completed, but   *)
(* one: a reset that is over before its gate is latched is taken for the   *)
(* replacement of whatever recycle is active.  What is proved is that such *)
(* a reset finds no recycle the control plane still waits for.             *)

\* The process goes by the command, or is going to when a reply comes.
Bears(x, c) ==
  c # None /\ \/ c = x.active
              \/ c = x.observed
              \/ \E call \in x.calls : call.kind \in {"ack", "start"} /\ call.cmd = c

\* A reset that a ready would end, though nothing was replaced.
Loose(x) == x.reset /\ ~x.latched

\* The gate is latched as long as a replacement is asked for, intended or owed.
Latch(x) ==
  /\ x.pending # None => x.latched
  /\ Intended(x) => x.latched
  /\ x.launching \/ x.launched => x.latched /\ x.pending = None
  /\ \A call \in x.calls : call.by = "launch" => x.latched

\* ended: the commands the control plane no longer waits for.
Earned(x, ended) ==
  /\ Loose(x) => \A c \in Recycles : Bears(x, c) => c \in x.fence \cup ended
  /\ x.observed # None =>
       \A c \in Commands : Bears(x, c) /\ c # x.observed => c \in x.fence \cup ended
  /\ \A call \in x.calls : call.kind = "complete" =>
       call.cmd \in x.fence \cup ended \/ (x.halted /\ call.cmd \in Shutdowns)

Firm(x) == Sound(x) /\ Latch(x)

\* A handler from x to y takes on no command, and completes none but by its token.
Carries(x, y) ==
  /\ Latch(y) /\ (x.latched => y.latched)
  /\ \A c \in Commands : Bears(y, c) => Bears(x, c)
  /\ y.observed \in {x.observed, None}
  /\ y.fence = x.fence /\ y.halted = x.halted /\ y.old = x.old
  /\ \A call \in y.calls :
       call.kind = "complete" => call \in x.calls \/ call.cmd \in x.fence

\* It goes by the same command before and after.
Steady(x, y) ==
  y.active = x.active /\ y.confirmed = x.confirmed /\ y.observed = x.observed

Follows(x, y) == Carries(x, y) /\ (Loose(y) => Loose(x))

Stands(x, y) == Follows(x, y) /\ Steady(x, y)

\* What is latched may become so, what is reset or launched may cease.
Calm(x, y) ==
  /\ y.active = x.active /\ y.confirmed = x.confirmed /\ y.observed = x.observed
  /\ y.fence = x.fence /\ y.halted = x.halted /\ y.old = x.old
  /\ y.calls = x.calls /\ y.pending = x.pending /\ y.marker = x.marker
  /\ (y.launching => x.launching) /\ (y.launched => x.launched)
  /\ (x.latched => y.latched) /\ (y.reset => x.reset)

LEMMA CalmStands ==
  ASSUME NEW x, Latch(x), NEW y, Calm(x, y)
  PROVE  Stands(x, y)
<1>1. Latch(y)
  BY DEF Calm, Latch, Intended
<1>2. \A c \in Commands : Bears(y, c) => Bears(x, c)
  BY DEF Calm, Bears
<1>3. QED
  BY <1>1, <1>2 DEF Calm, Stands, Follows, Carries, Steady, Loose

LEMMA CarriesThrough ==
  ASSUME NEW x, NEW y, NEW z, Carries(x, y), Carries(y, z)
  PROVE  Carries(x, z)
BY DEF Carries

LEMMA FollowsThrough ==
  ASSUME NEW x, NEW y, NEW z, Follows(x, y), Follows(y, z)
  PROVE  Follows(x, z)
BY CarriesThrough DEF Follows

LEMMA StandsThrough ==
  ASSUME NEW x, NEW y, NEW z, Stands(x, y), Stands(y, z)
  PROVE  Stands(x, z)
BY FollowsThrough DEF Stands, Steady

LEMMA StandsStill ==
  ASSUME NEW x, Latch(x)
  PROVE  Stands(x, x)
BY CalmStands DEF Calm

\* Who goes by the same command carries out, or ends, the same one.
LEMMA SteadyTracks ==
  ASSUME NEW x, NEW y, Steady(x, y), y.old = x.old, y.fence = x.fence
  PROVE  /\ Tracked(y) = Tracked(x) /\ ActiveShutdown(y) = ActiveShutdown(x)
         /\ ActiveRecycle(y) = ActiveRecycle(x)
BY DEF Steady, Tracked, ActiveShutdown, ActiveRecycle, Completed

LEMMA TrackedIsBorne ==
  ASSUME NEW x
  PROVE  /\ Tracked(x) # None => Bears(x, Tracked(x))
         /\ ActiveRecycle(x) # None => Bears(x, ActiveRecycle(x))
         /\ ActiveShutdown(x) # None => Bears(x, ActiveShutdown(x))
BY DEF Tracked, ActiveRecycle, ActiveShutdown, Bears

\* What was earned stays earned.
LEMMA EarnedThrough ==
  ASSUME NEW x, NEW y, NEW ended, Earned(x, ended), Follows(x, y)
  PROVE  Earned(y, ended)
<1>1. Loose(y) => \A c \in Recycles : Bears(y, c) => c \in y.fence \cup ended
  BY DEF Earned, Follows, Carries, Commands
<1>2. y.observed # None =>
        \A c \in Commands : Bears(y, c) /\ c # y.observed => c \in y.fence \cup ended
  BY DEF Earned, Follows, Carries
<1>3. \A call \in y.calls : call.kind = "complete" =>
        call.cmd \in y.fence \cup ended \/ (y.halted /\ call.cmd \in Shutdowns)
  BY DEF Earned, Follows, Carries
<1>4. QED BY <1>1, <1>2, <1>3 DEF Earned

-----------------------------------------------------------------------------
(* Calls, journal, status.                                                 *)

LEMMA AskedStands ==
  ASSUME NEW x, Firm(x), NEW kind, NEW c, NEW by,
         kind \in {"ack", "start"} => Bears(x, c),
         kind = "complete" => c \in x.fence,
         by = "launch" => x.latched
  PROVE  Stands(x, Asked(x, kind, c, by))
<1> DEFINE call == [kind |-> kind, cmd |-> c, by |-> by, reply |-> "none"]
           k == x.calls \cup {call}
           y == [x EXCEPT !.calls = k]
<1>1. call.kind = kind /\ call.cmd = c /\ call.by = by
  OBVIOUS
<1>2. y = Asked(x, kind, c, by)
  BY DEF Asked
<1> HIDE DEF call
<1>3. \A d \in k : d \in x.calls \/ d = call
  OBVIOUS
<1> HIDE DEF k
<1>4. /\ y.active = x.active /\ y.confirmed = x.confirmed /\ y.observed = x.observed
      /\ y.fence = x.fence /\ y.halted = x.halted /\ y.old = x.old
      /\ y.calls = k /\ y.pending = x.pending /\ y.marker = x.marker
      /\ y.launching = x.launching /\ y.launched = x.launched
      /\ y.latched = x.latched /\ y.reset = x.reset
  BY DEF Firm, Sound, State
<1> HIDE DEF y
<1>5. Latch(y)
  BY <1>1, <1>3, <1>4 DEF Firm, Latch, Intended
<1>6. \A d \in Commands : Bears(y, d) => Bears(x, d)
  BY <1>1, <1>3, <1>4 DEF Bears
<1>7. \A d \in y.calls : d.kind = "complete" => d \in x.calls \/ d.cmd \in x.fence
  BY <1>1, <1>3, <1>4
<1>8. Stands(x, y)
  BY <1>4, <1>5, <1>6, <1>7 DEF Stands, Follows, Carries, Steady, Loose
<1>9. QED BY <1>2, <1>8

LEMMA ClearedFollows ==
  ASSUME NEW x, Firm(x)
  PROVE  Follows(x, Cleared(x))
<1> DEFINE y == [x EXCEPT !.active = None, !.recovered = None, !.confirmed = TRUE,
                          !.journal = None]
<1>1. /\ y.active = None /\ y.observed = x.observed
      /\ y.fence = x.fence /\ y.halted = x.halted /\ y.old = x.old
      /\ y.calls = x.calls /\ y.pending = x.pending /\ y.marker = x.marker
      /\ y.launching = x.launching /\ y.launched = x.launched
      /\ y.latched = x.latched /\ y.reset = x.reset
  BY DEF Firm, Sound, State
<1> HIDE DEF y
<1>2. Latch(y)
  BY <1>1 DEF Firm, Latch, Intended
<1>3. \A d \in Commands : Bears(y, d) => Bears(x, d)
  BY <1>1 DEF Bears
<1>4. Follows(x, y)
  BY <1>1, <1>2, <1>3 DEF Follows, Carries, Loose
<1>5. QED BY <1>4 DEF Cleared, y

LEMMA ClearedOfFollows ==
  ASSUME NEW x, Firm(x), NEW c
  PROVE  Follows(x, ClearedOf(x, c))
BY ClearedFollows, StandsStill DEF ClearedOf, Firm, Stands

LEMMA InvalidatedFollows ==
  ASSUME NEW x, Firm(x), NEW c
  PROVE  Follows(x, Invalidated(x, c))
<1> DEFINE a == ClearedOf(x, c)
           y == [a EXCEPT !.deferred = FALSE, !.required = TRUE, !.wished = FALSE]
<1>1. Sound(a) /\ Follows(x, a)
  BY ClearedOfKeeps, ClearedOfFollows DEF Firm, Keeps
<1> HIDE DEF a
<1>2. Calm(a, y)
  BY <1>1 DEF Calm, Sound, State
<1> HIDE DEF y
<1>3. Follows(a, y)
  BY <1>1, <1>2, CalmStands DEF Stands, Follows, Carries
<1>4. QED BY <1>1, <1>3, FollowsThrough DEF Invalidated, a, y

\* A status that is published, before the gate is latched for it.
LEMMA ResettingCarries ==
  ASSUME NEW x, Firm(x)
  PROVE  /\ Carries(x, Published(x)) /\ Steady(x, Published(x))
         /\ Carries(x, Resetting(x)) /\ Steady(x, Resetting(x))
         /\ \A p \in {Published(x), Resetting(x)} :
              /\ p.marker = x.marker /\ p.viewers = x.viewers
              /\ p.committed = x.committed /\ p.passive = x.passive
              /\ p.launched = x.launched
<1> DEFINE p == [x EXCEPT !.ready = FALSE, !.reset = TRUE]
           r == [x EXCEPT !.ready = FALSE, !.reset = TRUE, !.resetting = TRUE]
           Level(y) ==
             /\ y.active = x.active /\ y.confirmed = x.confirmed /\ y.observed = x.observed
             /\ y.fence = x.fence /\ y.halted = x.halted /\ y.old = x.old
             /\ y.calls = x.calls /\ y.pending = x.pending /\ y.marker = x.marker
             /\ y.launching = x.launching /\ y.launched = x.launched
             /\ y.latched = x.latched /\ y.viewers = x.viewers
             /\ y.committed = x.committed /\ y.passive = x.passive
<1>1. Published(x) = p /\ Resetting(x) = r
  BY DEF Published, Resetting
<1>2. Level(p)
  BY DEF Firm, Sound, State
<1>3. Level(r)
  BY DEF Firm, Sound, State
<1> HIDE DEF p, r
<1>4. ASSUME NEW y, Level(y)
      PROVE  Carries(x, y) /\ Steady(x, y)
  <2>1. Latch(y)
    BY <1>4 DEF Firm, Latch, Intended
  <2>2. \A d \in Commands : Bears(y, d) => Bears(x, d)
    BY <1>4 DEF Bears
  <2>3. QED BY <1>4, <2>1, <2>2 DEF Carries, Steady
<1>5. QED BY <1>1, <1>2, <1>3, <1>4

LEMMA RestoredStands ==
  ASSUME NEW x, Firm(x)
  PROVE  Stands(x, Restored(x))
<1> DEFINE y == [x EXCEPT !.ready = TRUE, !.reset = FALSE]
<1>1. Calm(x, y)
  BY DEF Calm, Firm, Sound, State
<1> HIDE DEF y
<1>2. Stands(x, y) /\ Stands(x, x)
  BY <1>1, CalmStands, StandsStill DEF Firm
<1>3. QED BY <1>2 DEF Restored, y

\* The status that a failed reset leaves.
LEMMA StoppingRecordedStands ==
  ASSUME NEW x, Firm(x)
  PROVE  Stands(x, StoppingRecorded(x))
<1> DEFINE m == IF x.pending # None THEN None ELSE x.marker
           z == [x EXCEPT !.ready = FALSE, !.reset = FALSE, !.pending = None, !.marker = m]
           c == Correlated(x)
           a == Asked(z, "fail", c, "report")
<1>1. StoppingRecorded(x) \in {a, z}
  BY DEF StoppingRecorded
<1>2. Sound(z)
  <2>1. z \in State
    <3>1. m \in Marker \cup {None} /\ None \in Tokens \cup {None} /\ FALSE \in BOOLEAN
      BY DEF Firm, Sound, State
    <3> HIDE DEF m
    <3>2. QED BY <3>1, ZenonT(60) DEF Firm, Sound, State
  <2>2. /\ z.calls = x.calls /\ z.pending = None /\ z.marker = m
        /\ z.fence = x.fence /\ z.heard = x.heard /\ z.observed = x.observed
        /\ z.active = x.active /\ z.confirmed = x.confirmed /\ z.capturing = x.capturing
    BY DEF Firm, Sound, State
  <2>3. m = None \/ m = x.marker
    OBVIOUS
  <2> HIDE DEF z, m
  <2>4. QED BY <2>1, <2>2, <2>3 DEF Firm, Sound, Rules, Replaced, Intended
<1>3. /\ z.active = x.active /\ z.confirmed = x.confirmed /\ z.observed = x.observed
      /\ z.fence = x.fence /\ z.halted = x.halted /\ z.old = x.old
      /\ z.calls = x.calls /\ z.pending = None /\ z.marker = m
      /\ z.launching = x.launching /\ z.launched = x.launched
      /\ z.latched = x.latched /\ z.reset = FALSE
  BY DEF Firm, Sound, State
<1>4. m = None \/ m = x.marker
  OBVIOUS
<1> HIDE DEF z, m, c
<1>5. Latch(z)
  BY <1>3, <1>4 DEF Firm, Latch, Intended
<1>6. \A d \in Commands : Bears(z, d) => Bears(x, d)
  BY <1>3 DEF Bears
<1>7. Stands(x, z)
  BY <1>3, <1>5, <1>6 DEF Stands, Follows, Carries, Steady, Loose
<1>8. Stands(z, a)
  BY <1>2, <1>5, AskedStands DEF Firm
<1> HIDE DEF a
<1>9. QED BY <1>1, <1>7, <1>8, StandsThrough

-----------------------------------------------------------------------------
(* Teardown.                                                               *)

LEMMA StopRequestedStands ==
  ASSUME NEW x, Firm(x)
  PROVE  Stands(x, StopRequested(x))
<1> DEFINE y == [x EXCEPT !.latched = TRUE, !.resetting = FALSE, !.launched = FALSE,
                          !.passive = FALSE]
           a == [y EXCEPT !.stop = "starting"]
           h == [y EXCEPT !.stop = "halting"]
           c == ActiveShutdown(y)
           k == Asked(a, "start", c, "stop")
<1>1. StopRequested(x) \in {x, Restored(y), h} \/ (c # None /\ StopRequested(x) = k)
  BY DEF StopRequested, y
<1>2. Sound(y) /\ Calm(x, y)
  <2>1. y \in State
    BY ZenonT(60) DEF Firm, Sound, State
  <2>2. Alike(x, y)
    BY DEF Alike, Firm, Sound, State
  <2>3. Calm(x, y)
    BY DEF Calm, Firm, Sound, State
  <2>4. QED BY <2>1, <2>2, <2>3, AlikeKeeps DEF Keeps, Firm
<1> HIDE DEF y
<1>3. Stands(x, y) /\ Firm(y)
  BY <1>2, CalmStands DEF Firm, Stands, Follows, Carries
<1>4. Sound(a) /\ Calm(y, a) /\ Calm(y, h)
  <2>1. a = [y EXCEPT !.stop = "starting"] /\ "starting" \in {"none", "starting", "halting", "ending"}
    OBVIOUS
  <2>2. Keeps(y, a)
    BY <1>2, <2>1, StopSetKeeps
  <2>3. Calm(y, a) /\ Calm(y, h)
    BY <1>2 DEF Calm, Sound, State
  <2>4. QED BY <2>2, <2>3 DEF Keeps
<1> HIDE DEF a, h
<1>5. Stands(y, a) /\ Firm(a) /\ Stands(y, h) /\ Stands(y, Restored(y)) /\ Stands(x, x)
  BY <1>3, <1>4, CalmStands, RestoredStands, StandsStill DEF Firm, Stands, Follows, Carries
<1>6. c # None => Stands(a, k)
  <2>1. c = ActiveShutdown(a)
    BY <1>5, SteadyTracks DEF Stands, Follows, Carries
  <2>2. c # None => Bears(a, c)
    BY <2>1, TrackedIsBorne
  <2> HIDE DEF c
  <2>3. QED BY <1>5, <2>2, AskedStands
<1> HIDE DEF k, c
<1>7. Stands(x, Restored(y)) /\ Stands(x, h) /\ Stands(x, a)
  BY <1>3, <1>5, StandsThrough
<1>8. c # None => Stands(x, k)
  BY <1>6, <1>7, StandsThrough
<1>9. QED BY <1>1, <1>5, <1>7, <1>8

\* A launch that failed behind a latched gate.
LEMMA LaunchFailedStands ==
  ASSUME NEW x, Firm(x), x.latched
  PROVE  Stands(x, LaunchFailed(x))
<1> DEFINE a == Resetting(x)
           b == [a EXCEPT !.passive = TRUE, !.retry = TRUE]
           d == [x EXCEPT !.resetting = FALSE, !.launched = FALSE, !.passive = FALSE]
<1>1. LaunchFailed(x) \in {b, Restored(d)}
  BY DEF LaunchFailed
<1>2. Carries(x, a) /\ Steady(x, a) /\ Sound(a)
  BY ResettingCarries, ResettingKeeps DEF Firm, Keeps
<1> HIDE DEF a
<1>3. Stands(x, a) /\ Firm(a)
  BY <1>2 DEF Stands, Follows, Carries, Loose, Firm
<1>4. Calm(a, b)
  BY <1>2 DEF Calm, Sound, State
<1>5. Sound(d) /\ Calm(x, d)
  <2>1. d \in State
    BY ZenonT(60) DEF Firm, Sound, State
  <2>2. Alike(x, d)
    BY DEF Alike, Firm, Sound, State
  <2>3. Calm(x, d)
    BY DEF Calm, Firm, Sound, State
  <2>4. QED BY <2>1, <2>2, <2>3, AlikeKeeps DEF Keeps, Firm
<1> HIDE DEF b, d
<1>6. Stands(a, b) /\ Stands(x, d) /\ Firm(d)
  BY <1>3, <1>4, <1>5, CalmStands DEF Firm, Stands, Follows, Carries
<1>7. Stands(d, Restored(d))
  BY <1>6, RestoredStands
<1>8. QED BY <1>1, <1>3, <1>6, <1>7, StandsThrough

LEMMA LaunchStands ==
  ASSUME NEW x, Firm(x), x.latched, NEW cmd, cmd # None => cmd \in x.heard,
         NEW tok \in Tokens, Replaced(x) \/ tok \notin x.fence, NEW ok
  PROVE  Stands(x, Launch(x, cmd, tok, ok))
<1> DEFINE y == [x EXCEPT !.launching = FALSE]
           w == [y EXCEPT !.resetting = TRUE, !.retry = TRUE]
           m == [phase |-> "intent", for |-> tok]
           l == [y EXCEPT !.marker = m, !.helper = TRUE, !.launched = TRUE, !.retry = FALSE]
           z == [y EXCEPT !.marker = None, !.launched = FALSE]
           f == IF cmd # None THEN Asked(z, "fail", cmd, "report") ELSE z
<1>1. Launch(x, cmd, tok, ok) = IF Replaced(x) THEN w ELSE IF ok THEN l ELSE LaunchFailed(f)
  BY DEF Launch
<1>2. Sound(y) /\ Calm(x, y)
  <2>1. y \in State
    BY ZenonT(60) DEF Firm, Sound, State
  <2>2. Alike(x, y)
    BY DEF Alike, Firm, Sound, State
  <2>3. Calm(x, y)
    BY DEF Calm, Firm, Sound, State
  <2>4. QED BY <2>1, <2>2, <2>3, AlikeKeeps DEF Keeps, Firm
<1> HIDE DEF y
<1>3. Stands(x, y) /\ Firm(y) /\ y.latched /\ (Replaced(y) <=> Replaced(x))
  BY <1>2, CalmStands DEF Firm, Stands, Follows, Carries, Calm, Replaced
<1>4. Calm(y, w)
  BY <1>2 DEF Calm, Sound, State
<1>5. ~Replaced(x) => y.pending = None
  BY <1>2, <1>3 DEF Sound, Rules
<1>6. /\ l.active = y.active /\ l.confirmed = y.confirmed /\ l.observed = y.observed
      /\ l.fence = y.fence /\ l.halted = y.halted /\ l.old = y.old
      /\ l.calls = y.calls /\ l.pending = y.pending
      /\ l.latched = y.latched /\ l.reset = y.reset
  BY <1>2 DEF Sound, State
<1>7. /\ z.active = y.active /\ z.confirmed = y.confirmed /\ z.observed = y.observed
      /\ z.fence = y.fence /\ z.halted = y.halted /\ z.old = y.old /\ z.heard = y.heard
      /\ z.calls = y.calls /\ z.pending = y.pending /\ z.marker = None
      /\ z.launching = y.launching /\ z.launched = FALSE
      /\ z.latched = y.latched /\ z.reset = y.reset /\ z.capturing = y.capturing
  BY <1>2 DEF Sound, State
<1>8. z \in State
  <2>1. None \in Marker \cup {None} /\ FALSE \in BOOLEAN
    OBVIOUS
  <2>2. QED BY <1>2, <2>1, ZenonT(60) DEF Sound, State
<1> HIDE DEF w, l, z
<1>9. Stands(y, w)
  BY <1>3, <1>4, CalmStands DEF Firm
<1>10. ~Replaced(x) => Stands(y, l)
  <2>1. ~Replaced(x) => Latch(l)
    BY <1>3, <1>5, <1>6 DEF Firm, Latch
  <2>2. \A d \in Commands : Bears(l, d) => Bears(y, d)
    BY <1>6 DEF Bears
  <2>3. QED BY <1>6, <2>1, <2>2 DEF Stands, Follows, Carries, Steady, Loose
<1>11. ~Replaced(x) => Stands(y, z) /\ Firm(z)
  <2>1. Latch(z)
    BY <1>3, <1>7 DEF Firm, Latch, Intended
  <2>2. \A d \in Commands : Bears(z, d) => Bears(y, d)
    BY <1>7 DEF Bears
  <2>3. ~Replaced(x) => Sound(z)
    BY <1>2, <1>3, <1>7, <1>8 DEF Sound, Rules, Replaced, Intended
  <2>4. QED BY <1>7, <2>1, <2>2, <2>3 DEF Stands, Follows, Carries, Steady, Loose, Firm
<1>12. ~Replaced(x) => Stands(z, f) /\ Firm(f) /\ f.latched
  <2> SUFFICES ASSUME ~Replaced(x) PROVE Stands(z, f) /\ Sound(f) /\ z.latched
    BY DEF Stands, Follows, Carries, Firm
  <2>1. Stands(z, Asked(z, "fail", cmd, "report")) /\ Stands(z, z)
    BY <1>11, AskedStands, StandsStill DEF Firm
  <2>2. y.heard = x.heard
    BY DEF y, Firm, Sound, State
  <2>3. "fail" \in Kinds /\ "report" \in By /\ "report" # "launch"
    BY DEF Kinds, By
  <2>4. cmd # None => Keeps(z, Asked(z, "fail", cmd, "report"))
    BY <1>7, <1>11, <2>2, <2>3, AskedKeeps DEF Firm
  <2>5. QED BY <1>3, <1>7, <1>11, <2>1, <2>4 DEF Keeps, Firm
<1> HIDE DEF f
<1>13. ~Replaced(x) => Stands(f, LaunchFailed(f))
  BY <1>12, LaunchFailedStands
<1>14. ~Replaced(x) => Stands(x, l) /\ Stands(x, LaunchFailed(f))
  BY <1>3, <1>10, <1>11, <1>12, <1>13, StandsThrough
<1>15. Stands(x, w)
  BY <1>3, <1>9, StandsThrough
<1>16. QED BY <1>1, <1>14, <1>15

\* What asks for a replacement that may be launched latches the gate.
LEMMA RecycleRequestedStands ==
  ASSUME NEW x, Firm(x), NEW ok
  PROVE  /\ Stands(x, RecycleRequested(x, ok))
         /\ ~Replaced(x) /\ (x.committed \/ ~x.viewers) /\ Intent(x)
              => RecycleRequested(x, ok).latched
<1> DEFINE w == [x EXCEPT !.resetting = TRUE, !.retry = TRUE]
           d == [x EXCEPT !.resetting = FALSE, !.retry = FALSE]
           y == [x EXCEPT !.latched = TRUE, !.launching = TRUE]
           t == ToStart(x)
           tok == LaunchToken(x)
           a == Asked(y, "start", t, "launch")
           l == Launch(y, None, tok, ok)
<1>1. RecycleRequested(x, ok) =
        IF x.launching \/ x.launched THEN x
        ELSE IF Replaced(x) THEN w
        ELSE IF ~x.committed /\ x.viewers THEN Restored(x)
        ELSE IF ~Intent(x) THEN Restored(d)
        ELSE IF Completed(x, tok) THEN d
        ELSE IF t # None THEN a ELSE l
  BY DEF RecycleRequested
<1>2. x \in State /\ Sound(x) /\ Latch(x)
  BY DEF Firm, Sound
<1>3. /\ Sound(d) /\ Sound(y)
      /\ Calm(x, w) /\ Calm(x, d)
  <2>1. d \in State
    BY <1>2, ZenonT(60) DEF State
  <2>2. y \in State
    BY <1>2, ZenonT(60) DEF State
  <2>3. Alike(x, d) /\ Alike(x, y)
    BY <1>2 DEF Alike, State
  <2>4. Calm(x, w) /\ Calm(x, d)
    BY <1>2 DEF Calm, State
  <2>5. QED BY <1>2, <2>1, <2>2, <2>3, <2>4, AlikeKeeps DEF Keeps
<1>4. /\ y.active = x.active /\ y.confirmed = x.confirmed /\ y.observed = x.observed
      /\ y.fence = x.fence /\ y.halted = x.halted /\ y.old = x.old
      /\ y.calls = x.calls /\ y.pending = x.pending /\ y.marker = x.marker
      /\ y.launched = x.launched /\ y.latched = TRUE
  BY <1>2 DEF State
<1>5. /\ tok \in Tokens /\ ~Completed(x, tok)
      /\ (t # None => Bears(x, t))
  <2>1. ActiveRecycle(x) # None =>
          ActiveRecycle(x) \in Recycles \ x.fence /\ Bears(x, ActiveRecycle(x))
    BY <1>2, TrackedIsHeard, TrackedIsBorne
  <2>2. Intended(x) => x.marker.for \in Tokens /\ x.marker.for \notin x.fence
    BY <1>2 DEF Intended, Sound, Rules, State, Marker
  <2>3. Passive \notin x.fence
    BY <1>2, CommandAssumption DEF State, Commands
  <2>4. QED BY <2>1, <2>2, <2>3 DEF LaunchToken, ToStart, Tokens, Completed
<1> HIDE DEF w, d, y, t, tok
<1>6. /\ Stands(x, w) /\ Stands(x, Restored(x)) /\ Stands(x, x)
      /\ Stands(x, d) /\ Firm(d)
  BY <1>2, <1>3, CalmStands, RestoredStands, StandsStill
     DEF Firm, Stands, Follows, Carries
<1>7. Stands(x, Restored(d))
  <2>1. Stands(d, Restored(d))
    BY <1>6, RestoredStands
  <2>2. QED BY <1>6, <2>1, StandsThrough
<1>8. ~Replaced(x) => Stands(x, y) /\ Firm(y)
  <2>1. ~Replaced(x) => x.pending = None
    BY <1>2 DEF Sound, Rules
  <2>2. ~Replaced(x) => Latch(y)
    BY <1>2, <1>4, <2>1 DEF Latch, Intended
  <2>3. \A c \in Commands : Bears(y, c) => Bears(x, c)
    BY <1>4 DEF Bears
  <2>4. QED
    BY <1>3, <1>4, <2>2, <2>3 DEF Stands, Follows, Carries, Steady, Loose, Firm
<1>9. ~Replaced(x) /\ t # None => Stands(x, a) /\ a.latched
  <2> SUFFICES ASSUME ~Replaced(x), t # None PROVE Stands(x, a) /\ a.latched
    OBVIOUS
  <2>1. Bears(y, t)
    BY <1>4, <1>5 DEF Bears
  <2>2. Stands(y, a)
    BY <1>4, <1>8, <2>1, AskedStands
  <2> HIDE DEF a
  <2>3. QED BY <1>4, <1>8, <2>2, StandsThrough DEF Stands, Follows, Carries
<1>10. ~Replaced(x) => Stands(x, l) /\ l.latched
  <2> SUFFICES ASSUME ~Replaced(x) PROVE Stands(x, l) /\ l.latched
    OBVIOUS
  <2>1. tok \notin y.fence
    BY <1>4, <1>5 DEF Completed
  <2>2. Stands(y, l)
    BY <1>4, <1>5, <1>8, <2>1, LaunchStands
  <2> HIDE DEF l
  <2>3. QED BY <1>4, <1>8, <2>2, StandsThrough DEF Stands, Follows, Carries
<1> HIDE DEF a, l
<1>11. x.launching \/ x.launched => x.latched
  BY <1>2 DEF Latch
<1>12. Stands(x, RecycleRequested(x, ok))
  BY <1>1, <1>6, <1>7, <1>9, <1>10
<1>13. QED BY <1>1, <1>5, <1>9, <1>10, <1>11, <1>12

\* A reset latches the gate before anything else happens, when it is not refused.
LEMMA ResetStartedLatches ==
  ASSUME NEW x, Firm(x), NEW ok
  PROVE  /\ Carries(x, ResetStarted(x, ok)) /\ Steady(x, ResetStarted(x, ok))
         /\ Stands(x, ResetStarted(x, ok))
         /\ ~Replaced(x) /\ (x.committed \/ ~x.viewers) /\ (Intent(x) \/ x.latched)
              => ResetStarted(x, ok).latched
<1> DEFINE a == Resetting(x)
           r == RecycleRequested(a, ok)
<1>1. ResetStarted(x, ok) = IF Replaced(x) THEN RecycleRequested(x, ok)
                            ELSE IF (~x.committed /\ x.viewers) \/ ~Intent(x) THEN x ELSE r
  BY DEF ResetStarted
<1>2. /\ Carries(x, a) /\ Steady(x, a) /\ Sound(a)
      /\ a.marker = x.marker /\ a.viewers = x.viewers /\ a.committed = x.committed
      /\ a.passive = x.passive /\ a.launched = x.launched
  BY ResettingCarries, ResettingKeeps DEF Firm, Keeps
<1>3. (Replaced(a) <=> Replaced(x)) /\ (Intent(a) <=> Intent(x))
  <2>1. ActiveRecycle(a) = ActiveRecycle(x)
    BY <1>2, SteadyTracks DEF Carries
  <2>2. Replaced(a) <=> Replaced(x)
    BY <1>2 DEF Replaced
  <2>3. QED BY <1>2, <2>1, <2>2 DEF Intent, InProgress
<1> HIDE DEF a
<1>4. Firm(a)
  BY <1>2 DEF Firm, Carries
<1>5. Stands(a, r) /\ (~Replaced(a) /\ (a.committed \/ ~a.viewers) /\ Intent(a) => r.latched)
  BY <1>4, RecycleRequestedStands
<1> HIDE DEF r
<1>6. ~Replaced(x) /\ (x.committed \/ ~x.viewers) /\ Intent(x) => Stands(x, r) /\ r.latched
  <2> SUFFICES ASSUME ~Replaced(x), x.committed \/ ~x.viewers, Intent(x)
               PROVE  Stands(x, r) /\ r.latched
    OBVIOUS
  <2>1. r.latched /\ Stands(a, r)
    BY <1>2, <1>3, <1>5
  <2>2. Carries(x, r) /\ Steady(x, r)
    BY <1>2, <2>1, CarriesThrough DEF Stands, Follows, Steady
  <2>3. QED BY <2>1, <2>2 DEF Stands, Follows, Loose
<1>7. Stands(x, x) /\ Stands(x, RecycleRequested(x, ok))
  BY StandsStill, RecycleRequestedStands DEF Firm
<1>8. Stands(x, ResetStarted(x, ok))
  BY <1>1, <1>6, <1>7
<1>9. QED BY <1>1, <1>6, <1>8 DEF Stands, Follows

LEMMA ResumedStands ==
  ASSUME NEW x, Firm(x), NEW ok
  PROVE  Stands(x, RecycleResumed(x, ok)) /\ Stands(x, ShutdownResumed(x))
<1>1. Stands(x, x) /\ Stands(x, ResetStarted(x, ok)) /\ Stands(x, StopRequested(x))
  BY StandsStill, ResetStartedLatches, StopRequestedStands DEF Firm
<1>2. QED BY <1>1 DEF RecycleResumed, ShutdownResumed

\* A recovery that finds a stop in flight publishes a reset behind whatever gate there
\* is: this is the only reset that may be loose.
LEMMA RecoveryHeardCarries ==
  ASSUME NEW x, Firm(x), NEW ok
  PROVE  /\ Carries(x, RecoveryHeard(x, ok)) /\ Steady(x, RecoveryHeard(x, ok))
         /\ Loose(RecoveryHeard(x, ok)) => Loose(x) \/ ActiveShutdown(x) # None
<1> DEFINE y == [x EXCEPT !.committed = TRUE, !.passive = TRUE]
           p == Published(y)
           r == RecycleRequested(y, ok)
           k == StopRequested(p)
           q == ResetStarted(p, ok)
<1>1. RecoveryHeard(x, ok) = IF ~x.required \/ x.pending # None \/ x.committed THEN x
                             ELSE IF Replaced(x) THEN r
                             ELSE IF ActiveShutdown(x) # None THEN k ELSE q
  BY DEF RecoveryHeard
<1>2. /\ Sound(y) /\ Calm(x, y)
      /\ y.marker = x.marker /\ y.committed = TRUE /\ y.passive = TRUE
  <2>1. y \in State
    BY ZenonT(60) DEF Firm, Sound, State
  <2>2. Alike(x, y)
    BY DEF Alike, Firm, Sound, State
  <2>3. Calm(x, y) /\ y.committed = TRUE /\ y.passive = TRUE
    BY DEF Calm, Firm, Sound, State
  <2>4. QED BY <2>1, <2>2, <2>3, AlikeKeeps DEF Keeps, Firm, Alike
<1> HIDE DEF y
<1>3. Stands(x, y) /\ Firm(y)
  BY <1>2, CalmStands DEF Firm, Stands, Follows, Carries
<1>4. /\ Carries(y, p) /\ Steady(y, p) /\ Firm(p)
      /\ p.marker = y.marker /\ p.committed = y.committed /\ p.passive = y.passive
  BY <1>3, ResettingCarries, PublishedKeeps DEF Firm, Keeps, Carries
<1> HIDE DEF p
<1>5. Stands(y, r) /\ Stands(p, k) /\ Stands(p, q) /\ Stands(x, x)
  BY <1>3, <1>4, RecycleRequestedStands, StopRequestedStands, ResetStartedLatches,
     StandsStill DEF Firm
<1>6. ~Replaced(x) => q.latched
  <2> SUFFICES ASSUME ~Replaced(x) PROVE q.latched
    OBVIOUS
  <2>1. ~Replaced(p) /\ p.committed /\ p.passive
    BY <1>2, <1>4 DEF Replaced
  <2>2. Intent(p) \/ p.latched
    BY <1>4, <2>1 DEF Intent, InProgress, Firm, Latch
  <2>3. QED BY <1>4, <2>1, <2>2, ResetStartedLatches
<1> HIDE DEF r, k, q
<1>7. Stands(x, r)
  BY <1>3, <1>5, StandsThrough
<1>8. Carries(x, k) /\ Steady(x, k) /\ Carries(x, q) /\ Steady(x, q)
  <2>1. Carries(x, p) /\ Steady(x, p)
    BY <1>3, <1>4, CarriesThrough DEF Stands, Follows, Steady
  <2>2. QED BY <1>5, <2>1, CarriesThrough DEF Stands, Follows, Steady
<1>9. QED BY <1>1, <1>5, <1>6, <1>7, <1>8 DEF Stands, Follows, Loose

-----------------------------------------------------------------------------
(* A control response.                                                     *)

LEMMA DesiredAppliedCarries ==
  ASSUME NEW x, Firm(x), NEW listed, NEW ok
  PROVE  /\ Carries(x, DesiredApplied(x, listed, ok))
         /\ Steady(x, DesiredApplied(x, listed, ok))
         /\ Loose(DesiredApplied(x, listed, ok)) => Loose(x) \/ ActiveShutdown(x) # None
<1> DEFINE y == [x EXCEPT !.wished = TRUE]
           z == IF x.wished \/ Suppressed(y) THEN y
                ELSE IF ActiveShutdown(y) # None THEN ShutdownResumed(y)
                ELSE RecycleResumed(y, ok)
           d == [z EXCEPT !.deferred = FALSE, !.required = TRUE]
<1>1. DesiredApplied(x, listed, ok) \in {RecoveryHeard(d, ok), RecoveryHeard(z, ok), z}
  BY DEF DesiredApplied
<1>2. Sound(y) /\ Calm(x, y)
  <2>1. y \in State
    BY ZenonT(60) DEF Firm, Sound, State
  <2>2. Alike(x, y)
    BY DEF Alike, Firm, Sound, State
  <2>3. Calm(x, y)
    BY DEF Calm, Firm, Sound, State
  <2>4. QED BY <2>1, <2>2, <2>3, AlikeKeeps DEF Keeps, Firm
<1> HIDE DEF y
<1>3. Stands(x, y) /\ Firm(y)
  BY <1>2, CalmStands DEF Firm, Stands, Follows, Carries
<1>4. Stands(x, z) /\ Firm(z)
  <2>1. /\ Stands(y, ShutdownResumed(y)) /\ Sound(ShutdownResumed(y))
        /\ Stands(y, RecycleResumed(y, ok)) /\ Sound(RecycleResumed(y, ok))
    BY <1>3, ResumedStands, ResumedKeeps DEF Firm, Keeps
  <2>2. Stands(x, z) /\ Sound(z)
    BY <1>3, <2>1, StandsThrough DEF Firm
  <2>3. QED BY <2>2 DEF Firm, Stands, Follows, Carries
<1> HIDE DEF z
<1>5. Sound(d) /\ Calm(z, d)
  <2>1. d \in State
    BY <1>4, ZenonT(60) DEF Firm, Sound, State
  <2>2. Alike(z, d)
    BY <1>4 DEF Alike, Firm, Sound, State
  <2>3. Calm(z, d)
    BY <1>4 DEF Calm, Firm, Sound, State
  <2>4. QED BY <1>4, <2>1, <2>2, <2>3, AlikeKeeps DEF Keeps, Firm
<1> HIDE DEF d
<1>6. Stands(x, d) /\ Firm(d)
  <2>1. Stands(z, d) /\ Firm(d)
    BY <1>4, <1>5, CalmStands DEF Firm, Stands, Follows, Carries
  <2>2. QED BY <1>4, <2>1, StandsThrough
<1>7. ASSUME NEW e, Stands(x, e), Firm(e)
      PROVE  /\ Carries(x, RecoveryHeard(e, ok)) /\ Steady(x, RecoveryHeard(e, ok))
             /\ Loose(RecoveryHeard(e, ok)) => Loose(x) \/ ActiveShutdown(x) # None
  <2>1. /\ Carries(e, RecoveryHeard(e, ok)) /\ Steady(e, RecoveryHeard(e, ok))
        /\ Loose(RecoveryHeard(e, ok)) => Loose(e) \/ ActiveShutdown(e) # None
    BY <1>7, RecoveryHeardCarries
  <2>2. ActiveShutdown(e) = ActiveShutdown(x)
    BY <1>7, SteadyTracks DEF Stands, Follows, Carries
  <2>3. QED BY <1>7, <2>1, <2>2, CarriesThrough DEF Stands, Follows, Steady
<1>8. QED BY <1>1, <1>4, <1>6, <1>7 DEF Stands, Follows

LEMMA ConfirmedFollows ==
  ASSUME NEW x, Firm(x), NEW listed
  PROVE  /\ Follows(x, Confirmed(x, listed))
         /\ Confirmed(x, listed).active \in listed \cup {None}
         /\ Confirmed(x, listed).active # None => Confirmed(x, listed).confirmed
<1> DEFINE a == StillOpen(x, listed)
           c == [x EXCEPT !.confirmed = TRUE]
           h == a.heard \cup listed
           y == [a EXCEPT !.heard = h]
           Level(w, v) ==
             /\ v.active = w.active /\ v.observed = w.observed
             /\ v.fence = w.fence /\ v.halted = w.halted /\ v.old = w.old
             /\ v.calls = w.calls /\ v.pending = w.pending /\ v.marker = w.marker
             /\ v.launching = w.launching /\ v.launched = w.launched
             /\ v.latched = w.latched /\ v.reset = w.reset
<1>1. c \in State /\ Level(x, c) /\ c.confirmed = TRUE
  <2>1. c \in State
    BY ZenonT(60) DEF Firm, Sound, State
  <2>2. QED BY <2>1 DEF Firm, Sound, State
<1>2. /\ \/ a = x /\ x.active = None
         \/ a = c /\ x.active \in listed
         \/ a = Cleared(x)
         \/ a = Invalidated(x, x.active)
  BY DEF StillOpen
<1> HIDE DEF c
<1>3. ASSUME NEW w, NEW v, Level(w, v), Latch(w)
      PROVE  Follows(w, v)
  <2>1. Latch(v)
    BY <1>3 DEF Latch, Intended
  <2>2. \A d \in Commands : Bears(v, d) => Bears(w, d)
    BY <1>3 DEF Bears
  <2>3. QED BY <1>3, <2>1, <2>2 DEF Follows, Carries, Loose
<1>4. /\ Keeps(x, Cleared(x)) /\ Keeps(x, Invalidated(x, x.active))
      /\ Follows(x, Cleared(x)) /\ Follows(x, Invalidated(x, x.active))
  BY ClearedKeeps, InvalidatedKeeps, ClearedFollows, InvalidatedFollows DEF Firm
<1>5. Cleared(x).active = None /\ Invalidated(x, x.active).active = None
  BY DEF Cleared, Invalidated, ClearedOf, Firm, Sound, State
<1>6. /\ Follows(x, a) /\ a \in State
      /\ a.active \in listed \cup {None}
      /\ a.active # None => a.confirmed
  <2>1. CASE a = x /\ x.active = None
    BY <2>1, StandsStill DEF Firm, Stands, Sound
  <2>2. CASE a = c /\ x.active \in listed
    BY <1>1, <1>3, <2>2 DEF Firm
  <2>3. CASE a = Cleared(x)
    BY <1>4, <1>5, <2>3 DEF Keeps, Sound
  <2>4. CASE a = Invalidated(x, x.active)
    BY <1>4, <1>5, <2>4 DEF Keeps, Sound
  <2>5. QED BY <1>2, <2>1, <2>2, <2>3, <2>4
<1> HIDE DEF a
<1>7. Level(a, y) /\ y.confirmed = a.confirmed
  BY <1>6 DEF State
<1>8. y = Confirmed(x, listed)
  BY DEF Confirmed, a
<1> HIDE DEF y
<1>9. Follows(a, y)
  BY <1>3, <1>6, <1>7 DEF Follows, Carries
<1>10. QED BY <1>6, <1>7, <1>8, <1>9, FollowsThrough

\* What the process goes by was listed to it.
LEMMA BorneIsHeard ==
  ASSUME NEW x, Sound(x), x.active # None => x.confirmed, NEW c, Bears(x, c)
  PROVE  c \in x.heard
BY DEF Sound, Rules, Bears

LEMMA EarnedCarried ==
  ASSUME NEW x, NEW y, NEW ended, Earned(x, ended), Carries(x, y),
         Loose(y) => \A c \in Recycles : Bears(x, c) => c \in x.fence \cup ended
  PROVE  Earned(y, ended)
<1>1. Loose(y) => \A c \in Recycles : Bears(y, c) => c \in y.fence \cup ended
  BY DEF Carries, Commands
<1>2. y.observed # None =>
        \A c \in Commands : Bears(y, c) /\ c # y.observed => c \in y.fence \cup ended
  BY DEF Earned, Carries
<1>3. \A call \in y.calls : call.kind = "complete" =>
        call.cmd \in y.fence \cup ended \/ (y.halted /\ call.cmd \in Shutdowns)
  BY DEF Earned, Carries
<1>4. QED BY <1>1, <1>2, <1>3 DEF Earned

\* The listeners go by the last command they take, and by nothing else the control
\* plane waits for, since no other is open.
LEMMA ListenedEarned ==
  ASSUME NEW x, Firm(x), NEW ended, Earned(x, ended), x.active # None => x.confirmed,
         NEW listed, listed \subseteq x.heard, NEW tracked,
         NEW last \in listed \cup {None},
         last = None => Taken(x, listed, tracked) = {},
         \A c \in x.heard, d \in listed : c # d => c \in ended
  PROVE  /\ Latch(Listened(x, listed, tracked, last))
         /\ Earned(Listened(x, listed, tracked, last), ended)
         /\ Listened(x, listed, tracked, last).halted = x.halted
<1> DEFINE news == {c \in listed : Verdict(x, c, tracked) # "known"}
           new == {Reaction(x, c, tracked) : c \in news}
           k == x.calls \cup new
           o == IF last # None THEN last ELSE x.observed
           g == x.latched \/ last # None
           y == [x EXCEPT !.calls = k, !.observed = o, !.latched = g]
<1>1. Listened(x, listed, tracked, last) = y
  BY DEF Listened
<1>2. \A d \in new : /\ d.by # "launch" /\ d.cmd \in listed
                     /\ d.kind = "complete" => d.cmd \in x.fence
                     /\ d.kind \in {"ack", "start"} => last # None
  <2> SUFFICES ASSUME NEW c \in news
               PROVE  LET d == Reaction(x, c, tracked) IN
                      /\ d.by # "launch" /\ d.cmd \in listed
                      /\ d.kind = "complete" => d.cmd \in x.fence
                      /\ d.kind \in {"ack", "start"} => last # None
    OBVIOUS
  <2>1. Verdict(x, c, tracked) # "start" /\ (Verdict(x, c, tracked) = "complete" => c \in x.fence)
    BY DEF Verdict, Completed
  <2>2. Verdict(x, c, tracked) = "ack" => last # None
    BY DEF Taken
  <2>3. QED BY <2>1, <2>2 DEF Reaction
<1> HIDE DEF new
<1>3. \A d \in k : d \in x.calls \/ d \in new
  OBVIOUS
<1>4. g \in BOOLEAN /\ (g <=> x.latched \/ last # None)
  OBVIOUS
<1>5. /\ last = None => o = x.observed
      /\ last # None => o = last
  OBVIOUS
<1> HIDE DEF k, o, g
<1>6. /\ y.active = x.active /\ y.confirmed = x.confirmed /\ y.observed = o
      /\ y.fence = x.fence /\ y.halted = x.halted
      /\ y.calls = k /\ y.pending = x.pending /\ y.marker = x.marker
      /\ y.launching = x.launching /\ y.launched = x.launched
      /\ y.latched = g /\ y.reset = x.reset
  BY DEF Firm, Sound, State
<1> HIDE DEF y
<1>7. Latch(y)
  BY <1>2, <1>3, <1>4, <1>6 DEF Firm, Latch, Intended
<1>8. \A d \in y.calls : d.kind = "complete" =>
        d.cmd \in y.fence \cup ended \/ (y.halted /\ d.cmd \in Shutdowns)
  BY <1>2, <1>3, <1>6 DEF Earned
<1>9. CASE last = None
  <2>1. \A c : Bears(y, c) => Bears(x, c)
    BY <1>2, <1>3, <1>5, <1>6, <1>9 DEF Bears
  <2>2. Loose(y) => Loose(x)
    BY <1>4, <1>6, <1>9 DEF Loose
  <2>3. Loose(y) => \A c \in Recycles : Bears(y, c) => c \in y.fence \cup ended
    BY <1>6, <2>1, <2>2 DEF Earned
  <2>4. y.observed # None =>
          \A c \in Commands : Bears(y, c) /\ c # y.observed => c \in y.fence \cup ended
    BY <1>5, <1>6, <1>9, <2>1 DEF Earned
  <2>5. QED BY <1>1, <1>6, <1>7, <1>8, <2>3, <2>4 DEF Earned
<1>10. CASE last # None
  <2>1. \A c : Bears(y, c) => Bears(x, c) \/ c \in listed
    BY <1>2, <1>3, <1>5, <1>6, <1>10 DEF Bears
  <2>2. \A c : Bears(y, c) => c \in x.heard
    BY <2>1, BorneIsHeard DEF Firm
  <2>3. \A c \in Commands : Bears(y, c) /\ c # y.observed => c \in ended
    BY <1>5, <1>6, <1>10, <2>2
  <2>4. ~Loose(y)
    BY <1>4, <1>6, <1>10 DEF Loose
  <2>5. QED BY <1>1, <1>6, <1>7, <1>8, <2>3, <2>4 DEF Earned
<1>11. QED BY <1>9, <1>10

LEMMA ResponseAppliedEarned ==
  ASSUME NEW x, Firm(x), NEW ended, Earned(x, ended),
         NEW listed \in SUBSET Commands, NEW last \in listed \cup {None}, NEW ok,
         last = None => Taken(x, listed, Known(Confirmed(x, listed))) = {},
         \A c \in x.heard \cup listed, d \in listed : c # d => c \in ended
  PROVE  /\ Latch(ResponseApplied(x, listed, last, ok))
         /\ Earned(ResponseApplied(x, listed, last, ok), ended)
         /\ ResponseApplied(x, listed, last, ok).halted = x.halted
<1> DEFINE y == Confirmed(x, listed)
           z == DesiredApplied(y, listed, ok)
           t == Tracked(y)
           f == Asked(z, "fail", t, "report")
           w == IF Superseded(y, t) /\ listed # {} THEN f ELSE z
           v == Listened(w, listed, Known(y), last)
<1>1. ResponseApplied(x, listed, last, ok) = v
  BY DEF ResponseApplied
<1>2. /\ Follows(x, y) /\ y.active \in listed \cup {None}
      /\ y.active # None => y.confirmed
      /\ Sound(y) /\ y.heard = x.heard \cup listed
  BY ConfirmedFollows, ConfirmedSound DEF Firm
<1> HIDE DEF y
<1>3. Firm(y) /\ Earned(y, ended)
  BY <1>2, EarnedThrough DEF Firm, Follows, Carries
<1>4. /\ Carries(y, z) /\ Steady(y, z) /\ Keeps(y, z)
      /\ Loose(z) => Loose(y) \/ ActiveShutdown(y) # None
  BY <1>3, DesiredAppliedCarries, DesiredAppliedKeeps DEF Firm
<1> HIDE DEF z
<1>5. ActiveShutdown(y) # None =>
        \A c \in Recycles : Bears(y, c) => c \in y.fence \cup ended
  <2> SUFFICES ASSUME ActiveShutdown(y) # None, NEW c \in Recycles, Bears(y, c)
               PROVE  c \in y.fence \cup ended
    OBVIOUS
  <2>1. t \in Shutdowns /\ t # None /\ c # t /\ c \in Commands
    BY CommandAssumption DEF ActiveShutdown, Commands
  <2>2. c \in x.heard \cup listed
    BY <1>2, <1>3, BorneIsHeard DEF Firm
  <2>3. CASE y.active # None
    <3>1. t \in listed
      BY <1>2, <2>3 DEF Tracked
    <3>2. QED BY <2>1, <2>2, <3>1
  <2>4. CASE y.active = None
    <3>1. t = y.observed
      BY <2>4 DEF Tracked
    <3>2. QED BY <1>3, <2>1, <3>1 DEF Earned
  <2>5. QED BY <2>3, <2>4
<1>6. Earned(z, ended) /\ Firm(z)
  <2>1. Loose(z) => \A c \in Recycles : Bears(y, c) => c \in y.fence \cup ended
    BY <1>3, <1>4, <1>5 DEF Earned
  <2>2. QED BY <1>3, <1>4, <2>1, EarnedCarried DEF Firm, Keeps, Carries
<1>7. Superseded(y, t) => t \in z.heard
  BY <1>3, <1>4, TrackedIsHeard DEF Keeps, Superseded, Firm
<1> HIDE DEF t
<1>8. Superseded(y, t) => Keeps(z, f) /\ Stands(z, f)
  <2>1. "fail" \in Kinds /\ "report" \in By /\ "report" # "launch"
    BY DEF Kinds, By
  <2>2. QED BY <1>6, <1>7, <2>1, AskedKeeps, AskedStands DEF Firm
<1> HIDE DEF f
<1>9. Keeps(z, w) /\ Stands(z, w)
  BY <1>6, <1>8, StandsStill DEF Keeps, Firm
<1> HIDE DEF w
<1>10. Firm(w) /\ Earned(w, ended) /\ (w.active # None => w.confirmed)
       /\ w.heard = x.heard \cup listed /\ w.fence = x.fence /\ w.old = x.old
       /\ w.halted = x.halted
  <2>1. Firm(w) /\ Earned(w, ended)
    BY <1>6, <1>9, EarnedThrough DEF Keeps, Firm, Stands, Follows, Carries
  <2>2. w.active # None => w.confirmed
    BY <1>2, <1>4, <1>9 DEF Stands, Steady
  <2>3. w.heard = x.heard \cup listed
    BY <1>2, <1>4, <1>9 DEF Keeps
  <2>4. w.fence = x.fence /\ w.old = x.old /\ w.halted = x.halted
    BY <1>2, <1>4, <1>9 DEF Stands, Follows, Carries
  <2>5. QED BY <2>1, <2>2, <2>3, <2>4
<1>11. last = None => Taken(w, listed, Known(y)) = {}
  BY <1>10 DEF Taken, Verdict, Superseded, Completed, y
<1>12. QED BY <1>1, <1>10, <1>11, ListenedEarned

-----------------------------------------------------------------------------
(* Replies.                                                                *)

\* The call that is answered: what it was for is still borne by the state it left.
LEMMA CallTaken ==
  ASSUME NEW w, Firm(w), NEW call \in w.calls
  PROVE  LET x == [w EXCEPT !.calls = @ \ {call}]
         IN /\ Stands(w, x) /\ Firm(x) /\ call \in Call /\ call.cmd \in x.heard
            /\ LaunchAllowed(x, call) /\ (call.by = "launch" => x.latched)
<1> DEFINE k == w.calls \ {call}
           x == [w EXCEPT !.calls = k]
<1>1. x = [w EXCEPT !.calls = @ \ {call}]
  OBVIOUS
<1>2. Keeps(w, x) /\ call \in Call /\ call.cmd \in x.heard /\ LaunchAllowed(x, call)
  BY <1>1, TakenKeeps DEF Firm
<1>3. k \subseteq w.calls
  OBVIOUS
<1> HIDE DEF k
<1>4. /\ x.active = w.active /\ x.confirmed = w.confirmed /\ x.observed = w.observed
      /\ x.fence = w.fence /\ x.halted = w.halted /\ x.old = w.old
      /\ x.calls = k /\ x.pending = w.pending /\ x.marker = w.marker
      /\ x.launching = w.launching /\ x.launched = w.launched
      /\ x.latched = w.latched /\ x.reset = w.reset
  BY DEF Firm, Sound, State
<1> HIDE DEF x
<1>5. Latch(x)
  BY <1>3, <1>4 DEF Firm, Latch, Intended
<1>6. \A d \in Commands : Bears(x, d) => Bears(w, d)
  BY <1>3, <1>4 DEF Bears
<1>7. Stands(w, x)
  BY <1>3, <1>4, <1>5, <1>6 DEF Stands, Follows, Carries, Steady, Loose
<1>8. Firm(x) /\ (call.by = "launch" => x.latched)
  BY <1>2, <1>4, <1>5 DEF Firm, Keeps, Latch
<1>9. QED BY <1>1, <1>2, <1>7, <1>8

LEMMA TransitionedFollows ==
  ASSUME NEW w, NEW x, Firm(x), Stands(w, x), NEW call \in Call, call.reply # "none",
         call.kind \in {"ack", "start"}, call \in w.calls, call.cmd \in x.heard
  PROVE  Follows(w, Transitioned(x, call)) /\ Firm(Transitioned(x, call))
<1> DEFINE c == call.cmd
           st == IF call.reply = "accepted"
                 THEN IF call.kind = "ack" THEN "acked" ELSE "running"
                 ELSE call.reply
           y == [x EXCEPT !.active = c, !.st = st, !.confirmed = TRUE, !.journal = c]
<1>1. Transitioned(x, call) = IF call.reply = "ended" THEN Invalidated(x, call.cmd) ELSE y
  BY DEF Transitioned, Persisted
<1>2. Sound(Transitioned(x, call))
  BY TransitionedKeeps DEF Keeps, Firm
<1>3. Follows(w, Invalidated(x, call.cmd))
  <2>1. Follows(x, Invalidated(x, call.cmd)) /\ Follows(w, x)
    BY InvalidatedFollows DEF Stands
  <2>2. QED BY <2>1, FollowsThrough
<1>4. c \in Commands => c # None
  BY CommandAssumption
<1>5. c \in Commands /\ (\E d \in w.calls : d.kind \in {"ack", "start"} /\ d.cmd = c)
  BY DEF Call
<1> HIDE DEF c, st
<1>6. /\ y.active = c /\ y.observed = x.observed
      /\ y.fence = x.fence /\ y.halted = x.halted /\ y.old = x.old
      /\ y.calls = x.calls /\ y.pending = x.pending /\ y.marker = x.marker
      /\ y.launching = x.launching /\ y.launched = x.launched
      /\ y.latched = x.latched /\ y.reset = x.reset
  BY DEF Firm, Sound, State
<1> HIDE DEF y
<1>7. Latch(y)
  BY <1>6 DEF Firm, Latch, Intended
<1>8. \A d \in Commands : Bears(y, d) => Bears(w, d)
  <2>1. \A d \in Commands : Bears(y, d) => Bears(x, d) \/ d = c
    BY <1>6 DEF Bears
  <2>2. Bears(w, c)
    BY <1>4, <1>5 DEF Bears
  <2>3. QED BY <2>1, <2>2 DEF Stands, Follows, Carries
<1>9. Follows(w, y)
  BY <1>6, <1>7, <1>8 DEF Stands, Follows, Carries, Loose
<1>10. Follows(w, Transitioned(x, call))
  BY <1>1, <1>3, <1>9
<1>11. QED BY <1>2, <1>10 DEF Firm, Follows, Carries

LEMMA LaunchedStartedStands ==
  ASSUME NEW x, Firm(x)
  PROVE  Stands(x, LaunchedStarted(x))
<1> DEFINE c == ActiveRecycle(x)
           a == Asked(x, "start", c, "launched")
<1>1. LaunchedStarted(x) = x \/ (c # None /\ LaunchedStarted(x) = a)
  BY DEF LaunchedStarted
<1>2. c # None => Bears(x, c)
  BY TrackedIsBorne
<1> HIDE DEF c
<1>3. c # None => Stands(x, a)
  BY <1>2, AskedStands
<1>4. QED BY <1>1, <1>3, StandsStill DEF Firm

LEMMA AckRepliedFollows ==
  ASSUME NEW w, NEW x, Firm(x), Stands(w, x), NEW call \in Call, call.reply # "none",
         call.kind = "ack", call \in w.calls, call.cmd \in x.heard, NEW ok
  PROVE  Follows(w, AckReplied(x, call, ok))
<1> DEFINE t == Transitioned(x, call)
           y == [t EXCEPT !.observed = None]
           v == [y EXCEPT !.told = TRUE]
<1>1. AckReplied(x, call, ok) \in
        {y, v, StopRequested(y), LaunchedStarted(y), RecycleResumed(y, ok)}
  BY DEF AckReplied
<1>2. Follows(w, t) /\ Firm(t)
  BY TransitionedFollows
<1> HIDE DEF t
<1>3. y \in State
  <2>1. None \in Commands \cup {None}
    OBVIOUS
  <2>2. QED BY <1>2, <2>1, ZenonT(60) DEF Firm, Sound, State
<1>4. /\ y.active = t.active /\ y.confirmed = t.confirmed /\ y.observed = None
      /\ y.fence = t.fence /\ y.halted = t.halted /\ y.old = t.old
      /\ y.calls = t.calls /\ y.pending = t.pending /\ y.marker = t.marker
      /\ y.launching = t.launching /\ y.launched = t.launched
      /\ y.latched = t.latched /\ y.reset = t.reset
      /\ y.heard = t.heard /\ y.capturing = t.capturing
  BY <1>2 DEF Firm, Sound, State
<1>5. Calm(y, v)
  BY <1>3 DEF Calm, State
<1> HIDE DEF y, v
<1>6. Firm(y)
  <2>1. Latch(y)
    BY <1>2, <1>4 DEF Firm, Latch, Intended
  <2>2. Rules(y)
    BY <1>2, <1>4 DEF Firm, Sound, Rules, Replaced, Intended
  <2>3. QED BY <1>3, <2>1, <2>2 DEF Firm, Sound
<1>7. Follows(t, y)
  <2>1. \A d \in Commands : Bears(y, d) => Bears(t, d)
    BY <1>4 DEF Bears
  <2>2. QED BY <1>4, <1>6, <2>1 DEF Follows, Carries, Loose, Firm
<1>8. Follows(w, y)
  BY <1>2, <1>7, FollowsThrough
<1>9. /\ Follows(y, y) /\ Follows(y, v) /\ Follows(y, StopRequested(y))
      /\ Follows(y, LaunchedStarted(y)) /\ Follows(y, RecycleResumed(y, ok))
  BY <1>5, <1>6, CalmStands, StandsStill, StopRequestedStands, LaunchedStartedStands,
     ResumedStands DEF Firm, Stands
<1>10. ASSUME NEW e, Follows(y, e)
       PROVE  Follows(w, e)
  BY <1>8, <1>10, FollowsThrough
<1>11. QED BY <1>1, <1>9, <1>10

LEMMA CallLaunchFollows ==
  ASSUME NEW w, NEW y, Firm(y), Follows(w, y), NEW call \in Call, call.by = "launch",
         call.cmd \in y.heard, call.cmd \in Recycles \ y.fence, y.latched, NEW ok
  PROVE  Follows(w, Launch(y, call.cmd, call.cmd, ok))
<1> DEFINE c == call.cmd
<1>1. c \in Tokens /\ c \notin y.fence /\ c \in y.heard
  BY DEF Tokens
<1> HIDE DEF c
<1>2. Stands(y, Launch(y, c, c, ok))
  BY <1>1, LaunchStands
<1>3. Follows(w, Launch(y, c, c, ok))
  BY <1>2, FollowsThrough DEF Stands
<1>4. QED BY <1>3 DEF c

LEMMA StopSetStands ==
  ASSUME NEW x, Firm(x), NEW st
  PROVE  Stands(x, [x EXCEPT !.stop = st])
<1> DEFINE y == [x EXCEPT !.stop = st]
<1>1. Calm(x, y)
  BY DEF Calm, Firm, Sound, State
<1>2. QED BY <1>1, CalmStands DEF Firm

LEMMA StartRepliedFollows ==
  ASSUME NEW w, NEW x, Firm(x), Stands(w, x), NEW call \in Call, call.reply # "none",
         call.kind = "start", call \in w.calls, call.cmd \in x.heard,
         LaunchAllowed(x, call), call.by = "launch" => x.latched, NEW ok
  PROVE  Follows(w, StartReplied(x, call, ok))
<1> DEFINE y == Transitioned(x, call)
           p == [y EXCEPT !.passive = TRUE]
           z == IF call.reply = "ended" THEN p ELSE y
           st == IF call.reply = "ended" THEN "none" ELSE "halting"
           t == [y EXCEPT !.stop = st]
           l == Launch(z, call.cmd, call.cmd, ok)
<1>1. StartReplied(x, call, ok) \in {y, z, t}
        \/ (call.by = "launch" /\ StartReplied(x, call, ok) = l)
  <2>1. CASE call.by = "launch"
    BY <2>1 DEF StartReplied
  <2>2. CASE call.by = "launched"
    BY <2>2 DEF StartReplied
  <2>3. CASE call.by = "stop"
    BY <2>3 DEF StartReplied
  <2>4. CASE call.by \notin {"launch", "launched", "stop"}
    BY <2>4 DEF StartReplied
  <2>5. QED BY <2>1, <2>2, <2>3, <2>4
<1>2. Follows(w, y) /\ Firm(y) /\ Keeps(x, y)
  BY TransitionedFollows, TransitionedKeeps DEF Firm
<1>3. x.latched => y.latched
  BY DEF Transitioned, Invalidated, ClearedOf, Cleared, Persisted, Firm, Sound, State
<1> HIDE DEF y
<1>4. Sound(p) /\ Calm(y, p) /\ Alike(y, p)
  <2>1. p \in State
    BY <1>2, ZenonT(60) DEF Firm, Sound, State
  <2>2. Alike(y, p)
    BY <1>2 DEF Alike, Firm, Sound, State
  <2>3. Calm(y, p)
    BY <1>2 DEF Calm, Firm, Sound, State
  <2>4. QED BY <1>2, <2>1, <2>2, <2>3, AlikeKeeps DEF Keeps, Firm
<1> HIDE DEF p
<1>5. Follows(w, p) /\ Firm(p)
  <2>1. Stands(y, p)
    BY <1>2, <1>4, CalmStands DEF Firm
  <2>2. QED BY <1>2, <1>4, <2>1, FollowsThrough DEF Firm, Stands, Follows, Carries
<1>6. Follows(w, z) /\ Firm(z)
  BY <1>2, <1>5
<1>7. /\ call.by = "launch" => z.latched /\ call.cmd \in Recycles \ z.fence
      /\ call.cmd \in z.heard
  BY <1>2, <1>3, <1>4 DEF LaunchAllowed, Keeps, Alike, Calm
<1> HIDE DEF z
<1>8. Follows(w, t)
  <2>1. Stands(y, t)
    BY <1>2, StopSetStands
  <2>2. QED BY <1>2, <2>1, FollowsThrough DEF Stands
<1> HIDE DEF t
<1>9. call.by = "launch" => Follows(w, l)
  BY <1>6, <1>7, CallLaunchFollows
<1> HIDE DEF l
<1>10. QED BY <1>1, <1>2, <1>6, <1>8, <1>9

LEMMA StopEndedStands ==
  ASSUME NEW x, Firm(x)
  PROVE  Stands(x, StopEnded(x))
<1> DEFINE n == [x EXCEPT !.stop = "none"]
           r == StoppingRecorded(x)
           y == [r EXCEPT !.stop = "none", !.again = TRUE]
<1>1. StopEnded(x) \in {n, y}
  BY DEF StopEnded
<1>2. Stands(x, n) /\ Stands(x, r) /\ Sound(r)
  BY StopSetStands, StoppingRecordedStands, StoppingRecordedKeeps DEF Firm, Keeps
<1> HIDE DEF n, r
<1>3. Calm(r, y)
  BY <1>2 DEF Calm, Sound, State
<1> HIDE DEF y
<1>4. Stands(r, y)
  BY <1>2, <1>3, CalmStands DEF Stands, Follows, Carries
<1>5. QED BY <1>1, <1>2, <1>4, StandsThrough

LEMMA EndRepliedFollows ==
  ASSUME NEW x, Firm(x), NEW call
  PROVE  Follows(x, EndReplied(x, call))
<1> DEFINE y == ClearedOf(x, call.cmd)
<1>1. Follows(x, y) /\ Sound(y)
  BY ClearedOfFollows, ClearedOfKeeps DEF Firm, Keeps
<1>2. EndReplied(x, call) = IF call.by = "stop" THEN StopEnded(y) ELSE y
  BY DEF EndReplied
<1> HIDE DEF y
<1>3. Follows(y, StopEnded(y))
  BY <1>1, StopEndedStands DEF Stands, Firm, Follows, Carries
<1>4. QED BY <1>1, <1>2, <1>3, FollowsThrough

LEMMA RepliedFollows ==
  ASSUME NEW w, NEW x, Firm(x), Stands(w, x), NEW call \in Call, call.reply # "none",
         call \in w.calls, call.cmd \in x.heard,
         LaunchAllowed(x, call), call.by = "launch" => x.latched, NEW ok
  PROVE  Follows(w, Replied(x, call, ok))
<1>1. CASE call.kind = "ack"
  BY <1>1, AckRepliedFollows DEF Replied
<1>2. CASE call.kind = "start"
  BY <1>2, StartRepliedFollows DEF Replied
<1>3. CASE call.kind \notin {"ack", "start"}
  <2>1. Follows(w, x) /\ Follows(x, EndReplied(x, call))
    BY EndRepliedFollows DEF Stands
  <2>2. QED BY <1>3, <2>1, FollowsThrough DEF Replied
<1>4. QED BY <1>1, <1>2, <1>3

LEMMA CallFailedFollows ==
  ASSUME NEW w, NEW x, Firm(x), Stands(w, x), NEW call \in Call, call.cmd \in x.heard,
         LaunchAllowed(x, call), call.by = "launch" => x.latched, NEW ok
  PROVE  Follows(w, CallFailed(x, call, ok))
<1> DEFINE y == [x EXCEPT !.observed = None]
           h == [x EXCEPT !.stop = "halting"]
           l == Launch(x, call.cmd, call.cmd, ok)
<1>1. CallFailed(x, call, ok) \in {x, y, h, StopEnded(x)}
      \/ (call.by = "launch" /\ CallFailed(x, call, ok) = l)
  BY DEF CallFailed
<1>2. Follows(x, y)
  <2>1. /\ y.active = x.active /\ y.observed = None
        /\ y.fence = x.fence /\ y.halted = x.halted /\ y.old = x.old
        /\ y.calls = x.calls /\ y.pending = x.pending /\ y.marker = x.marker
        /\ y.launching = x.launching /\ y.launched = x.launched
        /\ y.latched = x.latched /\ y.reset = x.reset
    BY DEF Firm, Sound, State
  <2> HIDE DEF y
  <2>2. Latch(y)
    BY <2>1 DEF Firm, Latch, Intended
  <2>3. \A d \in Commands : Bears(y, d) => Bears(x, d)
    BY <2>1 DEF Bears
  <2>4. QED BY <2>1, <2>2, <2>3 DEF Follows, Carries, Loose
<1>3. Follows(x, x) /\ Follows(x, h) /\ Follows(x, StopEnded(x))
  BY StandsStill, StopSetStands, StopEndedStands DEF Firm, Stands
<1>4. Follows(w, x)
  BY DEF Stands
<1>5. call.by = "launch" => Follows(w, l)
  BY <1>4, CallLaunchFollows DEF LaunchAllowed
<1> HIDE DEF y, h, l
<1>6. Follows(w, y) /\ Follows(w, h) /\ Follows(w, StopEnded(x))
  BY <1>2, <1>3, <1>4, FollowsThrough
<1>7. QED BY <1>1, <1>4, <1>5, <1>6

-----------------------------------------------------------------------------
(* What is earned outright.                                                *)

\* A report that is true.
LEMMA AskedEarned ==
  ASSUME NEW x \in State, Latch(x), NEW ended, Earned(x, ended),
         NEW kind \in {"complete", "fail"}, NEW c, NEW by, by # "launch",
         kind = "complete" => c \in x.fence \cup ended \/ (x.halted /\ c \in Shutdowns)
  PROVE  /\ Latch(Asked(x, kind, c, by)) /\ Earned(Asked(x, kind, c, by), ended)
         /\ Asked(x, kind, c, by).halted = x.halted
<1> DEFINE call == [kind |-> kind, cmd |-> c, by |-> by, reply |-> "none"]
           k == x.calls \cup {call}
           y == [x EXCEPT !.calls = k]
<1>1. call.kind = kind /\ call.cmd = c /\ call.by = by
  OBVIOUS
<1>2. y = Asked(x, kind, c, by)
  BY DEF Asked
<1> HIDE DEF call
<1>3. \A d \in k : d \in x.calls \/ d = call
  OBVIOUS
<1> HIDE DEF k
<1>4. /\ y.active = x.active /\ y.observed = x.observed
      /\ y.fence = x.fence /\ y.halted = x.halted
      /\ y.calls = k /\ y.pending = x.pending /\ y.marker = x.marker
      /\ y.launching = x.launching /\ y.launched = x.launched
      /\ y.latched = x.latched /\ y.reset = x.reset
  BY DEF State
<1> HIDE DEF y
<1>5. Latch(y)
  BY <1>1, <1>3, <1>4 DEF Latch, Intended
<1>6. \A d : Bears(y, d) => Bears(x, d)
  BY <1>1, <1>3, <1>4 DEF Bears
<1>7. Loose(y) => \A d \in Recycles : Bears(y, d) => d \in y.fence \cup ended
  BY <1>4, <1>6 DEF Earned, Loose
<1>8. y.observed # None =>
        \A d \in Commands : Bears(y, d) /\ d # y.observed => d \in y.fence \cup ended
  BY <1>4, <1>6 DEF Earned
<1>9. \A d \in y.calls : d.kind = "complete" =>
        d.cmd \in y.fence \cup ended \/ (y.halted /\ d.cmd \in Shutdowns)
  BY <1>1, <1>3, <1>4 DEF Earned
<1>10. Earned(y, ended)
  BY <1>7, <1>8, <1>9 DEF Earned
<1>11. QED BY <1>2, <1>4, <1>5, <1>10

\* A ready completes the token that is owed, or finds a loose reset.
LEMMA ReadyRecordedEarned ==
  ASSUME NEW x, Firm(x), NEW ended, Earned(x, ended)
  PROVE  /\ Latch(ReadyRecorded(x)) /\ Earned(ReadyRecorded(x), ended)
         /\ ReadyRecorded(x).halted = x.halted
<1> DEFINE f == x.fence \cup ({x.pending} \cap Recycles)
           done == [x EXCEPT !.latched = FALSE, !.required = FALSE, !.fence = f]
           y == IF x.pending # None /\ x.latched THEN done ELSE x
           r == [y EXCEPT !.ready = TRUE]
           z == [r EXCEPT !.reset = FALSE, !.pending = None]
           c == Correlated(y)
           k == Asked(z, "complete", c, "report")
<1>1. ReadyRecorded(x) = IF (~y.reset /\ y.pending = None) \/ y.latched THEN r
                         ELSE IF c # None THEN k ELSE z
  BY DEF ReadyRecorded
<1>2. x \in State /\ Rules(x) /\ Latch(x)
  BY DEF Firm, Sound
<1>3. y \in State
  <2>1. f \in SUBSET Recycles
    BY <1>2 DEF State
  <2> HIDE DEF f
  <2>2. done \in State
    BY <1>2, <2>1, ZenonT(60) DEF State
  <2>3. QED BY <1>2, <2>2
<1>4. /\ y.active = x.active /\ y.confirmed = x.confirmed /\ y.observed = x.observed
      /\ y.halted = x.halted /\ y.calls = x.calls /\ y.pending = x.pending
      /\ y.marker = x.marker /\ y.launching = x.launching /\ y.launched = x.launched
      /\ y.reset = x.reset
  BY <1>2 DEF State
<1>5. \/ x.pending # None /\ y.latched = FALSE /\ y.fence = f
      \/ x.pending = None /\ y = x
  BY <1>2 DEF Latch, State
<1>6. x.fence \subseteq f /\ (x.pending \in Recycles => x.pending \in f)
  OBVIOUS
<1> HIDE DEF y, f
<1>7. r \in State /\ Calm(y, r)
  <2>1. r \in State
    BY <1>3, ZenonT(60) DEF State
  <2>2. Calm(y, r)
    BY <1>3 DEF Calm, State
  <2>3. QED BY <2>1, <2>2
<1>8. z \in State
  <2>1. None \in Tokens \cup {None} /\ FALSE \in BOOLEAN
    OBVIOUS
  <2>2. r \in State
    BY <1>7
  <2> HIDE DEF r
  <2>3. QED BY <2>1, <2>2, ZenonT(60) DEF State
<1>9. /\ z.active = y.active /\ z.observed = y.observed
      /\ z.fence = y.fence /\ z.halted = y.halted
      /\ z.calls = y.calls /\ z.pending = None /\ z.marker = y.marker
      /\ z.launching = y.launching /\ z.launched = y.launched
      /\ z.latched = y.latched /\ z.reset = FALSE
  BY <1>3 DEF State
<1> HIDE DEF z, r
<1>10. Latch(z)
  <2>1. CASE x.pending = None
    BY <1>2, <1>5, <1>9, <2>1 DEF Latch, Intended
  <2>2. CASE x.pending # None
    <3>1. Replaced(x) /\ ~x.launching /\ ~x.launched
      BY <1>2, <2>2 DEF Rules, Latch
    <3>2. \A call \in x.calls : call.by # "launch"
      BY <1>2, <3>1 DEF Rules
    <3>3. QED BY <1>4, <1>9, <3>1, <3>2 DEF Latch, Intended, Replaced
  <2>3. QED BY <2>1, <2>2
<1>11. Earned(z, ended)
  <2>1. \A d : Bears(z, d) => Bears(x, d)
    BY <1>4, <1>9 DEF Bears
  <2>2. x.fence \subseteq z.fence
    BY <1>5, <1>6, <1>9
  <2>3. ~Loose(z)
    BY <1>9 DEF Loose
  <2>4. z.observed # None =>
          \A d \in Commands : Bears(z, d) /\ d # z.observed => d \in z.fence \cup ended
    BY <1>4, <1>9, <2>1, <2>2 DEF Earned
  <2>5. \A d \in z.calls : d.kind = "complete" =>
          d.cmd \in z.fence \cup ended \/ (z.halted /\ d.cmd \in Shutdowns)
    BY <1>4, <1>9, <2>2 DEF Earned
  <2>6. QED BY <2>3, <2>4, <2>5 DEF Earned
<1>12. CASE (~y.reset /\ y.pending = None) \/ y.latched
  <2>1. y = x
    BY <1>4, <1>5, <1>12
  <2>2. Follows(x, r)
    BY <1>2, <1>7, <2>1, CalmStands DEF Stands
  <2>3. ReadyRecorded(x) = r
    BY <1>1, <1>12
  <2>4. QED BY <2>2, <2>3, EarnedThrough DEF Follows, Carries
<1>13. CASE ~((~y.reset /\ y.pending = None) \/ y.latched)
  <2>1. c # None => c \in z.fence \cup ended
    <3> SUFFICES ASSUME c # None PROVE c \in z.fence \cup ended
      OBVIOUS
    <3>1. c = y.active /\ c \in Recycles /\ y.pending \in {None, c}
      BY DEF Correlated
    <3>2. CASE x.pending # None
      BY <1>4, <1>5, <1>6, <1>9, <3>1, <3>2
    <3>3. CASE x.pending = None
      <4>1. Loose(x) /\ Bears(x, c) /\ x.fence = z.fence
        BY <1>4, <1>5, <1>9, <1>13, <3>1, <3>3 DEF Loose, Bears
      <4>2. QED BY <3>1, <4>1 DEF Earned
    <3>4. QED BY <3>2, <3>3
  <2> HIDE DEF c
  <2>2. c # None => Latch(k) /\ Earned(k, ended) /\ k.halted = z.halted
    BY <1>8, <1>10, <1>11, <2>1, AskedEarned
  <2> HIDE DEF k
  <2>3. QED BY <1>1, <1>4, <1>9, <1>10, <1>11, <1>13, <2>2
<1>14. QED BY <1>12, <1>13

\* A process that starts goes by its journal alone.
LEMMA RecoveredEarned ==
  ASSUME NEW x, Firm(x), NEW ended, NEW expired, NEW ok
  PROVE  /\ Latch(Recovered(x, expired, ok)) /\ Earned(Recovered(x, expired, ok), ended)
<1> DEFINE y == Booted(x, expired)
           z == RecoveryHeard(y, ok)
<1>1. Recovered(x, expired, ok) = z
  BY DEF Recovered, Booted
<1>2. /\ Sound(y)
      /\ y.fence = x.fence /\ y.marker = x.marker /\ y.heard = {} /\ y.calls = {}
      /\ y.observed = None /\ (y.confirmed <=> y.active = None)
      /\ y.pending # None => Replaced(x)
      /\ y.marker # None => y.latched
      /\ y.reset = FALSE /\ y.launching = FALSE /\ y.launched = FALSE
  BY BootedSound DEF Firm
<1> HIDE DEF y
<1>3. Firm(y)
  BY <1>2 DEF Firm, Latch, Intended, Replaced
<1>4. Earned(y, ended)
  BY <1>2 DEF Earned, Loose
<1>5. ActiveShutdown(y) = None
  <2>1. Tracked(y) = None
    BY <1>2 DEF Tracked
  <2>2. QED BY <2>1 DEF ActiveShutdown
<1>6. Carries(y, z) /\ ~Loose(z)
  BY <1>2, <1>3, <1>5, RecoveryHeardCarries DEF Loose
<1> HIDE DEF z
<1>7. QED BY <1>1, <1>4, <1>6, EarnedCarried DEF Carries

-----------------------------------------------------------------------------
(* Every action.                                                           *)

\* What the control plane no longer waits for.
Over == {c \in Commands : api[c] \in Ended}

\* The control plane has one command open at a time.
OneOpen == \A c, d \in Listed : c = d

\* A response on its way lists one command, and all else that was ever listed ended.
OneHeard ==
  poll # NoPoll => (\A c, d \in poll : c = d) /\ s.heard \ poll \subseteq Over

DInv == IInv /\ Latch(s) /\ Earned(s, Over) /\ OneHeard /\ DoneWasDone

Onward(ended) == Latch(s') /\ Earned(s', ended) /\ (s.halted => s'.halted)

LEMMA FollowsOnward ==
  ASSUME NEW ended, Earned(s, ended), Follows(s, s')
  PROVE  Onward(ended)
BY EarnedThrough DEF Onward, Follows, Carries

LEMMA ApplyOnward ==
  ASSUME DInv, Apply
  PROVE  Onward(Over)
<1> DEFINE listed == {c \in poll : api[c] # "expired"}
           taken == Taken(s, listed, Known(Confirmed(s, listed)))
<1>1. PICK last \in IF taken = {} THEN {None} ELSE taken :
        Step(LAMBDA ok : ResponseApplied(s, listed, last, ok))
  BY DEF Apply
<1>2. poll \in SUBSET Commands /\ last \in listed \cup {None} /\ poll # NoPoll
  BY DEF Apply, DInv, IInv, TypeOK, Taken
<1>3. Firm(s) /\ Earned(s, Over)
  BY DEF DInv, IInv, TypeOK, Sound, Firm
<1>4. last = None => taken = {}
  BY <1>2, CommandAssumption DEF Taken
<1>5. \A c \in s.heard \cup listed, d \in listed : c # d => c \in Over
  <2> SUFFICES ASSUME NEW c \in s.heard \cup listed, NEW d \in listed, c # d
               PROVE  c \in Over
    OBVIOUS
  <2>1. c \notin poll
    BY <1>2 DEF DInv, OneHeard
  <2>2. QED BY <1>2, <2>1 DEF DInv, OneHeard
<1>6. listed \in SUBSET Commands
  BY <1>2
<1>7. s' = ResponseApplied(s, listed, last, TRUE) \/ s' = ResponseApplied(s, listed, last, FALSE)
  BY <1>1 DEF Step
<1> HIDE DEF listed
<1>8. ASSUME NEW ok
      PROVE  /\ Latch(ResponseApplied(s, listed, last, ok))
             /\ Earned(ResponseApplied(s, listed, last, ok), Over)
             /\ ResponseApplied(s, listed, last, ok).halted = s.halted
  BY <1>2, <1>3, <1>4, <1>5, <1>6, ResponseAppliedEarned
<1>9. QED BY <1>7, <1>8 DEF Onward

LEMMA AnswerFollows ==
  ASSUME Firm(s), NEW kind, Answer(kind)
  PROVE  Follows(s, s')
<1>1. PICK call \in s.calls :
        /\ call.reply # "none"
        /\ Step(LAMBDA ok : Replied([s EXCEPT !.calls = @ \ {call}], call, ok))
  BY DEF Answer
<1> DEFINE x == [s EXCEPT !.calls = @ \ {call}]
<1>2. s' = Replied(x, call, TRUE) \/ s' = Replied(x, call, FALSE)
  BY <1>1 DEF Step
<1>3. /\ Stands(s, x) /\ Firm(x) /\ call \in Call /\ call.cmd \in x.heard
      /\ LaunchAllowed(x, call) /\ (call.by = "launch" => x.latched)
  BY CallTaken
<1> HIDE DEF x
<1>4. \A ok : Follows(s, Replied(x, call, ok))
  BY <1>1, <1>3, RepliedFollows
<1>5. QED BY <1>2, <1>4

LEMMA LoseFollows ==
  ASSUME Firm(s), Lose
  PROVE  Follows(s, s')
<1>1. PICK call \in s.calls :
        s' = CallFailed([s EXCEPT !.calls = @ \ {call}], call, TRUE)
  BY DEF Lose
<1> DEFINE x == [s EXCEPT !.calls = @ \ {call}]
<1>2. /\ Stands(s, x) /\ Firm(x) /\ call \in Call /\ call.cmd \in x.heard
      /\ LaunchAllowed(x, call) /\ (call.by = "launch" => x.latched)
  BY CallTaken
<1>3. s' = CallFailed(x, call, TRUE)
  BY <1>1
<1> HIDE DEF x
<1>4. QED BY <1>2, <1>3, CallFailedFollows

\* The control plane writes its reply into the call; it completes what is reported.
LEMMA ProcessOnward ==
  ASSUME DInv, NEW kind \in Kinds, Process(kind)
  PROVE  /\ Onward(Over) /\ s'.halted = s.halted /\ s'.fence = s.fence
         /\ \A c \in Commands : api[c] \in Ended => api'[c] = api[c]
         /\ \A c \in Commands : api[c] # "done" /\ api'[c] = "done" =>
              c \in s.fence \/ (s.halted /\ c \in Shutdowns)
<1> DEFINE was(call) == api[call.cmd]
           now(call) == Transition(call.kind, was(call))
           said(call) == IF call.kind \in {"complete", "fail"} THEN "ended"
                         ELSE IF now(call) # was(call) THEN "accepted"
                         ELSE IF was(call) \in Ended THEN "ended" ELSE was(call)
<1>1. PICK call \in s.calls :
        /\ api' = [api EXCEPT ![call.cmd] = now(call)]
        /\ s' = [s EXCEPT !.calls = (@ \ {call}) \cup {[call EXCEPT !.reply = said(call)]}]
  BY DEF Process
<1>2. s \in State /\ Latch(s) /\ Earned(s, Over) /\ call \in Call /\ call.cmd \in Commands
  BY DEF DInv, IInv, TypeOK, State, Call
<1>3. api \in [Commands -> {"unissued"} \cup Open \cup Ended]
  BY DEF DInv, IInv, TypeOK
<1>4. /\ api[call.cmd] \in Ended => now(call) = api[call.cmd]
      /\ now(call) = "done" => api[call.cmd] = "done"
                               \/ (call.kind = "complete" /\ api[call.cmd] \in Open)
  <2>1. api[call.cmd] \in {"unissued"} \cup Open \cup Ended
    BY <1>2, <1>3
  <2>2. QED BY <2>1 DEF Transition, Open, Ended
<1> DEFINE d == [call EXCEPT !.reply = said(call)]
           k == (s.calls \ {call}) \cup {d}
           y == [s EXCEPT !.calls = k]
<1>5. s' = y
  BY <1>1
<1>6. d.kind = call.kind /\ d.cmd = call.cmd /\ d.by = call.by
  BY <1>2 DEF Call
<1> HIDE DEF d
<1>7. \A e \in k : e \in s.calls \/ e = d
  OBVIOUS
<1> HIDE DEF k
<1>8. /\ y.active = s.active /\ y.observed = s.observed
      /\ y.fence = s.fence /\ y.halted = s.halted
      /\ y.calls = k /\ y.pending = s.pending /\ y.marker = s.marker
      /\ y.launching = s.launching /\ y.launched = s.launched
      /\ y.latched = s.latched /\ y.reset = s.reset
  BY <1>2 DEF State
<1> HIDE DEF y, now, said
<1>9. Latch(y)
  BY <1>2, <1>6, <1>7, <1>8 DEF Latch, Intended
<1>10. Earned(y, Over)
  <2>1. \A e : Bears(y, e) => Bears(s, e)
    BY <1>6, <1>7, <1>8 DEF Bears
  <2>2. Loose(y) => \A e \in Recycles : Bears(y, e) => e \in y.fence \cup Over
    BY <1>2, <1>8, <2>1 DEF Earned, Loose
  <2>3. y.observed # None =>
          \A e \in Commands : Bears(y, e) /\ e # y.observed => e \in y.fence \cup Over
    BY <1>2, <1>8, <2>1 DEF Earned
  <2>4. \A e \in y.calls : e.kind = "complete" =>
          e.cmd \in y.fence \cup Over \/ (y.halted /\ e.cmd \in Shutdowns)
    BY <1>2, <1>6, <1>7, <1>8 DEF Earned
  <2>5. QED BY <2>2, <2>3, <2>4 DEF Earned
<1>11. \A c \in Commands : api[c] \in Ended => api'[c] = api[c]
  BY <1>1, <1>2, <1>3, <1>4
<1>12. \A c \in Commands : api[c] # "done" /\ api'[c] = "done" =>
         c \in s.fence \/ (s.halted /\ c \in Shutdowns)
  <2> SUFFICES ASSUME NEW c \in Commands, api[c] # "done", api'[c] = "done"
               PROVE  c \in s.fence \/ (s.halted /\ c \in Shutdowns)
    OBVIOUS
  <2>1. c = call.cmd /\ now(call) = "done"
    BY <1>1, <1>2, <1>3
  <2>2. call.kind = "complete" /\ api[c] \in Open
    BY <1>4, <2>1
  <2>3. c \notin Over
    BY <2>2 DEF Over, Open, Ended
  <2>4. QED BY <1>2, <2>1, <2>2, <2>3 DEF Earned
<1>13. QED BY <1>5, <1>8, <1>9, <1>10, <1>11, <1>12 DEF Onward

LEMMA WorkFollows ==
  ASSUME Firm(s), Work \/ Finalize
  PROVE  Follows(s, s')
<1> DEFINE a == Asked(s, "start", s.active, "recovered")
           g == [s EXCEPT !.capturing = s.active]
           x == [s EXCEPT !.capturing = None]
           c == Asked(x, "complete", s.active, "report")
<1>1. \/ s.active \in Recycles /\ s' = a
      \/ s' = g
      \/ s' = s
      \/ Finalizable(s) /\ s' = c
      \/ s' = x
  BY DEF Work, Finalize
<1>2. s.active \in Recycles => Stands(s, a)
  <2>1. s.active \in Recycles => Bears(s, s.active)
    BY CommandAssumption DEF Bears, Commands
  <2>2. QED BY <2>1, AskedStands
<1>3. Calm(s, g) /\ Calm(s, x)
  BY DEF Calm, Firm, Sound, State
<1>4. Sound(x)
  <2>1. Keeps(s, x)
    <3>1. x \in State
      <4>1. None \in Commands \cup {None}
        OBVIOUS
      <4>2. QED BY <4>1, ZenonT(60) DEF Firm, Sound, State
    <3>2. /\ x.calls = s.calls /\ x.pending = s.pending /\ x.marker = s.marker
          /\ x.fence = s.fence /\ x.heard = s.heard /\ x.observed = s.observed
          /\ x.active = s.active /\ x.confirmed = s.confirmed /\ x.capturing = None
      BY DEF Firm, Sound, State
    <3> HIDE DEF x
    <3>3. QED BY <3>1, <3>2 DEF Keeps, Firm, Sound, Rules, Replaced, Intended
  <2>2. QED BY <2>1 DEF Keeps
<1> HIDE DEF g, x, a
<1>5. Stands(s, g) /\ Stands(s, x) /\ Firm(x) /\ Stands(s, s)
  BY <1>3, <1>4, CalmStands, StandsStill DEF Firm, Stands, Follows, Carries
<1>6. Finalizable(s) => Stands(x, c)
  <2>1. Finalizable(s) => s.active \in x.fence
    BY <1>3 DEF Finalizable, Completed, Calm
  <2>2. QED BY <1>5, <2>1, AskedStands
<1> HIDE DEF c
<1>7. Finalizable(s) => Stands(s, c)
  BY <1>5, <1>6, StandsThrough
<1>8. QED BY <1>1, <1>2, <1>5, <1>7 DEF Stands

LEMMA TimersFollow ==
  ASSUME Firm(s), Refresh \/ RetryRecycle \/ RetryStop
  PROVE  Follows(s, s')
<1>1. CASE Refresh
  <2>1. \E ok \in BOOLEAN : s' \in {RecycleResumed(s, ok), ResetStarted(s, ok)}
    BY <1>1 DEF Refresh, Step
  <2>2. QED BY <2>1, ResumedStands, ResetStartedLatches DEF Stands
<1>2. CASE RetryRecycle
  <2> DEFINE x == [s EXCEPT !.retry = FALSE]
  <2>1. s' = RecycleRequested(x, TRUE) \/ s' = RecycleRequested(x, FALSE)
    BY <1>2 DEF RetryRecycle, Step
  <2>2. x \in State
    BY ZenonT(60) DEF Firm, Sound, State
  <2>3. Alike(s, x) /\ Calm(s, x)
    BY DEF Alike, Calm, Firm, Sound, State
  <2> HIDE DEF x
  <2>4. Stands(s, x) /\ Firm(x)
    BY <2>2, <2>3, AlikeKeeps, CalmStands DEF Firm, Keeps, Stands, Follows, Carries
  <2>5. Stands(x, RecycleRequested(x, TRUE)) /\ Stands(x, RecycleRequested(x, FALSE))
    BY <2>4, RecycleRequestedStands
  <2>6. Stands(s, RecycleRequested(x, TRUE)) /\ Stands(s, RecycleRequested(x, FALSE))
    BY <2>4, <2>5, StandsThrough
  <2>7. QED BY <2>1, <2>6 DEF Stands
<1>3. CASE RetryStop
  <2> DEFINE x == [s EXCEPT !.again = FALSE]
  <2>1. s' = StopRequested(x)
    BY <1>3 DEF RetryStop
  <2>2. x \in State
    BY ZenonT(60) DEF Firm, Sound, State
  <2>3. Alike(s, x) /\ Calm(s, x)
    BY DEF Alike, Calm, Firm, Sound, State
  <2> HIDE DEF x
  <2>4. Stands(s, x) /\ Firm(x)
    BY <2>2, <2>3, AlikeKeeps, CalmStands DEF Firm, Keeps, Stands, Follows, Carries
  <2>5. Stands(x, StopRequested(x))
    BY <2>4, StopRequestedStands
  <2>6. QED BY <2>1, <2>4, <2>5, StandsThrough DEF Stands
<1>4. QED BY <1>1, <1>2, <1>3

\* A shutdown is reported complete when the instance stops.
LEMMA HaltOnward ==
  ASSUME Firm(s), NEW ended, Earned(s, ended), Halt
  PROVE  Onward(ended)
<1>1. PICK ok \in BOOLEAN :
        LET x == [StoppingRecorded(s) EXCEPT !.stop = "ending", !.halted = @ \/ ok]
            c == ActiveShutdown(s)
        IN s' = IF c # None THEN Asked(x, IF ok THEN "complete" ELSE "fail", c, "stop")
                ELSE StopEnded(x)
  BY DEF Halt
<1> DEFINE r == StoppingRecorded(s)
           h == (r.halted \/ ok)
           x == [r EXCEPT !.stop = "ending", !.halted = h]
           c == ActiveShutdown(s)
           kind == IF ok THEN "complete" ELSE "fail"
           a == Asked(x, kind, c, "stop")
<1>2. s' = IF c # None THEN a ELSE StopEnded(x)
  BY <1>1
<1>3. Stands(s, r) /\ Sound(r)
  BY StoppingRecordedStands, StoppingRecordedKeeps DEF Firm, Keeps
<1>4. c # None => c \in Shutdowns
  BY DEF ActiveShutdown
<1>5. kind \in {"complete", "fail"} /\ (kind = "complete" => ok)
  OBVIOUS
<1> HIDE DEF r, c, kind
<1>6. h \in BOOLEAN /\ (r.halted => h) /\ (ok => h)
  BY <1>3 DEF Sound, State
<1> HIDE DEF h
<1>7. x \in State
  BY <1>3, <1>6, ZenonT(60) DEF Sound, State
<1>8. /\ x.active = r.active /\ x.confirmed = r.confirmed /\ x.observed = r.observed
      /\ x.fence = r.fence /\ x.halted = h /\ x.calls = r.calls
      /\ x.pending = r.pending /\ x.marker = r.marker
      /\ x.launching = r.launching /\ x.launched = r.launched
      /\ x.latched = r.latched /\ x.reset = r.reset
      /\ x.heard = r.heard /\ x.capturing = r.capturing
  BY <1>3 DEF Sound, State
<1> HIDE DEF x
<1>9. Firm(x)
  <2>1. Latch(x)
    BY <1>3, <1>8 DEF Stands, Follows, Carries, Latch, Intended
  <2>2. Rules(x)
    BY <1>3, <1>8 DEF Sound, Rules, Replaced, Intended
  <2>3. QED BY <1>7, <2>1, <2>2 DEF Firm, Sound
<1>10. Earned(x, ended)
  <2>1. Earned(r, ended)
    BY <1>3, EarnedThrough DEF Stands
  <2>2. \A d : Bears(x, d) => Bears(r, d)
    BY <1>8 DEF Bears
  <2>3. Loose(x) => \A d \in Recycles : Bears(x, d) => d \in x.fence \cup ended
    BY <1>8, <2>1, <2>2 DEF Earned, Loose
  <2>4. x.observed # None =>
          \A d \in Commands : Bears(x, d) /\ d # x.observed => d \in x.fence \cup ended
    BY <1>8, <2>1, <2>2 DEF Earned
  <2>5. \A d \in x.calls : d.kind = "complete" =>
          d.cmd \in x.fence \cup ended \/ (x.halted /\ d.cmd \in Shutdowns)
    BY <1>6, <1>8, <2>1 DEF Earned
  <2>6. QED BY <2>3, <2>4, <2>5 DEF Earned
<1>11. s.halted => x.halted
  BY <1>3, <1>6, <1>8 DEF Stands, Follows, Carries
<1>12. CASE c # None
  <2>1. Latch(a) /\ Earned(a, ended) /\ a.halted = x.halted
    BY <1>4, <1>5, <1>6, <1>7, <1>8, <1>9, <1>10, <1>12, AskedEarned DEF Firm
  <2>2. QED BY <1>2, <1>11, <1>12, <2>1 DEF Onward
<1>13. CASE c = None
  <2>1. Follows(x, StopEnded(x))
    BY <1>9, StopEndedStands DEF Stands
  <2>2. QED BY <1>2, <1>10, <1>11, <1>13, <2>1, EarnedThrough DEF Onward, Follows, Carries
<1>14. QED BY <1>12, <1>13

\* A session that begins or ends takes on no command.
LEMMA SessionBeginsFollows ==
  ASSUME Firm(s), SessionBegins
  PROVE  Latch(s') /\ s'.halted = s.halted
         /\ \A ended : Earned(s, ended) => Earned(s', ended)
<1> DEFINE o == Listed
           x == [s EXCEPT !.viewers = TRUE, !.old = o, !.resetting = FALSE,
                          !.launched = FALSE, !.passive = FALSE]
           a == Asked(x, "fail", Tracked(x), "report")
           y == IF Superseded(x, Tracked(x)) THEN a ELSE x
<1>1. s' = Restored(y)
  BY DEF SessionBegins
<1>2. Keeps(s, x)
  <2>1. o \in SUBSET Commands
    BY DEF Listed
  <2> HIDE DEF o
  <2>2. x \in State
    BY <2>1, ZenonT(60) DEF Firm, Sound, State
  <2>3. Alike(s, x)
    BY DEF Alike, Firm, Sound, State
  <2>4. QED BY <2>2, <2>3, AlikeKeeps DEF Firm
<1>3. /\ x.active = s.active /\ x.observed = s.observed
      /\ x.fence = s.fence /\ x.halted = s.halted
      /\ x.calls = s.calls /\ x.pending = s.pending /\ x.marker = s.marker
      /\ x.launching = s.launching /\ x.launched = FALSE
      /\ x.latched = s.latched /\ x.reset = s.reset
  BY DEF Firm, Sound, State
<1> HIDE DEF x
<1>4. Latch(x)
  BY <1>3 DEF Firm, Latch, Intended
<1>5. ASSUME NEW ended, Earned(s, ended)
      PROVE  Earned(x, ended)
  <2>1. \A d : Bears(x, d) => Bears(s, d)
    BY <1>3 DEF Bears
  <2>2. Loose(x) => \A d \in Recycles : Bears(x, d) => d \in x.fence \cup ended
    BY <1>3, <1>5, <2>1 DEF Earned, Loose
  <2>3. x.observed # None =>
          \A d \in Commands : Bears(x, d) /\ d # x.observed => d \in x.fence \cup ended
    BY <1>3, <1>5, <2>1 DEF Earned
  <2>4. \A d \in x.calls : d.kind = "complete" =>
          d.cmd \in x.fence \cup ended \/ (x.halted /\ d.cmd \in Shutdowns)
    BY <1>3, <1>5 DEF Earned
  <2>5. QED BY <2>2, <2>3, <2>4 DEF Earned
<1>6. Firm(x)
  BY <1>2, <1>4 DEF Keeps, Firm
<1>7. Superseded(x, Tracked(x)) => Stands(x, a) /\ Sound(a)
  BY <1>6, AskedStands, SupersededKeeps DEF Keeps, Firm
<1> HIDE DEF a
<1>8. Stands(x, y) /\ Firm(y)
  BY <1>6, <1>7, StandsStill DEF Firm, Stands, Follows, Carries
<1> HIDE DEF y
<1>9. Stands(x, Restored(y))
  <2>1. Stands(y, Restored(y))
    BY <1>8, RestoredStands
  <2>2. QED BY <1>8, <2>1, StandsThrough
<1>10. Follows(x, s')
  BY <1>1, <1>9 DEF Stands
<1>11. \A ended : Earned(s, ended) => Earned(s', ended)
  BY <1>5, <1>10, EarnedThrough
<1>12. QED BY <1>3, <1>10, <1>11 DEF Follows, Carries

LEMMA SessionEndsFollows ==
  ASSUME Firm(s), SessionEnds
  PROVE  Follows(s, s')
<1> DEFINE y == [s EXCEPT !.viewers = FALSE, !.told = FALSE]
           a == Asked(y, "fail", Tracked(y), "report")
           x == IF Superseded(y, Tracked(y)) THEN a ELSE y
<1>1. \E ok \in BOOLEAN : s' \in {ResetStarted(x, ok), StopRequested(x), x}
  BY DEF SessionEnds, Step
<1>2. Stands(s, y) /\ Firm(y)
  <2>1. y \in State
    BY ZenonT(60) DEF Firm, Sound, State
  <2>2. Alike(s, y) /\ Calm(s, y)
    BY DEF Alike, Calm, Firm, Sound, State
  <2>3. QED
    BY <2>1, <2>2, AlikeKeeps, CalmStands DEF Firm, Keeps, Stands, Follows, Carries
<1> HIDE DEF y
<1>3. Superseded(y, Tracked(y)) => Stands(y, a) /\ Sound(a)
  BY <1>2, AskedStands, SupersededKeeps DEF Keeps, Firm
<1> HIDE DEF a
<1>4. Stands(y, x) /\ Firm(x)
  BY <1>2, <1>3, StandsStill DEF Firm, Stands, Follows, Carries
<1> HIDE DEF x
<1>5. Stands(s, x)
  BY <1>2, <1>4, StandsThrough
<1>6. ASSUME NEW e, Stands(x, e) PROVE Follows(s, e)
  BY <1>5, <1>6, StandsThrough DEF Stands
<1>7. \A ok : Stands(x, ResetStarted(x, ok))
  BY <1>4, ResetStartedLatches
<1>8. Stands(x, StopRequested(x)) /\ Stands(x, x)
  BY <1>4, StopRequestedStands, StandsStill DEF Firm
<1>9. QED BY <1>1, <1>6, <1>7, <1>8

\* Nothing is taken on with the marker that is cleared, or by a process that dies.
LEMMA MarkerFollows ==
  ASSUME Firm(s), NEW y, y \in State,
         y.active = s.active, y.observed = s.observed, y.fence = s.fence,
         y.halted = s.halted, y.old = s.old, y.calls \subseteq s.calls,
         y.pending = s.pending, y.launching = s.launching, y.launched = s.launched,
         y.latched = s.latched, y.reset = s.reset, Intended(y) => y.marker = s.marker
  PROVE  Follows(s, y)
<1>1. Latch(y)
  BY DEF Firm, Latch, Intended
<1>2. \A d \in Commands : Bears(y, d) => Bears(s, d)
  BY DEF Bears
<1>3. QED BY <1>1, <1>2 DEF Follows, Carries, Loose

LEMMA DeathFollows ==
  ASSUME Firm(s), MarkerCleared \/ Crash \/ Exit \/ PowerOff \/ Replace
  PROVE  Follows(s, s')
<1>1. CASE MarkerCleared
  <2> DEFINE y == [s EXCEPT !.marker = None]
  <2>1. s' = y
    BY <1>1 DEF MarkerCleared
  <2>2. y \in State
    BY <1>1, <2>1, MarkerClearedKeeps DEF Firm, Keeps, Sound
  <2>3. /\ y.active = s.active /\ y.observed = s.observed /\ y.fence = s.fence
        /\ y.halted = s.halted /\ y.old = s.old /\ y.calls = s.calls
        /\ y.pending = s.pending /\ y.launching = s.launching /\ y.launched = s.launched
        /\ y.latched = s.latched /\ y.reset = s.reset /\ y.marker = None
    BY DEF Firm, Sound, State
  <2> HIDE DEF y
  <2>4. Follows(s, y)
    BY <2>2, <2>3, MarkerFollows DEF Intended
  <2>5. QED BY <2>1, <2>4
<1>2. CASE Crash \/ Exit \/ PowerOff
  <2>1. PICK torn \in BOOLEAN : s' = Dead(s, torn)
    BY <1>2 DEF Crash, Exit, PowerOff, Died
  <2> DEFINE j == IF torn THEN None ELSE s.journal
             y == [s EXCEPT !.calls = {}, !.journal = j]
  <2>2. Dead(s, torn) = y
    BY DEF Dead
  <2>3. Dead(s, torn) \in State
    BY DeadKeeps DEF Firm, Keeps, Sound
  <2> HIDE DEF j
  <2>4. /\ y.active = s.active /\ y.observed = s.observed /\ y.fence = s.fence
        /\ y.halted = s.halted /\ y.old = s.old /\ y.calls = {}
        /\ y.pending = s.pending /\ y.launching = s.launching /\ y.launched = s.launched
        /\ y.latched = s.latched /\ y.reset = s.reset /\ y.marker = s.marker
    BY DEF Firm, Sound, State
  <2> HIDE DEF y
  <2>5. Follows(s, y)
    BY <2>2, <2>3, <2>4, MarkerFollows
  <2>6. QED BY <2>1, <2>2, <2>5
<1>3. CASE Replace
  <2> DEFINE m == IF Intended(s) THEN [s.marker EXCEPT !.phase = "replaced"] ELSE s.marker
             j == s.journal
             y == [s EXCEPT !.calls = {}, !.journal = j, !.helper = FALSE, !.marker = m]
  <2>1. s' = y
    BY <1>3 DEF Replace, Dead, Firm, Sound, State
  <2>2. s' \in State /\ (Intended(s') => s'.marker = s.marker)
    BY <1>3, ReplacedKeeps DEF Replace, Firm, Keeps, Sound
  <2> HIDE DEF m, j
  <2>3. /\ y.active = s.active /\ y.observed = s.observed /\ y.fence = s.fence
        /\ y.halted = s.halted /\ y.old = s.old /\ y.calls = {}
        /\ y.pending = s.pending /\ y.launching = s.launching /\ y.launched = s.launched
        /\ y.latched = s.latched /\ y.reset = s.reset
    BY DEF Firm, Sound, State
  <2> HIDE DEF y
  <2>4. Follows(s, y)
    BY <2>1, <2>2, <2>3, MarkerFollows
  <2>5. QED BY <2>1, <2>4
<1>4. QED BY <1>1, <1>2, <1>3

-----------------------------------------------------------------------------
(* The induction.                                                          *)

\* A step of the process, of a response or of the control plane.
LEMMA StepOnward ==
  ASSUME DInv, Next
  PROVE  Onward(Over)
<1>1. Firm(s) /\ Earned(s, Over)
  BY DEF DInv, IInv, TypeOK, Sound, Firm
<1>2. Follows(s, s') => Onward(Over)
  BY <1>1, FollowsOnward
<1>3. UNCHANGED s => Onward(Over)
  BY <1>1 DEF Onward, Firm
<1>4. CASE Issue \/ Expire \/ Respond
  BY <1>3, <1>4 DEF Issue, Expire, Respond
<1>5. CASE Apply
  BY <1>5, ApplyOnward
<1>6. ASSUME NEW kind \in Kinds, Process(kind)
      PROVE  Onward(Over)
  BY <1>6, ProcessOnward
<1>7. ASSUME NEW kind \in Kinds, Answer(kind)
      PROVE  Onward(Over)
  BY <1>1, <1>2, <1>7, AnswerFollows
<1>8. CASE Lose
  BY <1>1, <1>2, <1>8, LoseFollows
<1>9. CASE Ready
  BY <1>1, <1>9, ReadyRecordedEarned DEF Ready, Onward
<1>10. CASE Work \/ Finalize
  BY <1>1, <1>2, <1>10, WorkFollows
<1>11. CASE Refresh \/ RetryRecycle \/ RetryStop
  BY <1>1, <1>2, <1>11, TimersFollow
<1>12. CASE Halt
  BY <1>1, <1>12, HaltOnward
<1>13. CASE SessionBegins
  BY <1>1, <1>13, SessionBeginsFollows DEF Onward
<1>14. CASE SessionEnds
  BY <1>1, <1>2, <1>14, SessionEndsFollows
<1>15. CASE MarkerCleared \/ Crash \/ Exit \/ PowerOff \/ Replace
  BY <1>1, <1>2, <1>15, DeathFollows
<1>16. CASE Start
  <2> DEFINE expired == {c \in Commands : api[c] = "expired"}
  <2>1. s' = Recovered(s, expired, TRUE) \/ s' = Recovered(s, expired, FALSE)
    BY <1>16 DEF Start, Step
  <2>2. ~s.halted
    BY <1>16 DEF Start
  <2> HIDE DEF expired
  <2>3. \A ok : Latch(Recovered(s, expired, ok)) /\ Earned(Recovered(s, expired, ok), Over)
    BY <1>1, RecoveredEarned
  <2>4. QED BY <2>1, <2>2, <2>3 DEF Onward
<1>17. QED
  BY <1>4, <1>5, <1>6, <1>7, <1>8, <1>9, <1>10, <1>11, <1>12, <1>13, <1>14, <1>15, <1>16
     DEF Next

\* What the control plane says of the commands.
LEMMA StatusStep ==
  ASSUME DInv, Next
  PROVE  /\ Over \subseteq Over'
         /\ \A c \in Commands : api[c] # "done" /\ api'[c] = "done" =>
              c \in s.fence \/ (s.halted /\ c \in Shutdowns)
<1>1. api \in [Commands -> {"unissued"} \cup Open \cup Ended]
  BY DEF DInv, IInv, TypeOK
<1>2. CASE Issue
  <2>1. \A c \in Commands : api'[c] = api[c] \/ (api[c] = "unissued" /\ api'[c] = "pending")
    BY <1>1, <1>2 DEF Issue
  <2>2. QED BY <1>2, <2>1 DEF Over, Ended
<1>3. CASE Expire
  <2>1. \A c \in Commands : api'[c] = api[c] \/ (api[c] \in Open /\ api'[c] = "expired")
    BY <1>1, <1>3 DEF Expire, Listed
  <2>2. QED BY <2>1 DEF Over, Listed, Open, Ended
<1>4. ASSUME NEW kind \in Kinds, Process(kind)
      PROVE  /\ Over \subseteq Over'
             /\ \A c \in Commands : api[c] # "done" /\ api'[c] = "done" =>
                  c \in s.fence \/ (s.halted /\ c \in Shutdowns)
  BY <1>4, ProcessOnward DEF Over
<1>5. UNCHANGED api => Over \subseteq Over' /\ \A c \in Commands : api'[c] = api[c]
  BY DEF Over
<1>6. \/ Issue \/ Expire \/ (\E kind \in Kinds : Process(kind))
      \/ UNCHANGED api
  BY DEF Next, Respond, Apply, Answer, Lose, Ready, Work, Finalize, Refresh, RetryRecycle,
     RetryStop, Halt, SessionBegins, SessionEnds, MarkerCleared, Crash, Exit, PowerOff,
     Replace, Start, Died
<1>7. QED BY <1>2, <1>3, <1>4, <1>5, <1>6

LEMMA DInvStep ==
  ASSUME DInv, OneOpen, [Next]_vars
  PROVE  DInv'
<1>1. CASE Next
  <2>1. IInv' /\ s.fence \subseteq s'.fence
    BY NextHolds DEF DInv
  <2>2. Onward(Over)
    BY <1>1, StepOnward
  <2>3. /\ Over \subseteq Over'
        /\ \A c \in Commands : api[c] # "done" /\ api'[c] = "done" =>
             c \in s.fence \/ (s.halted /\ c \in Shutdowns)
    BY <1>1, StatusStep
  <2>4. Goes /\ poll' \in {poll, NoPoll, Listed}
    BY <1>1, StepGoes DEF DInv
  <2>5. Earned(s, Over)'
    BY <2>2, <2>3 DEF Onward, Earned
  <2>6. DoneWasDone'
    <3> SUFFICES ASSUME NEW c \in Commands, api'[c] = "done"
                 PROVE  IF c \in Recycles THEN c \in s'.fence ELSE s'.halted
      BY DEF DoneWasDone
    <3>1. CASE api[c] = "done"
      BY <2>1, <2>2, <3>1 DEF DInv, DoneWasDone, Onward
    <3>2. CASE api[c] # "done"
      <4>1. c \in s.fence \/ (s.halted /\ c \in Shutdowns)
        BY <2>3, <3>2
      <4>2. s.fence \subseteq Recycles
        BY DEF DInv, IInv, TypeOK, State
      <4>3. QED BY <2>1, <2>2, <4>1, <4>2, CommandAssumption DEF Onward
    <3>3. QED BY <3>1, <3>2
  <2>7. OneHeard'
    <3> SUFFICES ASSUME poll' # NoPoll
                 PROVE  (\A c, d \in poll' : c = d) /\ s'.heard \ poll' \subseteq Over'
      BY DEF OneHeard, NoPoll
    <3>1. CASE poll' = poll
      BY <2>3, <2>4, <3>1 DEF Goes, DInv, OneHeard, NoPoll
    <3>2. CASE poll' = Listed
      <4>1. \A c, d \in poll' : c = d
        BY <3>2 DEF OneOpen
      <4>2. ASSUME NEW c \in s'.heard, c \notin Listed
            PROVE  c \in Over
        <5>1. c \in Commands /\ c \in s.heard \cup poll
          BY <2>4 DEF Goes, Sound, State
        <5>2. api[c] # "unissued" /\ api[c] \notin Open
          BY <4>2, <5>1 DEF DInv, IInv, Issued, Listed
        <5>3. api[c] \in {"unissued"} \cup Open \cup Ended
          BY <5>1 DEF DInv, IInv, TypeOK
        <5>4. QED BY <5>1, <5>2, <5>3 DEF Over
      <4>3. QED BY <2>3, <3>2, <4>1, <4>2
    <3>3. QED BY <2>4, <3>1, <3>2
  <2>8. QED BY <2>1, <2>2, <2>5, <2>6, <2>7 DEF DInv, Onward
<1>2. CASE UNCHANGED vars
  <2>1. IInv'
    BY <1>2, NextHolds DEF DInv
  <2>2. UNCHANGED <<api, s, poll>>
    BY <1>2 DEF vars
  <2>3. Over' = Over /\ OneHeard' /\ DoneWasDone'
    BY <2>2 DEF DInv, Over, OneHeard, DoneWasDone, NoPoll
  <2>4. Latch(s)' /\ Earned(s, Over)'
    BY <2>2, <2>3 DEF DInv
  <2>5. QED BY <2>1, <2>3, <2>4 DEF DInv
<1>3. QED BY <1>1, <1>2

LEMMA DInvInit == Init => DInv
<1> SUFFICES ASSUME Init PROVE DInv
  OBVIOUS
<1>1. IInv
  BY InitHolds
<1>2. /\ s.calls = {} /\ s.pending = None /\ s.marker = None /\ s.observed = None
      /\ s.launching = FALSE /\ s.launched = FALSE /\ s.reset = FALSE
  BY DEF Init, Fresh
<1>3. Latch(s) /\ Earned(s, Over)
  BY <1>2 DEF Latch, Earned, Loose, Intended
<1>4. OneHeard /\ DoneWasDone
  BY DEF Init, OneHeard, DoneWasDone
<1>5. QED BY <1>1, <1>3, <1>4 DEF DInv

\* completeCommand and its callers (recordRuntimeStatus, observeCommand, requestStop,
\* tryFinalizeRecoveredActiveCommand): while the control plane has one command open at a
\* time, the one it is told is complete was carried out.
THEOREM DoneWasDoneHolds == Spec /\ []OneOpen => []DoneWasDone
<1>1. DInv /\ OneOpen /\ [Next]_vars => DInv'
  BY DInvStep
<1>2. DInv => DoneWasDone
  BY DEF DInv
<1>3. QED BY DInvInit, <1>1, <1>2, PTL DEF Spec

\* Nothing but an issue opens a command.
LEMMA ListedStep ==
  ASSUME IInv, [Next]_vars
  PROVE  Listed' \subseteq Listed \/ Issue
<1>1. api \in [Commands -> {"unissued"} \cup Open \cup Ended]
  BY DEF IInv, TypeOK
<1>2. CASE Expire
  <2>1. \A c \in Commands : api'[c] = api[c] \/ api'[c] = "expired"
    BY <1>1, <1>2 DEF Expire, Listed
  <2>2. QED BY <2>1 DEF Listed, Open
<1>3. ASSUME NEW kind \in Kinds, Process(kind)
      PROVE  Listed' \subseteq Listed
  <2>1. PICK call \in s.calls :
          api' = [api EXCEPT ![call.cmd] = Transition(call.kind, api[call.cmd])]
    BY <1>3 DEF Process
  <2>2. call.cmd \in Commands
    BY DEF IInv, TypeOK, State, Call
  <2>3. api[call.cmd] \notin Open => Transition(call.kind, api[call.cmd]) \notin Open
    BY DEF Transition, Open
  <2>4. QED BY <1>1, <2>1, <2>2, <2>3 DEF Listed
<1>4. UNCHANGED api => Listed' = Listed
  BY DEF Listed
<1>5. \/ Issue \/ Expire \/ (\E kind \in Kinds : Process(kind))
      \/ UNCHANGED api
  BY DEF Next, vars, Respond, Apply, Answer, Lose, Ready, Work, Finalize, Refresh,
     RetryRecycle, RetryStop, Halt, SessionBegins, SessionEnds, MarkerCleared, Crash, Exit,
     PowerOff, Replace, Start, Died
<1>6. QED BY <1>2, <1>3, <1>4, <1>5

\* Whoever lists one command at most has one open at a time.
THEOREM OneOpenHolds == MaxListed = 1 => (Spec => []OneOpen)
<1> SUFFICES ASSUME MaxListed = 1 PROVE Spec => []OneOpen
  OBVIOUS
<1>1. Init => OneOpen
  BY DEF Init, OneOpen, Listed, Open
<1>2. IInv /\ OneOpen /\ [Next]_vars => OneOpen'
  <2> SUFFICES ASSUME IInv, OneOpen, [Next]_vars PROVE OneOpen'
    OBVIOUS
  <2>1. CASE Listed' \subseteq Listed
    BY <2>1 DEF OneOpen
  <2>2. CASE Issue
    <3>1. PICK c \in Commands : /\ api' = [api EXCEPT ![c] = "pending"]
                                /\ Cardinality(Listed) < MaxListed
      BY <2>2 DEF Issue
    <3>2. Listed = {}
      <4>1. ASSUME NEW d \in Listed PROVE FALSE
        <5>1. Listed = {d}
          BY <4>1 DEF OneOpen
        <5>2. Cardinality(Listed) = 1
          BY <5>1, FS_Singleton
        <5>3. QED BY <3>1, <5>2
      <4>2. QED BY <4>1
    <3>3. \A d \in Commands : d # c => api'[d] = api[d]
      BY <3>1 DEF IInv, TypeOK
    <3>4. Listed' \subseteq {c}
      BY <3>2, <3>3 DEF Listed
    <3>5. QED BY <3>4 DEF OneOpen
  <2>3. QED BY <2>1, <2>2, ListedStep
<1>3. QED BY <1>1, <1>2, IInvHolds, PTL DEF Spec

=============================================================================
