---------------------------- MODULE StreamRecovery ----------------------------
(***************************************************************************)
(* What the player page shows while the stream is expected back:           *)
(* resolutionRecovery.ts, which reconnects once after Unreal applied a     *)
(* resolution and waits for a frame of the replacement video, and          *)
(* runtimeRecovery.ts, which watches for silence and asks the signalling   *)
(* server (runtime-recovery.ts) whether the watchdog has confirmed a fault.*)
(*                                                                         *)
(* Frame callbacks belong to the video element: one that was not cancelled *)
(* fires with the first frame of whatever video is attached by then.  The  *)
(* generations of the code appear as the mark `live` of what they guard.   *)
(***************************************************************************)
EXTENDS Integers

CONSTANTS
  Sizes,       \* resolutions
  Patience,    \* ticks of silence before an unconfirmed notice: 20 s
  MaxSources,  \* bound: videos attached
  MaxEvents    \* bound: other events

\* A definition whose comment says "Mutant" is a faulty variant of the one below it.

VARIABLES
  env,    \* the element, the connection, the server's evidence
  res,    \* resolutionRecovery
  run,    \* runtimeRecovery
  calls,  \* frame callbacks waiting on the element
  quiet,  \* history: ticks for which frames were due and none came
  left    \* what the environment may still do

vars == <<env, res, run, calls, quiet, left>>

None == "-"

\* `cancels`: the browser has cancelVideoFrameCallback.
Page ==
  [source: 0 .. MaxSources, size: Sizes, flows: BOOLEAN, hidden: BOOLEAN,
   paused: BOOLEAN, cancels: BOOLEAN,
   fault: {None, "requested", "restored"}]

Resolution ==
  [target: Sizes \cup {None}, completed: Sizes \cup {None}, waiting: BOOLEAN,
   timer: BOOLEAN, connected: BOOLEAN, old: 0 .. MaxSources,
   replacement: 0 .. MaxSources, armed: BOOLEAN,
   shows: {None, "applying", "failed"}]

Watch ==
  [enabled: BOOLEAN, since: 0 .. Patience, frozen: BOOLEAN, notice: BOOLEAN,
   fetch: {None, "live", "stale"}, due: BOOLEAN,
   shows: {None, "confirmed", "silent"}]

Call == [of: {"res", "run"}, source: 1 .. MaxSources, live: BOOLEAN]

Spend ==
  /\ left > 0
  /\ left' = left - 1

\* cancelVideoFrameCallback, and the generation that outdates what it misses.
Cleared(cs, who) ==
  {c \in cs : c.of # who} \cup
  (IF env.cancels THEN {}
   ELSE {[c EXCEPT !.live = FALSE] : c \in {d \in cs : d.of = who}})

Armed(cs, who, source) ==
  cs \cup {[of |-> who, source |-> source, live |-> TRUE]}

-----------------------------------------------------------------------------
(* resolutionRecovery.ts: operators on <<res, calls>>.                     *)

State(r, cs) == [r |-> r, cs |-> cs]

\* clearWait
WaitCleared(x) ==
  State([x.r EXCEPT !.waiting = FALSE, !.timer = FALSE, !.armed = FALSE],
        Cleared(x.cs, "res"))

\* cancel
Cancelled(x) ==
  LET y == WaitCleared(x)
  IN  State([y.r EXCEPT !.target = None, !.shows = None], y.cs)

\* fail
Failed(x) ==
  LET y == WaitCleared(x)
  IN  State([y.r EXCEPT !.shows = IF @ = None THEN @ ELSE "failed"], y.cs)

\* armFrame, of a page whose element shows `source`
FrameArmed(x, source) ==
  IF x.r.waiting /\ x.r.connected /\ ~x.r.armed
     /\ x.r.replacement # 0 /\ x.r.replacement = source
  THEN State([x.r EXCEPT !.armed = TRUE], Armed(x.cs, "res", source))
  ELSE x

\* Mutant: the wait is cleared after its timer is set.
TimerLost(x) == State([x.r EXCEPT !.timer = FALSE], x.cs)

TimerSet(x) == State([x.r EXCEPT !.timer = TRUE], x.cs)

\* begin; the reconnection may fail at once.
Begun(x, size, fails) ==
  LET y == WaitCleared(x)
      z == TimerSet(State([y.r EXCEPT !.target = size, !.waiting = TRUE,
                           !.connected = FALSE, !.replacement = 0,
                           !.old = env.source, !.shows = "applying"], y.cs))
  IN  IF fails THEN Failed(z) ELSE z

\* Mutant: a callback does not look at the generation it was made in.
AnyCall(c, r) == r.waiting /\ c.source = env.source

\* The callback's own check.
IsCurrent(c, r) == c.live /\ r.waiting /\ c.source = env.source

\* The callbacks of the frame that is presented, those of this file.
FrameSeen(x, fired, size) ==
  LET mine == {c \in fired : c.of = "res" /\ IsCurrent(c, x.r)}
      y == State([x.r EXCEPT !.armed = FALSE], x.cs)
      z == Cancelled(y)
  IN  IF mine = {} THEN x
      ELSE IF x.r.target = size
           THEN State([z.r EXCEPT !.completed = size], z.cs)
           ELSE FrameArmed(y, env.source)

Become(x) == res' = x.r /\ calls' = x.cs

Now == State(res, calls)

\* onResponse
Response(size) ==
  /\ Spend
  /\ \/ /\ res.waiting
        /\ res' = [res EXCEPT !.target = size]
        /\ UNCHANGED calls
     \/ /\ ~res.waiting
        /\ \/ res.target # None
           \/ res.completed = size /\ env.size = size
        /\ UNCHANGED <<res, calls>>
     \/ /\ ~res.waiting /\ res.target = None
        /\ res.completed # size \/ env.size # size
        /\ \E fails \in BOOLEAN : Become(Begun(Now, size, fails))
  /\ UNCHANGED <<env, run, quiet>>

Retry ==
  /\ Spend
  /\ res.shows = "failed"
  /\ \E fails \in BOOLEAN : Become(Begun(Now, res.target, fails))
  /\ UNCHANGED <<env, run, quiet>>

Timeout ==
  /\ res.timer
  /\ Become(Failed(Now))
  /\ UNCHANGED <<env, run, quiet, left>>

-----------------------------------------------------------------------------
(* runtimeRecovery.ts                                                      *)

Outdated(w) == [w EXCEPT !.fetch = IF @ = "live" THEN "stale" ELSE @]

Heard(w) == [w EXCEPT !.since = 0]

\* watchFrames
Watching(cs, source) ==
  IF source = 0 THEN Cleared(cs, "run")
  ELSE Armed(Cleared(cs, "run"), "run", source)

\* tick, up to the answer of the server
Ask ==
  /\ run.due
  /\ run' = [run EXCEPT !.due = FALSE,
               !.fetch = IF run.enabled /\ ~env.hidden /\ @ = None
                         THEN "live" ELSE @]
  /\ UNCHANGED <<env, res, calls, quiet, left>>

\* notice of runtime-recovery.ts
Notice == env.fault = "requested"

Limit(confirmed) == IF confirmed THEN 1 ELSE Patience

\* tick, from the answer on; a request that fails leaves the notice as it was.
Answered(w, fails) ==
  LET n == IF w.fetch = "live" /\ ~fails THEN Notice ELSE w.notice
      u == [w EXCEPT !.fetch = None, !.notice = n]
  IN  IF ~w.enabled \/ env.hidden \/ w.fetch = "stale" THEN u
      ELSE IF ~n /\ (w.frozen \/ (env.source # 0 /\ env.paused))
           THEN [Heard(u) EXCEPT !.shows = None]
      ELSE IF w.since >= Limit(n)
           THEN [u EXCEPT !.shows = IF n THEN "confirmed" ELSE "silent"]
      ELSE u

Answer(fails) ==
  /\ run.fetch # None
  /\ run' = Answered(run, fails)
  /\ quiet' = IF run'.since = 0 THEN 0 ELSE quiet
  /\ UNCHANGED <<env, res, calls, left>>

\* freeze and unfreeze
Freeze ==
  /\ Spend
  /\ ~run.frozen
  /\ run' = [Heard(run) EXCEPT !.frozen = TRUE, !.shows = None]
  /\ quiet' = 0
  /\ UNCHANGED <<env, res, calls>>

Unfreeze ==
  /\ run.frozen
  /\ run' = [Heard(Outdated(run)) EXCEPT !.frozen = FALSE]
  /\ calls' = Watching(calls, env.source)
  /\ quiet' = 0
  /\ UNCHANGED <<env, res, left>>

\* Mutant: time in the background counts as silence.
Unnoticed(w) == w

\* visible
Reappeared(w) == Heard(w)

Visibility ==
  /\ env' = [env EXCEPT !.hidden = ~@]
  /\ IF env.hidden
     THEN /\ run' = Reappeared(Outdated(run))
          /\ calls' = Watching(calls, env.source)
          /\ quiet' = 0
          /\ UNCHANGED left
     ELSE Spend /\ UNCHANGED <<run, calls, quiet>>
  /\ UNCHANGED res

\* Time passes: the interval of 3 s.
Pass ==
  /\ ~run.due
  /\ run' = [run EXCEPT !.due = TRUE,
                        !.since = IF @ = Patience THEN @ ELSE @ + 1]
  /\ quiet' = IF env.hidden \/ run.frozen THEN 0
              ELSE IF quiet = Patience THEN quiet ELSE quiet + 1
  /\ UNCHANGED <<env, res, calls, left>>

-----------------------------------------------------------------------------
(* The connection and the element: events both files listen to.            *)

\* webRtcDisconnected; player.ts cancels both after the reasons that end a
\* session, and neither file is asked before the next connection.
Disconnected(final) ==
  /\ Spend
  /\ env' = [env EXCEPT !.flows = FALSE]
  /\ LET x == State([res EXCEPT !.connected = FALSE, !.replacement = 0,
                                !.armed = FALSE], Cleared(calls, "res"))
         y == IF final THEN Cancelled(x) ELSE x
     IN  /\ res' = y.r
         /\ calls' = IF final THEN Cleared(y.cs, "run") ELSE y.cs
  /\ run' = IF final THEN [Outdated(run) EXCEPT !.enabled = FALSE, !.shows = None]
            ELSE run
  /\ UNCHANGED quiet

\* webRtcConnected
Connected ==
  /\ Become(FrameArmed(State([res EXCEPT !.connected = TRUE], calls),
                       env.source))
  /\ UNCHANGED <<env, run, quiet, left>>

\* The transport's open: reset.
Opened ==
  /\ Spend
  /\ ~env.flows
  /\ run' = [Heard(Outdated(run)) EXCEPT !.enabled = TRUE, !.frozen = FALSE,
                                         !.notice = FALSE, !.shows = None]
  /\ calls' = Cleared(calls, "run")
  /\ quiet' = 0
  /\ UNCHANGED <<env, res>>

\* videoInitialized: watchFrames and onVideo.
VideoAttached ==
  /\ env.source < MaxSources
  /\ LET source == env.source + 1
         watched == Watching(calls, source)
         y == State([res EXCEPT !.replacement = source, !.armed = FALSE],
                    Cleared(watched, "res"))
         x == IF res.waiting /\ source # res.old THEN FrameArmed(y, source)
              ELSE State(res, watched)
     IN  /\ env' = [env EXCEPT !.source = source, !.flows = TRUE]
         /\ Become(x)
  /\ run' = Outdated(run)
  /\ UNCHANGED <<quiet, left>>

\* A frame is presented: every waiting callback fires.
Frame(size) ==
  /\ env.source # 0 /\ env.flows /\ ~env.hidden /\ ~env.paused
  /\ env' = [env EXCEPT !.size = size]
  /\ LET heard == \E c \in calls : /\ c.of = "run" /\ c.live
                                   /\ c.source = env.source
         x == FrameSeen(State(res, {}), calls, size)
     IN  /\ res' = x.r
         /\ calls' = IF heard THEN Armed(x.cs, "run", env.source) ELSE x.cs
         /\ run' = IF heard THEN [Heard(run) EXCEPT !.shows = None] ELSE run
  /\ quiet' = 0
  /\ UNCHANGED left

PlayOrPause ==
  /\ Spend
  /\ env' = [env EXCEPT !.paused = ~@]
  /\ UNCHANGED <<res, run, calls, quiet>>

\* The watchdog writes its notice; mediaReceived the mark that outdates it.
Evidence(fault) ==
  /\ env.fault # fault
  /\ fault = "restored" => env.fault = "requested"
  /\ Spend
  /\ env' = [env EXCEPT !.fault = fault]
  /\ UNCHANGED <<res, run, calls, quiet>>

-----------------------------------------------------------------------------
Init ==
  /\ \E cancels \in BOOLEAN, size \in Sizes :
       env = [source |-> 0, size |-> size, flows |-> FALSE, hidden |-> FALSE,
              paused |-> FALSE, cancels |-> cancels, fault |-> None]
  /\ res = [target |-> None, completed |-> None, waiting |-> FALSE,
            timer |-> FALSE, connected |-> FALSE, old |-> 0,
            replacement |-> 0, armed |-> FALSE, shows |-> None]
  /\ run = [enabled |-> TRUE, since |-> 0, frozen |-> FALSE, notice |-> FALSE,
            fetch |-> None, due |-> FALSE, shows |-> None]
  /\ calls = {}
  /\ quiet = 0
  /\ left = MaxEvents

Next ==
  \/ \E size \in Sizes : Response(size) \/ Frame(size)
  \/ Retry \/ Timeout \/ Ask \/ Freeze \/ Unfreeze \/ Visibility \/ Pass
  \/ \E b \in BOOLEAN : Answer(b) \/ Disconnected(b)
  \/ Connected \/ Opened \/ VideoAttached \/ PlayOrPause
  \/ \E fault \in {"requested", "restored"} : Evidence(fault)

Spec == Init /\ [][Next]_vars

\* The timer fires.
Fairness == WF_vars(Timeout)

FairSpec == Spec /\ Fairness

-----------------------------------------------------------------------------
(* Properties.                                                             *)

\* A resolution counts as applied only on a frame of that size, from a video
\* attached after the reconnection began, on a connection that is up: no frame
\* of the old stream and no callback left over from an attempt completes it.
AppliedIsShown ==
  [][res.waiting /\ ~res'.waiting /\ res'.shows = None /\ env'.flows =>
       /\ res.connected
       /\ env.source # res.old
       /\ env'.size = res.target]_vars

\* The page claims silence without the watchdog's word only when frames were
\* due, and missing, for the whole time it waits: not in the background, behind
\* a freeze frame, or before the connection changed under its request.
SilenceIsReal ==
  [][run.shows # "silent" /\ run'.shows = "silent" => quiet = Patience]_vars

\* A wait ends: with the frame, or with the offer to try again.
WaitsEnd == res.waiting ~> ~res.waiting
=============================================================================
