-------------------------- MODULE SessionArtifacts --------------------------
(***************************************************************************)
(* The two artifact managers of the instance agent: the one that bundles   *)
(* the logs of a session and the one that bundles its screenshots.  Both   *)
(* keep a directory of queue records and bundles, and one background       *)
(* drain that uploads a bundle, then registers it with the control plane.  *)
(* The managers share nothing; a run meets one of them.                    *)
(*                                                                         *)
(* The process runs alone between two awaits: the settling and packing of  *)
(* a capture, and the identity, upload and registration of a record.       *)
(* Records are named by random identifiers and drained in the order of     *)
(* their names: an id of the model is the rank of that name.               *)
(*                                                                         *)
(* A log is the number of lines cut from it and of lines written; its size *)
(* and time are those numbers, so a fingerprint is the pair of them.       *)
(* Comparing the fingerprint and cutting the file is one step here: a      *)
(* line that another process writes in between is lost, and so is what the *)
(* bundle left out of a log longer than its limit.                         *)
(***************************************************************************)
EXTENDS Integers, FiniteSets, FiniteSetsExt

CONSTANTS
  None,
  Managers,      \* a subset of {"logs", "shots"}
  Ids,           \* ranks of artifact ids, a set of numbers
  Poison,        \* artifacts that cannot be uploaded
  MaxDrain,      \* MAX_DRAIN_RECORDS
  MaxFiles,      \* screenshots in a bundle
  MaxSessions, MaxShots, MaxLines,
  MaxCaptures,   \* captures under way
  MaxFaults      \* failed or lost calls, restarts, records that age or tear

\* A definition whose comment says "Mutant" is a faulty variant of the one below it.

VARIABLES
  manager,   \* the manager of this run
  x,         \* its memory
  d,         \* its files
  w,         \* customers, the writer of the log, the store, the control plane
  left       \* faults that may still happen

vars == <<manager, x, d, w, left>>

Fresh ==
  [active |-> None,    \* activeSession
   captures |-> {},    \* completeSessionAndUpload or captureAndUpload, awaiting
   drain |-> None]     \* drainPromise, with its list of files

Shots == (1 .. MaxSessions) \X (1 .. MaxShots)

Fault(is) == (is => left > 0) /\ left' = IF is THEN left - 1 ELSE left

\* The function without the points of S, and with r at i.
Without(f, S) == [j \in DOMAIN f \ S |-> f[j]]

With(f, i, r) == [j \in DOMAIN f \cup {i} |-> IF j = i THEN r ELSE f[j]]

-----------------------------------------------------------------------------
(* The files.                                                              *)

\* The record goes, when the file system lets it, and then its bundle.
Deleted(f, id, gone) ==
  LET g == [f EXCEPT !.bundles = @ \ {id}] IN
  IF gone THEN [g EXCEPT !.queue = Without(@, {id}), !.torn = @ \ {id}] ELSE g

\* cleanupRecordSourceFiles: unchanged screenshots of the record.
SourcesCleaned(f, files) == [f EXCEPT !.folder = @ \ files]

\* cleanScreenshotSourceFolder
FolderCleaned(f) == [f EXCEPT !.folder = {}]

\* clearActiveSessionSnapshot
SnapshotCleared(f) == [f EXCEPT !.snapshot = None]

\* discardQueueRecord of either manager.
Discarded(f, id, gone) == Deleted(SourcesCleaned(f, f.queue[id].files), id, gone)

\* Mutant: bundles go whatever their records are.
AllCleaned(f) ==
  [f EXCEPT !.queue = Without(@, f.old), !.torn = @ \ f.old, !.bundles = {}, !.old = {}]

\* cleanStartupQueue: expired records go with their screenshots, then old bundles and
\* staging directories that no record keeps.
QueueCleaned(f) ==
  LET sources == UNION {f.queue[id].files : id \in (DOMAIN f.queue \cap f.old) \ f.torn}
  IN [SourcesCleaned(f, sources) EXCEPT
        !.queue = Without(@, f.old), !.torn = @ \ f.old, !.bundles = @ \ f.old, !.old = {}]

\* cleanStartupScreenshots, cleanStartupQueue: nothing goes when a recycle, or the
\* screenshots of a session, may have to be recovered.
StartupCleaned(f, preserve) ==
  IF preserve \/ (manager = "shots" /\ f.snapshot # None) THEN f
  ELSE IF manager = "shots" THEN QueueCleaned(FolderCleaned(f))
  ELSE QueueCleaned(f)

\* fileStatMatchesFingerprint
Unchanged(f, print) == print = [cut |-> f.cut, end |-> f.end]

\* Mutant: the log is cut whatever it has become.
CutAnyway(f, print) == IF print = None THEN f ELSE [f EXCEPT !.cut = f.end]

\* pruneCapturedLogFiles: the whole log goes when it is as it was captured.
Pruned(f, print) ==
  IF print # None /\ Unchanged(f, print) THEN [f EXCEPT !.cut = f.end] ELSE f

-----------------------------------------------------------------------------
(* The active session of the screenshots.                                  *)

\* snapshotBaseline
Baseline(f) == f.folder

\* Mutant: the files of the folder are not noted.
Bare(y, f, k) ==
  LET a == IF y.active # None THEN [y.active EXCEPT !.sess = k]
           ELSE [sess |-> k, base |-> {}]
  IN <<[y EXCEPT !.active = a], [f EXCEPT !.snapshot = a]>>

\* startSession and attachSessionContext: the context is merged into an active
\* session; what is on disk is not looked at.
Started(y, f, k) ==
  LET a == IF y.active # None THEN [y.active EXCEPT !.sess = k]
           ELSE [sess |-> k, base |-> Baseline(f)]
  IN <<[y EXCEPT !.active = a], [f EXCEPT !.snapshot = a]>>

\* The session a capture is of: the active one, the one on disk, or none known.
Recovered(y, f) == IF y.active # None THEN y.active ELSE f.snapshot

\* hasChangedSinceBaseline: what a capture may take.  Without a session only
\* recent files count, whichever those are.
Changed(f, c) == IF c.base # None THEN {f.folder \ c.base} ELSE SUBSET f.folder

\* Mutant: the limit is passed by one.
OneMore(changed) ==
  kSubset(IF Cardinality(changed) < MaxFiles + 1 THEN Cardinality(changed) ELSE MaxFiles + 1, changed)

\* The first files, by time, up to the limit.
Selections(changed) ==
  kSubset(IF Cardinality(changed) < MaxFiles THEN Cardinality(changed) ELSE MaxFiles, changed)

-----------------------------------------------------------------------------
(* Memory of the drain.                                                    *)

\* drainQueue: one at a time, over the records it finds.
DrainStarted(y, f) ==
  IF y.drain # None THEN y
  ELSE [y EXCEPT !.drain =
         [list |-> DOMAIN f.queue, done |-> 0, stage |-> "next"]]

Waits(stage) == x.drain # None /\ x.drain.stage = stage

At == Min(x.drain.list)

Stage(y, stage) == [y EXCEPT !.drain.stage = stage]

Passed(y) == [y EXCEPT !.drain.list = @ \ {Min(@)}, !.drain.stage = "next"]

\* The record has used one of the budget of the drain.
Counted(y) == [Passed(y) EXCEPT !.drain.done = @ + 1]

\* Mutant: a failed record ends the drain.
Halted(y, written) == [y EXCEPT !.drain = None]

\* The record failed; when that cannot be written down either, the drain ends.
Failed(y, written) == IF written THEN Counted(y) ELSE [y EXCEPT !.drain = None]

-----------------------------------------------------------------------------
(* The queue.                                                              *)

Init ==
  /\ manager \in Managers
  /\ x = Fresh
  /\ d = [folder |-> {}, snapshot |-> None, cut |-> 0, end |-> 0,
          queue |-> <<>>, bundles |-> {}, old |-> {}, torn |-> {}]
  /\ w = [sess |-> 0, ended |-> FALSE, recycling |-> FALSE, taken |-> {}, preserved |-> {},
          made |-> <<>>, uploaded |-> {}, registered |-> {}, excused |-> {}]
  /\ left = MaxFaults

\* requestLogArtifactDrain, requestScreenshotArtifactDrain: after a heartbeat.
Drain ==
  /\ x.drain = None
  /\ x' = DrainStarted(x, d)
  /\ UNCHANGED <<manager, d, w, left>>

\* The loop of drainQueueCore, up to its next await; a torn record is skipped
\* without using the budget.
NextRecord ==
  /\ Waits("next")
  /\ IF x.drain.list = {} \/ x.drain.done >= MaxDrain
       THEN x' = [x EXCEPT !.drain = None] /\ UNCHANGED <<d, left>>
     ELSE IF At \in d.torn /\ At \notin d.old
       THEN x' = Passed(x) /\ UNCHANGED <<d, left>>
     ELSE IF At \in d.old
       THEN \E gone \in BOOLEAN :
              /\ Fault(~gone)
              /\ x' = IF gone \/ At \notin d.torn THEN Counted(x) ELSE Passed(x)
              /\ d' = IF At \notin d.torn THEN Discarded(d, At, gone)
                      ELSE IF gone THEN [d EXCEPT !.queue = Without(@, {At}), !.torn = @ \ {At}]
                      ELSE d
     ELSE x' = Stage(x, "identity") /\ UNCHANGED <<d, left>>
  /\ UNCHANGED <<manager, w>>

\* resolveQueueRecordIdentityMismatch: the record of another instance goes.
Identified ==
  /\ Waits("identity")
  /\ \E ok, written, gone \in BOOLEAN :
       /\ Fault(~(ok /\ written /\ gone))
       /\ IF ~ok THEN x' = Failed(x, written) /\ UNCHANGED d
          ELSE IF ~d.queue[At].own THEN x' = Counted(x) /\ d' = Discarded(d, At, gone)
          ELSE /\ x' = Stage(x, IF d.queue[At].uploaded THEN "register" ELSE "upload")
               /\ UNCHANGED d
  /\ UNCHANGED <<manager, w>>

\* uploadRecord: the copy; it may arrive and fail.
Copied ==
  /\ Waits("upload")
  /\ \E arrived, ok, written \in BOOLEAN :
       /\ (ok => arrived) /\ (arrived => At \in d.bundles \ Poison)
       /\ Fault(~written \/ (At \in d.bundles \ Poison /\ ~ok))
       /\ w' = IF arrived THEN [w EXCEPT !.uploaded = @ \cup {At}] ELSE w
       /\ x' = IF ok THEN Stage(x, "head") ELSE Failed(x, written)
  /\ UNCHANGED <<manager, d>>

\* The rest of uploadRecord, once the object was looked at, found or not: the record
\* waits for its registration, and the captured log is cut.
Headed ==
  /\ Waits("head")
  /\ \E written \in BOOLEAN :
       /\ Fault(~written)
       /\ x' = IF written THEN Stage(x, "register") ELSE [x EXCEPT !.drain = None]
       /\ d' = IF written
               THEN Pruned([d EXCEPT !.queue[At].uploaded = TRUE], d.queue[At].print)
               ELSE d
  /\ UNCHANGED <<manager, w>>

\* Mutant: a record that could not be registered goes as well.
AlwaysLetGo(f, y, id, ok, gone) == Deleted(f, id, gone)

\* registerRecord, after the call.  When all that there was is bundled and no session
\* is active, the folder is emptied.
LetGo(f, y, id, ok, gone) ==
  LET r == f.queue[id]
      g == SourcesCleaned(Deleted(f, id, gone), r.files)
  IN IF ~ok THEN f
     ELSE IF manager = "shots" /\ y.active = None /\ ~r.skipped THEN FolderCleaned(g)
     ELSE g

\* registerRecord: a bundle of no known session is not registered.
Registered ==
  /\ Waits("register")
  /\ \E arrived, ok, written, gone \in BOOLEAN :
       LET known == d.queue[At].sess # None IN
       /\ (ok => arrived) /\ (~known => ok)
       /\ Fault(~(ok /\ written /\ gone))
       /\ w' = IF ~known THEN [w EXCEPT !.excused = @ \cup {At}]
               ELSE IF arrived THEN [w EXCEPT !.registered = @ \cup {At}]
               ELSE w
       /\ x' = IF ok THEN Counted(x) ELSE Failed(x, written)
       /\ d' = LetGo(d, x, At, ok, gone)
  /\ UNCHANGED manager

-----------------------------------------------------------------------------
(* Captures.                                                               *)

Unused == Ids \ (DOMAIN w.made \cup {c.id : c \in x.captures})

\* Whose bundle it is: the session the caller names, or that of the context.
Correlated(k, session) == IF k # None \/ session = None THEN k ELSE session.sess

\* updateRecord of a new artifact.
Queued(f, c) ==
  [f EXCEPT !.bundles = @ \cup {c.id},
            !.queue = With(@, c.id, [sess |-> c.sess, files |-> c.files, skipped |-> c.skipped,
                                     print |-> c.print, uploaded |-> FALSE, own |-> TRUE])]

Made(v, c) ==
  [v EXCEPT !.made = With(@, c.id, [sess |-> c.sess, files |-> c.files, end |-> c.end])]

\* A viewer connects, of the current customer or of the next one: the session of
\* the screenshots starts, or its context is replaced.
Connect ==
  \E next \in BOOLEAN :
    LET k == IF next THEN w.sess + 1 ELSE w.sess
        r == Started(x, d, k)
    IN /\ manager = "shots" /\ k \in 1 .. MaxSessions
       /\ next => (w.sess = 0 \/ w.ended)
       /\ ~next => ~w.ended /\ ~w.recycling
       /\ x' = r[1] /\ d' = r[2]
       /\ w' = [w EXCEPT !.sess = k, !.ended = FALSE]
       /\ UNCHANGED <<manager, left>>

\* The runtime writes a screenshot of the current customer.
Shoot ==
  /\ manager = "shots" /\ w.sess > 0 /\ ~w.ended /\ ~w.recycling
  /\ \E n \in 1 .. MaxShots :
       /\ {<<w.sess, m>> : m \in 1 .. n} \ w.taken = {<<w.sess, n>>}
       /\ d' = [d EXCEPT !.folder = @ \cup {<<w.sess, n>>}]
       /\ w' = [w EXCEPT !.taken = @ \cup {<<w.sess, n>>}]
  /\ UNCHANGED <<manager, x, left>>

\* applyCommands: every response that lists a command of the customer attaches it,
\* whether the command is new or not.
Attach ==
  /\ manager = "shots" /\ w.sess > 0
  /\ LET r == Started(x, d, w.sess) IN x' = r[1] /\ d' = r[2]
  /\ UNCHANGED <<manager, w, left>>

\* captureSessionScreenshotArtifact, completeSessionAndUpload: for the customer that
\* ends, for the one before when the command of a recovered recycle is finalised
\* late, or for nobody in particular.
Complete ==
  \E k \in {w.sess, w.sess - 1} \cap (1 .. MaxSessions), named \in BOOLEAN, id \in Unused :
    LET session == Recovered(x, d)
        sess == Correlated(IF named THEN k ELSE None, session)
    IN /\ manager = "shots" /\ Cardinality(x.captures) < MaxCaptures
       /\ x' = [x EXCEPT !.active = None, !.captures = @ \cup
                 {[id |-> id, stage |-> "settling", sess |-> sess,
                   base |-> IF session = None THEN None ELSE session.base,
                   files |-> {}, skipped |-> FALSE, print |-> None, end |-> 0]}]
       /\ w' = IF k = w.sess THEN [w EXCEPT !.ended = TRUE, !.recycling = FALSE] ELSE w
       /\ UNCHANGED <<manager, d, left>>

\* The folder after settleDelayMs: nothing to bundle, and the folder is emptied, or
\* copies to be packed.
Settle ==
  \E c \in x.captures, ok \in BOOLEAN :
    /\ c.stage = "settling" /\ Fault(~ok)
    /\ \E changed \in Changed(d, c) : \E files \in Selections(changed) :
         IF changed = {}
         THEN /\ ok
              /\ x' = [x EXCEPT !.captures = @ \ {c}]
              /\ d' = FolderCleaned(SnapshotCleared(d))
         ELSE /\ x' = [x EXCEPT !.captures = (@ \ {c}) \cup
                   (IF ok THEN {[c EXCEPT !.stage = "packing", !.files = files,
                                          !.skipped = (files # changed)]} ELSE {})]
              /\ UNCHANGED d
    /\ UNCHANGED <<manager, w>>

\* createZipFromStaging, and the rest of completeSessionAndUpload.
Pack ==
  \E c \in x.captures, ok \in BOOLEAN :
    LET y == [x EXCEPT !.captures = @ \ {c}]
        f == FolderCleaned(SourcesCleaned(SnapshotCleared(Queued(d, c)), c.files))
    IN /\ manager = "shots" /\ c.stage = "packing" /\ Fault(~ok)
       /\ IF ok THEN d' = f /\ x' = DrainStarted(y, f) /\ w' = Made(w, c)
          ELSE x' = y /\ UNCHANGED <<d, w>>
       /\ UNCHANGED manager

\* Another line of the log.
Write ==
  /\ manager = "logs" /\ d.end < MaxLines
  /\ d' = [d EXCEPT !.end = @ + 1]
  /\ UNCHANGED <<manager, x, w, left>>

\* captureSessionLogArtifact, collectBundleFiles: the end of the log, with the
\* fingerprint of the whole unless it is empty or grows meanwhile.
Collect ==
  \E k \in {1, None}, id \in Unused, grows \in BOOLEAN :
    /\ manager = "logs" /\ Cardinality(x.captures) < MaxCaptures
    /\ grows => d.end < MaxLines
    /\ x' = [x EXCEPT !.captures = @ \cup
              {[id |-> id, stage |-> "packing", sess |-> k, base |-> None, files |-> {},
                skipped |-> FALSE, end |-> d.end,
                print |-> IF grows \/ d.cut = d.end THEN None
                          ELSE [cut |-> d.cut, end |-> d.end]]}]
    /\ d' = IF grows THEN [d EXCEPT !.end = @ + 1] ELSE d
    /\ UNCHANGED <<manager, w, left>>

\* gzip, and the rest of captureAndUpload.
Compress ==
  \E c \in x.captures, ok \in BOOLEAN :
    LET y == [x EXCEPT !.captures = @ \ {c}]
        f == Queued(d, c)
    IN /\ manager = "logs" /\ Fault(~ok)
       /\ IF ok THEN d' = f /\ x' = DrainStarted(y, f) /\ w' = Made(w, c)
          ELSE x' = y /\ UNCHANGED <<d, w>>
       /\ UNCHANGED manager

-----------------------------------------------------------------------------
(* Faults.                                                                 *)

\* The process restarts; when a recycle is recovered its files are preserved, and
\* the runtime whose screenshots they are is gone.
Restart ==
  \E preserve \in BOOLEAN :
    /\ Fault(TRUE)
    /\ x' = Fresh
    /\ d' = StartupCleaned(d, preserve)
    /\ w' = IF preserve /\ w.sess > 0 /\ ~w.ended
            THEN [w EXCEPT !.recycling = TRUE, !.preserved = d.folder] ELSE w
    /\ UNCHANGED manager

\* The retry window of a record and of its bundle passes.
Age ==
  \E id \in d.bundles \ d.old :
    /\ Fault(TRUE)
    /\ d' = [d EXCEPT !.old = @ \cup {id}]
    /\ w' = [w EXCEPT !.excused = @ \cup {id}]
    /\ UNCHANGED <<manager, x>>

\* A record was not on disk when the host stopped.
Tear ==
  \E id \in DOMAIN d.queue \ d.torn :
    /\ Fault(TRUE)
    /\ x' = Fresh
    /\ d' = StartupCleaned([d EXCEPT !.torn = @ \cup {id}], FALSE)
    /\ w' = [w EXCEPT !.excused = @ \cup {id}]
    /\ UNCHANGED manager

\* The disk is used by another instance.
Clone ==
  /\ Fault(TRUE) /\ DOMAIN d.queue # {}
  /\ x' = Fresh
  /\ LET f == StartupCleaned(d, FALSE) IN
     d' = [f EXCEPT !.queue = [id \in DOMAIN @ |-> [@[id] EXCEPT !.own = FALSE]]]
  /\ w' = [w EXCEPT !.excused = @ \cup DOMAIN d.queue]
  /\ UNCHANGED manager

Next ==
  \/ Drain \/ NextRecord \/ Identified \/ Copied \/ Headed \/ Registered
  \/ Connect \/ Shoot \/ Attach \/ Complete \/ Settle \/ Pack
  \/ Write \/ Collect \/ Compress
  \/ Restart \/ Age \/ Tear \/ Clone

Spec == Init /\ [][Next]_vars

\* Timers fire and processes and calls end by their deadlines.
Fairness ==
  /\ WF_vars(Drain)
  /\ WF_vars(NextRecord)
  /\ WF_vars(Identified)
  /\ WF_vars(Copied)
  /\ WF_vars(Headed)
  /\ WF_vars(Registered)

FairSpec == Spec /\ Fairness

-----------------------------------------------------------------------------
(* Properties.                                                             *)

TypeOK ==
  /\ x.active # None => x.active.sess \in 1 .. MaxSessions /\ x.active.base \subseteq Shots
  /\ d.folder \subseteq Shots /\ d.cut <= d.end
  /\ d.torn \subseteq DOMAIN d.queue
  /\ \A id \in DOMAIN d.queue : Cardinality(d.queue[id].files) <= MaxFiles
  /\ DOMAIN d.queue \subseteq DOMAIN w.made

\* A record is kept until its artifact is registered, or given up: expired, torn, of
\* another instance, or of no session.
Delivery == INSTANCE AtLeastOnce
  WITH Items <- Ids, owed <- DOMAIN d.queue, received <- w.registered \cup w.excused

Delivered == Delivery!Spec

\* The screenshots of a customer are not bundled for a later one.
NoEarlierShots ==
  \A id \in DOMAIN w.made :
    w.made[id].sess # None => \A shot \in w.made[id].files : shot[1] >= w.made[id].sess

\* A log is cut only where an uploaded bundle ends.
CutIsUploaded == d.cut = 0 \/ \E id \in w.uploaded : w.made[id].end = d.cut

\* The artifacts that cannot be uploaded do not keep the others back.
Settles == <>[](DOMAIN d.queue \subseteq Poison \cup d.torn)

=============================================================================
