----------------------------- MODULE EndSession -----------------------------
(***************************************************************************)
(* The "End session" control of the player page (endSession.ts), with the  *)
(* ways it ends a session: a request through the signalling server's proxy *)
(* (sessionEndRequest.ts, session-end-proxy.ts), or a session manager tab  *)
(* on the other end of a message channel; and the page's handling of a     *)
(* disconnect (player.ts), whose reconnect attempts and inputs the control *)
(* suspends while it is at work.                                           *)
(*                                                                         *)
(* The API, the manager tab and the network are the environment: replies   *)
(* are late or lost, and a request whose answer is lost may still count.   *)
(***************************************************************************)
EXTENDS Integers, Sequences

CONSTANTS
  MaxConfirms,  \* bound: times the user confirms
  MaxManager,   \* bound: handshakes and pings of the manager tab
  MaxDrops      \* bound: disconnects of the stream

\* A definition whose comment says "Mutant" is a faulty variant of the one below it.

VARIABLES
  page,   \* the control and the player page
  post,   \* the direct request: its own progress, and what the API does of it
  to,     \* messages to the manager tab
  from,   \* messages from it
  over,   \* the session has ended
  left    \* what the environment may still do

vars == <<page, post, to, from, over, left>>

Page ==
  [direct: BOOLEAN,       \* the page holds a capability (options.endDirect)
   dialog: BOOLEAN,
   at: {"idle", "direct", "probing", "ending"},  \* not "idle": `pending`
   manager: BOOLEAN,      \* useManagerConfirmation
   uncertain: BOOLEAN, ended: BOOLEAN, port: BOOLEAN,
   muted: BOOLEAN,        \* previousInputs: the stream's inputs are disabled
   halted: BOOLEAN,       \* previousReconnectAttempts: no reconnect attempts
   final: BOOLEAN,        \* onEnded: no attempts, nothing stored, for good
   silent: BOOLEAN,       \* endSessionPending
   shows: {"stream", "idle", "expired", "ended"},
   gone: {"no", "manager", "reconnect", "over"}]

Post == {"none", "sent", "lost", "asking"}

Pending(g) == g.at # "idle"

Here == page.gone = "no"

Spend(what) ==
  /\ left[what] > 0
  /\ left' = [left EXCEPT ![what] = @ - 1]

-----------------------------------------------------------------------------
(* The callbacks of player.ts and the operators of endSession.ts.          *)

\* setModalInput
Modal(g, open) == [g EXCEPT !.muted = open]

\* onPending
SetPending(g, pending) == [g EXCEPT !.silent = pending, !.halted = pending]

\* Mutant: giving up does not end the pending state of the page.
FallbackOnly(g) == [g EXCEPT !.at = "idle", !.manager = TRUE]

\* showFallback
Fallback(g) ==
  [SetPending(g, FALSE) EXCEPT !.at = "idle", !.manager = TRUE]

\* markEnded and onEnded; the tab returns to the manager.
MarkEnded(g) ==
  IF g.ended THEN g
  ELSE [Modal(g, TRUE) EXCEPT !.ended = TRUE, !.at = "idle", !.final = TRUE,
                              !.dialog = TRUE, !.gone = "over"]

-----------------------------------------------------------------------------
(* The user.                                                               *)

OpenDialog ==
  /\ Here /\ ~page.dialog /\ ~page.ended
  /\ LET g == [Modal(page, TRUE) EXCEPT !.dialog = TRUE, !.manager = FALSE]
     IN  page' = IF ~page.port /\ ~page.direct THEN Fallback(g) ELSE g
  /\ UNCHANGED <<post, to, from, over, left>>

\* "Keep streaming", or Escape.
CloseDialog ==
  /\ Here /\ page.dialog /\ ~Pending(page) /\ ~page.ended
  /\ page' = [Modal(page, FALSE) EXCEPT !.dialog = FALSE]
  /\ UNCHANGED <<post, to, from, over, left>>

Confirm ==
  /\ Here /\ page.dialog /\ ~Pending(page) /\ ~page.ended
  /\ Spend("confirm")
  /\ \/ /\ page.direct /\ ~page.manager
        /\ page' = [SetPending(page, TRUE) EXCEPT !.at = "direct",
                                                  !.uncertain = TRUE]
        /\ post' = "sent"
        /\ UNCHANGED to
     \/ /\ page.manager \/ (~page.direct /\ ~page.port)
        /\ page' = [page EXCEPT !.gone = "manager"]
        /\ UNCHANGED <<post, to>>
     \/ /\ ~page.direct /\ ~page.manager /\ page.port
        /\ page' = [page EXCEPT !.at = "probing", !.uncertain = TRUE]
        /\ to' = Append(to, "probe")
        /\ UNCHANGED post
  /\ UNCHANGED <<from, over>>

-----------------------------------------------------------------------------
(* The direct request.                                                     *)

\* What requestSessionEnd resolves to, when the control still waits for it.
Resolve(accepted) ==
  /\ post' = "none"
  /\ page' = IF page.ended THEN page
             ELSE IF accepted THEN MarkEnded(page) ELSE Fallback(page)

\* Mutant: a request that got no answer counts as accepted.
OutcomeOfLoss(answer) == TRUE

OutcomeOf(answer) == answer = "accepted"

\* The API ends the session or refuses; the answer passes the proxy, which
\* turns whatever is no clear answer for this session into an error.
PostAnswered(answer) ==
  /\ Here
  /\ post = "sent"
  /\ over' = (over \/ answer = "accepted")
  /\ IF answer = "accepted" THEN Resolve(TRUE)
     ELSE post' = "asking" /\ UNCHANGED page
  /\ UNCHANGED <<to, from, left>>

\* No answer before the abort: the request may take effect, now or later.
PostLost ==
  /\ Here
  /\ post = "sent"
  /\ post' = "lost"
  /\ UNCHANGED <<page, to, from, over, left>>

\* Then the page asks once what became of it, and never sends it again.
StatusAnswered(answer) ==
  /\ Here
  /\ post \in {"asking", "lost"}
  /\ answer = "accepted" => over
  /\ Resolve(OutcomeOf(answer))
  /\ UNCHANGED <<to, from, over, left>>

\* The API gets to a request whose sender has given up, or the session
\* expires or is ended elsewhere.
SessionEnds ==
  /\ ~over
  /\ over' = TRUE
  /\ UNCHANGED <<page, post, to, from, left>>

-----------------------------------------------------------------------------
(* The channel to a manager tab.                                           *)

\* receive: a handshake replaces the channel unless an attempt is pending.
Handshake ==
  /\ Here
  /\ Spend("manager")
  /\ ~page.ended /\ ~Pending(page)
  /\ page' = [page EXCEPT !.port = TRUE]
  /\ to' = <<>>
  /\ from' = <<>>
  /\ UNCHANGED <<post, over>>

ManagerPings ==
  /\ page.port
  /\ Spend("manager")
  /\ from' = Append(from, "ping")
  /\ UNCHANGED <<page, post, to, over>>

\* The manager answers, refuses, or is asleep and the message is lost.
ManagerActs ==
  /\ to # <<>>
  /\ to' = Tail(to)
  /\ \/ UNCHANGED <<from, over>>
     \/ /\ Head(to) = "probe"
        /\ from' = Append(from, "available")
        /\ UNCHANGED over
     \/ /\ Head(to) = "end"
        /\ over' = TRUE
        /\ from' = Append(from, "accepted")
     \/ /\ Head(to) = "end"
        /\ from' = Append(from, "refused")
        /\ UNCHANGED over
  /\ UNCHANGED <<page, post, left>>

\* port.onmessage
PortMessage ==
  /\ Here
  /\ from # <<>>
  /\ from' = Tail(from)
  /\ LET m == Head(from)
     IN  \/ /\ m = "ping"
            /\ page' = IF /\ page.dialog /\ ~Pending(page)
                          /\ ~page.ended /\ ~page.uncertain
                       THEN [page EXCEPT !.manager = FALSE] ELSE page
            /\ UNCHANGED to
         \/ /\ m = "available" /\ page.at = "probing"
            /\ page' = [SetPending(page, TRUE) EXCEPT !.at = "ending"]
            /\ to' = Append(to, "end")
         \/ /\ m = "accepted" /\ page.at \in {"direct", "ending"}
            /\ page' = MarkEnded(page)
            /\ UNCHANGED to
         \/ /\ m = "refused" /\ page.at \in {"direct", "ending"}
            /\ page' = [Fallback(page) EXCEPT !.uncertain = TRUE]
            /\ UNCHANGED to
         \/ /\ \/ m = "available" /\ page.at # "probing"
               \/ /\ m \in {"accepted", "refused"}
                  /\ page.at \notin {"direct", "ending"}
            /\ UNCHANGED <<page, to>>
  /\ UNCHANGED <<post, over, left>>

\* Mutant: the answer to the probe clears its timer and arms no other.
ProbeTimer == {"probing"}

\* 4 s for the probe, 40 s for the result.
Timers == {"probing", "ending"}

TimesOut ==
  /\ Here
  /\ page.at \in Timers
  /\ page' = Fallback(page)
  /\ UNCHANGED <<post, to, from, over, left>>

-----------------------------------------------------------------------------
(* The stream's disconnects: the listener of webRtcDisconnected.           *)

Guidance(reason) ==
  IF reason = "ended" THEN MarkEnded([page EXCEPT !.shows = "ended"])
  ELSE IF page.silent THEN page
  ELSE CASE reason = "inactive" -> [page EXCEPT !.shows = "idle"]
         [] reason = "ticket" -> [page EXCEPT !.shows = "expired", !.gone = "reconnect"]
         [] OTHER -> page

Disconnected(reason) ==
  /\ Here /\ ~page.ended
  /\ reason = "ended" => over
  /\ Spend("drop")
  /\ page' = Guidance(reason)
  /\ UNCHANGED <<post, to, from, over>>

-----------------------------------------------------------------------------
Init ==
  /\ \E direct \in BOOLEAN :
     page = [direct |-> direct, dialog |-> FALSE, at |-> "idle", manager |-> FALSE,
             uncertain |-> FALSE, ended |-> FALSE, port |-> FALSE,
             muted |-> FALSE, halted |-> FALSE, final |-> FALSE,
             silent |-> FALSE, shows |-> "stream", gone |-> "no"]
  /\ post = "none"
  /\ to = <<>>
  /\ from = <<>>
  /\ over = FALSE
  /\ left = [confirm |-> MaxConfirms, manager |-> MaxManager,
             drop |-> MaxDrops]

Next ==
  \/ OpenDialog \/ CloseDialog \/ Confirm
  \/ \E answer \in {"accepted", "refused"} :
       PostAnswered(answer) \/ StatusAnswered(answer)
  \/ PostLost \/ SessionEnds
  \/ Handshake \/ ManagerPings \/ ManagerActs \/ PortMessage \/ TimesOut
  \/ \E reason \in {"ended", "inactive", "ticket", "lost"} :
       Disconnected(reason)

Spec == Init /\ [][Next]_vars

\* Both requests are aborted after 22 s, and both waits of the channel end.
Fairness ==
  /\ WF_vars(PostLost)
  /\ WF_vars(\E answer \in {"accepted", "refused"} :
                     StatusAnswered(answer))
  /\ WF_vars(TimesOut)

FairSpec == Spec /\ Fairness

-----------------------------------------------------------------------------
(* Properties.                                                             *)

\* The page says the session ended, gives up its credentials and returns to
\* the manager only when the session has ended: late, lost and refused answers
\* of any attempt leave the user with the stream.
TabIsKept == page.ended => over

\* Outside the dialog the stream has its inputs back, and outside a pending
\* attempt its reconnect attempts and the handling of its disconnects.
StreamIsRestored ==
  \/ page.ended
  \/ /\ page.muted => page.dialog
     /\ page.halted \/ page.silent => Pending(page)

\* An attempt does not stay pending: it ends the session or gives the user
\* the dialog back.
AttemptsEnd == Pending(page) ~> ~Pending(page) \/ ~Here
=============================================================================
