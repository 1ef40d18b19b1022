--------------------------- MODULE PlayerBootstrap ---------------------------
(***************************************************************************)
(* How the player page finds its session: player.ts, from `onload` to      *)
(* connect, and its listener of `webRtcDisconnected`.  A tab keeps four    *)
(* entries of sessionStorage and its URL over reloads and over a trip to   *)
(* the session manager, which is external, like the clock and the user.    *)
(* Tickets, contexts and capabilities are named by the session request     *)
(* they are for; the words of the guidance are left out.                   *)
(***************************************************************************)
EXTENDS Integers

CONSTANTS
  Sessions,   \* session requests
  Queries,    \* what else a player URL can ask for: settings
  MaxLoads    \* bound: loads of a page in the tab

\* A definition whose comment says "Mutant" is a faulty variant of the one below it.

VARIABLES
  url,     \* the tab's URL
  stored,  \* sessionStorage
  page,    \* the page's closures
  over,    \* history: sessions the tab was told have ended
  chosen,  \* history: the settings of the URL when the page left for the manager
  left     \* loads that may still happen

vars == <<url, stored, page, over, chosen, left>>

None == "none"
Maybe(S) == S \cup {None}

Nobody == [of |-> None, shadow |-> FALSE]
Nowhere == [of |-> None, env |-> FALSE]

\* The claims of a ticket that the page reads.
Ticket == [of: Sessions, shadow: BOOLEAN] \cup {Nobody}

\* A reconnect context: region, instance and request, with its environment or not.
Context == [of: Sessions, env: BOOLEAN] \cup {Nowhere}

Url ==
  [ticket: Ticket, hash: Context, query: Context, whole: BOOLEAN, end: Maybe(Sessions),
   settings: Maybe(Queries)]

Storage == [ticket: Ticket, context: Context, end: Maybe(Sessions), settings: Maybe(Queries)]

Page ==
  [at: {"blank", "player", "manager"}, ticket: Ticket, context: Context,
   end: Maybe(Sessions), control: BOOLEAN, pending: BOOLEAN, late: BOOLEAN,
   guidance: {None, "inactivity", "ended", "expired"}]

Bare(settings) ==
  [ticket |-> Nobody, hash |-> Nowhere, query |-> Nowhere, whole |-> TRUE, end |-> None,
   settings |-> settings]

\* parseReconnectContext: no context without a region and an instance.
ParseReconnectContext(context, whole) == IF whole THEN context ELSE Nowhere

HasReconnectContextParams(context) == context # Nowhere

\* Mutant: the capability of the session before stays where it is.
EndKept(s, u) == IF u.end # None THEN u.end ELSE s.end

\* The first lines of onload: what is left of sw-session-end.
EndStored(s, u) ==
  IF u.end # None THEN u.end ELSE IF u.ticket # Nobody THEN None ELSE s.end

ContextOf(u) ==
  LET hash == ParseReconnectContext(u.hash, u.whole)
  IN  IF hash # Nowhere THEN hash ELSE ParseReconnectContext(u.query, u.whole)

\* Settings in the URL are kept; a URL with nothing in its query clears them.
SettingsStored(s, u) ==
  IF u.settings # None THEN u.settings
  ELSE IF u.ticket = Nobody /\ ~HasReconnectContextParams(u.query) THEN None
  ELSE s.settings

\* onload: what is in sessionStorage when the page goes on.
StoredBy(s, u) ==
  [ticket |-> IF u.ticket # Nobody THEN u.ticket ELSE s.ticket,
   context |-> IF ContextOf(u) # Nowhere THEN ContextOf(u) ELSE s.context,
   end |-> EndStored(s, u),
   settings |-> SettingsStored(s, u)]

\* onload: the URL once its secrets are consumed, with the settings of before.
Scrubbed(s, u) ==
  IF u.end = None /\ u.ticket = Nobody /\ ~HasReconnectContextParams(u.query)
       /\ ~HasReconnectContextParams(u.hash)
  THEN u
  ELSE Bare(IF u.settings # None THEN u.settings ELSE s.settings)

\* isManagedEndContext
IsManagedEndContext(ticket, request) ==
  ticket # Nobody /\ ticket.of = request /\ ~ticket.shadow

\* Mutant: the tab returns with the settings the page was loaded with.
SettingsLost(s, u) == s

\* persistPlayerQueryState
PersistPlayerQueryState(s, u) == [s EXCEPT !.settings = u.settings]

\* redirectToSessionManagerForReconnect, where there is a context.
RedirectToSessionManager(s, u, context) ==
  /\ stored' = [PersistPlayerQueryState(s, u) EXCEPT !.ticket = Nobody, !.end = None]
  /\ page' = [at |-> "manager", ticket |-> Nobody, context |-> context, end |-> None,
              control |-> FALSE, pending |-> FALSE, late |-> FALSE, guidance |-> None]
  /\ chosen' = u.settings

\* The rest of onload: the URL builder's ticket and context, the End control.
Started(s, late) ==
  [at |-> "player", ticket |-> s.ticket, context |-> s.context, end |-> s.end,
   control |-> s.context.env /\ IsManagedEndContext(s.ticket, s.context.of),
   pending |-> FALSE, late |-> late /\ s.ticket # Nobody, guidance |-> None]

\* document.body.onload
Onload(u, late) ==
  LET s == StoredBy(stored, u)
      clean == Scrubbed(s, u)
  IN  /\ left > 0
      /\ left' = left - 1
      /\ url' = clean
      /\ IF s.ticket = Nobody /\ s.context # Nowhere
         THEN RedirectToSessionManager(s, clean, s.context)
         ELSE /\ stored' = s
              /\ page' = Started(s, late)
              /\ chosen' = None

-----------------------------------------------------------------------------
\* What the manager puts in a link to a player: a ticket, mostly with the context
\* to renew it (in the hash, once in the query), with the capability to end it.
Links(r) ==
  {[ticket |-> [of |-> r, shadow |-> shadow], hash |-> IF inQuery THEN Nowhere ELSE c,
    query |-> IF inQuery THEN c ELSE Nowhere, whole |-> whole, end |-> e, settings |-> q] :
     shadow \in BOOLEAN, inQuery \in BOOLEAN, whole \in BOOLEAN, e \in {None, r},
     c \in {Nowhere} \cup [of: {r}, env: BOOLEAN], q \in Maybe(Queries)}


\* The user follows a link to a session.
Open(r) ==
  /\ \E u \in Links(r), late \in BOOLEAN : Onload(u, late)
  /\ UNCHANGED over

\* The manager sends the tab back with a new ticket, and no settings.
Return ==
  /\ page.at = "manager"
  /\ page.context.of \notin over
  /\ \E u \in Links(page.context.of) : u.settings = None /\ Onload(u, FALSE)
  /\ UNCHANGED over

\* The user reloads the page, or goes to the player without a link.
Reload ==
  /\ page.at = "player"
  /\ \E late \in BOOLEAN : Onload(url, late)
  /\ UNCHANGED over

GoTo(settings) ==
  /\ \E late \in BOOLEAN : Onload(Bare(settings), late)
  /\ UNCHANGED over

\* The settings panel writes what the user sets into the URL.
Set(settings) ==
  /\ page.at = "player"
  /\ url' = [url EXCEPT !.settings = settings]
  /\ UNCHANGED <<stored, page, over, chosen, left>>

Expire ==
  /\ page.at = "player" /\ page.ticket # Nobody /\ ~page.late
  /\ page' = [page EXCEPT !.late = TRUE]
  /\ UNCHANGED <<url, stored, over, chosen, left>>

\* What the End control tells the page: onPending, onEnded.
EndPending(pending) ==
  /\ page.control /\ page.pending # pending /\ page.guidance # "ended"
  /\ page' = [page EXCEPT !.pending = pending]
  /\ UNCHANGED <<url, stored, over, chosen, left>>

\* Mutant: the ticket stays for the next load.
TicketKept(s) == [s EXCEPT !.context = Nowhere, !.end = None]

\* What both ways to learn of the end remove.
Forgotten(s) == [s EXCEPT !.ticket = Nobody, !.context = Nowhere, !.end = None]

\* showInactivityDisconnectGuidance, showSessionEndedGuidance,
\* showExpiredConnectionGuidance: what the overlays say.
Guided(kind) == [page EXCEPT !.guidance = kind]

EndConfirmed ==
  /\ page.at = "player" /\ page.control /\ page.pending
  /\ stored' = Forgotten(stored)
  /\ over' = over \cup {page.ticket.of}
  /\ page' = [Guided("ended") EXCEPT !.pending = FALSE]
  /\ UNCHANGED <<url, chosen, left>>

\* Why a connection closes: by inactivity, by the end of the session, because the
\* ticket is refused, for another reason.
Reasons == {"inactivity", "ended", "ticket", "other"}

IsConnectTicketDisconnect(reason) == reason = "ticket" \/ page.late

\* The listener of webRtcDisconnected.
Disconnected(reason) ==
  /\ page.at = "player"
  /\ UNCHANGED <<url, left>>
  /\ IF page.pending /\ reason # "ended"
     THEN UNCHANGED <<stored, page, over, chosen>>
     ELSE \/ /\ reason = "inactivity"
             /\ page' = Guided("inactivity")
             /\ UNCHANGED <<stored, over, chosen>>
          \/ /\ reason = "ended"
             /\ page.ticket # Nobody
             /\ stored' = Forgotten(stored)
             /\ over' = over \cup {page.ticket.of}
             /\ page' = [Guided("ended") EXCEPT !.pending = FALSE]
             /\ UNCHANGED chosen
          \/ /\ reason \in {"ticket", "other"}
             /\ IsConnectTicketDisconnect(reason)
             /\ UNCHANGED over
             /\ IF page.context # Nowhere
                THEN RedirectToSessionManager(stored, url, page.context)
                ELSE /\ page' = Guided("expired")
                     /\ UNCHANGED <<stored, chosen>>

-----------------------------------------------------------------------------
Init ==
  /\ url = Bare(None)
  /\ stored = [ticket |-> Nobody, context |-> Nowhere, end |-> None, settings |-> None]
  /\ page = [at |-> "blank", ticket |-> Nobody, context |-> Nowhere, end |-> None,
             control |-> FALSE, pending |-> FALSE, late |-> FALSE, guidance |-> None]
  /\ over = {}
  /\ chosen = None
  /\ left = MaxLoads

Next ==
  \/ \E r \in Sessions \ over : Open(r)
  \/ Return
  \/ Reload
  \/ \E settings \in Maybe(Queries) : GoTo(settings) \/ Set(settings)
  \/ Expire
  \/ \E pending \in BOOLEAN : EndPending(pending)
  \/ EndConfirmed
  \/ \E reason \in Reasons : Disconnected(reason)

Spec == Init /\ [][Next]_vars

TypeOK ==
  /\ url \in Url /\ stored \in Storage /\ page \in Page
  /\ over \subseteq Sessions /\ chosen \in Maybe(Queries) /\ left \in 0 .. MaxLoads

-----------------------------------------------------------------------------
(* Properties.                                                             *)

\* The End control is there for the session whose ticket the page connects with,
\* and a capability it would use is that session's, whatever the tab showed before.
DirectEndIsOwn ==
  page.control => page.end \in {None, page.ticket.of} /\ page.context.of = page.ticket.of

\* Once the tab was told that a session has ended, no load of the tab connects
\* with its ticket again or asks the manager for a new one: only what is open
\* already still holds it.
EndedIsForgotten ==
  [][left' < left => {page'.ticket.of, page'.context.of} \cap over = {}]_vars

\* A trip to the manager keeps the settings the user had in the URL.
SettingsSurvive ==
  [][Return /\ page'.at = "player" => url'.settings = chosen]_vars
=============================================================================
