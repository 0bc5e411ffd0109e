----------------------------- MODULE Connections -----------------------------
(***************************************************************************)
(* What stays open: the sockets of the realtime relay (the ws service) and *)
(* the interactive terminals of the API.  Both check the session when they *)
(* are opened; the relay checks again every minute, a terminal does not.   *)
(***************************************************************************)
EXTENDS Integers, Sequences, FiniteSets

CONSTANTS
    Sockets, Logins,     \* sockets of the relay; sessions of the panel
    TeamOf,              \* the team of each session's user, and of each resource
    Resources,
    Terminals, MaxTerminals,
    MaxEvents, MaxDrops  \* published events; failed queries, lost connections

ASSUME ConnAssumption ==
    /\ IsFiniteSet(Terminals) /\ MaxTerminals \in Nat /\ MaxEvents \in Nat /\ MaxDrops \in Nat

VARIABLES
    live,      \* sessions rows that have not ended
    sock,      \* the relay's sockets
    pass,      \* the sweep over the sockets: refreshAll
    cache,     \* ownerCache
    pending,   \* events that wait for their owner's team
    got,       \* history: what each socket was sent, in order
    present,   \* resources that exist
    term,      \* terminals
    connUsed       \* events published, faults, and whether two terminals were opened at once

connVars == <<live, sock, pass, cache, pending, got, present, term, connUsed>>

ClosedSocket == [pc |-> "closed", login |-> "none", teams |-> {}, doomed |-> FALSE]
NoPass == [on |-> FALSE, todo |-> {}]
NoTerminal == [pc |-> "rest", socket |-> FALSE, listed |-> FALSE, conn |-> FALSE, early |-> FALSE]

ConnTypeOK ==
    /\ live \subseteq Logins /\ present \subseteq Resources /\ cache \subseteq Resources
    /\ \A w \in Sockets : sock[w].pc \in {"closed", "upgrade", "open"} /\ sock[w].doomed \in BOOLEAN
    /\ pass.todo \subseteq Sockets
    /\ \A t \in Terminals : term[t].pc \in {"rest", "session", "register", "connect", "shell", "open", "done"}
    /\ connUsed.events \in 0 .. MaxEvents /\ connUsed.faults \in 0 .. MaxDrops

KeepRelay == UNCHANGED <<sock, pass, cache, pending, got, present>>
KeepTerminals == UNCHANGED <<live, term>>
Faulty == connUsed.faults < MaxDrops /\ connUsed' = [connUsed EXCEPT !.faults = @ + 1]

\* a session ends: logout, expiry, a password reset
SessionEnds(s) ==
    /\ s \in live /\ live' = live \ {s}
    /\ KeepRelay /\ UNCHANGED <<term, connUsed>>

----------------------------------------------------------------------------
(* The relay                                                               *)

\* the upgrade: the session is looked up, and then the teams of its user
Connect(w, s) ==
    /\ sock[w] = ClosedSocket /\ s \in live
    /\ sock' = [sock EXCEPT ![w] = [ClosedSocket EXCEPT !.pc = "upgrade", !.login = s]]
    /\ KeepTerminals /\ UNCHANGED <<pass, cache, pending, got, present, connUsed>>

Upgrade(w) ==
    /\ sock[w].pc = "upgrade"
    /\ sock' = [sock EXCEPT ![w].pc = "open", ![w].teams = {TeamOf[sock[w].login]}]
    /\ KeepTerminals /\ UNCHANGED <<pass, cache, pending, got, present, connUsed>>

\* the client goes away, or its lookup failed
Disconnect(w) ==
    /\ sock[w].pc # "closed" /\ sock' = [sock EXCEPT ![w] = ClosedSocket] /\ got' = [got EXCEPT ![w] = <<>>]
    /\ pass' = [pass EXCEPT !.todo = @ \ {w}]
    /\ KeepTerminals /\ UNCHANGED <<cache, pending, present, connUsed>>

\* mutant: an event whose owner is not known goes to everybody
canReceiveAnything(event, known, w) == known => TeamOf[event.of] \in sock[w].teams

\* canReceive: a resource that is known, of a team of the socket's user
canReceive(event, known, w) == known /\ TeamOf[event.of] \in sock[w].teams

Sends(event, known) ==
    got' = [w \in Sockets |-> IF sock[w].pc = "open" /\ canReceive(event, known, w) THEN Append(got[w], event) ELSE got[w]]

\* dispatch: a cached owner is answered at once, another is looked up
Publish(r) ==
    /\ connUsed.events < MaxEvents /\ connUsed' = [connUsed EXCEPT !.events = @ + 1]
    /\ LET event == [of |-> r, n |-> connUsed.events + 1] IN
       IF \A w \in Sockets : sock[w].pc # "open"
       THEN UNCHANGED <<got, pending>>
       ELSE IF r \in cache
            THEN Sends(event, TRUE) /\ UNCHANGED pending
            ELSE pending' = pending \cup {event} /\ UNCHANGED got
    /\ KeepTerminals /\ UNCHANGED <<sock, pass, cache, present>>

\* lookupOwner: a resource that is gone has no owner, and is not cached
OwnerFound(event) ==
    /\ event \in pending /\ pending' = pending \ {event}
    /\ Sends(event, event.of \in present)
    /\ cache' = IF event.of \in present THEN cache \cup {event.of} ELSE cache
    /\ KeepTerminals /\ UNCHANGED <<sock, pass, present, connUsed>>

ResourceDeleted(r) ==
    /\ r \in present /\ present' = present \ {r}
    /\ KeepTerminals /\ UNCHANGED <<sock, pass, cache, pending, got, connUsed>>

CacheExpires(r) ==
    /\ r \in cache /\ cache' = cache \ {r}
    /\ KeepTerminals /\ UNCHANGED <<sock, pass, pending, got, present, connUsed>>

\* refreshAll: one pass at a time over the sockets that were open when it began
BeginRefresh ==
    /\ ~pass.on
    /\ LET open == {w \in Sockets : sock[w].pc = "open"} IN
       /\ open # {}
       /\ pass' = [on |-> TRUE, todo |-> open]
       /\ sock' = [w \in Sockets |-> IF w \in open /\ sock[w].login \notin live THEN [sock[w] EXCEPT !.doomed = TRUE] ELSE sock[w]]
    /\ KeepTerminals /\ UNCHANGED <<cache, pending, got, present, connUsed>>

\* mutant: only the teams are refreshed
RefreshTeamsOnly(w) ==
    /\ pass.on /\ w \in pass.todo /\ pass' = [pass EXCEPT !.todo = @ \ {w}]
    /\ KeepTerminals /\ UNCHANGED <<sock, cache, pending, got, present, connUsed>>

Refresh(w) ==
    /\ pass.on /\ w \in pass.todo /\ pass' = [pass EXCEPT !.todo = @ \ {w}]
    /\ IF sock[w].pc = "open" /\ sock[w].login \notin live
       THEN sock' = [sock EXCEPT ![w] = ClosedSocket] /\ got' = [got EXCEPT ![w] = <<>>]
       ELSE UNCHANGED <<sock, got>>
    /\ KeepTerminals /\ UNCHANGED <<cache, pending, present, connUsed>>

\* the query fails: the socket is left for the next pass
RefreshFails(w) ==
    /\ Faulty /\ pass.on /\ w \in pass.todo /\ pass' = [pass EXCEPT !.todo = @ \ {w}]
    /\ sock' = [sock EXCEPT ![w].doomed = FALSE]
    /\ KeepTerminals /\ UNCHANGED <<cache, pending, got, present>>

EndRefresh ==
    /\ pass.on /\ pass.todo = {} /\ pass' = NoPass
    /\ KeepTerminals /\ UNCHANGED <<sock, cache, pending, got, present, connUsed>>

----------------------------------------------------------------------------
(* Terminals                                                               *)

Goes(t, pc) == term' = [term EXCEPT ![t].pc = pc]
Listed == {t \in Terminals : term[t].listed}
Opening(t) == term[t].pc \in {"session", "register"}

\* the socket is open, its origin allowed: the session is looked up
OpenTerminal(t) ==
    /\ term[t] = NoTerminal /\ live # {}
    /\ term' = [term EXCEPT ![t] = [NoTerminal EXCEPT !.pc = "session", !.socket = TRUE]]
    /\ connUsed' = [connUsed EXCEPT !.overlap = @ \/ \E o \in Terminals \ {t} : Opening(o)]
    /\ KeepRelay /\ UNCHANGED live

\* the count of open terminals, before the server is looked up
CheckLimit(t) ==
    /\ term[t].pc = "session"
    /\ IF Cardinality(Listed) >= MaxTerminals
       THEN term' = [term EXCEPT ![t].pc = "done", ![t].socket = FALSE, ![t].early = TRUE]
       ELSE Goes(t, "register")
    /\ KeepRelay /\ UNCHANGED <<live, connUsed>>

RegisterTerminal(t) ==
    /\ term[t].pc = "register"
    /\ term' = [term EXCEPT ![t].pc = "connect", ![t].listed = TRUE]
    /\ KeepRelay /\ UNCHANGED <<live, connUsed>>

\* mutant: the connection is kept whatever happened to the socket meanwhile
SshConnectsAnyway(t) ==
    /\ term[t].pc = "connect"
    /\ term' = [term EXCEPT ![t].pc = "shell", ![t].conn = TRUE]
    /\ KeepRelay /\ UNCHANGED <<live, connUsed>>

\* session.closed is set by endSession, which also takes the entry off the list
SshConnects(t) ==
    /\ term[t].pc = "connect"
    /\ term' = IF term[t].listed THEN [term EXCEPT ![t].pc = "shell", ![t].conn = TRUE] ELSE [term EXCEPT ![t].pc = "done"]
    /\ KeepRelay /\ UNCHANGED <<live, connUsed>>

ShellOpens(t) ==
    /\ term[t].pc = "shell"
    /\ Goes(t, IF term[t].listed THEN "open" ELSE "done")
    /\ KeepRelay /\ UNCHANGED <<live, connUsed>>

\* close: the browser leaves, the shell or the connection ends, or thirty idle minutes pass; endSession
CloseTerminal(t) ==
    /\ term[t].socket
    /\ term' = [term EXCEPT ![t] = [@ EXCEPT !.socket = FALSE, !.early = ~term[t].listed, !.listed = FALSE, !.conn = FALSE,
                                             !.pc = IF term[t].pc = "open" THEN "done" ELSE term[t].pc]]
    /\ KeepRelay /\ UNCHANGED <<live, connUsed>>

\* the connection cannot be made, or breaks: the socket is closed
SshFails(t) ==
    /\ Faulty /\ term[t].pc \in {"connect", "shell", "open"}
    /\ term' = [term EXCEPT ![t] = [@ EXCEPT !.pc = "done", !.socket = FALSE, !.conn = FALSE, !.listed = term[t].listed /\ ~term[t].socket]]
    /\ KeepRelay /\ UNCHANGED live

----------------------------------------------------------------------------

ConnInit ==
    /\ live = Logins /\ sock = [w \in Sockets |-> ClosedSocket] /\ pass = NoPass
    /\ cache = {} /\ pending = {} /\ got = [w \in Sockets |-> <<>>] /\ present = Resources
    /\ term = [t \in Terminals |-> NoTerminal] /\ connUsed = [events |-> 0, faults |-> 0, overlap |-> FALSE]

RelayNext ==
    \/ \E w \in Sockets : (\E s \in Logins : Connect(w, s)) \/ Upgrade(w) \/ Disconnect(w) \/ Refresh(w) \/ RefreshFails(w)
    \/ \E r \in Resources : Publish(r) \/ ResourceDeleted(r) \/ CacheExpires(r)
    \/ \E event \in pending : OwnerFound(event)
    \/ BeginRefresh \/ EndRefresh

TerminalNext == \E t \in Terminals :
    \/ OpenTerminal(t) \/ CheckLimit(t) \/ RegisterTerminal(t) \/ SshConnects(t) \/ ShellOpens(t) \/ CloseTerminal(t) \/ SshFails(t)

ConnSpec == ConnInit /\ [][RelayNext \/ TerminalNext \/ \E s \in Logins : SessionEnds(s)]_connVars

----------------------------------------------------------------------------
(* Properties                                                              *)

\* A socket is sent events of its own team only, whatever the cache holds and
\* in whatever order the lookups end (ws index.ts dispatch, canReceive).
EventsStayInTeam == \A w \in Sockets : \A i \in DOMAIN got[w] : TeamOf[got[w][i].of] = TeamOf[sock[w].login]

\* A pass of the relay that began after a session had ended leaves no socket of
\* that session open, unless its query failed (ws index.ts refreshAll).
RevokedIsDropped == ~pass.on => \A w \in Sockets : ~sock[w].doomed

\* A terminal whose socket closed after it was on the list holds no SSH
\* connection once it stopped opening, and is off the list (terminal.ts endSession).
TerminalIsReleased == \A t \in Terminals :
    term[t].pc = "done" /\ ~term[t].socket /\ ~term[t].early => ~term[t].conn /\ ~term[t].listed

\* Terminals that are not opened at the same moment stay within the limit (terminal.ts).
TerminalLimit == ~connUsed.overlap => Cardinality(Listed) <= MaxTerminals

ConnectionsSound == EventsStayInTeam /\ RevokedIsDropped /\ TerminalIsReleased /\ TerminalLimit

==============================================================================
