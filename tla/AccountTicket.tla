---------------------------- MODULE AccountTicket ----------------------------
(***************************************************************************)
(* The account server between the login server and the world servers: the  *)
(* routes world servers register, the login sessions in which a player     *)
(* picks a world and a character, and the tickets that admit the player.   *)
(*                                                                         *)
(* Three threads share this state: the strand of the login line, the       *)
(* strand of the world line and the main loop.  The registry, the sessions *)
(* and the tickets have a mutex each, so a handler that needs two of them  *)
(* takes them one after the other.                                         *)
(***************************************************************************)
EXTENDS Naturals, Sequences

CONSTANTS
    Sid,           \* slots of the world line's TcpServer
    World,         \* the configured world servers
    Account,
    LoginSession,  \* login sessions the database hands out, fresh ones
    AccountOf,     \* the account each of them authenticates
    Token,         \* world tokens, fresh ones
    Coordinator,   \* connections of the login server
    None,
    MaxSerial      \* bound: connections accepted on one slot

ASSUME SessionAssumption == AccountOf \in [LoginSession -> Account]
ASSUME BoundAssumption   == MaxSerial \in Nat

Serial == 1 .. MaxSerial
Char   == [world : World, account : Account]
Conn   == [serial : Serial, world : World, hello : BOOLEAN]
Route  == [serial : Serial, world : World, state : {"Hello", "Ready", "Hidden"}, late : BOOLEAN]
Picked == [world : World \cup {None}, cached : SUBSET Char]
Claim  == [session : LoginSession, account : Account, world : World]
Ticket == [claim : Claim, char : Char, old : BOOLEAN]
Asked  == [sid : Sid, serial : Serial, session : LoginSession]
Step   == [step : {"Consume", "Match", "Relay"}, token : Token, claim : Claim]
Erase  == [step : {"Erase"}, world : World]

ASSUME NoneAssumption ==
    None \notin World \cup Sid \cup Conn \cup Route \cup Picked \cup Ticket \cup Coordinator \cup Step \cup Erase \cup Claim

VARIABLES
    serial,       \* serial of the last connection of a slot
    conn,         \* the world line's connections
    routes,       \* worlds_by_sid_
    index,        \* world_sid_by_world_id_
    coordinators, \* the login line's connections
    coordinator,  \* login_sid_, login_serial_ (None: not login_ready_)
    sessions,     \* login_character_sessions_
    asked,        \* character list requests a world server has to answer
    issued,       \* tokens GenerateWorldToken_ has returned
    pending,      \* pending_world_upserts_
    consumed,     \* consumed_world_enters_awaiting_notify_
    strand,       \* what the world line's handler has left to do: a step, an erasure or None
    erasing,      \* worlds the main loop dropped, whose tickets it has yet to erase
    grants,       \* history: the Ok answers to consume requests
    notices       \* history: the enter notices relayed to the login server

lines   == <<serial, conn, coordinators, coordinator>>
table   == <<routes, index>>
tickets == <<issued, pending, consumed>>
history == <<grants, notices>>
vars    == <<lines, table, sessions, asked, tickets, strand, erasing, history>>

-----------------------------------------------------------------------------
(* World routes. *)

\* A world server opens a connection: handlers of one line run inline on its
\* strand, so the slot's last connection has been closed and cleaned up.
WorldConnect(w, s) ==
    /\ strand = None
    /\ conn[s] = None
    /\ serial[s] < MaxSerial
    /\ serial' = [serial EXCEPT ![s] = @ + 1]
    /\ conn' = [conn EXCEPT ![s] = [serial |-> serial[s] + 1, world |-> w, hello |-> FALSE]]
    /\ UNCHANGED <<coordinators, coordinator, table, sessions, asked, tickets, strand, erasing, history>>

\* A handler of the world line can run for the connection of s.
OnWorldLine(s) == conn[s] # None /\ strand = None

Registered(s) == /\ conn[s] # None
                 /\ routes[s] # None
                 /\ routes[s].serial = conn[s].serial

\* Mutant: the endpoint of the world's earlier connection stays.
DisplacedNone(w, s) == {}

\* The endpoint an earlier connection of the same world registered goes.
Displaced(w, s) == {t \in Sid : index[w] = t /\ t # s}

On_world_server_hello(s) ==
    /\ OnWorldLine(s)
    /\ ~conn[s].hello
    /\ LET w == conn[s].world
       IN  /\ routes' = [t \in Sid |->
                  IF t = s THEN [serial |-> conn[s].serial, world |-> w, state |-> "Hello", late |-> FALSE]
                  ELSE IF t \in Displaced(w, s) THEN None ELSE routes[t]]
           /\ index' = [index EXCEPT ![w] = s]
    /\ conn' = [conn EXCEPT ![s].hello = TRUE]
    /\ UNCHANGED <<serial, coordinators, coordinator, sessions, asked, tickets, strand, erasing, history>>

\* The notice and every heartbeat carry the flags: a world can be ready and
\* hidden, or accept no players.
OnWorldReadyNotify(s, accepting) ==
    /\ OnWorldLine(s)
    /\ Registered(s)
    /\ routes' = [routes EXCEPT ![s].state = IF accepting THEN "Ready" ELSE "Hidden", ![s].late = FALSE]
    /\ UNCHANGED <<lines, index, sessions, asked, tickets, strand, erasing, history>>

OnWorldRouteHeartbeat(s, accepting) ==
    /\ OnWorldLine(s)
    /\ Registered(s)
    /\ routes' = [routes EXCEPT ![s].late = FALSE,
                     ![s].state = IF @ = "Hello" THEN @ ELSE IF accepting THEN "Ready" ELSE "Hidden"]
    /\ UNCHANGED <<lines, index, sessions, asked, tickets, strand, erasing, history>>

\* No heartbeat for kWorldRouteHeartbeatTimeout_.
Silence(s) ==
    /\ routes[s] # None
    /\ ~routes[s].late
    /\ routes' = [routes EXCEPT ![s].late = TRUE]
    /\ UNCHANGED <<lines, index, sessions, asked, tickets, strand, erasing, history>>

Unindexed(S) == [w \in World |-> IF index[w] \in S THEN None ELSE index[w]]

\* Mutant: only tickets nobody has used yet are erased.
WithoutUnused(tab, W) == IF tab = consumed THEN tab
                         ELSE [t \in Token |-> IF tab[t] # None /\ tab[t].claim.world \in W THEN None ELSE tab[t]]

Without(tab, W) == [t \in Token |-> IF tab[t] # None /\ tab[t].claim.world \in W THEN None ELSE tab[t]]

ErasePendingWorldTicketsForServer(W) ==
    /\ pending' = Without(pending, W)
    /\ consumed' = Without(consumed, W)
    /\ UNCHANGED issued

\* The session coroutine ends; its route goes, under the registry's lock ...
OnWorldRouteDisconnected(s) ==
    /\ OnWorldLine(s)
    /\ conn' = [conn EXCEPT ![s] = None]
    /\ asked' = {q \in asked : q.sid # s}
    /\ IF Registered(s)
       THEN /\ routes' = [routes EXCEPT ![s] = None]
            /\ index' = Unindexed({s})
            /\ strand' = [step |-> "Erase", world |-> routes[s].world]
       ELSE UNCHANGED <<table, strand>>
    /\ UNCHANGED <<serial, coordinators, coordinator, sessions, tickets, erasing, history>>

AtStep(step) == strand # None /\ strand.step = step

\* ... and then the tickets of its world, under theirs.
EraseClosedTickets ==
    /\ AtStep("Erase")
    /\ ErasePendingWorldTicketsForServer({strand.world})
    /\ strand' = None
    /\ UNCHANGED <<lines, table, sessions, asked, erasing, history>>

\* The main loop drops every silent route while it holds the registry ...
ExpireStaleWorldRoutes ==
    /\ erasing = {}
    /\ LET stale == {s \in Sid : routes[s] # None /\ routes[s].late}
       IN  /\ stale # {}
           /\ routes' = [s \in Sid |-> IF s \in stale THEN None ELSE routes[s]]
           /\ index' = Unindexed(stale)
           /\ erasing' = {routes[s].world : s \in stale}
    /\ UNCHANGED <<lines, sessions, asked, tickets, strand, history>>

\* ... and, without it, erases their tickets and closes the connections.
EraseStaleTickets ==
    /\ erasing # {}
    /\ ErasePendingWorldTicketsForServer(erasing)
    /\ erasing' = {}
    /\ UNCHANGED <<lines, table, sessions, asked, strand, history>>

-----------------------------------------------------------------------------
(* The login server's requests. *)

OnLoginCoordinatorRegistered(k) ==
    /\ k \notin coordinators
    /\ coordinators' = coordinators \cup {k}
    /\ coordinator' = k
    /\ UNCHANGED <<serial, conn, table, sessions, asked, tickets, strand, erasing, history>>

OnLoginCoordinatorDisconnected(k) ==
    /\ k \in coordinators
    /\ coordinators' = coordinators \ {k}
    /\ coordinator' = IF coordinator = k THEN None ELSE coordinator
    /\ UNCHANGED <<serial, conn, table, sessions, asked, tickets, strand, erasing, history>>

\* The database has authenticated an account: HandleDqsResult_.
OnAuthenticated(l) ==
    /\ sessions[l] = None
    /\ sessions' = [sessions EXCEPT ![l] = [world |-> None, cached |-> {}]]
    /\ UNCHANGED <<lines, table, asked, tickets, strand, erasing, history>>

IsWorldSelectable(s) == routes[s] # None /\ routes[s].state = "Ready"

OnWorldSelectRequest(l, w) ==
    /\ sessions[l] # None
    /\ \E s \in Sid : IsWorldSelectable(s) /\ routes[s].world = w
    /\ sessions' = [sessions EXCEPT ![l].world = w]
    /\ UNCHANGED <<lines, table, asked, tickets, strand, erasing, history>>

\* The list is asked of the route the index names for the selected world.
OnCharacterListRequest(l) ==
    /\ sessions[l] # None
    /\ sessions[l].world # None
    /\ LET s == index[sessions[l].world]
       IN  /\ s # None
           /\ Registered(s)
           /\ asked' = asked \cup {[sid |-> s, serial |-> routes[s].serial, session |-> l]}
    /\ UNCHANGED <<lines, table, sessions, tickets, strand, erasing, history>>

\* An answer counts if its sender is the world the session has selected.
Accepts(s, l) == sessions[l] # None /\ sessions[l].world = routes[s].world

\* The world server answers with the account's characters, or with a failure.
OnWorldCharacterListResponse(s, ok) ==
    /\ OnWorldLine(s)
    /\ \E q \in asked :
        /\ q.sid = s
        /\ q.serial = conn[s].serial
        /\ asked' = asked \ {q}
        /\ sessions' = IF Registered(s) /\ Accepts(s, q.session)
                       THEN [sessions EXCEPT ![q.session].cached =
                                IF ok THEN {[world |-> conn[s].world, account |-> AccountOf[q.session]]} ELSE {}]
                       ELSE sessions
    /\ UNCHANGED <<lines, table, tickets, strand, erasing, history>>

\* A character of the list is picked: a ticket for the selected world is issued,
\* whether or not that world still has a route.
OnCharacterSelectRequest(l, c, t) ==
    /\ sessions[l] # None
    /\ c \in sessions[l].cached
    /\ sessions[l].world # None
    /\ t \notin issued
    /\ issued' = issued \cup {t}
    /\ pending' = [pending EXCEPT ![t] =
                      [claim |-> [session |-> l, account |-> AccountOf[l], world |-> sessions[l].world],
                       char |-> c, old |-> FALSE]]
    /\ UNCHANGED <<lines, table, sessions, asked, consumed, strand, erasing, history>>

-----------------------------------------------------------------------------
(* Tickets. *)

\* A world server shows a token, to consume it or to report the player's enter:
\* the sender's world is resolved under the registry's lock ...
ShowsToken(step, s, l, a, t) ==
    /\ OnWorldLine(s)
    /\ Registered(s)
    /\ t \in issued
    /\ strand' = [step |-> step, token |-> t,
                  claim |-> [session |-> l, account |-> a, world |-> routes[s].world]]
    /\ UNCHANGED <<lines, table, sessions, asked, tickets, erasing, history>>

OnWorldTicketConsumeRequest(s, l, a, t) == ShowsToken("Consume", s, l, a, t)

OnWorldEnterSuccessNotify(s, l, a, t) == ShowsToken("Match", s, l, a, t)

\* Mutant: the sender of the request is not compared with the ticket's world.
MatchesAccount(x) == /\ x # None
                     /\ x.claim.session = strand.claim.session
                     /\ x.claim.account = strand.claim.account

Matches(x) == x # None /\ x.claim = strand.claim

\* Mutant: the ticket stays usable.
KeepUsed(t) == /\ consumed' = [consumed EXCEPT ![t] = [pending[t] EXCEPT !.old = FALSE]]
               /\ UNCHANGED pending

MoveToConsumed(t) == /\ consumed' = [consumed EXCEPT ![t] = [pending[t] EXCEPT !.old = FALSE]]
                     /\ pending' = [pending EXCEPT ![t] = None]

\* ... and the ticket is checked under the tickets' lock, and answered.
ConsumeIssuedWorldTicket ==
    /\ AtStep("Consume")
    /\ strand' = None
    /\ LET t == strand.token
       IN  IF Matches(pending[t]) /\ ~pending[t].old
           THEN /\ MoveToConsumed(t)
                /\ grants' = [grants EXCEPT ![t] = Append(@, strand.claim)]
           ELSE /\ pending' = [pending EXCEPT ![t] = IF @ # None /\ @.old THEN None ELSE @]
                /\ UNCHANGED <<consumed, grants>>
    /\ UNCHANGED <<lines, table, sessions, asked, issued, erasing, notices>>

\* A reported enter must match a consumed ticket ...
TryMatchConsumedWorldEnterSuccessNotify ==
    /\ AtStep("Match")
    /\ strand' = IF Matches(consumed[strand.token]) THEN [strand EXCEPT !.step = "Relay"] ELSE None
    /\ UNCHANGED <<lines, table, sessions, asked, tickets, erasing, history>>

\* ... and is relayed to the login server of the moment, which ends the ticket;
\* without one, or when the send fails, the notice is lost and the ticket kept.
RelayWorldEnterSuccess(sent) ==
    /\ AtStep("Relay")
    /\ sent => coordinator # None
    /\ strand' = None
    /\ notices' = [notices EXCEPT ![strand.token] = IF sent THEN @ + 1 ELSE @]
    /\ consumed' = [consumed EXCEPT ![strand.token] = IF sent THEN None ELSE @]
    /\ UNCHANGED <<lines, table, sessions, asked, issued, pending, erasing, grants>>

\* A ticket's time runs out ...
Aged(tab, t) == [tab EXCEPT ![t] = IF @ = None THEN @ ELSE [@ EXCEPT !.old = TRUE]]

TicketAges(t) ==
    /\ pending[t] # None \/ consumed[t] # None
    /\ pending' = Aged(pending, t)
    /\ consumed' = Aged(consumed, t)
    /\ UNCHANGED <<lines, table, sessions, asked, issued, strand, erasing, history>>

\* Mutant: only tickets nobody has used yet expire.
FreshUnused(tab) == [t \in Token |-> IF tab[t] # None /\ tab[t].old /\ tab # consumed THEN None ELSE tab[t]]

Fresh(tab) == [t \in Token |-> IF tab[t] # None /\ tab[t].old THEN None ELSE tab[t]]

\* ... and the main loop drops it, used or not.
ExpirePendingWorldTickets ==
    /\ erasing = {}
    /\ \E t \in Token : Fresh(pending)[t] # pending[t] \/ Fresh(consumed)[t] # consumed[t]
    /\ pending' = Fresh(pending)
    /\ consumed' = Fresh(consumed)
    /\ UNCHANGED <<lines, table, sessions, asked, issued, strand, erasing, history>>

-----------------------------------------------------------------------------
Init ==
    /\ serial = [s \in Sid |-> 0]
    /\ conn = [s \in Sid |-> None]
    /\ routes = [s \in Sid |-> None]
    /\ index = [w \in World |-> None]
    /\ coordinators = {}
    /\ coordinator = None
    /\ sessions = [l \in LoginSession |-> None]
    /\ asked = {}
    /\ issued = {}
    /\ pending = [t \in Token |-> None]
    /\ consumed = [t \in Token |-> None]
    /\ strand = None
    /\ erasing = {}
    /\ grants = [t \in Token |-> <<>>]
    /\ notices = [t \in Token |-> 0]

WorldLine(s) ==
    \/ \E w \in World : WorldConnect(w, s)
    \/ On_world_server_hello(s)
    \/ \E b \in BOOLEAN :
         OnWorldReadyNotify(s, b) \/ OnWorldRouteHeartbeat(s, b) \/ OnWorldCharacterListResponse(s, b)
    \/ Silence(s)
    \/ OnWorldRouteDisconnected(s)
    \/ \E l \in LoginSession, a \in Account, t \in Token :
         OnWorldTicketConsumeRequest(s, l, a, t) \/ OnWorldEnterSuccessNotify(s, l, a, t)

\* The handler the world line has begun goes on.
WorldHandler ==
    \/ EraseClosedTickets
    \/ ConsumeIssuedWorldTicket
    \/ TryMatchConsumedWorldEnterSuccessNotify
    \/ \E sent \in BOOLEAN : RelayWorldEnterSuccess(sent)

LoginLine ==
    \/ \E k \in Coordinator : OnLoginCoordinatorRegistered(k) \/ OnLoginCoordinatorDisconnected(k)
    \/ \E l \in LoginSession :
         \/ OnAuthenticated(l)
         \/ \E w \in World : OnWorldSelectRequest(l, w)
         \/ OnCharacterListRequest(l)
         \/ \E c \in Char, t \in Token : OnCharacterSelectRequest(l, c, t)

Next ==
    \/ \E s \in Sid : WorldLine(s)
    \/ WorldHandler
    \/ LoginLine
    \/ \E t \in Token : TicketAges(t)
    \/ ExpirePendingWorldTickets
    \/ ExpireStaleWorldRoutes
    \/ EraseStaleTickets

Spec == Init /\ [][Next]_vars

\* Time passes and the main loop ticks.
FairSpec == /\ Spec
            /\ \A t \in Token : WF_vars(TicketAges(t))
            /\ WF_vars(ExpirePendingWorldTickets)
            /\ WF_vars(EraseStaleTickets)

-----------------------------------------------------------------------------
TypeOK ==
    /\ serial \in [Sid -> 0 .. MaxSerial]
    /\ conn \in [Sid -> Conn \cup {None}]
    /\ routes \in [Sid -> Route \cup {None}]
    /\ index \in [World -> Sid \cup {None}]
    /\ coordinators \subseteq Coordinator
    /\ coordinator \in Coordinator \cup {None}
    /\ sessions \in [LoginSession -> Picked \cup {None}]
    /\ asked \subseteq Asked
    /\ issued \subseteq Token
    /\ pending \in [Token -> Ticket \cup {None}]
    /\ consumed \in [Token -> Ticket \cup {None}]
    /\ strand \in Step \cup Erase \cup {None}
    /\ erasing \subseteq World
    /\ grants \in [Token -> Seq(Claim)]
    /\ notices \in [Token -> Nat]

\* On_world_server_hello, the disconnect callback and the expiry on the main
\* thread: a world has one endpoint, and the index always names it, whatever
\* order its old and new connections say hello and go in.
RouteIndexExact ==
    \A w \in World :
        {s \in Sid : routes[s] # None /\ routes[s].world = w} = {index[w]} \ {None}

\* The worlds whose tickets a thread has still to erase.
Leaving == erasing \cup {w \in World : AtStep("Erase") /\ strand.world = w}

\* ConsumeIssuedWorldTicket_ resolves the sender before it takes the tickets'
\* lock: a ticket never stays consumed for a world that has left since, unless
\* the thread that dropped the route is about to erase it.
ConsumedHasRoute ==
    \A t \in Token : consumed[t] # None =>
        index[consumed[t].claim.world] # None \/ consumed[t].claim.world \in Leaving

\* Every ticket comes to an end, also one whose notice found no login server
\* and one issued for a world that had already left: ExpirePendingWorldTickets_.
TicketSettles == \A t \in Token : t \in issued ~> (pending[t] = None /\ consumed[t] = None)

-----------------------------------------------------------------------------
(* The abstract authority the two ticket maps implement. *)

Phase == [t \in Token |-> IF pending[t] # None THEN "Issued"
                          ELSE IF consumed[t] # None THEN "Granted"
                          ELSE IF t \in issued THEN "Done" ELSE "Unissued"]

Holder == [t \in Token |-> IF pending[t] # None THEN pending[t].claim
                           ELSE IF consumed[t] # None THEN consumed[t].claim ELSE None]

Authority == INSTANCE TicketAuthority WITH phase <- Phase, holder <- Holder

\* OnWorldTicketConsumeRequest and OnWorldEnterSuccessNotify, against retries,
\* expiry and world servers that leave and return: a ticket is granted at most
\* once, to the login session, account and world it was issued for, and the
\* login server is told of it at most once, after that.
ImplementsAuthority == Authority!Spec
=============================================================================
