------------------------ MODULE AccountTicket_proofs ------------------------
(***************************************************************************)
(* Theorems about AccountTicket for every set of slots, worlds, sessions   *)
(* and tokens: type correctness, the agreement of the two route tables,    *)
(* that no ticket stays consumed for a world that has left, that the two   *)
(* ticket maps implement TicketAuthority and what follows from that, and   *)
(* whose tickets they are.                                                 *)
(***************************************************************************)
EXTENDS AccountTicket, SequenceTheorems, TLAPS

-----------------------------------------------------------------------------
(* Type correctness. *)

\* An absent entry is none of the things a table holds.
LEMMA NoneDistinct == /\ \A x \in Sid \cup World : x # None
                      /\ \A x \in Conn \cup Route : x # None
                      /\ \A x \in Picked \cup Ticket : x # None
                      /\ \A x \in Step \cup Erase \cup Coordinator : x # None
BY NoneAssumption

\* Erasing the tickets of some worlds keeps the two maps typed.
LEMMA EraseType ==
    ASSUME TypeOK, NEW W, ErasePendingWorldTicketsForServer(W)
    PROVE  /\ issued' \subseteq Token
           /\ pending' \in [Token -> Ticket \cup {None}]
           /\ consumed' \in [Token -> Ticket \cup {None}]
BY DEF TypeOK, ErasePendingWorldTicketsForServer, Without

\* What a connection, a route, a ticket and a resolved request carry.
LEMMA Fields ==
    /\ \A c \in Conn : c.serial \in Serial /\ c.world \in World
    /\ \A r \in Route : r.serial \in Serial /\ r.world \in World
    /\ \A x \in Ticket : x.claim \in Claim /\ x.claim.world \in World
    /\ \A x \in Step : x.token \in Token /\ x.claim \in Claim /\ x.claim.world \in World /\ x.step # "Erase"
    /\ \A x \in Erase : x.world \in World /\ x.step = "Erase"
BY DEF Conn, Route, Ticket, Step, Erase, Claim

\* Every operation of the world line keeps every variable typed.
LEMMA WorldLineType == TypeOK /\ (\E s \in Sid : WorldLine(s)) => TypeOK'
<1> SUFFICES ASSUME TypeOK, NEW s \in Sid, WorldLine(s) PROVE TypeOK'
  OBVIOUS
<1> USE NoneDistinct, Fields DEF lines, table, tickets, history
<1>1. ASSUME NEW w \in World, WorldConnect(w, s) PROVE TypeOK'
  <2>1. serial[s] + 1 \in Serial
    BY <1>1, BoundAssumption DEF TypeOK, WorldConnect, Serial
  <2> QED
    BY <1>1, <2>1, BoundAssumption DEF TypeOK, WorldConnect, Conn, Serial
<1>2. CASE On_world_server_hello(s)
  <2>1. conn[s] \in Conn
    BY <1>2 DEF TypeOK, On_world_server_hello, OnWorldLine
  <2>2. [serial |-> conn[s].serial, world |-> conn[s].world, state |-> "Hello", late |-> FALSE] \in Route
    BY <2>1 DEF Route
  <2>3. conn' \in [Sid -> Conn \cup {None}]
    BY <1>2, <2>1 DEF TypeOK, On_world_server_hello, Conn
  <2> QED
    BY <1>2, <2>1, <2>2, <2>3 DEF TypeOK, On_world_server_hello
<1>3. ASSUME NEW b \in BOOLEAN, OnWorldReadyNotify(s, b) PROVE TypeOK'
  <2>1. routes[s] \in Route
    BY <1>3 DEF TypeOK, OnWorldReadyNotify, Registered
  <2>2. routes' \in [Sid -> Route \cup {None}]
    BY <1>3, <2>1 DEF TypeOK, OnWorldReadyNotify, Route
  <2> QED
    BY <1>3, <2>2 DEF TypeOK, OnWorldReadyNotify
<1>4. ASSUME NEW b \in BOOLEAN, OnWorldRouteHeartbeat(s, b) PROVE TypeOK'
  <2>1. routes[s] \in Route
    BY <1>4 DEF TypeOK, OnWorldRouteHeartbeat, Registered
  <2>2. routes' \in [Sid -> Route \cup {None}]
    BY <1>4, <2>1 DEF TypeOK, OnWorldRouteHeartbeat, Route
  <2> QED
    BY <1>4, <2>2 DEF TypeOK, OnWorldRouteHeartbeat
<1>5. ASSUME NEW b \in BOOLEAN, OnWorldCharacterListResponse(s, b) PROVE TypeOK'
  <2>1. conn[s] \in Conn
    BY <1>5 DEF TypeOK, OnWorldCharacterListResponse, OnWorldLine
  <2>2. PICK q \in asked :
            /\ asked' = asked \ {q}
            /\ sessions' = IF Registered(s) /\ Accepts(s, q.session)
                           THEN [sessions EXCEPT ![q.session].cached =
                                IF b THEN {[world |-> conn[s].world, account |-> AccountOf[q.session]]} ELSE {}]
                           ELSE sessions
    BY <1>5 DEF OnWorldCharacterListResponse
  <2>3. q.session \in LoginSession
    BY <2>2 DEF TypeOK, Asked
  <2>4. [world |-> conn[s].world, account |-> AccountOf[q.session]] \in Char
    BY <2>1, <2>3, SessionAssumption DEF Char
  <2>5. ASSUME Accepts(s, q.session) PROVE sessions[q.session] \in Picked
    BY <2>3, <2>5 DEF TypeOK, Accepts
  <2>6. sessions' \in [LoginSession -> Picked \cup {None}]
    BY <2>2, <2>3, <2>4, <2>5 DEF TypeOK, Picked
  <2> QED
    BY <1>5, <2>2, <2>6 DEF TypeOK, OnWorldCharacterListResponse
<1>6. CASE Silence(s)
  <2>1. routes[s] \in Route
    BY <1>6 DEF TypeOK, Silence
  <2>2. routes' \in [Sid -> Route \cup {None}]
    BY <1>6, <2>1 DEF TypeOK, Silence, Route
  <2> QED
    BY <1>6, <2>2 DEF TypeOK, Silence
<1>7. CASE OnWorldRouteDisconnected(s)
  <2>1. conn' \in [Sid -> Conn \cup {None}] /\ asked' \subseteq Asked
    BY <1>7 DEF TypeOK, OnWorldRouteDisconnected
  <2>2. CASE Registered(s)
    <3>1. routes[s] \in Route
      BY <2>2 DEF TypeOK, Registered
    <3>2. strand' \in Erase
      BY <1>7, <2>2, <3>1 DEF OnWorldRouteDisconnected, Erase
    <3> QED
      BY <1>7, <2>1, <2>2, <3>2 DEF TypeOK, OnWorldRouteDisconnected, Unindexed
  <2>3. CASE ~Registered(s)
    BY <1>7, <2>1, <2>3 DEF TypeOK, OnWorldRouteDisconnected
  <2> QED
    BY <2>2, <2>3
<1>8. ASSUME NEW l \in LoginSession, NEW a \in Account, NEW t \in Token, NEW k \in {"Consume", "Match"},
             ShowsToken(k, s, l, a, t)
      PROVE  TypeOK'
  <2>1. routes[s] \in Route
    BY <1>8 DEF TypeOK, ShowsToken, Registered
  <2>2. strand' \in Step
    BY <1>8, <2>1 DEF ShowsToken, Step, Claim
  <2> QED
    BY <1>8, <2>2 DEF TypeOK, ShowsToken
<1> QED
  BY <1>1, <1>2, <1>3, <1>4, <1>5, <1>6, <1>7, <1>8
     DEF WorldLine, OnWorldTicketConsumeRequest, OnWorldEnterSuccessNotify

\* Every operation of the login line keeps every variable typed.
LEMMA LoginLineType == TypeOK /\ LoginLine => TypeOK'
<1> SUFFICES ASSUME TypeOK, LoginLine PROVE TypeOK'
  OBVIOUS
<1> USE NoneDistinct, Fields DEF lines, table, tickets, history
<1>1. ASSUME NEW k \in Coordinator, OnLoginCoordinatorRegistered(k) \/ OnLoginCoordinatorDisconnected(k)
      PROVE  TypeOK'
  BY <1>1 DEF TypeOK, OnLoginCoordinatorRegistered, OnLoginCoordinatorDisconnected
<1>2. ASSUME NEW l \in LoginSession, OnAuthenticated(l) PROVE TypeOK'
  BY <1>2 DEF TypeOK, OnAuthenticated, Picked
<1>3. ASSUME NEW l \in LoginSession, NEW w \in World, OnWorldSelectRequest(l, w) PROVE TypeOK'
  <2>1. sessions[l] \in Picked
    BY <1>3 DEF TypeOK, OnWorldSelectRequest
  <2>2. sessions' \in [LoginSession -> Picked \cup {None}]
    BY <1>3, <2>1 DEF TypeOK, OnWorldSelectRequest, Picked
  <2> QED
    BY <1>3, <2>2 DEF TypeOK, OnWorldSelectRequest
<1>4. ASSUME NEW l \in LoginSession, OnCharacterListRequest(l) PROVE TypeOK'
  <2> DEFINE s == index[sessions[l].world]
  <2>1. sessions[l] \in Picked /\ sessions[l].world \in World
    BY <1>4 DEF TypeOK, OnCharacterListRequest, Picked
  <2>2. s \in Sid /\ routes[s] \in Route
    BY <1>4, <2>1 DEF TypeOK, OnCharacterListRequest, Registered
  <2>3. [sid |-> s, serial |-> routes[s].serial, session |-> l] \in Asked
    BY <2>2 DEF Asked
  <2> QED
    BY <1>4, <2>3 DEF TypeOK, OnCharacterListRequest
<1>5. ASSUME NEW l \in LoginSession, NEW c \in Char, NEW t \in Token, OnCharacterSelectRequest(l, c, t)
      PROVE  TypeOK'
  <2>1. sessions[l] \in Picked /\ sessions[l].world \in World
    BY <1>5 DEF TypeOK, OnCharacterSelectRequest, Picked
  <2>2. [claim |-> [session |-> l, account |-> AccountOf[l], world |-> sessions[l].world],
         char |-> c, old |-> FALSE] \in Ticket
    BY <2>1, SessionAssumption DEF Ticket, Claim
  <2> QED
    BY <1>5, <2>2 DEF TypeOK, OnCharacterSelectRequest
<1> QED
  BY <1>1, <1>2, <1>3, <1>4, <1>5 DEF LoginLine

\* The steps of a handler that has begun keep every variable typed.
LEMMA HandlerType == TypeOK /\ WorldHandler => TypeOK'
<1> SUFFICES ASSUME TypeOK, WorldHandler PROVE TypeOK'
  OBVIOUS
<1> USE NoneDistinct, Fields DEF lines, table, tickets, history
<1> DEFINE t == strand.token
<1>1. strand # None /\ strand.step # "Erase" => strand \in Step /\ t \in Token /\ strand.claim \in Claim
  BY DEF TypeOK
<1>2. CASE EraseClosedTickets
  BY <1>2, EraseType DEF TypeOK, EraseClosedTickets
<1>3. CASE ConsumeIssuedWorldTicket
  <2>0. strand \in Step /\ t \in Token /\ strand.claim \in Claim
    BY <1>1, <1>3 DEF ConsumeIssuedWorldTicket, AtStep
  <2>1. CASE Matches(pending[t]) /\ ~pending[t].old
    <3>1. pending[t] \in Ticket
      BY <2>0, <2>1 DEF TypeOK, Matches
    <3>2. [pending[t] EXCEPT !.old = FALSE] \in Ticket
      BY <3>1 DEF Ticket
    <3>3. /\ grants' = [grants EXCEPT ![t] = Append(grants[t], strand.claim)]
          /\ consumed' = [consumed EXCEPT ![t] = [pending[t] EXCEPT !.old = FALSE]]
          /\ pending' = [pending EXCEPT ![t] = None]
          /\ strand' = None
          /\ UNCHANGED <<lines, table, sessions, asked, issued, erasing, notices>>
      BY <1>3, <2>1 DEF ConsumeIssuedWorldTicket, MoveToConsumed
    <3>4. Append(grants[t], strand.claim) \in Seq(Claim)
      BY <2>0, AppendProperties DEF TypeOK
    <3>5. grants' \in [Token -> Seq(Claim)]
      BY <2>0, <3>3, <3>4 DEF TypeOK
    <3>6. consumed' \in [Token -> Ticket \cup {None}] /\ pending' \in [Token -> Ticket \cup {None}]
      BY <2>0, <3>2, <3>3 DEF TypeOK
    <3> QED
      BY <3>3, <3>5, <3>6 DEF TypeOK
  <2>2. CASE ~(Matches(pending[t]) /\ ~pending[t].old)
    BY <1>3, <2>0, <2>2, ZenonT(60) DEF TypeOK, ConsumeIssuedWorldTicket
  <2> QED
    BY <2>1, <2>2
<1>4. CASE TryMatchConsumedWorldEnterSuccessNotify
  <2>1. strand \in Step
    BY <1>1, <1>4 DEF TryMatchConsumedWorldEnterSuccessNotify, AtStep
  <2>2. [strand EXCEPT !.step = "Relay"] \in Step
    BY <2>1 DEF Step
  <2> QED
    BY <1>4, <2>2 DEF TypeOK, TryMatchConsumedWorldEnterSuccessNotify
<1>5. ASSUME NEW sent \in BOOLEAN, RelayWorldEnterSuccess(sent) PROVE TypeOK'
  <2>1. t \in Token
    BY <1>1, <1>5 DEF RelayWorldEnterSuccess, AtStep
  <2> QED
    BY <1>5, <2>1 DEF TypeOK, RelayWorldEnterSuccess
<1> QED
  BY <1>2, <1>3, <1>4, <1>5 DEF WorldHandler

\* Time passing and the main loop's tick keep every variable typed.
LEMMA TickType ==
    ASSUME TypeOK,
           \/ \E t \in Token : TicketAges(t)
           \/ ExpirePendingWorldTickets
           \/ ExpireStaleWorldRoutes
           \/ EraseStaleTickets
    PROVE  TypeOK'
<1> USE NoneDistinct, Fields DEF lines, table, tickets, history
<1>1. ASSUME NEW t \in Token, TicketAges(t) PROVE TypeOK'
  <2>1. ASSUME NEW tab \in [Token -> Ticket \cup {None}] PROVE Aged(tab, t) \in [Token -> Ticket \cup {None}]
    BY DEF Aged, Ticket
  <2> QED
    BY <1>1, <2>1 DEF TypeOK, TicketAges
<1>2. CASE ExpirePendingWorldTickets
  BY <1>2 DEF TypeOK, ExpirePendingWorldTickets, Fresh
<1>3. CASE ExpireStaleWorldRoutes
  <2>1. erasing' \subseteq World
    BY <1>3 DEF TypeOK, ExpireStaleWorldRoutes
  <2> QED
    BY <1>3, <2>1 DEF TypeOK, ExpireStaleWorldRoutes, Unindexed
<1>4. CASE EraseStaleTickets
  BY <1>4, EraseType DEF TypeOK, EraseStaleTickets
<1> QED
  BY <1>1, <1>2, <1>3, <1>4

\* The account server's tables keep their types, whatever the world servers,
\* the login server and the clock do.
THEOREM TypeCorrect == Spec => []TypeOK
<1>1. Init => TypeOK
  BY BoundAssumption DEF Init, TypeOK
<1>2. TypeOK /\ [Next]_vars => TypeOK'
  <2>1. TypeOK /\ Next => TypeOK'
    BY WorldLineType, LoginLineType, HandlerType, TickType DEF Next
  <2>2. TypeOK /\ UNCHANGED vars => TypeOK'
    BY DEF TypeOK, vars, lines, table, tickets, history
  <2> QED
    BY <2>1, <2>2
<1> QED
  BY <1>1, <1>2, PTL DEF Spec

-----------------------------------------------------------------------------
(* The two route tables agree. *)

\* A route is the one its slot's open connection registered.
RouteOfConn ==
    \A s \in Sid : routes[s] # None =>
        /\ conn[s] # None
        /\ conn[s].hello
        /\ routes[s].serial = conn[s].serial
        /\ routes[s].world = conn[s].world

\* RouteIndexExact, world by world and slot by slot.
IndexAgrees ==
    \A w \in World, s \in Sid : index[w] = s <=> routes[s] # None /\ routes[s].world = w

RouteInv == TypeOK /\ RouteOfConn /\ IndexAgrees

\* The indexed form says that the two tables agree.
LEMMA AgreesIsExact == TypeOK /\ IndexAgrees => RouteIndexExact
<1> SUFFICES ASSUME TypeOK, IndexAgrees, NEW w \in World
             PROVE  {s \in Sid : routes[s] # None /\ routes[s].world = w} = {index[w]} \ {None}
  BY DEF RouteIndexExact
<1>1. index[w] \in Sid \cup {None}
  BY DEF TypeOK
<1> QED
  BY <1>1, NoneDistinct DEF IndexAgrees

\* No operation of the world line lets the tables disagree.
LEMMA WorldLineRoutes == RouteInv /\ (\E s \in Sid : WorldLine(s)) => RouteOfConn' /\ IndexAgrees'
<1> SUFFICES ASSUME TypeOK, RouteOfConn, IndexAgrees, NEW s \in Sid, WorldLine(s)
             PROVE  RouteOfConn' /\ IndexAgrees'
  BY DEF RouteInv
<1> USE NoneDistinct, Fields DEF lines, table
<1>1. ASSUME NEW w \in World, WorldConnect(w, s) PROVE RouteOfConn' /\ IndexAgrees'
  BY <1>1 DEF TypeOK, RouteOfConn, IndexAgrees, WorldConnect
<1>2. CASE On_world_server_hello(s)
  <2> DEFINE w == conn[s].world
             r == [serial |-> conn[s].serial, world |-> w, state |-> "Hello", late |-> FALSE]
  <2>1. conn[s] \in Conn /\ w \in World /\ routes[s] = None
    BY <1>2 DEF TypeOK, On_world_server_hello, OnWorldLine, RouteOfConn
  <2>2. /\ routes' = [t \in Sid |-> IF t = s THEN r ELSE IF t \in Displaced(w, s) THEN None ELSE routes[t]]
        /\ index' = [index EXCEPT ![w] = s]
        /\ conn' = [conn EXCEPT ![s].hello = TRUE]
    BY <1>2 DEF On_world_server_hello
  <2>3. r # None /\ r.world = w /\ r.serial = conn[s].serial
    BY <2>1 DEF Route
  <2>4. /\ conn'[s].hello /\ conn'[s].serial = conn[s].serial /\ conn'[s].world = w
        /\ conn'[s] # None
    BY <2>1, <2>2 DEF TypeOK, Conn
  <2> HIDE DEF w, r
  <2>5. RouteOfConn'
    BY <2>1, <2>2, <2>3, <2>4 DEF TypeOK, RouteOfConn
  <2>6. IndexAgrees'
    BY <2>1, <2>2, <2>3 DEF TypeOK, IndexAgrees, Displaced
  <2> QED
    BY <2>5, <2>6
<1>3. ASSUME NEW b \in BOOLEAN, OnWorldReadyNotify(s, b) PROVE RouteOfConn' /\ IndexAgrees'
  <2>1. routes[s] \in Route
    BY <1>3 DEF TypeOK, OnWorldReadyNotify, Registered
  <2>2. \A t \in Sid : /\ routes'[t] = None <=> routes[t] = None
                       /\ routes'[t].world = routes[t].world
                       /\ routes'[t].serial = routes[t].serial
    BY <1>3, <2>1 DEF TypeOK, OnWorldReadyNotify, Route
  <2>3. UNCHANGED <<conn, index>>
    BY <1>3 DEF OnWorldReadyNotify
  <2>4. RouteOfConn'
    BY <2>2, <2>3 DEF RouteOfConn
  <2>5. IndexAgrees'
    BY <2>2, <2>3 DEF IndexAgrees
  <2> QED
    BY <2>4, <2>5
<1>4. ASSUME NEW b \in BOOLEAN, OnWorldRouteHeartbeat(s, b) PROVE RouteOfConn' /\ IndexAgrees'
  <2>1. routes[s] \in Route
    BY <1>4 DEF TypeOK, OnWorldRouteHeartbeat, Registered
  <2>2. \A t \in Sid : /\ routes'[t] = None <=> routes[t] = None
                       /\ routes'[t].world = routes[t].world
                       /\ routes'[t].serial = routes[t].serial
    BY <1>4, <2>1 DEF TypeOK, OnWorldRouteHeartbeat, Route
  <2>3. UNCHANGED <<conn, index>>
    BY <1>4 DEF OnWorldRouteHeartbeat
  <2>4. RouteOfConn'
    BY <2>2, <2>3 DEF RouteOfConn
  <2>5. IndexAgrees'
    BY <2>2, <2>3 DEF IndexAgrees
  <2> QED
    BY <2>4, <2>5
<1>5. ASSUME NEW b \in BOOLEAN, OnWorldCharacterListResponse(s, b) PROVE RouteOfConn' /\ IndexAgrees'
  BY <1>5 DEF OnWorldCharacterListResponse, RouteOfConn, IndexAgrees
<1>6. CASE Silence(s)
  <2>1. routes[s] \in Route
    BY <1>6 DEF TypeOK, Silence
  <2>2. \A t \in Sid : /\ routes'[t] = None <=> routes[t] = None
                       /\ routes'[t].world = routes[t].world
                       /\ routes'[t].serial = routes[t].serial
    BY <1>6, <2>1 DEF TypeOK, Silence, Route
  <2> QED
    BY <1>6, <2>2 DEF Silence, RouteOfConn, IndexAgrees
<1>7. CASE OnWorldRouteDisconnected(s)
  <2>1. conn' = [conn EXCEPT ![s] = None]
    BY <1>7 DEF OnWorldRouteDisconnected
  <2>2. CASE Registered(s)
    <3>1. routes' = [routes EXCEPT ![s] = None] /\ index' = Unindexed({s})
      BY <1>7, <2>2 DEF OnWorldRouteDisconnected
    <3>2. RouteOfConn'
      BY <2>1, <3>1 DEF TypeOK, RouteOfConn
    <3>3. IndexAgrees'
      BY <3>1 DEF TypeOK, IndexAgrees, Unindexed
    <3> QED
      BY <3>2, <3>3
  <2>3. CASE ~Registered(s)
    <3>1. UNCHANGED table /\ routes[s] = None
      BY <1>7, <2>3 DEF OnWorldRouteDisconnected, OnWorldLine, RouteOfConn, Registered
    <3> QED
      BY <2>1, <3>1 DEF TypeOK, RouteOfConn, IndexAgrees
  <2> QED
    BY <2>2, <2>3
<1>8. ASSUME NEW l \in LoginSession, NEW a \in Account, NEW t \in Token, NEW k, ShowsToken(k, s, l, a, t)
      PROVE  RouteOfConn' /\ IndexAgrees'
  BY <1>8 DEF ShowsToken, RouteOfConn, IndexAgrees
<1> QED
  BY <1>1, <1>2, <1>3, <1>4, <1>5, <1>6, <1>7, <1>8
     DEF WorldLine, OnWorldTicketConsumeRequest, OnWorldEnterSuccessNotify

\* Nor does the main loop, nor anything the login server asks for.
LEMMA OtherRoutes ==
    ASSUME RouteInv,
           \/ LoginLine \/ WorldHandler \/ \E t \in Token : TicketAges(t)
           \/ ExpirePendingWorldTickets \/ ExpireStaleWorldRoutes \/ EraseStaleTickets
           \/ UNCHANGED vars
    PROVE  RouteOfConn' /\ IndexAgrees'
<1>1. CASE ExpireStaleWorldRoutes
  <2> DEFINE stale == {s \in Sid : routes[s] # None /\ routes[s].late}
  <2>1. /\ routes' = [s \in Sid |-> IF s \in stale THEN None ELSE routes[s]]
        /\ index' = Unindexed(stale)
        /\ UNCHANGED conn
    BY <1>1 DEF ExpireStaleWorldRoutes, lines
  <2> HIDE DEF stale
  <2>2. RouteOfConn'
    BY <2>1 DEF RouteInv, RouteOfConn
  <2>3. IndexAgrees'
    BY <2>1, NoneDistinct DEF RouteInv, TypeOK, IndexAgrees, Unindexed
  <2> QED
    BY <2>2, <2>3
<1>2. CASE ~ExpireStaleWorldRoutes
  <2>1. UNCHANGED <<conn, routes, index>>
    BY <1>2 DEF LoginLine, OnLoginCoordinatorRegistered, OnLoginCoordinatorDisconnected, OnAuthenticated,
       OnWorldSelectRequest, OnCharacterListRequest, OnCharacterSelectRequest, WorldHandler,
       EraseClosedTickets, ConsumeIssuedWorldTicket, TryMatchConsumedWorldEnterSuccessNotify,
       RelayWorldEnterSuccess, TicketAges, ExpirePendingWorldTickets, EraseStaleTickets, vars, lines, table
  <2> QED
    BY <2>1 DEF RouteInv, RouteOfConn, IndexAgrees
<1> QED
  BY <1>1, <1>2

LEMMA RouteInvHolds == Spec => []RouteInv
<1>1. Init => RouteOfConn /\ IndexAgrees
  BY NoneDistinct DEF Init, RouteOfConn, IndexAgrees
<1>2. RouteInv /\ [Next]_vars => RouteOfConn' /\ IndexAgrees'
  BY WorldLineRoutes, OtherRoutes DEF Next
<1> QED
  BY <1>1, <1>2, TypeCorrect, PTL DEF Spec, RouteInv

\* A world has one endpoint and the index names it, whatever order its old and
\* new connections say hello, fall silent and close in.
THEOREM RoutesAgree == Spec => []RouteIndexExact
<1>1. RouteInv => RouteIndexExact
  BY AgreesIsExact DEF RouteInv
<1> QED
  BY <1>1, RouteInvHolds, PTL

-----------------------------------------------------------------------------
(* No ticket stays consumed for a world that has left. *)

\* What is known of a token by where its ticket is.
TokenFacts(t) ==
    /\ pending[t] # None => t \in issued /\ consumed[t] = None /\ grants[t] = <<>> /\ notices[t] = 0
    /\ consumed[t] # None => t \in issued /\ grants[t] # <<>> /\ notices[t] = 0
    /\ t \notin issued => grants[t] = <<>> /\ notices[t] = 0

HasRoute(w) == index[w] # None \/ w \in Leaving

\* What is known of the handler the world line has begun: its consume request
\* still finds its world unless a thread has dropped the route since, and then
\* the ticket is gone or about to go; its notice is of a granted ticket.
StrandFacts ==
    /\ AtStep("Consume") \/ AtStep("Match") \/ AtStep("Relay") => strand.token \in issued
    /\ AtStep("Consume") /\ Matches(pending[strand.token]) => HasRoute(strand.claim.world)
    /\ AtStep("Relay") => /\ pending[strand.token] = None
                          /\ grants[strand.token] # <<>>
                          /\ notices[strand.token] = 0

TicketInv == /\ RouteInv
             /\ \A t \in Token : TokenFacts(t)
             /\ StrandFacts
             /\ ConsumedHasRoute

\* A ticket stays where it is, aged perhaps, or goes.
Fades(t) == /\ pending'[t] = None \/ (pending[t] # None /\ pending'[t].claim = pending[t].claim)
            /\ consumed'[t] = None \/ (consumed[t] # None /\ consumed'[t].claim = consumed[t].claim)

Keeps(w) == HasRoute(w) => HasRoute(w)'

\* Tickets only fade, and the worlds of those that stay keep their routes.
LEMMA FadingKeeps ==
    ASSUME TicketInv, RouteInv', UNCHANGED <<issued, grants, notices>>,
           strand' = strand \/ strand' \in Erase \cup {None},
           \A t \in Token : /\ Fades(t)
                            /\ pending'[t] # None => Keeps(pending[t].claim.world)
                            /\ consumed'[t] # None => Keeps(consumed[t].claim.world)
    PROVE  TicketInv'
<1>1. \A t \in Token : TokenFacts(t)'
  BY DEF TicketInv, TokenFacts, Fades
<1>2. ConsumedHasRoute'
  BY DEF TicketInv, ConsumedHasRoute, Fades, Keeps, HasRoute
<1>3. StrandFacts'
  <2>1. CASE strand' = strand
    <3>1. strand # None /\ strand.step # "Erase" => strand.token \in Token
      BY Fields DEF TicketInv, RouteInv, TypeOK
    <3>2. AtStep("Consume") /\ Matches(pending[strand.token])' => Matches(pending[strand.token])
      BY <2>1, <3>1 DEF AtStep, Matches, Fades
    <3>3. AtStep("Consume") /\ Matches(pending[strand.token])' => HasRoute(strand.claim.world)'
      BY <2>1, <3>1, <3>2 DEF TicketInv, StrandFacts, AtStep, Matches, Keeps
    <3>4. AtStep("Relay") => pending'[strand.token] = None
      BY <3>1 DEF TicketInv, StrandFacts, AtStep, Fades
    <3> QED
      BY <2>1, <3>3, <3>4 DEF TicketInv, StrandFacts, AtStep
  <2>2. CASE strand' \in Erase \cup {None}
    BY <2>2, Fields DEF StrandFacts, AtStep
  <2> QED
    BY <2>1, <2>2
<1> QED
  BY <1>1, <1>2, <1>3 DEF TicketInv

\* The effect of ErasePendingWorldTicketsForServer_ on one token.
LEMMA EraseFades ==
    ASSUME TypeOK, NEW W, ErasePendingWorldTicketsForServer(W), NEW t \in Token
    PROVE  /\ Fades(t)
           /\ pending'[t] # None => pending'[t] = pending[t] /\ pending[t].claim.world \notin W
           /\ consumed'[t] # None => consumed'[t] = consumed[t] /\ consumed[t].claim.world \notin W
BY DEF TypeOK, ErasePendingWorldTicketsForServer, Without, Fades

\* A step that touches no ticket and keeps every route keeps the invariant.
LEMMA UntouchedKeeps ==
    ASSUME TicketInv, RouteInv', UNCHANGED <<pending, consumed, issued, grants, notices>>,
           strand' = strand \/ strand' \in Erase \cup {None},
           \A w \in World : Keeps(w)
    PROVE  TicketInv'
<1>1. TypeOK
  BY DEF TicketInv, RouteInv
<1>2. \A t \in Token : Fades(t)
  BY DEF Fades
<1>3. \A t \in Token : /\ pending[t] # None => pending[t].claim.world \in World
                       /\ consumed[t] # None => consumed[t].claim.world \in World
  BY <1>1, Fields DEF TypeOK
<1> QED
  BY <1>2, <1>3, FadingKeeps

\* A route goes, and the thread that dropped it is about to erase its tickets.
LEMMA DisconnectTickets ==
    ASSUME TicketInv, RouteInv', NEW s \in Sid, OnWorldRouteDisconnected(s)
    PROVE  TicketInv'
<1>1. TypeOK /\ IndexAgrees /\ strand = None /\ UNCHANGED <<pending, consumed, issued, grants, notices, erasing>>
  BY DEF TicketInv, RouteInv, OnWorldRouteDisconnected, OnWorldLine, tickets, history
<1>2. CASE ~Registered(s)
  <2>1. UNCHANGED <<index, strand>>
    BY <1>2 DEF OnWorldRouteDisconnected, table
  <2> QED
    BY <1>1, <2>1, UntouchedKeeps DEF Keeps, HasRoute, Leaving, AtStep
<1>3. CASE Registered(s)
  <2>1. index' = Unindexed({s}) /\ strand' = [step |-> "Erase", world |-> routes[s].world]
    BY <1>3 DEF OnWorldRouteDisconnected
  <2>2. routes[s] \in Route /\ strand' \in Erase /\ strand' # None
    BY <1>1, <1>3, <2>1, Fields, NoneDistinct DEF TypeOK, Registered, Erase
  <2>3. ASSUME NEW w \in World PROVE Keeps(w)
    <3>1. CASE w = routes[s].world
      BY <2>1, <2>2, <3>1 DEF Keeps, HasRoute, Leaving, AtStep
    <3>2. CASE w # routes[s].world
      BY <1>1, <2>1, <3>2 DEF Keeps, HasRoute, Leaving, AtStep, IndexAgrees, Unindexed
    <3> QED
      BY <3>1, <3>2
  <2> QED
    BY <1>1, <2>2, <2>3, UntouchedKeeps
<1> QED
  BY <1>2, <1>3

\* The routes the main loop drops are those whose tickets it goes on to erase.
LEMMA ExpireRoutesTickets ==
    ASSUME TicketInv, RouteInv', ExpireStaleWorldRoutes
    PROVE  TicketInv'
<1> DEFINE stale == {s \in Sid : routes[s] # None /\ routes[s].late}
<1>1. /\ index' = Unindexed(stale) /\ erasing = {} /\ erasing' = {routes[s].world : s \in stale}
      /\ UNCHANGED <<pending, consumed, issued, grants, notices, strand>>
  BY DEF ExpireStaleWorldRoutes, tickets, history
<1>2. ASSUME NEW w \in World PROVE Keeps(w)
  <2> SUFFICES ASSUME HasRoute(w), index'[w] = None PROVE w \in Leaving'
    BY DEF HasRoute, Keeps
  <2>1. CASE index[w] = None
    BY <1>1, <2>1 DEF HasRoute, Leaving, AtStep
  <2>2. CASE index[w] # None
    <3>1. index[w] \in stale
      BY <1>1, <2>2 DEF Unindexed
    <3>2. routes[index[w]].world = w
      BY <3>1 DEF TicketInv, RouteInv, IndexAgrees
    <3> QED
      BY <1>1, <3>1, <3>2 DEF Leaving
  <2> QED
    BY <2>1, <2>2
<1> QED
  BY <1>1, <1>2, UntouchedKeeps

\* Erasing the tickets of the worlds that leave keeps those of the others.
LEMMA EraseTickets ==
    ASSUME TicketInv, RouteInv', EraseStaleTickets \/ EraseClosedTickets
    PROVE  TicketInv'
<1>1. TypeOK /\ UNCHANGED <<issued, index, grants, notices>>
  BY DEF TicketInv, RouteInv, EraseStaleTickets, EraseClosedTickets, ErasePendingWorldTicketsForServer,
     table, history
<1>2. CASE EraseStaleTickets
  <2>1. ErasePendingWorldTicketsForServer(erasing) /\ erasing' = {} /\ strand' = strand
    BY <1>2 DEF EraseStaleTickets
  <2>2. \A w \in World : w \notin erasing => Keeps(w)
    BY <1>1, <2>1 DEF Keeps, HasRoute, Leaving, AtStep
  <2>3. \A t \in Token : /\ pending[t] # None => pending[t].claim.world \in World
                         /\ consumed[t] # None => consumed[t].claim.world \in World
    BY <1>1, Fields DEF TypeOK
  <2>4. \A t \in Token : /\ Fades(t)
                         /\ pending'[t] # None => Keeps(pending[t].claim.world)
                         /\ consumed'[t] # None => Keeps(consumed[t].claim.world)
    BY <1>1, <2>1, <2>2, <2>3, EraseFades
  <2> QED
    BY <1>1, <2>1, <2>4, FadingKeeps
<1>3. CASE EraseClosedTickets
  <2>1. /\ ErasePendingWorldTicketsForServer({strand.world}) /\ erasing' = erasing /\ strand' = None
        /\ AtStep("Erase")
    BY <1>3 DEF EraseClosedTickets
  <2>2. \A w \in World : w # strand.world => Keeps(w)
    BY <1>1, <2>1 DEF Keeps, HasRoute, Leaving, AtStep
  <2>3. \A t \in Token : /\ pending[t] # None => pending[t].claim.world \in World
                         /\ consumed[t] # None => consumed[t].claim.world \in World
    BY <1>1, Fields DEF TypeOK
  <2>4. \A t \in Token : /\ Fades(t)
                         /\ pending'[t] # None => Keeps(pending[t].claim.world)
                         /\ consumed'[t] # None => Keeps(consumed[t].claim.world)
    BY <1>1, <2>1, <2>2, <2>3, EraseFades
  <2> QED
    BY <1>1, <2>1, <2>4, FadingKeeps
<1> QED
  BY <1>2, <1>3

\* Tickets that age or expire keep the claims of the others.
LEMMA AgingFades ==
    ASSUME TypeOK, NEW u \in Token, TicketAges(u)
    PROVE  \A t \in Token : Fades(t)
<1>1. ASSUME NEW tab \in [Token -> Ticket \cup {None}], NEW t \in Token
      PROVE  Aged(tab, u)[t] = None \/ (tab[t] # None /\ Aged(tab, u)[t].claim = tab[t].claim)
  BY DEF Aged, Ticket
<1> QED
  BY <1>1 DEF TypeOK, TicketAges, Fades

\* Time passing for tickets keeps the invariant.
LEMMA FadeTickets ==
    ASSUME TicketInv, RouteInv',
           \/ \E t \in Token : TicketAges(t)
           \/ ExpirePendingWorldTickets
    PROVE  TicketInv'
<1>1. TypeOK /\ UNCHANGED <<issued, index, erasing, grants, notices, strand>>
  BY DEF TicketInv, RouteInv, TicketAges, ExpirePendingWorldTickets, table, history
<1>2. \A t \in Token : Fades(t)
  <2>1. CASE ExpirePendingWorldTickets
    BY <1>1, <2>1 DEF ExpirePendingWorldTickets, Fresh, Fades
  <2> QED
    BY <1>1, <2>1, AgingFades
<1>3. \A w : Keeps(w)
  BY <1>1 DEF Keeps, HasRoute, Leaving, AtStep
<1> QED
  BY <1>1, <1>2, <1>3, FadingKeeps

\* A consume request moves at most the ticket it names.
LEMMA ConsumeTickets ==
    ASSUME TicketInv, RouteInv', ConsumeIssuedWorldTicket
    PROVE  TicketInv'
<1> DEFINE u == strand.token
<1>1. /\ TypeOK /\ AtStep("Consume") /\ u \in Token /\ strand' = None
      /\ UNCHANGED <<issued, index, erasing, notices>>
  BY Fields DEF TicketInv, RouteInv, TypeOK, ConsumeIssuedWorldTicket, AtStep, table
<1>2. \A w : Keeps(w)
  BY <1>1 DEF Keeps, HasRoute, Leaving, AtStep
<1>3. CASE Matches(pending[u]) /\ ~pending[u].old
  <2>1. /\ grants' = [grants EXCEPT ![u] = Append(grants[u], strand.claim)]
        /\ consumed' = [consumed EXCEPT ![u] = [pending[u] EXCEPT !.old = FALSE]]
        /\ pending' = [pending EXCEPT ![u] = None]
    BY <1>3 DEF ConsumeIssuedWorldTicket, MoveToConsumed
  <2>2. pending[u] \in Ticket /\ [pending[u] EXCEPT !.old = FALSE].claim = strand.claim
    BY <1>1, <1>3 DEF TypeOK, Ticket, Matches
  <2>3. index'[strand.claim.world] # None \/ strand.claim.world \in Leaving'
    BY <1>1, <1>2, <1>3 DEF TicketInv, StrandFacts, Keeps, HasRoute, Leaving, AtStep
  <2>4. ConsumedHasRoute'
    BY <1>1, <1>2, <2>1, <2>2, <2>3 DEF TypeOK, TicketInv, ConsumedHasRoute, HasRoute, Keeps
  <2>5. grants[u] \in Seq(Claim) /\ Append(grants[u], strand.claim) # <<>>
    <3>1. strand.claim \in Claim /\ grants[u] \in Seq(Claim)
      BY <1>1, Fields DEF TypeOK, AtStep
    <3> QED
      BY <3>1, AppendProperties
  <2>6. \A t \in Token : TokenFacts(t)'
    BY <1>1, <1>3, <2>1, <2>5 DEF TypeOK, TicketInv, TokenFacts, Matches
  <2> QED
    BY <1>1, <2>4, <2>6 DEF TicketInv, StrandFacts, AtStep
<1>4. CASE ~(Matches(pending[u]) /\ ~pending[u].old)
  <2>1. /\ pending' = [pending EXCEPT ![u] = IF @ # None /\ @.old THEN None ELSE @]
        /\ UNCHANGED <<consumed, grants>>
    BY <1>4 DEF ConsumeIssuedWorldTicket
  <2>2. \A t \in Token : Fades(t)
    BY <1>1, <2>1 DEF TypeOK, Fades
  <2> QED
    BY <1>1, <1>2, <2>1, <2>2, FadingKeeps
<1> QED
  BY <1>3, <1>4

\* A notice is matched with a granted ticket, and ends it.
LEMMA NotifyTickets ==
    ASSUME TicketInv, RouteInv',
           TryMatchConsumedWorldEnterSuccessNotify \/ \E sent \in BOOLEAN : RelayWorldEnterSuccess(sent)
    PROVE  TicketInv'
<1> DEFINE u == strand.token
<1>1. /\ TypeOK /\ u \in Token /\ strand \in Step /\ strand # None
      /\ UNCHANGED <<issued, pending, index, erasing, grants>>
  BY Fields DEF TicketInv, RouteInv, TypeOK, TryMatchConsumedWorldEnterSuccessNotify, RelayWorldEnterSuccess,
     AtStep, table, tickets, history
<1>2. CASE TryMatchConsumedWorldEnterSuccessNotify
  <2>1. /\ AtStep("Match") /\ UNCHANGED <<consumed, notices>>
        /\ strand' = IF Matches(consumed[u]) THEN [strand EXCEPT !.step = "Relay"] ELSE None
    BY <1>2 DEF TryMatchConsumedWorldEnterSuccessNotify, tickets, history
  <2>2. \A w : Keeps(w)
    <3>1. ~AtStep("Erase")
      BY <2>1 DEF AtStep
    <3> QED
      BY <1>1, <3>1 DEF Keeps, HasRoute, Leaving
  <2>3. ConsumedHasRoute' /\ \A t \in Token : TokenFacts(t)'
    BY <1>1, <2>1, <2>2 DEF TicketInv, TokenFacts, ConsumedHasRoute, Keeps, HasRoute
  <2>4. CASE Matches(consumed[u])
    <3>1. strand'.step = "Relay" /\ strand'.token = u /\ strand' # None
      BY <1>1, <2>1, <2>4, NoneDistinct DEF Step
    <3>2. u \in issued /\ pending[u] = None /\ grants[u] # <<>> /\ notices[u] = 0
      BY <1>1, <2>4 DEF TicketInv, TokenFacts, Matches
    <3> QED
      BY <1>1, <2>1, <2>3, <3>1, <3>2 DEF TicketInv, StrandFacts, AtStep
  <2>5. CASE ~Matches(consumed[u])
    BY <2>1, <2>3, <2>5 DEF TicketInv, StrandFacts, AtStep
  <2> QED
    BY <2>4, <2>5
<1>3. ASSUME NEW sent \in BOOLEAN, RelayWorldEnterSuccess(sent) PROVE TicketInv'
  <2>1. /\ AtStep("Relay") /\ strand' = None
        /\ notices' = [notices EXCEPT ![u] = IF sent THEN @ + 1 ELSE @]
        /\ consumed' = [consumed EXCEPT ![u] = IF sent THEN None ELSE @]
    BY <1>3 DEF RelayWorldEnterSuccess
  <2>2. \A w : Keeps(w)
    BY <1>1, <2>1 DEF Keeps, HasRoute, Leaving, AtStep
  <2>3. u \in issued /\ pending[u] = None
    BY <2>1 DEF TicketInv, StrandFacts
  <2>4. \A t \in Token : TokenFacts(t)'
    BY <1>1, <2>1, <2>3 DEF TypeOK, TicketInv, TokenFacts
  <2>5. ConsumedHasRoute'
    BY <1>1, <2>1, <2>2 DEF TypeOK, TicketInv, ConsumedHasRoute, Keeps, HasRoute
  <2> QED
    BY <2>1, <2>4, <2>5 DEF TicketInv, StrandFacts, AtStep
<1> QED
  BY <1>2, <1>3

\* The operations of the world line keep the ticket facts.
LEMMA WorldLineTickets ==
    ASSUME TicketInv, RouteInv', NEW s \in Sid, WorldLine(s)
    PROVE  TicketInv'
<1>1. TypeOK /\ IndexAgrees
  BY DEF TicketInv, RouteInv
<1>2. CASE OnWorldRouteDisconnected(s)
  BY <1>2, DisconnectTickets
<1>3. ASSUME NEW l \in LoginSession, NEW a \in Account, NEW t \in Token, NEW k \in {"Consume", "Match"},
             ShowsToken(k, s, l, a, t)
      PROVE  TicketInv'
  <2>1. UNCHANGED <<pending, consumed, issued, grants, notices, index, erasing, routes>>
    BY <1>3 DEF ShowsToken, tickets, history, table
  <2>2. routes[s] \in Route /\ routes[s].world \in World /\ t \in issued
    BY <1>1, <1>3, Fields DEF TypeOK, ShowsToken, Registered
  <2>3. index'[routes[s].world] # None
    BY <1>1, <2>1, <2>2, NoneDistinct DEF IndexAgrees
  <2>4. strand = None /\ strand'.step = k /\ strand'.token = t /\ strand'.claim.world = routes[s].world
    BY <1>3 DEF ShowsToken, OnWorldLine
  <2>5. StrandFacts'
    BY <1>3, <2>1, <2>2, <2>3, <2>4 DEF StrandFacts, AtStep, HasRoute
  <2>6. \A w : Keeps(w)
    BY <2>1, <2>4 DEF Keeps, HasRoute, Leaving, AtStep
  <2>7. ConsumedHasRoute' /\ \A u \in Token : TokenFacts(u)'
    BY <2>1, <2>6 DEF TicketInv, TokenFacts, ConsumedHasRoute, Keeps, HasRoute
  <2> QED
    BY <2>5, <2>7 DEF TicketInv
<1>4. CASE On_world_server_hello(s)
  <2>1. \A w \in World : index[w] # None => index'[w] # None
    BY <1>1, <1>4, NoneDistinct DEF TypeOK, On_world_server_hello
  <2>2. \A w \in World : Keeps(w)
    BY <1>4, <2>1 DEF On_world_server_hello, Keeps, HasRoute, Leaving, AtStep
  <2> QED
    BY <1>4, <2>2, UntouchedKeeps DEF On_world_server_hello, tickets, history
<1>5. CASE \/ \E w \in World : WorldConnect(w, s)
           \/ \E b \in BOOLEAN :
                OnWorldReadyNotify(s, b) \/ OnWorldRouteHeartbeat(s, b) \/ OnWorldCharacterListResponse(s, b)
           \/ Silence(s)
  <2>1. UNCHANGED <<pending, consumed, issued, grants, notices, strand, index, erasing>>
    BY <1>5 DEF WorldConnect, OnWorldReadyNotify, OnWorldRouteHeartbeat,
       OnWorldCharacterListResponse, Silence, tickets, history, table
  <2>2. \A w : Keeps(w)
    BY <2>1 DEF Keeps, HasRoute, Leaving, AtStep
  <2> QED
    BY <2>1, <2>2, UntouchedKeeps
<1> QED
  BY <1>2, <1>3, <1>4, <1>5 DEF WorldLine, OnWorldTicketConsumeRequest, OnWorldEnterSuccessNotify

\* The login server's requests issue fresh tokens and leave the others alone.
LEMMA LoginLineTickets ==
    ASSUME TicketInv, RouteInv', LoginLine
    PROVE  TicketInv'
<1>1. ASSUME NEW l \in LoginSession, NEW c \in Char, NEW u \in Token, OnCharacterSelectRequest(l, c, u)
      PROVE  TicketInv'
  <2> DEFINE x == [claim |-> [session |-> l, account |-> AccountOf[l], world |-> sessions[l].world],
                   char |-> c, old |-> FALSE]
  <2>1. /\ TypeOK /\ u \notin issued /\ issued' = issued \cup {u}
        /\ pending' = [pending EXCEPT ![u] = x]
        /\ UNCHANGED <<consumed, grants, notices, index, erasing, strand>>
    BY <1>1 DEF TicketInv, RouteInv, OnCharacterSelectRequest, history, table
  <2> HIDE DEF x
  <2>2. \A t \in Token : TokenFacts(t)'
    BY <2>1 DEF TypeOK, TicketInv, TokenFacts
  <2>3. \A w : Keeps(w)
    BY <2>1 DEF Keeps, HasRoute, Leaving, AtStep
  <2>4. ConsumedHasRoute'
    BY <2>1, <2>3 DEF TicketInv, ConsumedHasRoute, Keeps, HasRoute
  <2>5. \A t \in issued : pending'[t] = pending[t]
    BY <2>1 DEF TypeOK
  <2>6. StrandFacts'
    BY <2>1, <2>3, <2>5 DEF TicketInv, StrandFacts, AtStep, Matches, Keeps
  <2> QED
    BY <2>2, <2>4, <2>6 DEF TicketInv
<1>2. CASE ~\E l \in LoginSession, c \in Char, t \in Token : OnCharacterSelectRequest(l, c, t)
  <2>1. UNCHANGED <<pending, consumed, issued, grants, notices, strand, index, erasing>>
    BY <1>2 DEF LoginLine, OnLoginCoordinatorRegistered, OnLoginCoordinatorDisconnected,
       OnAuthenticated, OnWorldSelectRequest, OnCharacterListRequest, tickets, history, table
  <2>2. \A w : Keeps(w)
    BY <2>1 DEF Keeps, HasRoute, Leaving, AtStep
  <2> QED
    BY <2>1, <2>2, UntouchedKeeps
<1> QED
  BY <1>1, <1>2

\* The invariant of the tickets holds in every state.
LEMMA TicketInvHolds == Spec => []TicketInv
<1>1. Init => TicketInv \/ ~RouteInv
  BY DEF Init, TicketInv, TokenFacts, StrandFacts, ConsumedHasRoute, AtStep
<1>2. TicketInv /\ RouteInv' /\ [Next]_vars => TicketInv'
  <2>1. ASSUME TicketInv, RouteInv', Next PROVE TicketInv'
    BY <2>1, WorldLineTickets, LoginLineTickets, ConsumeTickets, NotifyTickets, FadeTickets,
       ExpireRoutesTickets, EraseTickets DEF Next, WorldHandler
  <2>2. ASSUME TicketInv, RouteInv', UNCHANGED vars PROVE TicketInv'
    <3>1. \A w : Keeps(w)
      BY <2>2 DEF vars, table, Keeps, HasRoute, Leaving, AtStep
    <3> QED
      BY <2>2, <3>1, UntouchedKeeps DEF vars, table, tickets, history
  <2> QED
    BY <2>1, <2>2
<1> QED
  BY <1>1, <1>2, RouteInvHolds, PTL DEF Spec

\* ConsumeIssuedWorldTicket_ resolves the world before it takes the tickets'
\* lock; still no ticket stays consumed for a world that left in between.
THEOREM ConsumedRouted == Spec => []ConsumedHasRoute
<1>1. TicketInv => ConsumedHasRoute
  BY DEF TicketInv
<1> QED
  BY <1>1, TicketInvHolds, PTL

-----------------------------------------------------------------------------
(* The ticket maps implement TicketAuthority. *)

\* The phase and the holder of one token.
LEMMA MappingAt ==
    ASSUME NEW t \in Token
    PROVE  /\ Phase[t] = IF pending[t] # None THEN "Issued"
                         ELSE IF consumed[t] # None THEN "Granted"
                         ELSE IF t \in issued THEN "Done" ELSE "Unissued"
           /\ Holder[t] = IF pending[t] # None THEN pending[t].claim
                          ELSE IF consumed[t] # None THEN consumed[t].claim ELSE None
BY DEF Phase, Holder

\* The same in the next state.
LEMMA MappingAtNext ==
    ASSUME NEW t \in Token
    PROVE  /\ Phase'[t] = IF pending'[t] # None THEN "Issued"
                          ELSE IF consumed'[t] # None THEN "Granted"
                          ELSE IF t \in issued' THEN "Done" ELSE "Unissued"
           /\ Holder'[t] = IF pending'[t] # None THEN pending'[t].claim
                           ELSE IF consumed'[t] # None THEN consumed'[t].claim ELSE None
BY DEF Phase, Holder

\* The mapped variables are functions on the tokens, before and after a step.
LEMMA MappingDomain ==
    /\ Phase = [t \in Token |-> Phase[t]] /\ Holder = [t \in Token |-> Holder[t]]
    /\ Phase' = [t \in Token |-> Phase'[t]] /\ Holder' = [t \in Token |-> Holder'[t]]
BY DEF Phase, Holder

\* Tickets that only fade are voided, or nothing happened to them.
LEMMA FadingIsVoid ==
    ASSUME TicketInv, UNCHANGED <<issued, grants, notices>>, \A t \in Token : Fades(t)
    PROVE  Authority!Next
<1> DEFINE T == {t \in Token : Phase'[t] # Phase[t]}
<1>1. \A t \in T : Phase[t] \in {"Issued", "Granted"} /\ Phase'[t] = "Done" /\ Holder'[t] = None
  BY MappingAt, MappingAtNext DEF TicketInv, TokenFacts, Fades
<1>2. \A t \in Token \ T : Holder'[t] = Holder[t]
  BY MappingAt, MappingAtNext DEF TicketInv, TokenFacts, Fades
<1>3. Phase' = [t \in Token |-> IF t \in T THEN "Done" ELSE Phase[t]]
  BY <1>1, MappingDomain
<1>4. Holder' = [t \in Token |-> IF t \in T THEN None ELSE Holder[t]]
  BY <1>1, <1>2, MappingDomain
<1>5. T \in SUBSET Token
  OBVIOUS
<1> HIDE DEF T
<1>6. Authority!Void(T)
  BY <1>1, <1>3, <1>4 DEF Authority!Void
<1> QED
  BY <1>5, <1>6 DEF Authority!Next

\* A step that leaves the tickets alone is a stutter.
LEMMA UntouchedStutters ==
    ASSUME UNCHANGED <<pending, consumed, issued, grants, notices>>
    PROVE  UNCHANGED Authority!vars
BY DEF Authority!vars, Phase, Holder

\* A picked character issues a ticket.
LEMMA SelectIssues ==
    ASSUME TicketInv, TypeOK', NEW l \in LoginSession, NEW c \in Char, NEW u \in Token,
           OnCharacterSelectRequest(l, c, u)
    PROVE  Authority!Next
<1> DEFINE x == pending'[u]
<1>1. /\ u \notin issued /\ issued' = issued \cup {u}
      /\ pending' = [pending EXCEPT ![u] = x]
      /\ UNCHANGED <<consumed, grants, notices>>
      /\ x # None /\ x.claim \in Claim
  <2>1. pending \in [Token -> Ticket \cup {None}] /\ pending'[u] \in Ticket \cup {None}
    BY DEF TicketInv, RouteInv, TypeOK
  <2>2. pending' = [pending EXCEPT ![u] =
                      [claim |-> [session |-> l, account |-> AccountOf[l], world |-> sessions[l].world],
                       char |-> c, old |-> FALSE]]
    BY DEF OnCharacterSelectRequest
  <2>3. x = [claim |-> [session |-> l, account |-> AccountOf[l], world |-> sessions[l].world],
             char |-> c, old |-> FALSE]
    BY <2>1, <2>2
  <2>4. sessions[l] \in Picked /\ sessions[l].world \in World
    BY DEF OnCharacterSelectRequest, TicketInv, RouteInv, TypeOK, Picked
  <2>5. x \in Ticket
    BY <2>3, <2>4, SessionAssumption DEF Ticket, Claim
  <2> QED
    BY <2>2, <2>3, <2>5, NoneDistinct, Fields DEF OnCharacterSelectRequest, history
<1> HIDE DEF x
<1>2. pending \in [Token -> Ticket \cup {None}] /\ pending[u] = None /\ consumed[u] = None
  BY <1>1 DEF TicketInv, RouteInv, TypeOK, TokenFacts
<1>3. Phase[u] = "Unissued" /\ Phase'[u] = "Issued" /\ Holder'[u] = x.claim
  BY <1>1, <1>2, MappingAt, MappingAtNext
<1>4. \A t \in Token \ {u} : Phase'[t] = Phase[t] /\ Holder'[t] = Holder[t]
  BY <1>1, <1>2, MappingAt, MappingAtNext
<1>5. Phase' = [Phase EXCEPT ![u] = "Issued"] /\ Holder' = [Holder EXCEPT ![u] = x.claim]
  BY <1>3, <1>4, MappingDomain
<1>6. Authority!Issue(u, x.claim)
  BY <1>1, <1>3, <1>5 DEF Authority!Issue
<1> QED
  BY <1>1, <1>6 DEF Authority!Next

\* A consume request grants its ticket, voids it, or changes nothing.
LEMMA ConsumeGrants ==
    ASSUME TicketInv, ConsumeIssuedWorldTicket
    PROVE  Authority!Next
<1> DEFINE u == strand.token
<1>1. TypeOK /\ u \in Token /\ UNCHANGED <<issued, notices>>
  BY Fields DEF TicketInv, RouteInv, TypeOK, ConsumeIssuedWorldTicket, AtStep
<1>2. CASE Matches(pending[u]) /\ ~pending[u].old
  <2>1. /\ grants' = [grants EXCEPT ![u] = Append(grants[u], strand.claim)]
        /\ consumed' = [consumed EXCEPT ![u] = [pending[u] EXCEPT !.old = FALSE]]
        /\ pending' = [pending EXCEPT ![u] = None]
    BY <1>2 DEF ConsumeIssuedWorldTicket, MoveToConsumed
  <2>2. /\ pending[u] \in Ticket /\ pending[u].claim = strand.claim
        /\ grants[u] = <<>>
    BY <1>1, <1>2 DEF TypeOK, TicketInv, TokenFacts, Matches
  <2>3. consumed'[u] # None /\ consumed'[u].claim = strand.claim /\ pending'[u] = None
    BY <1>1, <2>1, <2>2, NoneDistinct DEF TypeOK, Ticket
  <2>4. /\ Phase[u] = "Issued" /\ Phase'[u] = "Granted"
        /\ Holder[u] = strand.claim /\ Holder'[u] = strand.claim
    BY <1>1, <1>2, <2>2, <2>3, MappingAt, MappingAtNext DEF Matches
  <2>5. \A t \in Token \ {u} : Phase'[t] = Phase[t] /\ Holder'[t] = Holder[t]
    BY <1>1, <2>1, MappingAt, MappingAtNext, ZenonT(60) DEF TypeOK
  <2>6. Phase' = [Phase EXCEPT ![u] = "Granted"] /\ Holder' = Holder
    BY <2>4, <2>5, MappingDomain
  <2>7. Append(<<>>, strand.claim) = <<strand.claim>>
    OBVIOUS
  <2>8. Authority!Grant(u)
    BY <1>1, <2>1, <2>2, <2>4, <2>6, <2>7 DEF Authority!Grant
  <2> QED
    BY <1>1, <2>8 DEF Authority!Next
<1>3. CASE ~(Matches(pending[u]) /\ ~pending[u].old)
  <2>1. /\ pending' = [pending EXCEPT ![u] = IF @ # None /\ @.old THEN None ELSE @]
        /\ UNCHANGED <<consumed, grants>>
    BY <1>3 DEF ConsumeIssuedWorldTicket
  <2>2. \A t \in Token : Fades(t)
    BY <1>1, <2>1 DEF TypeOK, Fades
  <2> QED
    BY <1>1, <2>1, <2>2, FadingIsVoid
<1> QED
  BY <1>2, <1>3

\* A relayed notice reports a granted ticket, which may have expired meanwhile.
LEMMA RelayNotices ==
    ASSUME TicketInv, NEW sent \in BOOLEAN, RelayWorldEnterSuccess(sent)
    PROVE  [Authority!Next]_(Authority!vars)
<1> DEFINE u == strand.token
<1>1. /\ TypeOK /\ AtStep("Relay") /\ u \in Token
      /\ notices' = [notices EXCEPT ![u] = IF sent THEN @ + 1 ELSE @]
      /\ consumed' = [consumed EXCEPT ![u] = IF sent THEN None ELSE @]
      /\ UNCHANGED <<pending, issued, grants>>
  BY Fields DEF RelayWorldEnterSuccess, TicketInv, RouteInv, TypeOK, AtStep
<1>2. pending[u] = None /\ u \in issued /\ notices[u] = 0 /\ grants[u] # <<>>
  BY <1>1 DEF TicketInv, StrandFacts
<1>3. CASE ~sent
  <2>1. UNCHANGED <<notices, consumed>>
    BY <1>1, <1>3 DEF TypeOK
  <2> QED
    BY <1>1, <2>1, UntouchedStutters
<1>4. CASE sent
  <2>1. Phase'[u] = "Done" /\ Holder'[u] = None /\ notices[u] + 1 = 1
    BY <1>1, <1>2, <1>4, MappingAtNext DEF TypeOK
  <2>2. \A t \in Token \ {u} : Phase'[t] = Phase[t] /\ Holder'[t] = Holder[t]
    BY <1>1, MappingAt, MappingAtNext, ZenonT(60) DEF TypeOK
  <2>3. Phase' = [Phase EXCEPT ![u] = "Done"] /\ Holder' = [Holder EXCEPT ![u] = None]
    BY <2>1, <2>2, MappingDomain
  <2>4. Authority!Notice(u)
    BY <1>1, <1>2, <1>4, <2>1, <2>3 DEF Authority!Notice
  <2> QED
    BY <1>1, <2>4 DEF Authority!Next
<1> QED
  BY <1>3, <1>4

\* Every step of the account server is a step of the authority or a stutter.
LEMMA StepImplements ==
    ASSUME TicketInv, TypeOK', [Next]_vars
    PROVE  [Authority!Next]_(Authority!vars)
<1>1. TypeOK
  BY DEF TicketInv, RouteInv
<1>2. ASSUME NEW s \in Sid, WorldLine(s) PROVE [Authority!Next]_(Authority!vars)
  <2>1. UNCHANGED <<pending, consumed, issued, grants, notices>>
    BY <1>2 DEF WorldLine, WorldConnect, On_world_server_hello, OnWorldReadyNotify,
       OnWorldRouteHeartbeat, OnWorldCharacterListResponse, Silence, OnWorldRouteDisconnected,
       OnWorldTicketConsumeRequest, OnWorldEnterSuccessNotify, ShowsToken, tickets, history
  <2> QED
    BY <2>1, UntouchedStutters
<1>3. CASE LoginLine
  <2>1. ASSUME NEW l \in LoginSession, NEW c \in Char, NEW t \in Token, OnCharacterSelectRequest(l, c, t)
        PROVE  Authority!Next
    BY <2>1, SelectIssues
  <2>2. CASE ~\E l \in LoginSession, c \in Char, t \in Token : OnCharacterSelectRequest(l, c, t)
    <3>1. UNCHANGED <<pending, consumed, issued, grants, notices>>
      BY <1>3, <2>2 DEF LoginLine, OnLoginCoordinatorRegistered, OnLoginCoordinatorDisconnected,
         OnAuthenticated, OnWorldSelectRequest, OnCharacterListRequest, tickets, history
    <3> QED
      BY <3>1, UntouchedStutters
  <2> QED
    BY <2>1, <2>2
<1>4. CASE WorldHandler
  <2>1. CASE ConsumeIssuedWorldTicket
    BY <2>1, ConsumeGrants
  <2>2. ASSUME NEW sent \in BOOLEAN, RelayWorldEnterSuccess(sent) PROVE [Authority!Next]_(Authority!vars)
    BY <2>2, RelayNotices
  <2>3. CASE TryMatchConsumedWorldEnterSuccessNotify
    BY <2>3, UntouchedStutters DEF TryMatchConsumedWorldEnterSuccessNotify, tickets, history
  <2>4. CASE EraseClosedTickets
    <3>1. ErasePendingWorldTicketsForServer({strand.world}) /\ UNCHANGED <<issued, grants, notices>>
      BY <2>4 DEF EraseClosedTickets, ErasePendingWorldTicketsForServer, history
    <3> QED
      BY <1>1, <3>1, EraseFades, FadingIsVoid
  <2> QED
    BY <1>4, <2>1, <2>2, <2>3, <2>4 DEF WorldHandler
<1>5. ASSUME NEW u \in Token, TicketAges(u) PROVE [Authority!Next]_(Authority!vars)
  BY <1>1, <1>5, AgingFades, FadingIsVoid DEF TicketAges, history
<1>6. CASE ExpirePendingWorldTickets
  <2>1. \A t \in Token : Fades(t)
    BY <1>1, <1>6 DEF ExpirePendingWorldTickets, Fresh, Fades
  <2> QED
    BY <1>6, <2>1, FadingIsVoid DEF ExpirePendingWorldTickets, history
<1>7. CASE EraseStaleTickets
  <2>1. ErasePendingWorldTicketsForServer(erasing) /\ UNCHANGED <<issued, grants, notices>>
    BY <1>7 DEF EraseStaleTickets, ErasePendingWorldTicketsForServer, history
  <2> QED
    BY <1>1, <2>1, EraseFades, FadingIsVoid
<1>8. CASE ExpireStaleWorldRoutes
  BY <1>8, UntouchedStutters DEF ExpireStaleWorldRoutes, tickets, history
<1>9. CASE UNCHANGED vars
  BY <1>9, UntouchedStutters DEF vars, tickets, history
<1> QED
  BY <1>2, <1>3, <1>4, <1>5, <1>6, <1>7, <1>8, <1>9 DEF Next

\* Whatever the order of requests, retries, expiries and departures, a ticket
\* is granted at most once, to the claim it was issued for, and its enter is
\* reported to the login server at most once, after that.
THEOREM TicketsImplement == Spec => ImplementsAuthority
<1>1. Init => Authority!Init
  BY DEF Init, Authority!Init, Phase, Holder
<1>2. TicketInv /\ TypeOK' /\ [Next]_vars => [Authority!Next]_(Authority!vars)
  BY StepImplements
<1> QED
  BY <1>1, <1>2, TicketInvHolds, TypeCorrect, PTL DEF Spec, ImplementsAuthority, Authority!Spec

-----------------------------------------------------------------------------
(* What the authority promises of one ticket, read off the account server.   *)

\* A ticket was granted to nobody or to one claim, which the login server was told
\* of at most once; while it is consumed it is the holder's.
Promised(t) ==
    /\ grants[t] = <<>> \/ \E c \in Claim : grants[t] = <<c>>
    /\ notices[t] = 0 \/ (notices[t] = 1 /\ grants[t] # <<>>)
    /\ Phase[t] = "Issued" => Holder[t] \in Claim
    /\ Phase[t] = "Granted" => grants[t] = <<Holder[t]>>

\* The holder of an issued ticket is the claim it was issued for.
LEMMA HolderIsClaim ==
    ASSUME TypeOK
    PROVE  \A t \in Token : Phase[t] = "Issued" => Holder[t] \in Claim
BY MappingAt, Fields DEF TypeOK

\* A step of the authority keeps its promise of every ticket.
LEMMA PromiseNext ==
    ASSUME \A t \in Token : Promised(t), TypeOK, TypeOK', [Authority!Next]_(Authority!vars)
    PROVE  \A t \in Token : Promised(t)'
<1> SUFFICES ASSUME NEW t \in Token PROVE Promised(t)'
  OBVIOUS
<1>0. Phase'[t] = "Issued" => Holder'[t] \in Claim
  BY HolderIsClaim, MappingAtNext, Fields DEF TypeOK
<1>1. /\ grants \in [Token -> Seq(Claim)] /\ notices \in [Token -> Nat]
      /\ Phase = [u \in Token |-> Phase[u]] /\ Holder = [u \in Token |-> Holder[u]]
  BY MappingDomain DEF TypeOK
<1>2. ASSUME NEW u \in Token, NEW c \in Claim, Authority!Issue(u, c) PROVE Promised(t)'
  <2>1. /\ Phase' = [Phase EXCEPT ![u] = "Issued"] /\ Holder' = [Holder EXCEPT ![u] = c]
        /\ UNCHANGED <<grants, notices>>
    BY <1>2 DEF Authority!Issue
  <2>2. Phase'[t] = "Granted" => Phase[t] = "Granted" /\ Holder'[t] = Holder[t]
    BY <1>1, <2>1
  <2> QED
    BY <1>0, <2>1, <2>2 DEF Promised
<1>3. ASSUME NEW u \in Token, Authority!Grant(u) PROVE Promised(t)'
  <2>1. /\ Phase[u] = "Issued" /\ grants' = [grants EXCEPT ![u] = <<Holder[u]>>] /\ grants[u] = <<>>
        /\ Phase' = [Phase EXCEPT ![u] = "Granted"] /\ UNCHANGED <<Holder, notices>>
    BY <1>3 DEF Authority!Grant
  <2>2. CASE t = u
    <3>1. Holder[u] \in Claim /\ grants'[u] = <<Holder[u]>> /\ Holder'[u] = Holder[u]
      BY <1>1, <2>1 DEF Promised
    <3>2. notices[u] = 0
      BY <2>1 DEF Promised
    <3> QED
      BY <1>0, <2>1, <2>2, <3>1, <3>2 DEF Promised
  <2>3. CASE t # u
    BY <1>0, <1>1, <2>1, <2>3 DEF Promised
  <2> QED
    BY <2>2, <2>3
<1>4. ASSUME NEW u \in Token, Authority!Notice(u) PROVE Promised(t)'
  <2>1. /\ grants[u] # <<>> /\ notices' = [notices EXCEPT ![u] = 1] /\ grants' = grants
        /\ Phase' = [Phase EXCEPT ![u] = "Done"] /\ Holder' = [Holder EXCEPT ![u] = None]
    BY <1>4 DEF Authority!Notice
  <2>2. CASE t = u
    <3>1. Phase'[u] = "Done" /\ notices'[u] = 1
      BY <1>1, <2>1
    <3> QED
      BY <2>1, <2>2, <3>1 DEF Promised
  <2>3. CASE t # u
    BY <1>0, <1>1, <2>1, <2>3 DEF Promised
  <2> QED
    BY <2>2, <2>3
<1>5. ASSUME NEW T \in SUBSET Token, Authority!Void(T) PROVE Promised(t)'
  <2>1. /\ Phase'[t] = IF t \in T THEN "Done" ELSE Phase[t]
        /\ Holder'[t] = IF t \in T THEN None ELSE Holder[t]
        /\ UNCHANGED <<grants, notices>>
    BY <1>5 DEF Authority!Void
  <2> QED
    BY <1>0, <2>1 DEF Promised
<1>6. CASE UNCHANGED Authority!vars
  BY <1>6 DEF Authority!vars, Promised
<1> QED
  BY <1>2, <1>3, <1>4, <1>5, <1>6 DEF Authority!Next

\* OnWorldTicketConsumeRequest answers Ok at most once for a token, whatever a
\* world server retries, and a ticket in consumed_world_enters_awaiting_notify_
\* was granted to the claim it carries; the login server is told of an enter at
\* most once and only of a granted one.  The facts are the authority's, carried
\* over by the refinement.
THEOREM GrantedOnce ==
    Spec => [](\A t \in Token :
                   /\ Len(grants[t]) <= 1
                   /\ notices[t] <= Len(grants[t])
                   /\ consumed[t] # None => grants[t] = <<consumed[t].claim>>)
<1> DEFINE Once == \A t \in Token : /\ Len(grants[t]) <= 1
                                    /\ notices[t] <= Len(grants[t])
                                    /\ consumed[t] # None => grants[t] = <<consumed[t].claim>>
           Kept == \A t \in Token : Promised(t)
<1>1. Init => Kept
  BY DEF Init, Promised, Phase
<1>2. TicketInv /\ TypeOK /\ TypeOK' /\ Kept /\ [Next]_vars => Kept'
  BY StepImplements, PromiseNext
<1>3. ASSUME TicketInv, Kept PROVE Once
  <2> SUFFICES ASSUME NEW t \in Token
               PROVE  /\ Len(grants[t]) <= 1
                      /\ notices[t] <= Len(grants[t])
                      /\ consumed[t] # None => grants[t] = <<consumed[t].claim>>
    OBVIOUS
  <2>1. /\ grants[t] = <<>> \/ \E c \in Claim : grants[t] = <<c>>
        /\ notices[t] = 0 \/ (notices[t] = 1 /\ grants[t] # <<>>)
        /\ Phase[t] = "Granted" => grants[t] = <<Holder[t]>>
    BY <1>3 DEF Promised
  <2>2. consumed[t] # None => Phase[t] = "Granted" /\ Holder[t] = consumed[t].claim
    BY <1>3, MappingAt DEF TicketInv, TokenFacts
  <2>3. grants[t] # <<>> => Len(grants[t]) = 1
    <3> SUFFICES ASSUME grants[t] # <<>> PROVE Len(grants[t]) = 1
      OBVIOUS
    <3>1. PICK c \in Claim : grants[t] = <<c>>
      BY <2>1
    <3> QED
      BY <3>1
  <2>4. grants[t] = <<>> => Len(grants[t]) = 0
    OBVIOUS
  <2>5. Len(grants[t]) <= 1 /\ notices[t] <= Len(grants[t])
    <3>1. CASE grants[t] = <<>>
      <4>1. Len(grants[t]) = 0 /\ notices[t] = 0
        BY <2>1, <2>4, <3>1
      <4> QED
        BY <4>1
    <3>2. CASE grants[t] # <<>>
      <4>1. Len(grants[t]) = 1 /\ notices[t] \in {0, 1}
        BY <2>1, <2>3, <3>2
      <4> QED
        BY <4>1
    <3> QED
      BY <3>1, <3>2
  <2> QED
    BY <2>1, <2>2, <2>5
<1> HIDE DEF Once, Kept
<1>4. Spec => []Once
  BY <1>1, <1>2, <1>3, TicketInvHolds, TypeCorrect, PTL DEF Spec
<1> QED
  BY <1>4 DEF Once

\* A ticket that was used, that expired or that went with its world never comes
\* back: no step puts the token of an issued ticket into pending_world_upserts_
\* again, nor into consumed_world_enters_awaiting_notify_ once it has left both.
THEOREM SpentForever ==
    Spec => [][\A t \in issued : pending[t] = None =>
                   /\ pending'[t] = None
                   /\ consumed[t] = None => consumed'[t] = None]_vars
<1> DEFINE Spent == \A t \in issued : pending[t] = None =>
                        /\ pending'[t] = None
                        /\ consumed[t] = None => consumed'[t] = None
<1>1. ASSUME TicketInv, TypeOK, TypeOK', [Next]_vars PROVE Spent
  <2> SUFFICES ASSUME NEW t \in issued, pending[t] = None
               PROVE  pending'[t] = None /\ (consumed[t] = None => consumed'[t] = None)
    OBVIOUS
  <2>1. t \in Token /\ Phase[t] = IF consumed[t] # None THEN "Granted" ELSE "Done"
    BY <1>1, MappingAt DEF TypeOK
  <2>2. [Authority!Next]_(Authority!vars)
    BY <1>1, StepImplements
  <2>3. Phase'[t] = Phase[t] \/ Phase'[t] = "Done"
    <3>0. Phase = [u \in Token |-> Phase[u]]
      BY MappingDomain
    <3>1. ASSUME NEW u \in Token, NEW c \in Claim, Authority!Issue(u, c) PROVE Phase'[t] = Phase[t]
      BY <2>1, <3>0, <3>1 DEF Authority!Issue
    <3>2. ASSUME NEW u \in Token, Authority!Grant(u) PROVE Phase'[t] = Phase[t]
      BY <2>1, <3>0, <3>2 DEF Authority!Grant
    <3>3. ASSUME NEW u \in Token, Authority!Notice(u) PROVE Phase'[t] = Phase[t] \/ Phase'[t] = "Done"
      BY <2>1, <3>0, <3>3 DEF Authority!Notice
    <3>4. ASSUME NEW T \in SUBSET Token, Authority!Void(T)
          PROVE  Phase'[t] = Phase[t] \/ Phase'[t] = "Done"
      BY <2>1, <3>4 DEF Authority!Void
    <3>5. CASE UNCHANGED Authority!vars
      BY <3>5 DEF Authority!vars
    <3> QED
      BY <2>2, <3>1, <3>2, <3>3, <3>4, <3>5 DEF Authority!Next
  <2>4. pending'[t] # None => Phase'[t] = "Issued"
    BY <2>1, MappingAtNext
  <2>5. pending'[t] = None /\ consumed'[t] # None => Phase'[t] = "Granted"
    BY <2>1, MappingAtNext
  <2> QED
    BY <2>1, <2>3, <2>4, <2>5
<1> HIDE DEF Spent
<1>2. TicketInv /\ TypeOK /\ TypeOK' /\ [Next]_vars => Spent
  BY <1>1
<1>3. Spec => [][Spent]_vars
  BY <1>2, TicketInvHolds, TypeCorrect, PTL DEF Spec
<1> QED
  BY <1>3 DEF Spent

-----------------------------------------------------------------------------
(* Whose ticket it is. *)

\* A claim names a login session of S that is authenticated, and its account.
Own(S, c) == S[c.session] # None /\ c.account = AccountOf[c.session]

\* A ticket is for such a claim, with a character of that account.
Genuine(S, x) == Own(S, x.claim) /\ x.char.account = x.claim.account

\* The characters a session may pick from, its tickets and the grants.
CachedGenuine ==
    \A l \in LoginSession : sessions[l] # None => \A c \in sessions[l].cached : c.account = AccountOf[l]

TicketsGenuine ==
    \A t \in Token : /\ pending[t] # None => Genuine(sessions, pending[t])
                     /\ consumed[t] # None => Genuine(sessions, consumed[t])
                     /\ \A i \in DOMAIN grants[t] : Own(sessions, grants[t][i])

\* A ticket in the next state is one that was there, aged perhaps.
SameTicket(x, y) == x # None /\ y.claim = x.claim /\ y.char = x.char

\* Sessions that are authenticated stay so, and no ticket is new.
LEMMA GenuineKept ==
    ASSUME TypeOK, TicketsGenuine, grants' = grants,
           \A l \in LoginSession : sessions[l] # None => sessions'[l] # None,
           \A t \in Token : /\ pending'[t] = None \/ SameTicket(pending[t], pending'[t])
                            /\ consumed'[t] = None \/ SameTicket(consumed[t], consumed'[t])
    PROVE  TicketsGenuine'
<1>1. \A c \in Claim : Own(sessions, c) => Own(sessions', c)
  BY DEF Own, Claim
<1> SUFFICES ASSUME NEW t \in Token
             PROVE  /\ pending'[t] # None => Genuine(sessions', pending'[t])
                    /\ consumed'[t] # None => Genuine(sessions', consumed'[t])
                    /\ \A i \in DOMAIN grants'[t] : Own(sessions', grants'[t][i])
  BY DEF TicketsGenuine
<1>2. /\ pending[t] # None => pending[t].claim \in Claim
      /\ consumed[t] # None => consumed[t].claim \in Claim
  BY Fields DEF TypeOK
<1>3. pending'[t] # None => Genuine(sessions', pending'[t])
  BY <1>1, <1>2 DEF TicketsGenuine, Genuine, SameTicket
<1>4. consumed'[t] # None => Genuine(sessions', consumed'[t])
  BY <1>1, <1>2 DEF TicketsGenuine, Genuine, SameTicket
<1>5. \A i \in DOMAIN grants[t] : grants[t][i] \in Claim
  BY DEF TypeOK
<1> QED
  BY <1>1, <1>3, <1>4, <1>5 DEF TicketsGenuine

\* Steps that touch neither sessions nor grants.
LEMMA FadingGenuine ==
    ASSUME TypeOK, CachedGenuine, TicketsGenuine, UNCHANGED <<sessions, grants>>,
           \A t \in Token : /\ pending'[t] = None \/ SameTicket(pending[t], pending'[t])
                            /\ consumed'[t] = None \/ SameTicket(consumed[t], consumed'[t])
    PROVE  CachedGenuine' /\ TicketsGenuine'
<1>1. CachedGenuine'
  BY DEF CachedGenuine
<1> QED
  BY <1>1, GenuineKept

\* Steps that touch sessions only: they authenticate, select a world or cache the
\* characters of the session's own account.
LEMMA SessionGenuine ==
    ASSUME TypeOK, CachedGenuine, TicketsGenuine, UNCHANGED <<pending, consumed, grants>>,
           NEW l \in LoginSession, NEW y \in Picked, sessions' = [sessions EXCEPT ![l] = y],
           \A c \in y.cached : c.account = AccountOf[l]
    PROVE  CachedGenuine' /\ TicketsGenuine'
<1>0. y # None /\ \A k \in LoginSession : sessions'[k] = IF k = l THEN y ELSE sessions[k]
  BY NoneDistinct DEF TypeOK
<1>1. CachedGenuine'
  BY <1>0 DEF CachedGenuine
<1>2. \A k \in LoginSession : sessions[k] # None => sessions'[k] # None
  BY <1>0
<1>3. \A t \in Token : /\ pending'[t] = None \/ SameTicket(pending[t], pending'[t])
                       /\ consumed'[t] = None \/ SameTicket(consumed[t], consumed'[t])
  BY DEF SameTicket
<1> QED
  BY <1>1, <1>2, <1>3, GenuineKept

LEMMA WorldLineGenuine ==
    ASSUME TypeOK, CachedGenuine, TicketsGenuine, NEW s \in Sid, WorldLine(s)
    PROVE  CachedGenuine' /\ TicketsGenuine'
<1>1. UNCHANGED <<pending, consumed, grants>>
  BY DEF WorldLine, WorldConnect, On_world_server_hello, OnWorldReadyNotify,
     OnWorldRouteHeartbeat, OnWorldCharacterListResponse, Silence, OnWorldRouteDisconnected,
     OnWorldTicketConsumeRequest, OnWorldEnterSuccessNotify, ShowsToken, tickets, history
<1>2. \A t \in Token : /\ pending'[t] = None \/ SameTicket(pending[t], pending'[t])
                       /\ consumed'[t] = None \/ SameTicket(consumed[t], consumed'[t])
  BY <1>1 DEF SameTicket
<1>3. CASE sessions' = sessions
  BY <1>1, <1>2, <1>3, FadingGenuine
<1>4. ASSUME NEW ok \in BOOLEAN, OnWorldCharacterListResponse(s, ok), sessions' # sessions
      PROVE  CachedGenuine' /\ TicketsGenuine'
  <2>1. PICK q \in asked :
            /\ Registered(s) /\ Accepts(s, q.session)
            /\ sessions' = [sessions EXCEPT ![q.session].cached =
                  IF ok THEN {[world |-> conn[s].world, account |-> AccountOf[q.session]]} ELSE {}]
    BY <1>4 DEF OnWorldCharacterListResponse
  <2> DEFINE l == q.session
             C == IF ok THEN {[world |-> conn[s].world, account |-> AccountOf[l]]} ELSE {}
             y == [sessions[l] EXCEPT !.cached = C]
  <2>2. l \in LoginSession /\ sessions[l] \in Picked /\ conn[s] \in Conn /\ conn[s].world \in World
    BY <2>1, Fields DEF TypeOK, Asked, Accepts, Registered
  <2>3. C \subseteq Char /\ \A c \in C : c.account = AccountOf[l]
    BY <2>2, SessionAssumption DEF Char
  <2>4. sessions' = [sessions EXCEPT ![l] = y]
    BY <2>1, <2>2 DEF TypeOK
  <2> HIDE DEF C
  <2>5. y \in Picked /\ y.cached = C
    BY <2>2, <2>3 DEF Picked
  <2> HIDE DEF y, l
  <2> QED
    BY <1>1, <2>2, <2>3, <2>4, <2>5, SessionGenuine
<1>5. sessions' = sessions \/ \E ok \in BOOLEAN : OnWorldCharacterListResponse(s, ok)
  BY DEF WorldLine, WorldConnect, On_world_server_hello, OnWorldReadyNotify,
     OnWorldRouteHeartbeat, Silence, OnWorldRouteDisconnected,
     OnWorldTicketConsumeRequest, OnWorldEnterSuccessNotify, ShowsToken
<1> QED
  BY <1>3, <1>4, <1>5

LEMMA LoginLineGenuine ==
    ASSUME TypeOK, CachedGenuine, TicketsGenuine, LoginLine
    PROVE  CachedGenuine' /\ TicketsGenuine'
<1>1. CASE \/ \E k \in Coordinator : OnLoginCoordinatorRegistered(k) \/ OnLoginCoordinatorDisconnected(k)
           \/ \E l \in LoginSession : OnCharacterListRequest(l)
  <2>1. UNCHANGED <<sessions, pending, consumed, grants>>
    BY <1>1 DEF OnLoginCoordinatorRegistered, OnLoginCoordinatorDisconnected, OnCharacterListRequest,
       tickets, history
  <2> QED
    BY <2>1, FadingGenuine DEF SameTicket
<1>2. ASSUME NEW l \in LoginSession, OnAuthenticated(l) PROVE CachedGenuine' /\ TicketsGenuine'
  <2> DEFINE y == [world |-> None, cached |-> {}]
  <2>1. y \in Picked /\ y.cached = {} /\ sessions' = [sessions EXCEPT ![l] = y]
        /\ UNCHANGED <<pending, consumed, grants>>
    BY <1>2 DEF OnAuthenticated, Picked, tickets, history
  <2> HIDE DEF y
  <2> QED
    BY <2>1, SessionGenuine
<1>3. ASSUME NEW l \in LoginSession, NEW w \in World, OnWorldSelectRequest(l, w)
      PROVE  CachedGenuine' /\ TicketsGenuine'
  <2> DEFINE y == [sessions[l] EXCEPT !.world = w]
  <2>1. sessions[l] \in Picked /\ UNCHANGED <<pending, consumed, grants>>
    BY <1>3 DEF OnWorldSelectRequest, TypeOK, tickets, history
  <2>2. y \in Picked /\ y.cached = sessions[l].cached /\ sessions' = [sessions EXCEPT ![l] = y]
    BY <1>3, <2>1 DEF OnWorldSelectRequest, Picked, TypeOK
  <2>3. \A c \in y.cached : c.account = AccountOf[l]
    BY <2>1, <2>2, NoneDistinct DEF CachedGenuine
  <2> HIDE DEF y
  <2> QED
    BY <2>1, <2>2, <2>3, SessionGenuine
<1>4. ASSUME NEW l \in LoginSession, NEW c \in Char, NEW u \in Token, OnCharacterSelectRequest(l, c, u)
      PROVE  CachedGenuine' /\ TicketsGenuine'
  <2> DEFINE x == [claim |-> [session |-> l, account |-> AccountOf[l], world |-> sessions[l].world],
                   char |-> c, old |-> FALSE]
  <2>1. /\ sessions[l] # None /\ c \in sessions[l].cached
        /\ pending' = [pending EXCEPT ![u] = x] /\ UNCHANGED <<sessions, consumed, grants>>
    BY <1>4 DEF OnCharacterSelectRequest, history
  <2>2. x.claim.session = l /\ x.claim.account = AccountOf[l] /\ x.char = c
    OBVIOUS
  <2>3. c.account = AccountOf[l]
    BY <2>1 DEF CachedGenuine
  <2> HIDE DEF x
  <2>4. CachedGenuine'
    BY <2>1 DEF CachedGenuine
  <2>5. Genuine(sessions', x)
    BY <2>1, <2>2, <2>3 DEF Genuine, Own
  <2>6. \A z : (Genuine(sessions, z) => Genuine(sessions', z)) /\ (Own(sessions, z) => Own(sessions', z))
    BY <2>1 DEF Genuine, Own
  <2>7. \A t \in Token : pending'[t] = IF t = u THEN x ELSE pending[t]
    BY <2>1 DEF TypeOK
  <2>8. TicketsGenuine'
    BY <2>1, <2>5, <2>6, <2>7 DEF TicketsGenuine
  <2> QED
    BY <2>4, <2>8
<1> QED
  BY <1>1, <1>2, <1>3, <1>4 DEF LoginLine

LEMMA WorldHandlerGenuine ==
    ASSUME TypeOK, CachedGenuine, TicketsGenuine, WorldHandler
    PROVE  CachedGenuine' /\ TicketsGenuine'
<1>1. CASE EraseClosedTickets
  <2>1. UNCHANGED <<sessions, grants>> /\ ErasePendingWorldTicketsForServer({strand.world})
    BY <1>1 DEF EraseClosedTickets, history
  <2> QED
    BY <2>1, EraseFades, FadingGenuine DEF SameTicket
<1>2. CASE TryMatchConsumedWorldEnterSuccessNotify
  BY <1>2, FadingGenuine DEF TryMatchConsumedWorldEnterSuccessNotify, tickets, history, SameTicket
<1>3. ASSUME NEW sent \in BOOLEAN, RelayWorldEnterSuccess(sent) PROVE CachedGenuine' /\ TicketsGenuine'
  BY <1>3, FadingGenuine DEF RelayWorldEnterSuccess, SameTicket, TypeOK
<1>4. CASE ConsumeIssuedWorldTicket
  <2> DEFINE u == strand.token
  <2>1. u \in Token /\ sessions' = sessions /\ strand \in Step
    BY <1>4, Fields DEF TypeOK, ConsumeIssuedWorldTicket, AtStep
  <2>2. CASE ~(Matches(pending[u]) /\ ~pending[u].old)
    <3>1. /\ pending' = [pending EXCEPT ![u] = IF @ # None /\ @.old THEN None ELSE @]
          /\ UNCHANGED <<consumed, grants>>
      BY <1>4, <2>2 DEF ConsumeIssuedWorldTicket
    <3> QED
      BY <2>1, <3>1, FadingGenuine DEF SameTicket, TypeOK
  <2>3. CASE Matches(pending[u]) /\ ~pending[u].old
    <3> DEFINE y == [pending[u] EXCEPT !.old = FALSE]
    <3>1. /\ grants' = [grants EXCEPT ![u] = Append(grants[u], strand.claim)]
          /\ consumed' = [consumed EXCEPT ![u] = y]
          /\ pending' = [pending EXCEPT ![u] = None]
      BY <1>4, <2>3 DEF ConsumeIssuedWorldTicket, MoveToConsumed
    <3>2. pending[u] \in Ticket /\ pending[u].claim = strand.claim /\ pending[u] # None
      BY <2>1, <2>3 DEF TypeOK, Matches
    <3>3. y.claim = pending[u].claim /\ y.char = pending[u].char
      BY <3>2 DEF Ticket
    <3> HIDE DEF y, u
    <3>4. Genuine(sessions, y) /\ Own(sessions, strand.claim)
      BY <2>1, <3>2, <3>3 DEF TicketsGenuine, Genuine
    <3>5. \A z : (Genuine(sessions, z) => Genuine(sessions', z)) /\ (Own(sessions, z) => Own(sessions', z))
      BY <2>1 DEF Genuine, Own
    <3>6. CachedGenuine'
      BY <2>1 DEF CachedGenuine
    <3>7. \A t \in Token : pending'[t] # None => Genuine(sessions', pending'[t])
      BY <2>1, <3>1, <3>5 DEF TicketsGenuine, TypeOK
    <3>8. \A t \in Token : consumed'[t] # None => Genuine(sessions', consumed'[t])
      BY <2>1, <3>1, <3>4, <3>5 DEF TicketsGenuine, TypeOK
    <3>9. ASSUME NEW t \in Token, NEW i \in DOMAIN grants'[t] PROVE Own(sessions', grants'[t][i])
      <4>1. CASE t # u
        <5>1. grants'[t] = grants[t]
          BY <3>1, <4>1 DEF TypeOK
        <5> QED
          BY <3>5, <3>9, <5>1 DEF TicketsGenuine
      <4>2. CASE t = u
        <5>1. grants[u] \in Seq(Claim) /\ grants'[u] = Append(grants[u], strand.claim) /\ strand.claim \in Claim
          BY <2>1, <3>1, Fields DEF TypeOK
        <5>2. i \in 1 .. Len(grants[u]) + 1
          BY <3>9, <4>2, <5>1
        <5>3. \/ i \in DOMAIN grants[u] /\ grants'[u][i] = grants[u][i]
              \/ grants'[u][i] = strand.claim
          BY <5>1, <5>2
        <5> QED
          BY <2>1, <3>4, <3>5, <4>2, <5>3 DEF TicketsGenuine
      <4> QED
        BY <4>1, <4>2
    <3> QED
      BY <3>6, <3>7, <3>8, <3>9 DEF TicketsGenuine
  <2> QED
    BY <2>2, <2>3
<1> QED
  BY <1>1, <1>2, <1>3, <1>4 DEF WorldHandler

LEMMA TickGenuine ==
    ASSUME TypeOK, CachedGenuine, TicketsGenuine,
           \/ \E t \in Token : TicketAges(t)
           \/ ExpirePendingWorldTickets \/ ExpireStaleWorldRoutes \/ EraseStaleTickets
    PROVE  CachedGenuine' /\ TicketsGenuine'
<1>1. UNCHANGED <<sessions, grants>>
  BY DEF TicketAges, ExpirePendingWorldTickets, ExpireStaleWorldRoutes, EraseStaleTickets, history
<1>2. ASSUME NEW u \in Token, TicketAges(u) PROVE CachedGenuine' /\ TicketsGenuine'
  <2>1. ASSUME NEW tab \in [Token -> Ticket \cup {None}], NEW t \in Token
        PROVE  Aged(tab, u)[t] = None \/ SameTicket(tab[t], Aged(tab, u)[t])
    BY DEF Aged, Ticket, SameTicket
  <2> QED
    BY <1>1, <1>2, <2>1, FadingGenuine DEF TicketAges, TypeOK
<1>3. CASE ExpirePendingWorldTickets
  BY <1>1, <1>3, FadingGenuine DEF ExpirePendingWorldTickets, Fresh, SameTicket
<1>4. CASE ExpireStaleWorldRoutes
  BY <1>1, <1>4, FadingGenuine DEF ExpireStaleWorldRoutes, tickets, SameTicket
<1>5. CASE EraseStaleTickets
  BY <1>1, <1>5, EraseFades, FadingGenuine DEF EraseStaleTickets, SameTicket
<1> QED
  BY <1>2, <1>3, <1>4, <1>5

\* OnCharacterSelectRequest and ConsumeIssuedWorldTicket_: every ticket, and every
\* Ok answer to a world server, is for a login session the database authenticated,
\* for the account it authenticated and with a character of that account, whatever
\* session and account the world servers name in their requests and whichever
\* world's character list came in last.
THEOREM TicketsAreGenuine == Spec => []TicketsGenuine
<1>1. Init => CachedGenuine /\ TicketsGenuine
  BY DEF Init, CachedGenuine, TicketsGenuine
<1>2. TypeOK /\ CachedGenuine /\ TicketsGenuine /\ [Next]_vars => CachedGenuine' /\ TicketsGenuine'
  <2>1. ASSUME TypeOK, CachedGenuine, TicketsGenuine, Next PROVE CachedGenuine' /\ TicketsGenuine'
    BY <2>1, WorldLineGenuine, WorldHandlerGenuine, LoginLineGenuine, TickGenuine DEF Next
  <2>2. ASSUME TypeOK, CachedGenuine, TicketsGenuine, UNCHANGED vars
        PROVE  CachedGenuine' /\ TicketsGenuine'
    BY <2>2, FadingGenuine DEF vars, tickets, history, SameTicket
  <2> QED
    BY <2>1, <2>2
<1> QED
  BY <1>1, <1>2, TypeCorrect, PTL DEF Spec
=============================================================================
