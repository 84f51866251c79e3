------------------------------ MODULE ZoneRoute ------------------------------
(***************************************************************************)
(* How the World server finds the zone process that hosts a map: the       *)
(* routes zone processes register, the map assignments it asks them for,   *)
(* and the enter-world flows and portal transfers that wait for an answer. *)
(*                                                                         *)
(* A zone connection's callbacks and packets are routed to one actor       *)
(* shard, so they run in the order of its slot's inbox.  An enter-world    *)
(* flow or a portal transfer runs on its character's shard, a route        *)
(* expires on the main thread.  Nothing but zone_routes_by_sid_ is locked, *)
(* so handlers of different threads interleave: a call of                  *)
(* AssignMapInstance is taken apart where it takes the lock, records its   *)
(* request, indexes and sends it, and records its caller.                  *)
(***************************************************************************)
EXTENDS Naturals, Sequences, FiniteSets

CONSTANTS
    Sid,          \* slots of the zone line's TcpServer
    Zone,         \* zone processes, by zone_server_id (one channel each)
    Map,          \* map keys: template and instance
    Player,
    None,         \* an absent map entry
    LogicalZone,  \* the zone id each process registers (topology logical_zone_id)
    GameplayZone, \* the zone id a zone answers with for a map: its template id
    Serves,       \* the maps each process serves (all, when there is no topology)
    MaxSerial,    \* bound: connections accepted on one slot
    MaxConnection,\* bound: connections accepted on all slots
    MaxRequest,   \* bound: map assign requests
    MaxAttempt    \* bound: enter-world attempts of one player

Serial == 1 .. MaxSerial
Key    == [sid : Sid, serial : Serial]

ASSUME TopologyAssumption == Serves \in [Zone -> SUBSET Map]
ASSUME BoundAssumption    == /\ MaxSerial \in Nat
                             /\ MaxConnection \in Nat
                             /\ MaxRequest \in Nat
                             /\ MaxAttempt \in Nat

VARIABLES
    serial,       \* serial of the last connection of a slot
    open,         \* is that connection still up, as the World server sees it
    conn,         \* the connection each zone process believes it has
    closing,      \* connections the World server has called close() on
    inbox,        \* what a slot's shard still has to handle, in order
    outbox,       \* requests under way to the zone at the other end
    routes,       \* zone_routes_by_sid_
    assignment,   \* map_assignments_: the zone process of each map
    assigns,      \* pending_zone_assign_requests_
    byMap,        \* pending_zone_assign_request_id_by_map_key_ (0: no entry)
    nextRequest,  \* next_zone_assign_request_id_
    finalize,     \* pending_enter_world_finalize_by_assign_request_
    portal,       \* pending_portal_transfer_by_assign_request_
    zoneEnter,    \* pending_zone_player_enter_requests_
    session,      \* the world session of each player, and its attempt
    call          \* the AssignMapInstance call each player's shard is in

line    == <<serial, open, conn, closing>>
wire    == <<inbox, outbox>>
table   == <<routes, assignment>>
asked   == <<assigns, byMap, nextRequest>>
waiting == <<finalize, portal, zoneEnter>>
clients == <<session, call>>
vars    == <<line, wire, table, asked, waiting, clients>>

Request == Nat \ {0}
Attempt == 0 .. MaxAttempt
State   == {"Out", "Entering", "InWorld", "Evicted"}

Route  == [serial : Serial, zone : Zone, stale : BOOLEAN]
Assign == [id : Request, map : Map, target : Key, zone : Zone]
Waiter == [id : Request, player : Player, n : Attempt]
Enter  == [player : Player, n : Attempt, target : Key \cup {None}, sent : Key]

\* What a zone sends (with the serial of its connection), and what it is sent.
Received == [kind : {"Hello"}, serial : Serial, zone : Zone]
              \cup [kind : {"Disconnect"}, serial : Serial]
              \cup [kind : {"AssignResponse"}, serial : Serial, id : Request, ok : BOOLEAN]
              \cup [kind : {"EnterAck"}, serial : Serial, player : Player, n : Attempt, ok : BOOLEAN]
Sent     == [kind : {"Assign"}, id : Request] \cup [kind : {"Enter"}, player : Player, n : Attempt]

\* A call has not looked yet, has selected a route, has recorded its request, or
\* holds the id of the request its player must wait for.
Call == [kind : {"Enter", "Portal"}, map : Map, step : {"Begin"}]
          \cup [kind : {"Enter", "Portal"}, map : Map, step : {"Selected"}, target : Key, zone : Zone]
          \cup [kind : {"Enter", "Portal"}, map : Map, step : {"Recorded"}, id : Request, target : Key]
          \cup [kind : {"Enter", "Portal"}, map : Map, step : {"Park"}, id : Request]

ASSUME NoneAssumption == None \notin Zone \cup Key \cup Route \cup Call

-----------------------------------------------------------------------------
(* Lookups. *)

KeyOf(s, n) == [sid |-> s, serial |-> n]
Live(k)     == open[k.sid] /\ serial[k.sid] = k.serial

\* IsEnterWorldSessionPending for the session an entry was made for.
Pending(e) == session[e.player] = [state |-> "Entering", n |-> e.n]

FindZoneRouteByZoneId(id)        == {s \in Sid : routes[s] # None /\ LogicalZone[routes[s].zone] = id}
FindZoneRouteByServerChannel(z)  == {s \in Sid : routes[s] # None /\ routes[s].zone = z}
TrySelectZoneRouteForMap(m)      == {s \in Sid : routes[s] # None /\ m \in Serves[routes[s].zone]}

\* The route of a map: that of the process it is assigned to, else one that
\* registered the map's zone id.
ResolveZoneRouteForMapInstance(a, m) ==
    IF a[m] # None /\ FindZoneRouteByServerChannel(a[m]) # {}
    THEN FindZoneRouteByServerChannel(a[m])
    ELSE FindZoneRouteByZoneId(GameplayZone[m])

\* The first route in the iteration order of zone_routes_by_sid_.
First(S) == IF S = {} THEN None
            ELSE LET s == CHOOSE t \in S : TRUE IN KeyOf(s, routes[s].serial)

-----------------------------------------------------------------------------
(* Transport: the zone processes and their connections. *)

\* A zone process without a connection opens one and says hello.
ZoneConnect(z, s) ==
    /\ conn[z] = None
    /\ ~open[s]
    /\ serial[s] < MaxSerial
    /\ Cardinality({k \in Key : k.serial <= serial[k.sid]}) < MaxConnection
    /\ serial' = [serial EXCEPT ![s] = @ + 1]
    /\ open' = [open EXCEPT ![s] = TRUE]
    /\ conn' = [conn EXCEPT ![z] = KeyOf(s, serial[s] + 1)]
    /\ inbox' = [inbox EXCEPT ![s] =
                    Append(@, [kind |-> "Hello", serial |-> serial[s] + 1, zone |-> z])]
    /\ UNCHANGED <<closing, outbox, table, asked, waiting, clients>>

\* A zone process loses its connection before the World server notices.
ZoneLost(z) ==
    /\ conn[z] # None
    /\ conn' = [conn EXCEPT ![z] = None]
    /\ UNCHANGED <<serial, open, closing, wire, table, asked, waiting, clients>>

\* The World server's end of a connection goes down.
SocketClose(s) ==
    LET k == KeyOf(s, serial[s])
    IN  /\ open[s]
        /\ open' = [open EXCEPT ![s] = FALSE]
        /\ conn' = [z \in Zone |-> IF conn[z] = k THEN None ELSE conn[z]]
        /\ closing' = closing \ {k}
        /\ inbox' = [inbox EXCEPT ![s] =
                        Append(@, [kind |-> "Disconnect", serial |-> serial[s]])]
        /\ outbox' = [outbox EXCEPT ![s] = {}]
        /\ UNCHANGED <<serial, table, asked, waiting, clients>>

\* The zone process at the other end answers a request, accepting it or not.
Answer(x, n, ok) ==
    IF x.kind = "Assign"
    THEN [kind |-> "AssignResponse", serial |-> n, id |-> x.id, ok |-> ok]
    ELSE [kind |-> "EnterAck", serial |-> n, player |-> x.player, n |-> x.n, ok |-> ok]

ZoneAnswer(s, ok) ==
    /\ open[s]
    /\ \E z \in Zone : conn[z] = KeyOf(s, serial[s])
    /\ \E x \in outbox[s] :
         /\ outbox' = [outbox EXCEPT ![s] = @ \ {x}]
         /\ inbox' = [inbox EXCEPT ![s] = Append(@, Answer(x, serial[s], ok))]
    /\ UNCHANGED <<line, table, asked, waiting, clients>>

\* The next event of slot s is of this kind, and its shard runs the handler.
Handles(s, kind) ==
    /\ inbox[s] # <<>>
    /\ Head(inbox[s]).kind = kind
    /\ inbox' = [inbox EXCEPT ![s] = Tail(@)]

-----------------------------------------------------------------------------
(* Ending what waits. *)

\* RollbackBoundEnterWorld_ and FailPendingEnterWorldConsumeRequest_: the
\* sessions of these entries that are still entering are unbound.
Rollback(E) ==
    [p \in Player |->
        IF \E e \in E : e.player = p /\ Pending(e)
        THEN [session[p] EXCEPT !.state = "Out"] ELSE session[p]]

\* What the loss of the routes of the slots in S takes away.
LostAssignments(S) == {m \in Map : \E s \in S : assignment[m] = routes[s].zone}
LostAssigns(S)     == {r \in assigns : r.target.sid \in S}
LostEnters(S)      == {r \in zoneEnter : r.target # None /\ r.target.sid \in S}
LostWaiters(S)     == {f \in finalize : \E r \in LostAssigns(S) : r.id = f.id}
LostPortals(S)     == {f \in portal : \E r \in LostAssigns(S) : r.id = f.id}

\* The index by map without the requests of R.
Unindexed(R) == [m \in Map |-> IF \E r \in R : r.map = m THEN 0 ELSE byMap[m]]

\* The routes of S go, then the enters T and the transfers U time out.
Drop(S, T, U) ==
    /\ routes' = [s \in Sid |-> IF s \in S THEN None ELSE routes[s]]
    /\ assignment' = [m \in Map |-> IF m \in LostAssignments(S) THEN None ELSE assignment[m]]
    /\ assigns' = assigns \ LostAssigns(S)
    /\ byMap' = Unindexed(LostAssigns(S))
    /\ finalize' = finalize \ LostWaiters(S)
    /\ portal' = portal \ (LostPortals(S) \cup U)
    /\ zoneEnter' = zoneEnter \ (LostEnters(S) \cup T)
    /\ session' = Rollback(LostWaiters(S) \cup LostEnters(S) \cup T)
    /\ UNCHANGED <<nextRequest, call>>

-----------------------------------------------------------------------------
(* Zone routes. *)

RegisterZoneRoute(s) ==
    LET x == Head(inbox[s])
    IN  /\ Handles(s, "Hello")
        /\ routes' = [routes EXCEPT ![s] =
                         [serial |-> x.serial, zone |-> x.zone, stale |-> FALSE]]
        /\ UNCHANGED <<line, outbox, assignment, asked, waiting, clients>>

\* No heartbeat for k_ExpireStaleZoneRoutes.
Silence(s) ==
    /\ routes[s] # None
    /\ ~routes[s].stale
    /\ routes' = [routes EXCEPT ![s].stale = TRUE]
    /\ UNCHANGED <<line, wire, assignment, asked, waiting, clients>>

OnZoneRouteHeartbeat(s) ==
    /\ routes[s] # None
    /\ routes[s].stale
    /\ conn[routes[s].zone] = KeyOf(s, routes[s].serial)
    /\ routes' = [routes EXCEPT ![s].stale = FALSE]
    /\ UNCHANGED <<line, wire, assignment, asked, waiting, clients>>

\* Mutant: the route of a connection that is gone is left to the expiry.
LeaveToExpiry(s) ==
    /\ Handles(s, "Disconnect")
    /\ UNCHANGED <<line, outbox, table, asked, waiting, clients>>

UnregisterZoneRoute(s) ==
    /\ Handles(s, "Disconnect")
    /\ IF routes[s] # None /\ routes[s].serial = Head(inbox[s]).serial
       THEN Drop({s}, {}, {})
       ELSE UNCHANGED <<table, asked, waiting, clients>>
    /\ UNCHANGED <<line, outbox>>

Stale == {s \in Sid : routes[s] # None /\ routes[s].stale}

\* Mutant: an expired route's connection is left open.
ExpireWithoutClose(S, T, U) ==
    /\ S # {} \/ T # {} \/ U # {}
    /\ S \subseteq Stale
    /\ Drop(S, T, U)
    /\ UNCHANGED <<line, wire>>

\* Mutant: an enter waits for its answer only.
EnterNeverTimesOut(S, T, U) ==
    /\ S # {} \/ T # {} \/ U # {}
    /\ S \subseteq Stale
    /\ Drop(S, {}, U)
    /\ closing' = closing \cup {k \in Key : k.sid \in S /\ routes[k.sid].serial = k.serial /\ Live(k)}
    /\ UNCHANGED <<serial, open, conn, wire>>

\* One pass of the main loop: stale routes, then player enters and portal
\* transfers that waited too long; the stale connections are closed.
ExpireStaleZoneRoutes(S, T, U) ==
    /\ S # {} \/ T # {} \/ U # {}
    /\ S \subseteq Stale
    /\ Drop(S, T, U)
    /\ closing' = closing \cup {k \in Key : k.sid \in S /\ routes[k.sid].serial = k.serial /\ Live(k)}
    /\ UNCHANGED <<serial, open, conn, wire>>

-----------------------------------------------------------------------------
(* Assigning a map: AssignMapInstance and its two callers. *)

\* SendZonePlayerEnter_ to the route that hosts map m, waiting for the answer of
\* a route with the map's zone id; the entries of E whose send fails roll back.
FinalizeEnterWorldSuccess(E, a, m) ==
    LET target == First(FindZoneRouteByZoneId(GameplayZone[m]))
        sent   == First(ResolveZoneRouteForMapInstance(a, m))
    IN  IF sent # None /\ Live(sent)
        THEN /\ zoneEnter' = zoneEnter \cup
                    {[player |-> e.player, n |-> e.n, target |-> target, sent |-> sent] : e \in E}
             /\ outbox' = [outbox EXCEPT ![sent.sid] = @ \cup
                    {[kind |-> "Enter", player |-> e.player, n |-> e.n] : e \in E}]
             /\ UNCHANGED session
        ELSE /\ session' = Rollback(E)
             /\ UNCHANGED <<zoneEnter, outbox>>

\* The entry under which player p waits in its current session.
Entry(p) == [player |-> p, n |-> session[p].n]

At(p, step) == call[p] # None /\ call[p].step = step
Return(p)   == call' = [call EXCEPT ![p] = None]

\* The bound on requests: every call in progress may send one.
MayCall == nextRequest + Cardinality({p \in Player : call[p] # None}) <= MaxRequest

\* OnCharacterEnterSnapshotResult_ has bound the session and asks for the map.
EnterWorld(p, m) ==
    /\ call[p] = None
    /\ MayCall
    /\ session[p].state = "Out"
    /\ session[p].n < MaxAttempt
    /\ session' = [session EXCEPT ![p] = [state |-> "Entering", n |-> @.n + 1]]
    /\ call' = [call EXCEPT ![p] = [kind |-> "Enter", map |-> m, step |-> "Begin"]]
    /\ UNCHANGED <<line, wire, table, asked, waiting>>

\* HandleWorldMove has found a portal to another map under the player.
BeginPortalTransfer(p, m) ==
    /\ call[p] = None
    /\ MayCall
    /\ session[p].state = "InWorld"
    /\ call' = [call EXCEPT ![p] = [kind |-> "Portal", map |-> m, step |-> "Begin"]]
    /\ UNCHANGED <<line, wire, table, asked, waiting, session>>

\* AssignMapInstance finds the map assigned: the caller goes on at once.
AlreadyAssigned(p) ==
    /\ At(p, "Begin")
    /\ assignment[call[p].map] # None
    /\ Return(p)
    /\ IF call[p].kind = "Enter"
       THEN FinalizeEnterWorldSuccess({Entry(p)}, assignment, call[p].map)
       ELSE UNCHANGED <<zoneEnter, outbox, session>>
    /\ UNCHANGED <<line, inbox, table, asked, finalize, portal>>

\* It finds a request for the map under way: the caller will wait for that one.
AlreadyPending(p) ==
    LET m == call[p].map
    IN  /\ At(p, "Begin")
        /\ assignment[m] = None
        /\ byMap[m] # 0
        /\ call' = [call EXCEPT ![p] =
                       [kind |-> call[p].kind, map |-> m, step |-> "Park", id |-> byMap[m]]]
        /\ UNCHANGED <<line, wire, table, asked, waiting, session>>

\* Mutant: the caller forgets to roll the session back.
FailSilently(p) ==
    /\ Return(p)
    /\ UNCHANGED session

\* The caller is told that no zone could be asked.
Fail(p) ==
    /\ Return(p)
    /\ session' = IF call[p].kind = "Enter" THEN Rollback({Entry(p)}) ELSE session

NoZoneAvailable(p) ==
    /\ At(p, "Begin")
    /\ assignment[call[p].map] = None
    /\ byMap[call[p].map] = 0
    /\ TrySelectZoneRouteForMap(call[p].map) = {}
    /\ Fail(p)
    /\ UNCHANGED <<line, wire, table, asked, waiting>>

\* The least loaded route is selected under the lock.  The load is what the
\* zones report, so any candidate may be the one.
SelectZoneRoute(p) ==
    LET m == call[p].map
    IN  /\ At(p, "Begin")
        /\ assignment[m] = None
        /\ byMap[m] = 0
        /\ \E s \in TrySelectZoneRouteForMap(m) :
             call' = [call EXCEPT ![p] =
                         [kind |-> call[p].kind, map |-> m, step |-> "Selected",
                          target |-> KeyOf(s, routes[s].serial), zone |-> routes[s].zone]]
        /\ UNCHANGED <<line, wire, table, asked, waiting, session>>

\* The request is recorded under an id of its own.
RecordRequest(p) ==
    LET c == call[p]
    IN  /\ At(p, "Selected")
        /\ nextRequest' = nextRequest + 1
        /\ assigns' = assigns \cup
              {[id |-> nextRequest, map |-> c.map, target |-> c.target, zone |-> c.zone]}
        /\ call' = [call EXCEPT ![p] =
                       [kind |-> c.kind, map |-> c.map, step |-> "Recorded",
                        id |-> nextRequest, target |-> c.target]]
        /\ UNCHANGED <<line, wire, table, byMap, waiting, session>>

\* It is indexed by its map and sent; a failed send erases it again, and
\* whatever the index has for the map.
SendMapAssignRequest(p) ==
    LET c == call[p]
    IN  /\ At(p, "Recorded")
        /\ IF Live(c.target)
           THEN /\ byMap' = [byMap EXCEPT ![c.map] = c.id]
                /\ outbox' = [outbox EXCEPT ![c.target.sid] =
                                 @ \cup {[kind |-> "Assign", id |-> c.id]}]
                /\ call' = [call EXCEPT ![p] =
                               [kind |-> c.kind, map |-> c.map, step |-> "Park", id |-> c.id]]
                /\ UNCHANGED <<assigns, session>>
           ELSE /\ byMap' = [byMap EXCEPT ![c.map] = 0]
                /\ assigns' = {r \in assigns : r.id # c.id}
                /\ Fail(p)
                /\ UNCHANGED outbox
        /\ UNCHANGED <<line, inbox, table, nextRequest, waiting>>

\* The caller starts to wait.  Enters wait in a list, of portal transfers only
\* the last is kept.
Park(p) ==
    LET w == [id |-> call[p].id, player |-> p, n |-> session[p].n]
    IN  /\ At(p, "Park")
        /\ Return(p)
        /\ IF call[p].kind = "Enter"
           THEN /\ finalize' = finalize \cup {w}
                /\ UNCHANGED portal
           ELSE /\ portal' = {f \in portal : f.id # w.id} \cup {w}
                /\ UNCHANGED finalize
        /\ UNCHANGED <<line, wire, table, asked, zoneEnter, session>>

-----------------------------------------------------------------------------
(* Answers of the zones. *)

\* An answer counts if its request is pending at the connection it came from.
\* Completing or failing a portal transfer changes no state kept here.
OnZoneMapAssignResponse(s) ==
    LET x == Head(inbox[s])
        R == {r \in assigns : r.id = x.id /\ r.target = KeyOf(s, x.serial)}
    IN  /\ Handles(s, "AssignResponse")
        /\ IF R = {}
           THEN UNCHANGED <<outbox, assignment, asked, waiting, session>>
           ELSE \E r \in R :
                  LET W == {f \in finalize : f.id = r.id /\ Pending(f)}
                  IN  /\ assigns' = assigns \ {r}
                      /\ byMap' = Unindexed({r})
                      /\ finalize' = {f \in finalize : f.id # r.id}
                      /\ portal' = {f \in portal : f.id # r.id}
                      /\ UNCHANGED nextRequest
                      /\ IF x.ok
                         THEN /\ assignment' = [assignment EXCEPT ![r.map] = r.zone]
                              /\ FinalizeEnterWorldSuccess(W, assignment', r.map)
                         ELSE /\ session' = Rollback(W)
                              /\ UNCHANGED <<outbox, assignment, zoneEnter>>
        /\ UNCHANGED <<line, routes, call>>

\* An accepted session is in the world unless the Account server cannot be
\* notified, which rolls it back.
OnZonePlayerEnterAck(s) ==
    LET x == Head(inbox[s])
        R == {r \in zoneEnter : /\ r.player = x.player
                                /\ r.n = x.n
                                /\ r.target = KeyOf(s, x.serial)}
    IN  /\ Handles(s, "EnterAck")
        /\ zoneEnter' = zoneEnter \ R
        /\ \E st \in IF x.ok THEN {"InWorld", "Out"} ELSE {"Out"} :
             session' = [p \in Player |->
                            IF \E r \in R : r.player = p /\ Pending(r)
                            THEN [session[p] EXCEPT !.state = st] ELSE session[p]]
        /\ UNCHANGED <<line, outbox, table, asked, finalize, portal, call>>

-----------------------------------------------------------------------------
(* The clients' sessions, as far as they concern the waiting entries. *)

\* A newer login takes the character: the session is unbound, its kick follows.
Evict(p) ==
    /\ session[p].state \in {"Entering", "InWorld"}
    /\ session' = [session EXCEPT ![p].state = "Evicted"]
    /\ UNCHANGED <<line, wire, table, asked, waiting, call>>

\* AbortEnterWorldFlowBySession_, on a kick or a disconnect.  A request that no
\* enter waits for any more is erased.
Abort(p) ==
    LET mine    == {f \in finalize : f.player = p /\ f.n = session[p].n}
        orphans == {r \in assigns : /\ \E f \in mine : f.id = r.id
                                    /\ \A f \in finalize \ mine : f.id # r.id}
    IN  /\ session[p].state # "Out"
        /\ session' = [session EXCEPT ![p].state = "Out"]
        /\ finalize' = finalize \ mine
        /\ assigns' = assigns \ orphans
        /\ byMap' = Unindexed(orphans)
        /\ zoneEnter' = {r \in zoneEnter : r.player # p \/ r.n # session[p].n}
        /\ UNCHANGED <<line, wire, table, nextRequest, portal, call>>

-----------------------------------------------------------------------------
Init ==
    /\ serial = [s \in Sid |-> 0]
    /\ open = [s \in Sid |-> FALSE]
    /\ conn = [z \in Zone |-> None]
    /\ closing = {}
    /\ inbox = [s \in Sid |-> <<>>]
    /\ outbox = [s \in Sid |-> {}]
    /\ routes = [s \in Sid |-> None]
    /\ assignment = [m \in Map |-> None]
    /\ assigns = {}
    /\ byMap = [m \in Map |-> 0]
    /\ nextRequest = 1
    /\ finalize = {}
    /\ portal = {}
    /\ zoneEnter = {}
    /\ session = [p \in Player |-> [state |-> "Out", n |-> 0]]
    /\ call = [p \in Player |-> None]

Next ==
    \/ \E z \in Zone, s \in Sid : ZoneConnect(z, s)
    \/ \E z \in Zone : ZoneLost(z)
    \/ \E s \in Sid : \/ SocketClose(s)
                      \/ \E ok \in BOOLEAN : ZoneAnswer(s, ok)
                      \/ RegisterZoneRoute(s)
                      \/ UnregisterZoneRoute(s)
                      \/ OnZoneMapAssignResponse(s)
                      \/ OnZonePlayerEnterAck(s)
                      \/ Silence(s)
                      \/ OnZoneRouteHeartbeat(s)
    \/ \E S \in SUBSET Stale, T \in SUBSET zoneEnter, U \in SUBSET portal :
         ExpireStaleZoneRoutes(S, T, U)
    \/ \E p \in Player : \/ \E m \in Map : EnterWorld(p, m) \/ BeginPortalTransfer(p, m)
                         \/ AlreadyAssigned(p)
                         \/ AlreadyPending(p)
                         \/ NoZoneAvailable(p)
                         \/ SelectZoneRoute(p)
                         \/ RecordRequest(p)
                         \/ SendMapAssignRequest(p)
                         \/ Park(p)
                         \/ Evict(p)
                         \/ Abort(p)

Spec == Init /\ [][Next]_vars

(* Fairness. *)

\* Shard s handles the next event of its inbox.
Handle(s) ==
    \/ RegisterZoneRoute(s)
    \/ UnregisterZoneRoute(s)
    \/ OnZoneMapAssignResponse(s)
    \/ OnZonePlayerEnterAck(s)

\* The call of player p goes on.
Continue(p) ==
    \/ AlreadyAssigned(p)
    \/ AlreadyPending(p)
    \/ NoZoneAvailable(p)
    \/ SelectZoneRoute(p)
    \/ RecordRequest(p)
    \/ SendMapAssignRequest(p)
    \/ Park(p)

\* No more heartbeats arrive over a connection its zone has lost.
GoesSilent(s) == Silence(s) /\ conn[routes[s].zone] # KeyOf(s, routes[s].serial)

Fairness ==
    /\ \A s \in Sid :
         /\ WF_vars(Handle(s))
         /\ WF_vars(SocketClose(s) /\ KeyOf(s, serial[s]) \in closing)
         /\ WF_vars(\E ok \in BOOLEAN : ZoneAnswer(s, ok))
         /\ WF_vars(GoesSilent(s))
         /\ WF_vars(ExpireStaleZoneRoutes({s}, {}, {}))
    /\ \A p \in Player :
         /\ WF_vars(Continue(p))
         /\ WF_vars(\E e \in zoneEnter : e.player = p /\ ExpireStaleZoneRoutes({}, {e}, {}))

FairSpec == Spec /\ Fairness

-----------------------------------------------------------------------------
(* Correctness. *)

\* Every variable has its type; the in-flight events are the ones the code sends.
TypeOK ==
    /\ serial \in [Sid -> 0 .. MaxSerial]
    /\ open \in [Sid -> BOOLEAN]
    /\ \A s \in Sid : open[s] => serial[s] # 0
    /\ conn \in [Zone -> Key \cup {None}]
    /\ closing \subseteq Key
    /\ inbox \in [Sid -> Seq(Received)]
    /\ outbox \in [Sid -> SUBSET Sent]
    /\ routes \in [Sid -> Route \cup {None}]
    /\ assignment \in [Map -> Zone \cup {None}]
    /\ assigns \subseteq Assign
    /\ byMap \in [Map -> Request \cup {0}]
    /\ nextRequest \in Request
    /\ finalize \subseteq Waiter
    /\ portal \subseteq Waiter
    /\ zoneEnter \subseteq Enter
    /\ session \in [Player -> [state : State, n : Attempt]]
    /\ call \in [Player -> Call \cup {None}]

\* RegisterZoneRoute writes the slot's entry without looking at it.  It never
\* overwrites the route of another connection, whose requests, assignments and
\* waiters nobody would clean up: that route is always unregistered first.
RouteNotReplaced ==
    [][\A s \in Sid : routes[s] # None /\ routes'[s] # None
                         => routes'[s].serial = routes[s].serial]_vars

Calling(p)  == call[p] # None /\ call[p].kind = "Enter"
Entering(p) == session[p].state = "Entering"

\* The entries of E made for the current session of player p.
Mine(E, p) == {e \in E : e.player = p /\ e.n = session[p].n}

\* OnCharacterEnterSnapshotResult_ up to OnZonePlayerEnterAck: an entering session
\* is in exactly one place: in the call that asks for its map, among the waiters
\* for an assignment, or among the player enters sent to a zone.  So it is never
\* forgotten while the client waits, and never finalized twice.
EnterInOnePlace ==
    \A p \in Player : Entering(p) =>
        \/ Calling(p) /\ Mine(finalize, p) = {} /\ Mine(zoneEnter, p) = {}
        \/ ~Calling(p) /\ Mine(zoneEnter, p) = {} /\ \E f \in finalize : Mine(finalize, p) = {f}
        \/ ~Calling(p) /\ Mine(finalize, p) = {} /\ \E e \in zoneEnter : Mine(zoneEnter, p) = {e}

\* ExpireStaleZoneRoutes_: an enter that was sent to a zone ends, in the world or
\* with a failure the client is told, also when the answer comes from another
\* connection than the one it is awaited from, or never.
SentEnterEnds ==
    \A p \in Player : Entering(p) /\ Mine(zoneEnter, p) # {} ~> ~Entering(p)

\* A zone whose route has expired does not stay connected without a route: its
\* connection is closed so that it connects and registers again.
UnroutedZonesReconnect ==
    \A z \in Zone :
        conn[z] # None ~> \/ conn[z] = None
                          \/ \E s \in Sid : routes[s] # None /\ conn[z] = KeyOf(s, routes[s].serial)

\* What the code does not keep: README, section 4.

\* An enter-world flow ends, in the world or with a failure the client is told.
EnterEnds == \A p \in Player : Entering(p) ~> ~Entering(p)

\* The index by map has only pending requests, so that no caller is told to wait
\* for a request that is gone.
IndexIsPending ==
    \A m \in Map : byMap[m] # 0 => \E r \in assigns : r.id = byMap[m] /\ r.map = m

\* Every assign request that was sent is pending at a connection that is still
\* a registered route of the process it names, so losing the route fails it.
RequestsRouted ==
    \A r \in assigns : LET x == routes[r.target.sid]
                       IN  \/ \E p \in Player : At(p, "Recorded") /\ call[p].id = r.id
                           \/ x # None /\ x.serial = r.target.serial /\ x.zone = r.zone

\* A player enter waits for the answer of the very connection it was sent to.
EnterAwaitsItsZone == \A r \in zoneEnter : r.target = r.sent

\* A portal transfer leaves its request with the answer, a failure or a timeout,
\* never because another transfer took its place.
NoTransferDisplaced ==
    [][\A e \in portal \ portal' : \A f \in portal' : f.id # e.id]_vars

=============================================================================
