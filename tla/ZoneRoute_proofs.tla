-------------------------- MODULE ZoneRoute_proofs --------------------------
(***************************************************************************)
(* Theorems about ZoneRoute for every topology, every set of slots, zones, *)
(* maps and players, and every bound.                                      *)
(***************************************************************************)
EXTENDS ZoneRoute, SequenceTheorems, TLAPS

-----------------------------------------------------------------------------
(* Type correctness. *)

\* Handling the head of an inbox leaves typed inboxes.
LEMMA HandlesType ==
    ASSUME TypeOK, NEW s \in Sid, NEW kind, Handles(s, kind)
    PROVE  /\ inbox' \in [Sid -> Seq(Received)]
           /\ Head(inbox[s]) \in Received
           /\ Head(inbox[s]).kind = kind
<1>1. inbox[s] \in Seq(Received) /\ inbox[s] # <<>>
  BY DEF TypeOK, Handles
<1>2. Tail(inbox[s]) \in Seq(Received) /\ Head(inbox[s]) \in Received
  BY <1>1, HeadTailProperties
<1> QED
  BY <1>2 DEF TypeOK, Handles

\* What an event of each kind carries.
LEMMA ReceivedFields ==
    ASSUME NEW x \in Received
    PROVE  /\ x.kind = "Hello" => x.serial \in Serial /\ x.zone \in Zone
           /\ x.kind = "Disconnect" => x.serial \in Serial
           /\ x.kind = "AssignResponse" => x.serial \in Serial /\ x.id \in Request
           /\ x.kind = "EnterAck" => x.serial \in Serial /\ x.player \in Player /\ x.n \in Attempt
BY DEF Received

\* Rolling sessions back keeps them typed.
LEMMA RollbackType ==
    ASSUME TypeOK, NEW E
    PROVE  Rollback(E) \in [Player -> [state : State, n : Attempt]]
BY DEF TypeOK, Rollback, State

\* Dropping routes and timing out entries keeps everything typed.
LEMMA DropType ==
    ASSUME TypeOK, NEW S \in SUBSET Sid, NEW T, NEW U, Drop(S, T, U)
    PROVE  /\ routes' \in [Sid -> Route \cup {None}]
           /\ assignment' \in [Map -> Zone \cup {None}]
           /\ assigns' \subseteq Assign
           /\ byMap' \in [Map -> Request \cup {0}]
           /\ nextRequest' \in Request
           /\ finalize' \subseteq Waiter
           /\ portal' \subseteq Waiter
           /\ zoneEnter' \subseteq Enter
           /\ session' \in [Player -> [state : State, n : Attempt]]
           /\ call' \in [Player -> Call \cup {None}]
<1>1. session' \in [Player -> [state : State, n : Attempt]]
  BY RollbackType DEF Drop
<1> QED
  BY <1>1 DEF Drop, TypeOK, Unindexed

\* An absent entry is neither a route nor a call.
LEMMA NoneDistinct == /\ \A r \in Route : r # None
                      /\ \A c \in Call : c # None
                      /\ \A z \in Zone : z # None
                      /\ \A k \in Key : k # None
BY NoneAssumption

\* A registered route names a connection.
LEMMA RouteFields ==
    ASSUME TypeOK, NEW s \in Sid, routes[s] # None
    PROVE  /\ routes[s] \in Route
           /\ routes[s].serial \in Serial
           /\ routes[s].zone \in Zone
           /\ KeyOf(s, routes[s].serial) \in Key
BY DEF TypeOK, Route, KeyOf, Key

\* The first of some routes is a connection.
LEMMA FirstType ==
    ASSUME TypeOK, NEW S \in SUBSET {s \in Sid : routes[s] # None}
    PROVE  First(S) \in Key \cup {None}
<1>1. CASE S = {}
  BY <1>1 DEF First
<1>2. CASE S # {}
  <2>1. (CHOOSE t \in S : TRUE) \in S
    BY <1>2
  <2>2. First(S) = KeyOf(CHOOSE t \in S : TRUE, routes[CHOOSE t \in S : TRUE].serial)
    BY <1>2 DEF First
  <2> QED
    BY <2>1, <2>2, RouteFields
<1> QED
  BY <1>1, <1>2

\* Sending player enters keeps what it changes typed.
LEMMA FinalizeType ==
    ASSUME TypeOK, NEW E, \A e \in E : e.player \in Player /\ e.n \in Attempt,
           NEW a, NEW m \in Map, FinalizeEnterWorldSuccess(E, a, m)
    PROVE  /\ zoneEnter' \subseteq Enter
           /\ outbox' \in [Sid -> SUBSET Sent]
           /\ session' \in [Player -> [state : State, n : Attempt]]
<1> DEFINE target == First(FindZoneRouteByZoneId(GameplayZone[m]))
           sent   == First(ResolveZoneRouteForMapInstance(a, m))
<1>1. target \in Key \cup {None} /\ sent \in Key \cup {None}
  BY FirstType DEF FindZoneRouteByZoneId, ResolveZoneRouteForMapInstance, FindZoneRouteByServerChannel
<1>2. CASE sent # None /\ Live(sent)
  <2>1. /\ zoneEnter' = zoneEnter \cup
              {[player |-> e.player, n |-> e.n, target |-> target, sent |-> sent] : e \in E}
        /\ outbox' = [outbox EXCEPT ![sent.sid] = @ \cup
              {[kind |-> "Enter", player |-> e.player, n |-> e.n] : e \in E}]
        /\ session' = session
    BY <1>2 DEF FinalizeEnterWorldSuccess
  <2> HIDE DEF target, sent
  <2>2. zoneEnter' \subseteq Enter
    BY <1>1, <1>2, <2>1 DEF TypeOK, Enter
  <2> DEFINE X == {[kind |-> "Enter", player |-> e.player, n |-> e.n] : e \in E}
  <2>3. X \subseteq Sent /\ outbox' = [outbox EXCEPT ![sent.sid] = @ \cup X]
    BY <2>1 DEF Sent
  <2> HIDE DEF X
  <2>4. outbox' \in [Sid -> SUBSET Sent]
    BY <2>3 DEF TypeOK
  <2> QED
    BY <2>1, <2>2, <2>4 DEF TypeOK
<1>3. CASE ~(sent # None /\ Live(sent))
  <2>1. session' = Rollback(E) /\ UNCHANGED <<zoneEnter, outbox>>
    BY <1>3 DEF FinalizeEnterWorldSuccess
  <2> QED
    BY <2>1, RollbackType DEF TypeOK
<1> QED
  BY <1>2, <1>3

\* The transport's steps keep everything typed.
LEMMA LineType ==
    ASSUME TypeOK, NEW s \in Sid,
           \/ \E z \in Zone : ZoneConnect(z, s)
           \/ \E z \in Zone : ZoneLost(z)
           \/ SocketClose(s)
           \/ \E ok \in BOOLEAN : ZoneAnswer(s, ok)
    PROVE  TypeOK'
<1> USE BoundAssumption DEF TypeOK, line, wire, table, asked, waiting, clients
<1>1. CASE \E z \in Zone : ZoneConnect(z, s)
  <2> PICK z \in Zone : ZoneConnect(z, s)
    BY <1>1
  <2>1. serial[s] + 1 \in Serial
    BY DEF ZoneConnect, Serial
  <2>2. KeyOf(s, serial[s] + 1) \in Key
    BY <2>1 DEF KeyOf, Key
  <2>3. [kind |-> "Hello", serial |-> serial[s] + 1, zone |-> z] \in Received
    BY <2>1 DEF Received
  <2>4. Append(inbox[s], [kind |-> "Hello", serial |-> serial[s] + 1, zone |-> z]) \in Seq(Received)
    BY <2>3, AppendProperties
  <2>5. serial' \in [Sid -> 0 .. MaxSerial]
    BY <2>1 DEF ZoneConnect, Serial
  <2> QED
    BY <2>2, <2>4, <2>5 DEF ZoneConnect
<1>2. CASE \E z \in Zone : ZoneLost(z)
  BY <1>2 DEF ZoneLost
<1>3. CASE SocketClose(s)
  <2> DEFINE d == [kind |-> "Disconnect", serial |-> serial[s]]
  <2>1. serial[s] \in Serial => d \in Received
    BY DEF Received
  <2>2. serial[s] \in Serial
    BY <1>3 DEF SocketClose, Serial
  <2>3. Append(inbox[s], d) \in Seq(Received)
    BY <2>1, <2>2, AppendProperties
  <2> HIDE DEF d
  <2> QED
    BY <1>3, <2>3 DEF SocketClose, d
<1>4. CASE \E ok \in BOOLEAN : ZoneAnswer(s, ok)
  <2> PICK ok \in BOOLEAN : ZoneAnswer(s, ok)
    BY <1>4
  <2> PICK x \in outbox[s] :
        /\ outbox' = [outbox EXCEPT ![s] = @ \ {x}]
        /\ inbox' = [inbox EXCEPT ![s] = Append(@, Answer(x, serial[s], ok))]
    BY DEF ZoneAnswer
  <2>1. x \in Sent /\ serial[s] \in Serial
    BY DEF ZoneAnswer, Serial
  <2>2. Answer(x, serial[s], ok) \in Received
    <3>1. CASE x.kind = "Assign"
      <4>1. x.id \in Request
        BY <2>1, <3>1 DEF Sent
      <4> QED
        BY <2>1, <3>1, <4>1 DEF Answer, Received
    <3>2. CASE x.kind # "Assign"
      <4>1. x.player \in Player /\ x.n \in Attempt
        BY <2>1, <3>2 DEF Sent
      <4> QED
        BY <2>1, <3>2, <4>1 DEF Answer, Received
    <3> QED
      BY <3>1, <3>2
  <2>3. Append(inbox[s], Answer(x, serial[s], ok)) \in Seq(Received)
    BY <2>2, AppendProperties
  <2> QED
    BY <2>3 DEF ZoneAnswer
<1> QED
  BY <1>1, <1>2, <1>3, <1>4

\* So do the steps that register, refresh and lose routes.
LEMMA RoutesType ==
    ASSUME TypeOK,
           \/ \E s \in Sid : \/ RegisterZoneRoute(s)
                             \/ UnregisterZoneRoute(s)
                             \/ Silence(s)
                             \/ OnZoneRouteHeartbeat(s)
           \/ \E S \in SUBSET Stale, T \in SUBSET zoneEnter, U \in SUBSET portal :
                ExpireStaleZoneRoutes(S, T, U)
    PROVE  TypeOK'
<1> USE DEF line, wire, table, asked, waiting, clients
<1>1. ASSUME NEW s \in Sid, RegisterZoneRoute(s) PROVE TypeOK'
  <2>1. Handles(s, "Hello")
    BY <1>1 DEF RegisterZoneRoute
  <2>2. Head(inbox[s]).serial \in Serial /\ Head(inbox[s]).zone \in Zone
    BY <2>1, HandlesType, ReceivedFields
  <2>3. routes' \in [Sid -> Route \cup {None}]
    BY <1>1, <2>2 DEF RegisterZoneRoute, TypeOK, Route
  <2>4. inbox' \in [Sid -> Seq(Received)]
    BY <2>1, HandlesType
  <2> QED
    BY <1>1, <2>3, <2>4 DEF RegisterZoneRoute, TypeOK
<1>2. ASSUME NEW s \in Sid, UnregisterZoneRoute(s) PROVE TypeOK'
  <2>1. inbox' \in [Sid -> Seq(Received)]
    BY <1>2, HandlesType DEF UnregisterZoneRoute
  <2>2. CASE Drop({s}, {}, {})
    BY <1>2, <2>1, <2>2, DropType DEF UnregisterZoneRoute, TypeOK
  <2>3. CASE UNCHANGED <<table, asked, waiting, clients>>
    BY <1>2, <2>1, <2>3 DEF UnregisterZoneRoute, TypeOK
  <2> QED
    BY <1>2, <2>2, <2>3 DEF UnregisterZoneRoute
<1>3. ASSUME NEW s \in Sid, Silence(s) \/ OnZoneRouteHeartbeat(s) PROVE TypeOK'
  <2>1. routes[s] \in Route
    BY <1>3, RouteFields DEF Silence, OnZoneRouteHeartbeat
  <2>2. PICK b \in BOOLEAN : routes' = [routes EXCEPT ![s] = [@ EXCEPT !.stale = b]]
    BY <1>3 DEF Silence, OnZoneRouteHeartbeat
  <2>3. [routes[s] EXCEPT !.stale = b] \in Route
    BY <2>1 DEF Route
  <2>4. routes' \in [Sid -> Route \cup {None}]
    BY <2>2, <2>3 DEF TypeOK
  <2> QED
    BY <1>3, <2>4 DEF Silence, OnZoneRouteHeartbeat, TypeOK
<1>4. ASSUME NEW S \in SUBSET Stale, NEW T \in SUBSET zoneEnter, NEW U \in SUBSET portal,
             ExpireStaleZoneRoutes(S, T, U)
      PROVE  TypeOK'
  <2>1. S \in SUBSET Sid /\ Drop(S, T, U)
    BY <1>4 DEF ExpireStaleZoneRoutes, Stale
  <2>2. closing' \subseteq Key
    BY <1>4 DEF ExpireStaleZoneRoutes, TypeOK
  <2> QED
    BY <1>4, <2>1, <2>2, DropType DEF ExpireStaleZoneRoutes, TypeOK
<1> QED
  BY <1>1, <1>2, <1>3, <1>4

\* What a call holds at each of its steps.
LEMMA CallFields ==
    ASSUME TypeOK, NEW p \in Player, call[p] # None
    PROVE  /\ call[p] \in Call
           /\ call[p].kind \in {"Enter", "Portal"}
           /\ call[p].map \in Map
           /\ call[p].step = "Selected" => call[p].target \in Key /\ call[p].zone \in Zone
           /\ call[p].step = "Recorded" => call[p].target \in Key /\ call[p].id \in Request
           /\ call[p].step = "Park" => call[p].id \in Request
BY DEF TypeOK, Call

\* The steps of a call keep everything typed.
LEMMA CallsType ==
    ASSUME TypeOK, NEW p \in Player,
           \/ \E m \in Map : EnterWorld(p, m) \/ BeginPortalTransfer(p, m)
           \/ AlreadyAssigned(p) \/ AlreadyPending(p) \/ NoZoneAvailable(p)
           \/ SelectZoneRoute(p) \/ RecordRequest(p) \/ SendMapAssignRequest(p) \/ Park(p)
    PROVE  TypeOK'
<1> USE BoundAssumption DEF line, wire, table, asked, waiting, clients
<1>1. ASSUME NEW m \in Map, EnterWorld(p, m) PROVE TypeOK'
  <2>1. [kind |-> "Enter", map |-> m, step |-> "Begin"] \in Call
    BY DEF Call
  <2>2. [state |-> "Entering", n |-> session[p].n + 1] \in [state : State, n : Attempt]
    BY <1>1 DEF EnterWorld, TypeOK, State, Attempt
  <2> QED
    BY <1>1, <2>1, <2>2 DEF EnterWorld, TypeOK
<1>2. ASSUME NEW m \in Map, BeginPortalTransfer(p, m) PROVE TypeOK'
  <2>1. [kind |-> "Portal", map |-> m, step |-> "Begin"] \in Call
    BY DEF Call
  <2> QED
    BY <1>2, <2>1 DEF BeginPortalTransfer, TypeOK
<1>3. CASE AlreadyAssigned(p)
  <2>1. call' \in [Player -> Call \cup {None}]
    BY <1>3 DEF AlreadyAssigned, Return, TypeOK
  <2>2. call[p].map \in Map /\ Entry(p).player \in Player /\ Entry(p).n \in Attempt
    BY <1>3, CallFields DEF AlreadyAssigned, At, Entry, TypeOK
  <2>3. CASE call[p].kind = "Enter"
    <3>1. FinalizeEnterWorldSuccess({Entry(p)}, assignment, call[p].map)
      BY <1>3, <2>3 DEF AlreadyAssigned
    <3>2. /\ zoneEnter' \subseteq Enter
          /\ outbox' \in [Sid -> SUBSET Sent]
          /\ session' \in [Player -> [state : State, n : Attempt]]
      BY <2>2, <3>1, FinalizeType
    <3> QED
      BY <1>3, <2>1, <3>2 DEF AlreadyAssigned, TypeOK
  <2>4. CASE call[p].kind # "Enter"
    BY <1>3, <2>1, <2>4 DEF AlreadyAssigned, TypeOK
  <2> QED
    BY <2>3, <2>4
<1>4. CASE AlreadyPending(p)
  <2>1. call[p].kind \in {"Enter", "Portal"} /\ call[p].map \in Map /\ byMap[call[p].map] \in Request
    BY <1>4, CallFields DEF AlreadyPending, At, TypeOK
  <2>2. [kind |-> call[p].kind, map |-> call[p].map, step |-> "Park", id |-> byMap[call[p].map]] \in Call
    BY <2>1 DEF Call
  <2> QED
    BY <1>4, <2>2 DEF AlreadyPending, TypeOK
<1>5. CASE NoZoneAvailable(p)
  BY <1>5, RollbackType DEF NoZoneAvailable, Fail, Return, TypeOK
<1>6. CASE SelectZoneRoute(p)
  <2>1. PICK s \in TrySelectZoneRouteForMap(call[p].map) :
          call' = [call EXCEPT ![p] =
                      [kind |-> call[p].kind, map |-> call[p].map, step |-> "Selected",
                       target |-> KeyOf(s, routes[s].serial), zone |-> routes[s].zone]]
    BY <1>6 DEF SelectZoneRoute
  <2>2. s \in Sid /\ routes[s] # None
    BY <2>1 DEF TrySelectZoneRouteForMap
  <2>3. KeyOf(s, routes[s].serial) \in Key /\ routes[s].zone \in Zone
    BY <2>2, RouteFields
  <2>4. call[p].kind \in {"Enter", "Portal"} /\ call[p].map \in Map
    BY <1>6, CallFields DEF SelectZoneRoute, At
  <2>5. [kind |-> call[p].kind, map |-> call[p].map, step |-> "Selected",
         target |-> KeyOf(s, routes[s].serial), zone |-> routes[s].zone] \in Call
    BY <2>3, <2>4 DEF Call
  <2> QED
    BY <1>6, <2>1, <2>5 DEF SelectZoneRoute, TypeOK
<1>7. CASE SendMapAssignRequest(p)
  <2>1. /\ call[p].kind \in {"Enter", "Portal"} /\ call[p].map \in Map
        /\ call[p].target \in Key /\ call[p].id \in Request
    BY <1>7, CallFields DEF SendMapAssignRequest, At
  <2>2. CASE Live(call[p].target)
    <3> DEFINE x == [kind |-> "Assign", id |-> call[p].id]
               d == [kind |-> call[p].kind, map |-> call[p].map, step |-> "Park", id |-> call[p].id]
    <3>1. /\ outbox' = [outbox EXCEPT ![call[p].target.sid] = @ \cup {x}]
          /\ byMap' = [byMap EXCEPT ![call[p].map] = call[p].id]
          /\ call' = [call EXCEPT ![p] = d]
          /\ UNCHANGED <<assigns, session>>
      BY <1>7, <2>2 DEF SendMapAssignRequest
    <3>2. x \in Sent
      BY <2>1 DEF Sent
    <3>3. d \in Call
      BY <2>1 DEF Call
    <3> HIDE DEF x, d
    <3>4. outbox' \in [Sid -> SUBSET Sent]
      BY <3>1, <3>2 DEF TypeOK
    <3>5. call' \in [Player -> Call \cup {None}]
      BY <3>1, <3>3 DEF TypeOK
    <3>6. byMap' \in [Map -> Request \cup {0}]
      BY <2>1, <3>1 DEF TypeOK
    <3> QED
      BY <1>7, <3>1, <3>4, <3>5, <3>6 DEF SendMapAssignRequest, TypeOK
  <2>3. CASE ~Live(call[p].target)
    <3>1. /\ byMap' = [byMap EXCEPT ![call[p].map] = 0]
          /\ assigns' \subseteq assigns
          /\ Fail(p)
          /\ UNCHANGED outbox
      BY <1>7, <2>3 DEF SendMapAssignRequest
    <3>2. /\ session' \in [Player -> [state : State, n : Attempt]]
          /\ call' \in [Player -> Call \cup {None}]
      BY <3>1, RollbackType DEF Fail, Return, TypeOK
    <3>3. byMap' \in [Map -> Request \cup {0}] /\ assigns' \subseteq Assign
      BY <3>1 DEF TypeOK
    <3> QED
      BY <1>7, <3>1, <3>2, <3>3 DEF SendMapAssignRequest, TypeOK
  <2> QED
    BY <2>2, <2>3
<1>8. CASE Park(p)
  <2>1. [id |-> call[p].id, player |-> p, n |-> session[p].n] \in Waiter
    BY <1>8, CallFields DEF Park, At, Waiter, TypeOK
  <2> QED
    BY <1>8, <2>1 DEF Park, Return, TypeOK
<1>9. CASE RecordRequest(p)
  <2> DEFINE r == [id |-> nextRequest, map |-> call[p].map, target |-> call[p].target, zone |-> call[p].zone]
             d == [kind |-> call[p].kind, map |-> call[p].map, step |-> "Recorded",
                   id |-> nextRequest, target |-> call[p].target]
  <2>1. /\ call[p].kind \in {"Enter", "Portal"} /\ call[p].map \in Map
        /\ call[p].target \in Key /\ call[p].zone \in Zone
    BY <1>9, CallFields DEF RecordRequest, At
  <2>2. nextRequest \in Request /\ nextRequest' \in Request
    BY <1>9 DEF RecordRequest, TypeOK, Request
  <2>3. assigns' = assigns \cup {r} /\ call' = [call EXCEPT ![p] = d]
    BY <1>9 DEF RecordRequest
  <2>4. r \in Assign
    BY <2>1, <2>2 DEF Assign
  <2>5. d \in Call
    BY <2>1, <2>2 DEF Call
  <2> HIDE DEF r, d
  <2>6. assigns' \subseteq Assign /\ call' \in [Player -> Call \cup {None}]
    BY <2>3, <2>4, <2>5 DEF TypeOK
  <2> QED
    BY <1>9, <2>2, <2>6 DEF RecordRequest, TypeOK
<1> QED
  BY <1>1, <1>2, <1>3, <1>4, <1>5, <1>6, <1>7, <1>8, <1>9

\* So do the zones' answers and what ends a session.
LEMMA AnswersType ==
    ASSUME TypeOK,
           \/ \E s \in Sid : OnZoneMapAssignResponse(s) \/ OnZonePlayerEnterAck(s)
           \/ \E p \in Player : Evict(p) \/ Abort(p)
    PROVE  TypeOK'
<1> USE DEF line, wire, table, asked, waiting, clients
<1>1. ASSUME NEW s \in Sid, OnZoneMapAssignResponse(s) PROVE TypeOK'
  <2>1. inbox' \in [Sid -> Seq(Received)]
    BY <1>1, HandlesType DEF OnZoneMapAssignResponse
  <2> DEFINE x == Head(inbox[s])
             R == {r \in assigns : r.id = x.id /\ r.target = KeyOf(s, x.serial)}
  <2>2. CASE R = {}
    BY <1>1, <2>1, <2>2 DEF OnZoneMapAssignResponse, TypeOK
  <2>3. CASE R # {}
    <3>1. PICK r \in R :
            LET W == {f \in finalize : f.id = r.id /\ Pending(f)}
            IN  /\ assigns' = assigns \ {r}
                /\ byMap' = Unindexed({r})
                /\ finalize' = {f \in finalize : f.id # r.id}
                /\ portal' = {f \in portal : f.id # r.id}
                /\ UNCHANGED nextRequest
                /\ IF x.ok
                   THEN /\ assignment' = [assignment EXCEPT ![r.map] = r.zone]
                        /\ FinalizeEnterWorldSuccess(W, assignment', r.map)
                   ELSE /\ session' = Rollback(W)
                        /\ UNCHANGED <<outbox, assignment, zoneEnter>>
      BY <1>1, <2>3 DEF OnZoneMapAssignResponse
    <3> DEFINE W == {f \in finalize : f.id = r.id /\ Pending(f)}
    <3>2. r \in assigns /\ r.map \in Map /\ r.zone \in Zone
      BY DEF TypeOK, Assign
    <3>3. \A f \in W : f.player \in Player /\ f.n \in Attempt
      BY DEF TypeOK, Waiter
    <3>4. /\ zoneEnter' \subseteq Enter
          /\ outbox' \in [Sid -> SUBSET Sent]
          /\ session' \in [Player -> [state : State, n : Attempt]]
          /\ assignment' \in [Map -> Zone \cup {None}]
      <4>1. CASE x.ok
        <5>1. FinalizeEnterWorldSuccess(W, assignment', r.map)
          BY <3>1, <4>1
        <5> HIDE DEF W
        <5>2. /\ zoneEnter' \subseteq Enter
              /\ outbox' \in [Sid -> SUBSET Sent]
              /\ session' \in [Player -> [state : State, n : Attempt]]
          BY <3>2, <3>3, <5>1, FinalizeType
        <5> QED
          BY <3>1, <3>2, <4>1, <5>2 DEF TypeOK
      <4>2. CASE ~x.ok
        BY <3>1, <4>2, RollbackType DEF TypeOK
      <4> QED
        BY <4>1, <4>2
    <3>5. byMap' \in [Map -> Request \cup {0}]
      BY <3>1 DEF Unindexed, TypeOK
    <3> QED
      BY <1>1, <2>1, <3>1, <3>4, <3>5 DEF OnZoneMapAssignResponse, TypeOK
  <2> QED
    BY <2>2, <2>3
<1>2. ASSUME NEW s \in Sid, OnZonePlayerEnterAck(s) PROVE TypeOK'
  <2>1. inbox' \in [Sid -> Seq(Received)]
    BY <1>2, HandlesType DEF OnZonePlayerEnterAck
  <2> DEFINE x == Head(inbox[s])
             R == {r \in zoneEnter : r.player = x.player /\ r.n = x.n /\ r.target = KeyOf(s, x.serial)}
  <2>2. PICK st \in {"InWorld", "Out"} :
          session' = [p \in Player |->
                         IF \E r \in R : r.player = p /\ Pending(r)
                         THEN [session[p] EXCEPT !.state = st] ELSE session[p]]
    BY <1>2 DEF OnZonePlayerEnterAck
  <2>3. \A p \in Player : [session[p] EXCEPT !.state = st] \in [state : State, n : Attempt]
    BY DEF TypeOK, State
  <2> HIDE DEF R
  <2>4. session' \in [Player -> [state : State, n : Attempt]]
    BY <2>2, <2>3 DEF TypeOK
  <2> QED
    BY <1>2, <2>1, <2>4 DEF OnZonePlayerEnterAck, TypeOK
<1>3. ASSUME NEW p \in Player, Evict(p) PROVE TypeOK'
  <2>1. [session[p] EXCEPT !.state = "Evicted"] \in [state : State, n : Attempt]
    BY DEF TypeOK, State
  <2> QED
    BY <1>3, <2>1 DEF Evict, TypeOK
<1>4. ASSUME NEW p \in Player, Abort(p) PROVE TypeOK'
  <2>1. [session[p] EXCEPT !.state = "Out"] \in [state : State, n : Attempt]
    BY DEF TypeOK, State
  <2>2. byMap' \in [Map -> Request \cup {0}]
    BY <1>4 DEF Abort, Unindexed, TypeOK
  <2> QED
    BY <1>4, <2>1, <2>2 DEF Abort, TypeOK
<1> QED
  BY <1>1, <1>2, <1>3, <1>4

\* Every step keeps everything typed.
LEMMA TypeStep == TypeOK /\ [Next]_vars => TypeOK'
<1> SUFFICES ASSUME TypeOK, [Next]_vars PROVE TypeOK'
  OBVIOUS
<1>1. CASE UNCHANGED vars
  BY <1>1 DEF vars, line, wire, table, asked, waiting, clients, TypeOK
<1>2. CASE Next
  <2>1. ASSUME NEW z \in Zone, ZoneLost(z) PROVE TypeOK'
    BY <2>1 DEF ZoneLost, TypeOK, wire, table, asked, waiting, clients
  <2> QED
    BY <1>2, <2>1, LineType, RoutesType, CallsType, AnswersType DEF Next
<1> QED
  BY <1>1, <1>2

\* The World server starts with empty maps and no connections.
LEMMA TypeInit == Init => TypeOK
BY BoundAssumption DEF Init, TypeOK, State, Attempt, Request

\* The maps, queues and calls of the routing hold values of their types.
THEOREM TypeCorrect == Spec => []TypeOK
BY TypeInit, TypeStep, PTL DEF Spec

-----------------------------------------------------------------------------
(* The order of a slot's events. *)

IsHello(x)         == x.kind = "Hello"
IsDisconnect(x, n) == x.kind = "Disconnect" /\ x.serial = n

\* The inbox q of a slot whose connection is n, up if o, and whose route is r:
\* every hello and the route belong to the connection that is up or are followed
\* by a disconnect, and that disconnect comes before the next hello.
HelloClosed(q, o, n) ==
    \A i \in 1 .. Len(q) : IsHello(q[i]) =>
        \/ o /\ q[i].serial = n
        \/ \E j \in i + 1 .. Len(q) : IsDisconnect(q[j], q[i].serial)
RouteClosed(q, r, o, n) ==
    r # None => \/ o /\ r.serial = n
                \/ \E j \in 1 .. Len(q) : IsDisconnect(q[j], r.serial)
HelloOrdered(q) ==
    \A i, k \in 1 .. Len(q) : i < k /\ IsHello(q[i]) /\ IsHello(q[k]) =>
        \E j \in i + 1 .. k - 1 : IsDisconnect(q[j], q[i].serial)
RouteOrdered(q, r) ==
    r # None => \A i \in 1 .. Len(q) : IsHello(q[i]) =>
        \E j \in 1 .. i - 1 : IsDisconnect(q[j], r.serial)
Ordered(q, r, o, n) ==
    /\ HelloClosed(q, o, n)
    /\ RouteClosed(q, r, o, n)
    /\ HelloOrdered(q)
    /\ RouteOrdered(q, r)

Order == \A s \in Sid : Ordered(inbox[s], routes[s], open[s], serial[s])

\* A connection is accepted on a free slot and says hello.
LEMMA OrderedConnect ==
    ASSUME NEW q \in Seq(Received), NEW r, NEW n, NEW x \in Received, IsHello(x),
           Ordered(q, r, FALSE, n)
    PROVE  Ordered(Append(q, x), r, TRUE, x.serial)
<1> DEFINE p == Append(q, x)
<1>1. /\ Len(p) = Len(q) + 1 /\ Len(q) \in Nat
      /\ \A i \in 1 .. Len(q) : p[i] = q[i]
      /\ p[Len(q) + 1] = x
  BY AppendProperties
<1> HIDE DEF p
<1>2. HelloClosed(p, TRUE, x.serial)
  <2> SUFFICES ASSUME NEW i \in 1 .. Len(p), IsHello(p[i])
               PROVE  \/ TRUE /\ p[i].serial = x.serial
                      \/ \E j \in i + 1 .. Len(p) : IsDisconnect(p[j], p[i].serial)
    BY DEF HelloClosed
  <2>1. CASE i = Len(q) + 1
    BY <1>1, <2>1
  <2>2. CASE i \in 1 .. Len(q)
    <3>1. IsHello(q[i]) /\ p[i] = q[i]
      BY <1>1, <2>2
    <3>2. \/ FALSE /\ q[i].serial = n
          \/ \E j \in i + 1 .. Len(q) : IsDisconnect(q[j], q[i].serial)
      BY <2>2, <3>1 DEF Ordered, HelloClosed
    <3>3. \A j \in i + 1 .. Len(q) : j \in i + 1 .. Len(p) /\ p[j] = q[j]
      BY <1>1, <2>2
    <3> QED
      BY <1>1, <2>2, <3>1, <3>2, <3>3
  <2> QED
    BY <1>1, <2>1, <2>2
<1>3. RouteClosed(p, r, TRUE, x.serial)
  BY <1>1 DEF Ordered, RouteClosed
<1>4. HelloOrdered(p)
  BY <1>1 DEF Ordered, HelloOrdered, HelloClosed
<1>5. RouteOrdered(p, r)
  BY <1>1 DEF Ordered, RouteOrdered, RouteClosed
<1> QED
  BY <1>2, <1>3, <1>4, <1>5 DEF Ordered, p

\* The connection of a slot goes down.
LEMMA OrderedClose ==
    ASSUME NEW q \in Seq(Received), NEW r, NEW n, NEW x \in Received, IsDisconnect(x, n),
           Ordered(q, r, TRUE, n)
    PROVE  Ordered(Append(q, x), r, FALSE, n)
<1> DEFINE p == Append(q, x)
<1>1. /\ Len(p) = Len(q) + 1 /\ Len(q) \in Nat
      /\ \A i \in 1 .. Len(q) : p[i] = q[i]
      /\ p[Len(q) + 1] = x
      /\ ~IsHello(x)
  BY AppendProperties DEF IsHello, IsDisconnect
<1> HIDE DEF p
<1>2. HelloClosed(p, FALSE, n)
  <2> SUFFICES ASSUME NEW i \in 1 .. Len(p), IsHello(p[i])
               PROVE  \/ FALSE /\ p[i].serial = n
                      \/ \E j \in i + 1 .. Len(p) : IsDisconnect(p[j], p[i].serial)
    BY DEF HelloClosed
  <2>1. CASE i = Len(q) + 1
    BY <1>1, <2>1
  <2>2. CASE i \in 1 .. Len(q)
    <3>1. IsHello(q[i]) /\ p[i] = q[i]
      BY <1>1, <2>2
    <3>2. \/ TRUE /\ q[i].serial = n
          \/ \E j \in i + 1 .. Len(q) : IsDisconnect(q[j], q[i].serial)
      BY <2>2, <3>1 DEF Ordered, HelloClosed
    <3>3. \A j \in i + 1 .. Len(q) : j \in i + 1 .. Len(p) /\ p[j] = q[j]
      BY <1>1, <2>2
    <3>4. Len(q) + 1 \in i + 1 .. Len(p)
      BY <1>1, <2>2
    <3> QED
      BY <1>1, <2>2, <3>1, <3>2, <3>3, <3>4 DEF IsDisconnect
  <2> QED
    BY <1>1, <2>1, <2>2
<1>3. RouteClosed(p, r, FALSE, n)
  BY <1>1 DEF Ordered, RouteClosed
<1>4. HelloOrdered(p)
  BY <1>1 DEF Ordered, HelloOrdered
<1>5. RouteOrdered(p, r)
  BY <1>1 DEF Ordered, RouteOrdered
<1> QED
  BY <1>2, <1>3, <1>4, <1>5 DEF Ordered, p

\* An answer arrives.
LEMMA OrderedAnswer ==
    ASSUME NEW q \in Seq(Received), NEW r, NEW o, NEW n, NEW x \in Received, ~IsHello(x),
           Ordered(q, r, o, n)
    PROVE  Ordered(Append(q, x), r, o, n)
<1> DEFINE p == Append(q, x)
<1>1. /\ Len(p) = Len(q) + 1 /\ Len(q) \in Nat
      /\ \A i \in 1 .. Len(q) : p[i] = q[i]
      /\ p[Len(q) + 1] = x
  BY AppendProperties
<1> HIDE DEF p
<1>2. HelloClosed(p, o, n)
  <2> SUFFICES ASSUME NEW i \in 1 .. Len(p), IsHello(p[i])
               PROVE  \/ o /\ p[i].serial = n
                      \/ \E j \in i + 1 .. Len(p) : IsDisconnect(p[j], p[i].serial)
    BY DEF HelloClosed
  <2>1. CASE i = Len(q) + 1
    BY <1>1, <2>1
  <2>2. CASE i \in 1 .. Len(q)
    <3>1. IsHello(q[i]) /\ p[i] = q[i]
      BY <1>1, <2>2
    <3>2. \/ o /\ q[i].serial = n
          \/ \E j \in i + 1 .. Len(q) : IsDisconnect(q[j], q[i].serial)
      BY <2>2, <3>1 DEF Ordered, HelloClosed
    <3>3. \A j \in i + 1 .. Len(q) : j \in i + 1 .. Len(p) /\ p[j] = q[j]
      BY <1>1, <2>2
    <3> QED
      BY <1>1, <2>2, <3>1, <3>2, <3>3
  <2> QED
    BY <1>1, <2>1, <2>2
<1>3. RouteClosed(p, r, o, n)
  BY <1>1 DEF Ordered, RouteClosed
<1>4. HelloOrdered(p)
  BY <1>1 DEF Ordered, HelloOrdered
<1>5. RouteOrdered(p, r)
  BY <1>1 DEF Ordered, RouteOrdered
<1> QED
  BY <1>2, <1>3, <1>4, <1>5 DEF Ordered, p

\* An event is handled; a disconnect takes the route of its connection away.
LEMMA OrderedHandle ==
    ASSUME NEW q \in Seq(Received), q # <<>>, NEW r, NEW t, NEW o, NEW n,
           t = None \/ (t # None /\ r # None /\ t.serial = r.serial),
           t # None => ~IsDisconnect(Head(q), t.serial),
           Ordered(q, r, o, n)
    PROVE  Ordered(Tail(q), t, o, n)
<1> DEFINE p == Tail(q)
<1>1. /\ Len(p) = Len(q) - 1 /\ Len(q) \in Nat \ {0} /\ Len(p) \in Nat
      /\ \A i \in 1 .. Len(p) : p[i] = q[i + 1]
      /\ Head(q) = q[1]
  BY HeadTailProperties, EmptySeq
<1> HIDE DEF p
<1>2. HelloClosed(p, o, n)
  <2> SUFFICES ASSUME NEW i \in 1 .. Len(p), IsHello(p[i]), ~(o /\ p[i].serial = n)
               PROVE  \E j \in i + 1 .. Len(p) : IsDisconnect(p[j], p[i].serial)
    BY DEF HelloClosed
  <2>1. i + 1 \in 1 .. Len(q) /\ p[i] = q[i + 1]
    BY <1>1
  <2>2. PICK j \in i + 2 .. Len(q) : IsDisconnect(q[j], p[i].serial)
    BY <2>1 DEF Ordered, HelloClosed
  <2>3. j - 1 \in i + 1 .. Len(p) /\ p[j - 1] = q[j]
    BY <1>1
  <2> QED
    BY <2>2, <2>3
<1>3. RouteClosed(p, t, o, n)
  <2> SUFFICES ASSUME t # None, ~(o /\ t.serial = n)
               PROVE  \E j \in 1 .. Len(p) : IsDisconnect(p[j], t.serial)
    BY DEF RouteClosed
  <2>1. PICK j \in 1 .. Len(q) : IsDisconnect(q[j], t.serial)
    BY DEF Ordered, RouteClosed
  <2>2. j # 1
    BY <1>1, <2>1
  <2>3. j - 1 \in 1 .. Len(p) /\ p[j - 1] = q[j]
    BY <1>1, <2>2
  <2> QED
    BY <2>1, <2>3
<1>4. HelloOrdered(p)
  <2> SUFFICES ASSUME NEW i \in 1 .. Len(p), NEW k \in 1 .. Len(p), i < k, IsHello(p[i]), IsHello(p[k])
               PROVE  \E j \in i + 1 .. k - 1 : IsDisconnect(p[j], p[i].serial)
    BY DEF HelloOrdered
  <2>1. i + 1 \in 1 .. Len(q) /\ p[i] = q[i + 1] /\ k + 1 \in 1 .. Len(q) /\ p[k] = q[k + 1]
    BY <1>1
  <2>2. PICK j \in i + 2 .. k : IsDisconnect(q[j], p[i].serial)
    BY <2>1 DEF Ordered, HelloOrdered
  <2>3. j - 1 \in i + 1 .. k - 1 /\ p[j - 1] = q[j]
    BY <1>1
  <2> QED
    BY <2>2, <2>3
<1>5. RouteOrdered(p, t)
  <2> SUFFICES ASSUME t # None, NEW i \in 1 .. Len(p), IsHello(p[i])
               PROVE  \E j \in 1 .. i - 1 : IsDisconnect(p[j], t.serial)
    BY DEF RouteOrdered
  <2>1. i + 1 \in 1 .. Len(q) /\ p[i] = q[i + 1]
    BY <1>1
  <2>2. PICK j \in 1 .. i : IsDisconnect(q[j], t.serial)
    BY <2>1 DEF Ordered, RouteOrdered
  <2>3. j # 1
    BY <1>1, <2>2
  <2>4. j - 1 \in 1 .. i - 1 /\ p[j - 1] = q[j]
    BY <1>1, <2>3
  <2> QED
    BY <2>2, <2>4
<1> QED
  BY <1>2, <1>3, <1>4, <1>5 DEF Ordered, p

\* A hello is handled only when the slot has no route, and gives it one.
LEMMA OrderedRegister ==
    ASSUME NEW q \in Seq(Received), q # <<>>, NEW r, NEW t, NEW o, NEW n,
           IsHello(Head(q)), t # None, t.serial = Head(q).serial,
           Ordered(q, r, o, n)
    PROVE  r = None /\ Ordered(Tail(q), t, o, n)
<1> DEFINE p == Tail(q)
<1>1. /\ Len(p) = Len(q) - 1 /\ Len(q) \in Nat \ {0} /\ Len(p) \in Nat
      /\ \A i \in 1 .. Len(p) : p[i] = q[i + 1]
      /\ Head(q) = q[1]
  BY HeadTailProperties, EmptySeq
<1>2. r = None
  BY <1>1 DEF Ordered, RouteOrdered
<1>3. HelloClosed(p, o, n) /\ HelloOrdered(p)
  <2>1. Ordered(p, None, o, n)
    BY <1>2, OrderedHandle
  <2> QED
    BY <2>1 DEF Ordered
<1> HIDE DEF p
<1>4. RouteClosed(p, t, o, n)
  <2> SUFFICES ASSUME ~(o /\ t.serial = n)
               PROVE  \E j \in 1 .. Len(p) : IsDisconnect(p[j], t.serial)
    BY DEF RouteClosed
  <2>1. PICK j \in 2 .. Len(q) : IsDisconnect(q[j], t.serial)
    BY <1>1 DEF Ordered, HelloClosed
  <2>2. j - 1 \in 1 .. Len(p) /\ p[j - 1] = q[j]
    BY <1>1
  <2> QED
    BY <2>1, <2>2
<1>5. RouteOrdered(p, t)
  <2> SUFFICES ASSUME NEW i \in 1 .. Len(p), IsHello(p[i])
               PROVE  \E j \in 1 .. i - 1 : IsDisconnect(p[j], t.serial)
    BY DEF RouteOrdered
  <2>1. i + 1 \in 1 .. Len(q) /\ p[i] = q[i + 1] /\ 1 < i + 1
    BY <1>1
  <2>2. PICK j \in 2 .. i : IsDisconnect(q[j], t.serial)
    BY <1>1, <2>1 DEF Ordered, HelloOrdered
  <2>3. j - 1 \in 1 .. i - 1 /\ p[j - 1] = q[j]
    BY <1>1
  <2> QED
    BY <2>2, <2>3
<1> QED
  BY <1>2, <1>3, <1>4, <1>5 DEF Ordered, p

\* A route whose serial stays, or that goes away, stays in order.
LEMMA OrderedRoute ==
    ASSUME NEW q, NEW r, NEW t, NEW o, NEW n,
           t = None \/ (t # None /\ r # None /\ t.serial = r.serial),
           Ordered(q, r, o, n)
    PROVE  Ordered(q, t, o, n)
BY DEF Ordered, RouteClosed, RouteOrdered

\* Dropping routes leaves the others as they are.
LEMMA DropRoutes ==
    ASSUME TypeOK, NEW S, NEW T, NEW U, Drop(S, T, U), NEW s \in Sid
    PROVE  /\ s \in S => routes'[s] = None
           /\ s \notin S => routes'[s] = routes[s]
BY DEF Drop, TypeOK

\* Every step keeps the events of every slot in order.
LEMMA OrderStep == TypeOK /\ Order /\ [Next]_vars => Order'
<1> SUFFICES ASSUME TypeOK, Order, [Next]_vars, NEW a \in Sid
             PROVE  Ordered(inbox'[a], routes'[a], open'[a], serial'[a])
  BY DEF Order
<1>0. /\ Ordered(inbox[a], routes[a], open[a], serial[a])
      /\ inbox[a] \in Seq(Received)
      /\ inbox \in [Sid -> Seq(Received)]
      /\ routes[a] \in Route \cup {None}
  BY DEF Order, TypeOK
<1> DEFINE Quiet == UNCHANGED <<inbox, routes, open, serial>>
<1>1. CASE Quiet
  BY <1>0, <1>1
<1>2. ASSUME NEW z \in Zone, NEW s \in Sid, ZoneConnect(z, s)
      PROVE  Ordered(inbox'[a], routes'[a], open'[a], serial'[a])
  <2>1. CASE a # s
    BY <1>0, <1>2, <2>1 DEF ZoneConnect, TypeOK, table
  <2>2. CASE a = s
    <3> DEFINE x == [kind |-> "Hello", serial |-> serial[s] + 1, zone |-> z]
    <3>1. /\ x \in Received /\ IsHello(x) /\ x.serial = serial[s] + 1
          /\ open[s] = FALSE
      BY <1>2, BoundAssumption DEF ZoneConnect, TypeOK, Received, Serial, IsHello
    <3>2. /\ inbox'[a] = Append(inbox[a], x) /\ routes'[a] = routes[a]
          /\ open'[a] = TRUE /\ serial'[a] = x.serial
      BY <1>2, <2>2, <3>1 DEF ZoneConnect, TypeOK, table
    <3> HIDE DEF x
    <3> QED
      BY <1>0, <2>2, <3>1, <3>2, OrderedConnect
  <2> QED
    BY <2>1, <2>2
<1>3. ASSUME NEW s \in Sid, SocketClose(s)
      PROVE  Ordered(inbox'[a], routes'[a], open'[a], serial'[a])
  <2>1. CASE a # s
    BY <1>0, <1>3, <2>1 DEF SocketClose, TypeOK, table
  <2>2. CASE a = s
    <3> DEFINE x == [kind |-> "Disconnect", serial |-> serial[s]]
    <3>1. /\ x \in Received /\ IsDisconnect(x, serial[s])
          /\ open[s] = TRUE
      BY <1>3, BoundAssumption DEF SocketClose, TypeOK, Received, Serial, IsDisconnect
    <3>2. /\ inbox'[a] = Append(inbox[a], x) /\ routes'[a] = routes[a]
          /\ open'[a] = FALSE /\ serial'[a] = serial[a]
      BY <1>3, <2>2 DEF SocketClose, TypeOK, table
    <3> HIDE DEF x
    <3>3. Ordered(inbox[a], routes[a], TRUE, serial[a])
      BY <1>0, <2>2, <3>1
    <3>4. Ordered(Append(inbox[a], x), routes[a], FALSE, serial[a])
      BY <1>0, <2>2, <3>1, <3>3, OrderedClose
    <3> QED
      BY <3>2, <3>4
  <2> QED
    BY <2>1, <2>2
<1>4. ASSUME NEW s \in Sid, NEW ok \in BOOLEAN, ZoneAnswer(s, ok)
      PROVE  Ordered(inbox'[a], routes'[a], open'[a], serial'[a])
  <2>1. CASE a # s
    BY <1>0, <1>4, <2>1 DEF ZoneAnswer, TypeOK, table, line
  <2>2. CASE a = s
    <3>1. PICK x \in outbox[s] : inbox'[s] = Append(inbox[s], Answer(x, serial[s], ok))
      BY <1>0, <1>4 DEF ZoneAnswer, TypeOK
    <3>2. /\ Answer(x, serial[s], ok) \in Received
          /\ ~IsHello(Answer(x, serial[s], ok))
      <4>1. x \in Sent /\ serial[s] \in Serial
        BY <1>4, <3>1, BoundAssumption DEF ZoneAnswer, TypeOK, Serial
      <4> QED
        BY <4>1 DEF Answer, Sent, Received, IsHello
    <3>3. routes'[a] = routes[a] /\ open'[a] = open[a] /\ serial'[a] = serial[a]
      BY <1>4 DEF ZoneAnswer, table, line
    <3> QED
      BY <1>0, <2>2, <3>1, <3>2, <3>3, OrderedAnswer
  <2> QED
    BY <2>1, <2>2
<1>5. ASSUME NEW s \in Sid, NEW kind, Handles(s, kind), kind # "Hello",
             routes'[a] = None \/ routes'[a] = routes[a],
             a # s \/ routes'[a] = None \/ ~IsDisconnect(Head(inbox[s]), routes[a].serial),
             UNCHANGED <<open, serial>>
      PROVE  Ordered(inbox'[a], routes'[a], open'[a], serial'[a])
  <2>1. CASE a # s
    <3>1. inbox'[a] = inbox[a]
      BY <1>0, <1>5, <2>1 DEF Handles
    <3> QED
      BY <1>0, <1>5, <3>1, OrderedRoute
  <2>2. CASE a = s
    <3>1. inbox'[a] = Tail(inbox[a]) /\ inbox[a] # <<>>
      BY <1>0, <1>5, <2>2 DEF Handles
    <3> QED
      BY <1>0, <1>5, <2>2, <3>1, OrderedHandle
  <2> QED
    BY <2>1, <2>2
<1>6. ASSUME NEW s \in Sid, RegisterZoneRoute(s)
      PROVE  Ordered(inbox'[a], routes'[a], open'[a], serial'[a])
  <2>1. CASE a # s
    BY <1>0, <1>6, <2>1 DEF RegisterZoneRoute, Handles, TypeOK, line
  <2>2. CASE a = s
    <3>1. /\ inbox'[a] = Tail(inbox[a]) /\ inbox[a] # <<>> /\ IsHello(Head(inbox[a]))
          /\ open'[a] = open[a] /\ serial'[a] = serial[a]
      BY <1>0, <1>6, <2>2 DEF RegisterZoneRoute, Handles, line, IsHello
    <3>2. /\ routes'[a] = [serial |-> Head(inbox[a]).serial, zone |-> Head(inbox[a]).zone, stale |-> FALSE]
          /\ routes'[a] \in Route
      BY <1>6, <2>2, HandlesType, ReceivedFields DEF RegisterZoneRoute, TypeOK, Route
    <3>3. routes'[a] # None
      <4>1. routes'[a] \in Route
        BY <3>2
      <4> QED
        BY <4>1, NoneDistinct
    <3>4. routes'[a].serial = Head(inbox[a]).serial
      BY <3>2
    <3> QED
      BY <1>0, <3>1, <3>3, <3>4, OrderedRegister
  <2> QED
    BY <2>1, <2>2
<1>7. ASSUME NEW s \in Sid, UnregisterZoneRoute(s)
      PROVE  Ordered(inbox'[a], routes'[a], open'[a], serial'[a])
  <2>1. CASE routes[s] # None /\ routes[s].serial = Head(inbox[s]).serial
    <3>1. Drop({s}, {}, {})
      BY <1>7, <2>1 DEF UnregisterZoneRoute
    <3> QED
      BY <1>5, <1>7, <3>1, DropRoutes DEF UnregisterZoneRoute, line
  <2>2. CASE ~(routes[s] # None /\ routes[s].serial = Head(inbox[s]).serial)
    BY <1>5, <1>7, <2>2 DEF UnregisterZoneRoute, line, table, IsDisconnect
  <2> QED
    BY <2>1, <2>2
<1>8. ASSUME NEW s \in Sid, OnZoneMapAssignResponse(s)
      PROVE  Ordered(inbox'[a], routes'[a], open'[a], serial'[a])
  <2>1. Handles(s, "AssignResponse") /\ UNCHANGED <<routes, open, serial>>
    BY <1>8 DEF OnZoneMapAssignResponse, line
  <2> QED
    BY <1>5, <2>1 DEF Handles, IsDisconnect
<1>9. ASSUME NEW s \in Sid, OnZonePlayerEnterAck(s)
      PROVE  Ordered(inbox'[a], routes'[a], open'[a], serial'[a])
  <2>1. Handles(s, "EnterAck") /\ UNCHANGED <<routes, open, serial>>
    BY <1>9 DEF OnZonePlayerEnterAck, line, table
  <2> QED
    BY <1>5, <2>1 DEF Handles, IsDisconnect
<1>10. ASSUME NEW s \in Sid, Silence(s) \/ OnZoneRouteHeartbeat(s)
       PROVE  Ordered(inbox'[a], routes'[a], open'[a], serial'[a])
  <2>1. UNCHANGED <<inbox, open, serial>>
    BY <1>10 DEF Silence, OnZoneRouteHeartbeat, line, wire
  <2>2. \/ routes'[a] = routes[a]
        \/ /\ routes[a] # None /\ routes'[a] # None
           /\ routes'[a].serial = routes[a].serial
    <3>1. CASE a # s
      BY <1>10, <3>1 DEF Silence, OnZoneRouteHeartbeat, TypeOK
    <3>2. CASE a = s
      <4>0. PICK b \in BOOLEAN : routes'[a] = [routes[a] EXCEPT !.stale = b]
        BY <1>10, <3>2 DEF Silence, OnZoneRouteHeartbeat, TypeOK
      <4>1. routes[a] \in Route
        BY <1>0, <1>10, <3>2 DEF Silence, OnZoneRouteHeartbeat
      <4>2. routes'[a] \in Route /\ routes'[a].serial = routes[a].serial
        BY <4>0, <4>1 DEF Route
      <4> QED
        BY <4>1, <4>2, NoneDistinct
    <3> QED
      BY <3>1, <3>2
  <2> QED
    BY <1>0, <2>1, <2>2, OrderedRoute
<1>11. ASSUME NEW S, NEW T, NEW U, ExpireStaleZoneRoutes(S, T, U)
       PROVE  Ordered(inbox'[a], routes'[a], open'[a], serial'[a])
  <2>1. UNCHANGED <<inbox, open, serial>> /\ Drop(S, T, U)
    BY <1>11 DEF ExpireStaleZoneRoutes, wire
  <2> QED
    BY <1>0, <2>1, DropRoutes, OrderedRoute
<1>12. ASSUME NEW z \in Zone, ZoneLost(z)
       PROVE  Quiet
  BY <1>12 DEF ZoneLost, wire, table
<1>13. ASSUME NEW p \in Player, NEW m \in Map, EnterWorld(p, m) \/ BeginPortalTransfer(p, m)
       PROVE  Quiet
  BY <1>13 DEF EnterWorld, BeginPortalTransfer, line, wire, table
<1>14. ASSUME NEW p \in Player, Continue(p) \/ Evict(p) \/ Abort(p)
       PROVE  Quiet
  BY <1>14 DEF Continue, AlreadyAssigned, AlreadyPending, NoZoneAvailable, SelectZoneRoute,
               RecordRequest, SendMapAssignRequest, Park, Evict, Abort, line, wire, table
<1>15. CASE UNCHANGED vars
  BY <1>1, <1>15 DEF vars, line, wire, table
<1> HIDE DEF Quiet
<1> QED
  BY <1>1, <1>2, <1>3, <1>4, <1>6, <1>7, <1>8, <1>9, <1>10, <1>11, <1>12, <1>13, <1>14, <1>15
     DEF Next, Continue

\* The slots start with empty inboxes and without routes.
LEMMA OrderInit == Init => Order
BY DEF Init, Order, Ordered, HelloClosed, RouteClosed, HelloOrdered, RouteOrdered

\* Whatever order connections come and go in, the events of a slot stay ordered:
\* the disconnect of a connection is handled before the hello of the next one of
\* that slot, and the route of a connection that is gone awaits its disconnect.
THEOREM SlotOrder == Spec => []Order
<1>1. TypeOK /\ Order /\ [Next]_vars => (TypeOK /\ Order)'
  BY TypeStep, OrderStep
<1> QED
  BY <1>1, TypeInit, OrderInit, PTL DEF Spec

\* A step leaves the route of a slot with its connection, takes it away, or
\* registers one where there was none.
LEMMA RouteStep ==
    ASSUME TypeOK, Order, [Next]_vars, NEW a \in Sid, routes[a] # None, routes'[a] # None
    PROVE  routes'[a].serial = routes[a].serial
<1>1. ASSUME NEW s \in Sid, RegisterZoneRoute(s)
      PROVE  routes'[a].serial = routes[a].serial
  <2>1. a # s
    <3> SUFFICES ASSUME a = s
                 PROVE  FALSE
      OBVIOUS
    <3>1. /\ inbox[a] \in Seq(Received) /\ inbox[a] # <<>> /\ IsHello(Head(inbox[a]))
          /\ RouteOrdered(inbox[a], routes[a])
      BY <1>1 DEF RegisterZoneRoute, Handles, TypeOK, IsHello, Order, Ordered
    <3>2. Len(inbox[a]) \in Nat \ {0} /\ Head(inbox[a]) = inbox[a][1]
      BY <3>1, HeadTailProperties, EmptySeq
    <3> QED
      BY <3>1, <3>2 DEF RouteOrdered
  <2> QED
    BY <1>1, <2>1 DEF RegisterZoneRoute, TypeOK
<1>2. ASSUME NEW S, NEW T, NEW U, Drop(S, T, U)
      PROVE  routes'[a].serial = routes[a].serial
  BY <1>2, DropRoutes
<1>3. ASSUME NEW s \in Sid, Silence(s) \/ OnZoneRouteHeartbeat(s)
      PROVE  routes'[a].serial = routes[a].serial
  <2>1. PICK b \in BOOLEAN : routes' = [routes EXCEPT ![s].stale = b]
    BY <1>3 DEF Silence, OnZoneRouteHeartbeat
  <2>2. routes[a] \in Route /\ routes \in [Sid -> Route \cup {None}]
    BY DEF TypeOK
  <2>3. CASE a = s
    <3>1. routes'[a] = [routes[a] EXCEPT !.stale = b]
      BY <2>1, <2>2, <2>3
    <3> QED
      BY <2>2, <3>1 DEF Route
  <2> QED
    BY <2>1, <2>2, <2>3
<1>4. ASSUME NEW s \in Sid, UnregisterZoneRoute(s)
      PROVE  routes'[a].serial = routes[a].serial
  BY <1>2, <1>4 DEF UnregisterZoneRoute, table
<1>5. ASSUME NEW S, NEW T, NEW U, ExpireStaleZoneRoutes(S, T, U)
      PROVE  routes'[a].serial = routes[a].serial
  BY <1>2, <1>5 DEF ExpireStaleZoneRoutes
<1>6. ASSUME NEW z \in Zone, NEW s \in Sid, ZoneConnect(z, s) \/ ZoneLost(z)
      PROVE  routes' = routes
  BY <1>6 DEF ZoneConnect, ZoneLost, table
<1>7. ASSUME NEW s \in Sid, NEW ok \in BOOLEAN,
             \/ SocketClose(s) \/ ZoneAnswer(s, ok)
             \/ OnZoneMapAssignResponse(s) \/ OnZonePlayerEnterAck(s)
      PROVE  routes' = routes
  BY <1>7 DEF SocketClose, ZoneAnswer, OnZoneMapAssignResponse, OnZonePlayerEnterAck, table
<1>8. ASSUME NEW p \in Player, NEW m \in Map, EnterWorld(p, m) \/ BeginPortalTransfer(p, m)
      PROVE  routes' = routes
  BY <1>8 DEF EnterWorld, BeginPortalTransfer, table
<1>9. ASSUME NEW p \in Player, Continue(p) \/ Evict(p) \/ Abort(p)
      PROVE  routes' = routes
  BY <1>9 DEF Continue, AlreadyAssigned, AlreadyPending, NoZoneAvailable, SelectZoneRoute,
              RecordRequest, SendMapAssignRequest, Park, Evict, Abort, table
<1>10. CASE UNCHANGED vars
  BY <1>10 DEF vars, table
<1> QED
  BY <1>1, <1>3, <1>4, <1>5, <1>6, <1>7, <1>8, <1>9, <1>10 DEF Next, Continue

\* No route is ever replaced by that of another connection of its slot, for any
\* topology and whether or not the handlers of different threads overlap.
THEOREM RoutesNotReplaced == Spec => RouteNotReplaced
<1>1. TypeOK /\ Order /\ [Next]_vars =>
        [\A s \in Sid : routes[s] # None /\ routes'[s] # None
                          => routes'[s].serial = routes[s].serial]_vars
  BY RouteStep
<1> QED
  BY <1>1, TypeCorrect, SlotOrder, PTL DEF Spec, RouteNotReplaced
=============================================================================
