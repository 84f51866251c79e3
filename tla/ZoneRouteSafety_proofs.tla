----------------------- MODULE ZoneRouteSafety_proofs -----------------------
(***************************************************************************)
(* Where maps are placed and where an entering session is, for every       *)
(* topology, every bound and however the handlers of different threads     *)
(* interleave.                                                             *)
(***************************************************************************)
EXTENDS ZoneRoute_proofs

-----------------------------------------------------------------------------
(* Where maps are placed. *)

\* AssignMapInstance, OnZoneMapAssignResponse: a map is assigned only to a
\* process that serves it.
AssignedWhereServed == \A m \in Map : assignment[m] # None => m \in Serves[assignment[m]]

\* So does what leads to an assignment: a pending request, a selected route.
PlacementInv ==
    /\ AssignedWhereServed
    /\ \A r \in assigns : r.map \in Serves[r.zone]
    /\ \A p \in Player : call[p] # None /\ call[p].step = "Selected"
                           => call[p].map \in Serves[call[p].zone]

\* A step that moves one call and adds neither requests nor assignments.
LEMMA PlacementMoves ==
    ASSUME TypeOK, PlacementInv, NEW p \in Player, NEW c,
           call' = [call EXCEPT ![p] = c],
           c # None /\ c.step = "Selected" => c.map \in Serves[c.zone],
           UNCHANGED <<assignment, assigns>>
    PROVE  PlacementInv'
<1>1. \A q \in Player : call'[q] = IF q = p THEN c ELSE call[q]
  BY DEF TypeOK
<1> QED
  BY <1>1 DEF PlacementInv, AssignedWhereServed

\* A step that moves no call and only forgets requests and assignments.
LEMMA PlacementShrinks ==
    ASSUME PlacementInv, UNCHANGED call, assigns' \subseteq assigns,
           \A m \in Map : assignment'[m] \in {assignment[m], None}
    PROVE  PlacementInv'
BY DEF PlacementInv, AssignedWhereServed

\* A call records a request to the process it selected, which serves the map.
LEMMA PlacementRecord ==
    ASSUME TypeOK, PlacementInv, NEW p \in Player, RecordRequest(p)
    PROVE  PlacementInv'
<1> DEFINE c == call[p]
           r == [id |-> nextRequest, map |-> c.map, target |-> c.target, zone |-> c.zone]
           d == [kind |-> c.kind, map |-> c.map, step |-> "Recorded",
                 id |-> nextRequest, target |-> c.target]
<1>1. c # None /\ c.step = "Selected" /\ c.map \in Serves[c.zone] /\ assignment' = assignment
  BY DEF RecordRequest, At, PlacementInv, table
<1>2. assigns' = assigns \cup {r} /\ call' = [call EXCEPT ![p] = d]
  BY DEF RecordRequest
<1>3. r.map = c.map /\ r.zone = c.zone /\ d.step = "Recorded"
  OBVIOUS
<1> HIDE DEF r, d
<1>4. \A q \in Player : call'[q] = IF q = p THEN d ELSE call[q]
  BY <1>2 DEF TypeOK
<1> QED
  BY <1>1, <1>2, <1>3, <1>4 DEF PlacementInv, AssignedWhereServed

\* A call sends it, or erases it.
LEMMA PlacementSend ==
    ASSUME TypeOK, PlacementInv, NEW p \in Player, SendMapAssignRequest(p)
    PROVE  PlacementInv'
<1>1. PICK c : call' = [call EXCEPT ![p] = c] /\ (c = None \/ c.step = "Park")
  BY DEF SendMapAssignRequest, Fail, Return
<1>2. assignment' = assignment /\ assigns' \subseteq assigns
  BY DEF SendMapAssignRequest, table
<1>3. \A q \in Player : call'[q] = IF q = p THEN c ELSE call[q]
  BY <1>1 DEF TypeOK
<1> QED
  BY <1>1, <1>2, <1>3 DEF PlacementInv, AssignedWhereServed

\* An answer assigns the map of its request to the process of its request.
LEMMA PlacementAnswer ==
    ASSUME TypeOK, PlacementInv, NEW s \in Sid, OnZoneMapAssignResponse(s)
    PROVE  PlacementInv'
<1> DEFINE x == Head(inbox[s])
           R == {r \in assigns : r.id = x.id /\ r.target = KeyOf(s, x.serial)}
<1>1. call' = call
  BY DEF OnZoneMapAssignResponse
<1>2. CASE R = {}
  <2>1. assigns' = assigns /\ assignment' = assignment
    BY <1>2 DEF OnZoneMapAssignResponse, asked
  <2> QED
    BY <1>1, <2>1, PlacementShrinks
<1>3. CASE R # {}
  <2>1. PICK r \in R :
          /\ assigns' = assigns \ {r}
          /\ assignment' = [assignment EXCEPT ![r.map] = r.zone] \/ assignment' = assignment
    BY <1>3 DEF OnZoneMapAssignResponse
  <2>2. r \in assigns /\ r.map \in Serves[r.zone]
    BY <2>1 DEF PlacementInv
  <2>3. \A m \in Map : assignment'[m] = assignment[m] \/ (m = r.map /\ assignment'[m] = r.zone)
    BY <2>1 DEF TypeOK
  <2> QED
    BY <1>1, <2>1, <2>2, <2>3 DEF PlacementInv, AssignedWhereServed
<1> QED
  BY <1>2, <1>3

LEMMA PlacementStep == TypeOK /\ PlacementInv /\ [Next]_vars => PlacementInv'
<1> SUFFICES ASSUME TypeOK, PlacementInv, [Next]_vars PROVE PlacementInv'
  OBVIOUS
<1>1. CASE UNCHANGED <<assignment, assigns, call>>
  BY <1>1 DEF PlacementInv, AssignedWhereServed
<1>2. ASSUME NEW S, NEW T, NEW U, Drop(S, T, U) PROVE PlacementInv'
  <2>1. assigns' \subseteq assigns /\ call' = call
        /\ \A m \in Map : assignment'[m] \in {assignment[m], None}
    BY <1>2 DEF Drop
  <2> QED
    BY <2>1, PlacementShrinks
<1>3. ASSUME NEW s \in Sid, UnregisterZoneRoute(s) PROVE PlacementInv'
  BY <1>1, <1>2, <1>3 DEF UnregisterZoneRoute, table, asked, clients
<1>4. ASSUME NEW S, NEW T, NEW U, ExpireStaleZoneRoutes(S, T, U) PROVE PlacementInv'
  BY <1>2, <1>4 DEF ExpireStaleZoneRoutes
<1>5. ASSUME NEW p \in Player, NEW m \in Map, EnterWorld(p, m) \/ BeginPortalTransfer(p, m)
      PROVE  PlacementInv'
  <2>1. PICK c : call' = [call EXCEPT ![p] = c] /\ c.step = "Begin"
                 /\ UNCHANGED <<assignment, assigns>>
    BY <1>5 DEF EnterWorld, BeginPortalTransfer, table, asked
  <2> QED
    BY <2>1, PlacementMoves
<1>6. ASSUME NEW p \in Player, AlreadyAssigned(p) \/ NoZoneAvailable(p) \/ Park(p)
      PROVE  PlacementInv'
  <2>1. call' = [call EXCEPT ![p] = None] /\ UNCHANGED <<assignment, assigns>>
    BY <1>6 DEF AlreadyAssigned, NoZoneAvailable, Park, Fail, Return, table, asked
  <2> QED
    BY <2>1, PlacementMoves
<1>7. ASSUME NEW p \in Player, AlreadyPending(p) PROVE PlacementInv'
  <2>1. PICK c : call' = [call EXCEPT ![p] = c] /\ c.step = "Park"
                 /\ UNCHANGED <<assignment, assigns>>
    BY <1>7 DEF AlreadyPending, table, asked
  <2> QED
    BY <2>1, PlacementMoves
<1>8. ASSUME NEW p \in Player, SelectZoneRoute(p) PROVE PlacementInv'
  <2>1. PICK s \in TrySelectZoneRouteForMap(call[p].map) :
          call' = [call EXCEPT ![p] =
                      [kind |-> call[p].kind, map |-> call[p].map, step |-> "Selected",
                       target |-> KeyOf(s, routes[s].serial), zone |-> routes[s].zone]]
    BY <1>8 DEF SelectZoneRoute
  <2>2. call[p].map \in Serves[routes[s].zone] /\ UNCHANGED <<assignment, assigns>>
    BY <1>8, <2>1 DEF SelectZoneRoute, TrySelectZoneRouteForMap, table, asked
  <2> QED
    BY <2>1, <2>2, PlacementMoves
<1>9. ASSUME NEW p \in Player, Abort(p) PROVE PlacementInv'
  BY <1>9, PlacementShrinks DEF Abort, table
<1>10. ASSUME NEW s \in Sid,
              \/ \E z \in Zone : ZoneConnect(z, s) \/ ZoneLost(z)
              \/ SocketClose(s) \/ (\E ok \in BOOLEAN : ZoneAnswer(s, ok))
              \/ RegisterZoneRoute(s) \/ OnZonePlayerEnterAck(s)
              \/ Silence(s) \/ OnZoneRouteHeartbeat(s)
       PROVE  PlacementInv'
  BY <1>1, <1>10 DEF ZoneConnect, ZoneLost, SocketClose, ZoneAnswer, RegisterZoneRoute,
     OnZonePlayerEnterAck, Silence, OnZoneRouteHeartbeat, table, asked, clients
<1>11. ASSUME NEW z \in Zone, ZoneLost(z) PROVE PlacementInv'
  BY <1>1, <1>11 DEF ZoneLost, table, asked, clients
<1>12. ASSUME NEW p \in Player, Evict(p) PROVE PlacementInv'
  BY <1>1, <1>12 DEF Evict, table, asked
<1>13. CASE UNCHANGED vars
  BY <1>1, <1>13 DEF vars, table, asked, clients
<1> QED
  BY <1>3, <1>4, <1>5, <1>6, <1>7, <1>8, <1>9, <1>10, <1>11, <1>12, <1>13,
     PlacementRecord, PlacementSend, PlacementAnswer DEF Next

\* A map is assigned only to a process that serves it, for every topology and
\* however the handlers of different threads overlap.
THEOREM AssignedAlwaysServed == Spec => []AssignedWhereServed
<1>1. Init => PlacementInv
  BY DEF Init, PlacementInv, AssignedWhereServed
<1>2. PlacementInv => AssignedWhereServed
  BY DEF PlacementInv
<1> QED
  BY <1>1, <1>2, PlacementStep, TypeCorrect, PTL DEF Spec

-----------------------------------------------------------------------------
(* One enter-world flow per attempt. *)

Same(e, f) == e.player = f.player /\ e.n = f.n

\* Inductively: no entry is of a later attempt, two entries are never of one
\* attempt, and a call belongs to an attempt that has no entry yet.
FlowInv ==
    /\ \A e \in finalize \cup zoneEnter : e.n <= session[e.player].n
    /\ \A e, f \in finalize : Same(e, f) => e = f
    /\ \A e, f \in zoneEnter : Same(e, f) => e = f
    /\ \A e \in finalize, f \in zoneEnter : ~Same(e, f)
    /\ \A e \in finalize \cup zoneEnter : Calling(e.player) => e.n # session[e.player].n
    /\ \A p \in Player : Entering(p) =>
          \/ Calling(p)
          \/ \E e \in finalize \cup zoneEnter : e.player = p /\ e.n = session[p].n

LEMMA EntriesTyped ==
    ASSUME TypeOK
    PROVE  /\ \A e \in finalize \cup zoneEnter : e.player \in Player /\ e.n \in Nat
           /\ \A p \in Player : session[p].n \in Nat /\ session[p] \in [state : State, n : Attempt]
BY BoundAssumption DEF TypeOK, Waiter, Enter, Attempt

\* Rolling back ends sessions and changes no attempt.
LEMMA RollbackEnds ==
    ASSUME TypeOK, NEW E, session' = Rollback(E)
    PROVE  /\ \A p \in Player : session'[p].n = session[p].n /\ (Entering(p)' => Entering(p))
           /\ \A e \in E : e.player \in Player /\ e.n = session[e.player].n => ~Entering(e.player)'
<1>1. \A p \in Player : session'[p] = IF \E e \in E : e.player = p /\ Pending(e)
                                      THEN [session[p] EXCEPT !.state = "Out"] ELSE session[p]
  BY DEF Rollback
<1>2. \A p \in Player : session[p] \in [state : State, n : Attempt]
  BY DEF TypeOK
<1>3. ASSUME NEW e \in E, e.player \in Player, e.n = session[e.player].n
      PROVE  ~Entering(e.player)'
  <2>1. CASE Entering(e.player)
    <3>1. Pending(e)
      BY <1>2, <1>3, <2>1 DEF Pending, Entering
    <3> QED
      BY <1>1, <1>2, <1>3, <3>1 DEF Entering
  <2>2. CASE ~Entering(e.player)
    BY <1>1, <1>2, <1>3, <2>2 DEF Entering
  <2> QED
    BY <2>1, <2>2
<1> QED
  BY <1>1, <1>2, <1>3 DEF Entering

\* A step that only takes entries away, and only those of sessions it ends.
LEMMA FlowKept ==
    ASSUME TypeOK, FlowInv, finalize' \subseteq finalize, zoneEnter' \subseteq zoneEnter,
           \A p \in Player : /\ session'[p].n = session[p].n
                             /\ Entering(p)' => Entering(p)
                             /\ Calling(p)' => Calling(p)
                             /\ Calling(p) /\ Entering(p)' => Calling(p)',
           \A e \in finalize \cup zoneEnter :
               e.n = session[e.player].n /\ Entering(e.player)'
                  => e \in finalize' \cup zoneEnter'
    PROVE  FlowInv'
<1>1. \A e \in finalize \cup zoneEnter : e.player \in Player
  BY EntriesTyped
<1>2. \A e \in finalize' \cup zoneEnter' : e.n <= session'[e.player].n
  BY <1>1 DEF FlowInv
<1>3. /\ \A e, f \in finalize' : Same(e, f) => e = f
      /\ \A e, f \in zoneEnter' : Same(e, f) => e = f
      /\ \A e \in finalize', f \in zoneEnter' : ~Same(e, f)
  BY DEF FlowInv
<1>4. \A e \in finalize' \cup zoneEnter' : Calling(e.player)' => e.n # session'[e.player].n
  BY <1>1 DEF FlowInv
<1>5. ASSUME NEW p \in Player, Entering(p)', ~Calling(p)'
      PROVE  \E e \in finalize' \cup zoneEnter' : e.player = p /\ e.n = session'[p].n
  <2>1. PICK e \in finalize \cup zoneEnter : e.player = p /\ e.n = session[p].n
    BY <1>5 DEF FlowInv
  <2> QED
    BY <1>5, <2>1
<1> QED
  BY <1>2, <1>3, <1>4, <1>5 DEF FlowInv, Same

\* The entries of E, each of a current attempt that has no other, are taken up
\* from the calls and the waiters that go.
TakenUp(E) ==
    /\ finalize' \subseteq finalize
    /\ \A f \in E : /\ f.player \in Player /\ f.n = session[f.player].n
                    /\ ~Calling(f.player)'
                    /\ \A e \in zoneEnter \cup finalize' : ~Same(e, f)
    /\ \A p \in Player : /\ Calling(p)' => Calling(p)
                         /\ Calling(p) => Calling(p)' \/ \E f \in E : f.player = p
    /\ \A e \in finalize \ finalize' :
          e.n = session[e.player].n /\ Entering(e.player) => \E f \in E : Same(e, f)

\* Entries that are taken up become player enters.
LEMMA FlowMoves ==
    ASSUME TypeOK, FlowInv, session' = session, NEW E, TakenUp(E), zoneEnter \subseteq zoneEnter',
           \A e \in zoneEnter' : e \in zoneEnter \/ \E f \in E : Same(e, f),
           \A f \in E : \E e \in zoneEnter' : Same(e, f),
           \A e, d \in zoneEnter' \ zoneEnter : Same(e, d) => e = d
    PROVE  FlowInv'
<1> USE DEF TakenUp
<1>1. /\ \A e \in finalize \cup zoneEnter : e.player \in Player /\ e.n \in Nat
      /\ \A p \in Player : session[p].n \in Nat
  BY EntriesTyped
<1>2. \A e \in finalize' \cup zoneEnter' : e.n <= session'[e.player].n
  BY <1>1 DEF FlowInv, Same
<1>3. \A e, f \in finalize' : Same(e, f) => e = f
  BY DEF FlowInv
<1>4. \A e, f \in zoneEnter' : Same(e, f) => e = f
  BY DEF FlowInv, Same
<1>5. \A e \in finalize', f \in zoneEnter' : ~Same(e, f)
  BY DEF FlowInv, Same
<1>6. \A e \in finalize' \cup zoneEnter' : Calling(e.player)' => e.n # session'[e.player].n
  BY <1>1 DEF FlowInv, Same
<1>7. ASSUME NEW p \in Player, Entering(p)', ~Calling(p)'
      PROVE  \E e \in finalize' \cup zoneEnter' : e.player = p /\ e.n = session'[p].n
  <2>1. Entering(p)
    BY <1>7 DEF Entering
  <2>2. CASE \E f \in E : f.player = p
    BY <2>2 DEF Same
  <2>3. CASE ~\E f \in E : f.player = p
    <3>1. ~Calling(p)
      BY <1>7, <2>3
    <3>2. PICK e \in finalize \cup zoneEnter : e.player = p /\ e.n = session[p].n
      BY <2>1, <3>1 DEF FlowInv
    <3> QED
      BY <2>1, <2>3, <3>2 DEF Same
  <2> QED
    BY <2>2, <2>3
<1> QED
  BY <1>2, <1>3, <1>4, <1>5, <1>6, <1>7 DEF FlowInv, Same

\* FinalizeEnterWorldSuccess moves the entries of E to the player enters, or
\* rolls their sessions back.
LEMMA FlowFinalizes ==
    ASSUME TypeOK, FlowInv, NEW E, NEW a, NEW m, FinalizeEnterWorldSuccess(E, a, m), TakenUp(E)
    PROVE  FlowInv'
<1> DEFINE target == First(FindZoneRouteByZoneId(GameplayZone[m]))
           sent   == First(ResolveZoneRouteForMapInstance(a, m))
           Row(e) == [player |-> e.player, n |-> e.n, target |-> target, sent |-> sent]
<1>1. CASE zoneEnter' = zoneEnter \cup {Row(e) : e \in E} /\ session' = session
  <2>1. \A f \in E : Row(f).player = f.player /\ Row(f).n = f.n
    OBVIOUS
  <2>2. \A e, f \in E : Same(e, f) => Row(e) = Row(f)
    BY DEF Same
  <2> HIDE DEF Row
  <2>3. \A e \in zoneEnter' : e \in zoneEnter \/ \E f \in E : e = Row(f)
    BY <1>1
  <2>4. \A f \in E : Row(f) \in zoneEnter' /\ Same(Row(f), f)
    BY <1>1, <2>1 DEF Same
  <2>5. \A e, d \in zoneEnter' \ zoneEnter : Same(e, d) => e = d
    BY <2>1, <2>2, <2>3 DEF Same
  <2>6. \A e \in zoneEnter' : e \in zoneEnter \/ \E f \in E : Same(e, f)
    BY <2>3, <2>4
  <2>7. \A f \in E : \E e \in zoneEnter' : Same(e, f)
    BY <2>4
  <2>8. zoneEnter \subseteq zoneEnter' /\ session' = session
    BY <1>1
  <2> QED
    BY <2>5, <2>6, <2>7, <2>8, FlowMoves
<1>2. CASE zoneEnter' = zoneEnter /\ session' = Rollback(E)
  <2>1. /\ \A p \in Player : session'[p].n = session[p].n /\ (Entering(p)' => Entering(p))
        /\ \A f \in E : ~Entering(f.player)'
    BY <1>2, RollbackEnds DEF TakenUp
  <2>2. \A e \in finalize \cup zoneEnter : e.player \in Player
    BY EntriesTyped
  <2>3. \A e \in finalize \cup zoneEnter :
           e.n = session[e.player].n /\ Entering(e.player)' => e \in finalize' \cup zoneEnter'
    BY <1>2, <2>1, <2>2 DEF TakenUp, Same
  <2>4. \A p \in Player : /\ Calling(p)' => Calling(p)
                          /\ Calling(p) /\ Entering(p)' => Calling(p)'
    BY <2>1 DEF TakenUp
  <2>5. zoneEnter' \subseteq zoneEnter /\ finalize' \subseteq finalize
    BY <1>2 DEF TakenUp
  <2> QED
    BY <2>1, <2>3, <2>4, <2>5, FlowKept
<1> QED
  BY <1>1, <1>2 DEF FinalizeEnterWorldSuccess

\* Losing routes and timing out enters ends the sessions whose entries go.
LEMMA FlowDrop ==
    ASSUME TypeOK, FlowInv, NEW S, NEW T \in SUBSET zoneEnter, NEW U, Drop(S, T, U)
    PROVE  FlowInv'
<1> DEFINE E == LostWaiters(S) \cup LostEnters(S) \cup T
<1>1. /\ session' = Rollback(E) /\ call' = call
      /\ finalize' = finalize \ LostWaiters(S)
      /\ zoneEnter' = zoneEnter \ (LostEnters(S) \cup T)
  BY DEF Drop
<1>2. E \subseteq finalize \cup zoneEnter
  BY DEF LostWaiters, LostEnters
<1>3. \A e \in finalize \cup zoneEnter : e \in finalize' \cup zoneEnter' \/ e \in E
  BY <1>1
<1>4. finalize' \subseteq finalize /\ zoneEnter' \subseteq zoneEnter
  BY <1>1
<1> HIDE DEF E
<1>5. /\ \A p \in Player : session'[p].n = session[p].n /\ (Entering(p)' => Entering(p))
      /\ \A e \in E : e.player \in Player /\ e.n = session[e.player].n => ~Entering(e.player)'
  BY <1>1, RollbackEnds
<1>6. \A e \in finalize \cup zoneEnter : e.player \in Player
  BY EntriesTyped
<1>7. \A p \in Player : Calling(p)' <=> Calling(p)
  BY <1>1 DEF Calling
<1> QED
  BY <1>3, <1>4, <1>5, <1>6, <1>7, FlowKept

\* A zone's answer finalizes the sessions that wait for it, or rolls them back.
LEMMA FlowResponse ==
    ASSUME TypeOK, FlowInv, NEW s \in Sid, OnZoneMapAssignResponse(s)
    PROVE  FlowInv'
<1> DEFINE x == Head(inbox[s])
           R == {r \in assigns : r.id = x.id /\ r.target = KeyOf(s, x.serial)}
           W(r) == {f \in finalize : f.id = r.id /\ Pending(f)}
<1>0. \A p \in Player : Calling(p)' <=> Calling(p)
  BY DEF OnZoneMapAssignResponse, Calling
<1>1. CASE finalize' = finalize /\ zoneEnter' = zoneEnter /\ session' = session
  BY <1>0, <1>1, FlowKept DEF Entering
<1>2. ASSUME NEW r \in R, finalize' = {f \in finalize : f.id # r.id},
             \/ session' = Rollback(W(r)) /\ zoneEnter' = zoneEnter
             \/ FinalizeEnterWorldSuccess(W(r), assignment', r.map)
      PROVE  FlowInv'
  <2>1. \A e \in finalize \cup zoneEnter : e.player \in Player /\ session[e.player] \in [state : State, n : Attempt]
    BY EntriesTyped
  <2>2. \A e \in finalize \ finalize' :
           e.n = session[e.player].n /\ Entering(e.player) => e \in W(r)
    BY <1>2, <2>1 DEF Entering, Pending
  <2>3. \A f \in W(r) : /\ f \in finalize \ finalize' /\ f.player \in Player
                        /\ f.n = session[f.player].n /\ Entering(f.player)
    BY <1>2, <2>1 DEF Pending, Entering
  <2> HIDE DEF W, R, x
  <2>4. CASE session' = Rollback(W(r)) /\ zoneEnter' = zoneEnter
    <3>1. /\ \A p \in Player : session'[p].n = session[p].n /\ (Entering(p)' => Entering(p))
          /\ \A e \in W(r) : ~Entering(e.player)'
      BY <2>3, <2>4, RollbackEnds
    <3>2. \A e \in finalize \cup zoneEnter :
             e.n = session[e.player].n /\ Entering(e.player)' => e \in finalize' \cup zoneEnter'
      BY <2>1, <2>2, <2>4, <3>1
    <3> QED
      BY <1>0, <1>2, <2>4, <3>1, <3>2, FlowKept
  <2>5. CASE FinalizeEnterWorldSuccess(W(r), assignment', r.map)
    <3>1. \A f \in W(r) : \A e \in zoneEnter \cup finalize' : ~Same(e, f)
      BY <1>2, <2>3 DEF FlowInv, Same
    <3>2. \A f \in W(r) : ~Calling(f.player)'
      BY <1>0, <2>3 DEF FlowInv
    <3>3. \A e \in finalize \ finalize' :
             e.n = session[e.player].n /\ Entering(e.player) => \E f \in W(r) : Same(e, f)
      BY <2>2 DEF Same
    <3>4. finalize' \subseteq finalize
      BY <1>2
    <3>5. TakenUp(W(r))
      BY <1>0, <2>3, <3>1, <3>2, <3>3, <3>4 DEF TakenUp
    <3> QED
      BY <2>5, <3>5, FlowFinalizes
  <2> QED
    BY <1>2, <2>4, <2>5
<1> QED
  BY <1>1, <1>2 DEF OnZoneMapAssignResponse, waiting

\* A call ends: its player's enter is sent, or the session is rolled back.
LEMMA FlowCalls ==
    ASSUME TypeOK, FlowInv, NEW p \in Player,
           AlreadyAssigned(p) \/ NoZoneAvailable(p) \/ SendMapAssignRequest(p)
    PROVE  FlowInv'
<1>1. finalize' = finalize /\ call[p] # None
  BY DEF AlreadyAssigned, NoZoneAvailable, SendMapAssignRequest, waiting, At
<1>2. Entry(p).player = p /\ Entry(p).n = session[p].n
  BY DEF Entry
<1>3. \A q \in Player \ {p} : Calling(q)' <=> Calling(q)
  BY DEF AlreadyAssigned, NoZoneAvailable, SendMapAssignRequest, Fail, Return, Calling, TypeOK
<1>4. CASE zoneEnter' = zoneEnter /\ Fail(p)
  <2>1. ~Calling(p)'
    BY <1>4 DEF Fail, Return, Calling, TypeOK
  <2>2. CASE Calling(p)
    <3>1. session' = Rollback({Entry(p)})
      BY <1>4, <2>2 DEF Fail, Calling
    <3>2. /\ \A q \in Player : session'[q].n = session[q].n /\ (Entering(q)' => Entering(q))
          /\ ~Entering(p)'
      BY <1>2, <3>1, RollbackEnds
    <3> QED
      BY <1>1, <1>3, <1>4, <2>1, <3>2, FlowKept
  <2>3. CASE ~Calling(p)
    <3>1. session' = session
      BY <1>1, <1>4, <2>3 DEF Fail, Calling
    <3> QED
      BY <1>1, <1>3, <1>4, <2>1, <2>3, <3>1, FlowKept DEF Entering
  <2> QED
    BY <2>2, <2>3
<1>5. CASE AlreadyAssigned(p)
  <2>1. ~Calling(p)'
    BY <1>5 DEF AlreadyAssigned, Return, Calling, TypeOK
  <2>2. CASE Calling(p)
    <3>1. FinalizeEnterWorldSuccess({Entry(p)}, assignment, call[p].map)
      BY <1>5, <2>2 DEF AlreadyAssigned, Calling
    <3>2. \A e \in zoneEnter \cup finalize : ~Same(e, Entry(p))
      BY <1>2, <2>2 DEF FlowInv, Same
    <3>3. TakenUp({Entry(p)})
      BY <1>1, <1>2, <1>3, <2>1, <3>2 DEF TakenUp
    <3> QED
      BY <3>1, <3>3, FlowFinalizes
  <2>3. CASE ~Calling(p)
    <3>1. session' = session /\ zoneEnter' = zoneEnter
      BY <1>1, <1>5, <2>3 DEF AlreadyAssigned, Calling
    <3> QED
      BY <1>1, <1>3, <2>1, <2>3, <3>1, FlowKept DEF Entering
  <2> QED
    BY <2>2, <2>3
<1>6. CASE zoneEnter' = zoneEnter /\ session' = session /\ (Calling(p)' <=> Calling(p))
  BY <1>1, <1>3, <1>6, FlowKept DEF Entering
<1>7. CASE SendMapAssignRequest(p)
  <2>1. zoneEnter' = zoneEnter
    BY <1>7 DEF SendMapAssignRequest, waiting
  <2>2. CASE Live(call[p].target)
    <3> DEFINE d == [kind |-> call[p].kind, map |-> call[p].map, step |-> "Park", id |-> call[p].id]
    <3>1. session' = session /\ call' = [call EXCEPT ![p] = d]
      BY <1>7, <2>2 DEF SendMapAssignRequest
    <3>2. d.kind = call[p].kind /\ d \in Call
      <4>1. /\ call[p].kind \in {"Enter", "Portal"} /\ call[p].map \in Map
            /\ call[p].id \in Request
        BY <1>1, <1>7, CallFields DEF SendMapAssignRequest, At
      <4> QED
        BY <4>1 DEF Call
    <3> HIDE DEF d
    <3>3. call'[p] = d /\ d # None
      BY <3>1, <3>2, NoneDistinct DEF TypeOK
    <3> QED
      BY <1>1, <1>6, <2>1, <3>1, <3>2, <3>3 DEF Calling
  <2>3. CASE ~Live(call[p].target)
    BY <1>4, <1>7, <2>1, <2>3 DEF SendMapAssignRequest
  <2> QED
    BY <2>2, <2>3
<1>8. CASE NoZoneAvailable(p)
  BY <1>4, <1>8 DEF NoZoneAvailable, waiting
<1> QED
  BY <1>5, <1>7, <1>8

\* A call starts to wait for the answer to its request.
LEMMA FlowParks ==
    ASSUME TypeOK, FlowInv, NEW p \in Player, Park(p)
    PROVE  FlowInv'
<1> DEFINE w == [id |-> call[p].id, player |-> p, n |-> session[p].n]
<1>1. /\ session' = session /\ zoneEnter' = zoneEnter
      /\ call[p] # None /\ call' = [call EXCEPT ![p] = None]
  BY DEF Park, At, Return
<1>2. \A q \in Player : Calling(q)' <=> q # p /\ Calling(q)
  BY <1>1 DEF Calling, TypeOK
<1>3. CASE ~Calling(p)
  <2>1. finalize' = finalize
    BY <1>1, <1>3 DEF Park, Calling
  <2> QED
    BY <1>1, <1>2, <1>3, <2>1, FlowKept DEF Entering
<1>4. CASE Calling(p)
  <2>1. finalize' = finalize \cup {w}
    BY <1>4 DEF Park, Calling
  <2>2. w.player = p /\ w.n = session[p].n
    OBVIOUS
  <2> HIDE DEF w
  <2>3. /\ \A e \in finalize \cup zoneEnter : e.player \in Player /\ e.n \in Nat
        /\ \A q \in Player : session[q].n \in Nat
    BY EntriesTyped
  <2>4. \A e \in finalize \cup zoneEnter : ~Same(e, w)
    BY <1>4, <2>2 DEF FlowInv, Same
  <2>5. \A e \in finalize' \cup zoneEnter' : e.n <= session'[e.player].n
    BY <1>1, <2>1, <2>2, <2>3 DEF FlowInv
  <2>6. /\ \A e, f \in finalize' : Same(e, f) => e = f
        /\ \A e, f \in zoneEnter' : Same(e, f) => e = f
        /\ \A e \in finalize', f \in zoneEnter' : ~Same(e, f)
    BY <1>1, <2>1, <2>4 DEF FlowInv, Same
  <2>7. \A e \in finalize' \cup zoneEnter' : Calling(e.player)' => e.n # session'[e.player].n
    BY <1>1, <1>2, <2>1, <2>2, <2>3 DEF FlowInv
  <2>8. ASSUME NEW q \in Player, Entering(q)', ~Calling(q)'
        PROVE  \E e \in finalize' \cup zoneEnter' : e.player = q /\ e.n = session'[q].n
    <3>1. CASE q = p
      BY <1>1, <2>1, <2>2, <3>1
    <3>2. CASE q # p
      BY <1>1, <1>2, <2>1, <2>8, <3>2 DEF FlowInv, Entering
    <3> QED
      BY <3>1, <3>2
  <2> QED
    BY <2>5, <2>6, <2>7, <2>8 DEF FlowInv, Same
<1> QED
  BY <1>3, <1>4

\* A new attempt has a number no entry has.
LEMMA FlowBegins ==
    ASSUME TypeOK, FlowInv, NEW p \in Player, NEW m \in Map, EnterWorld(p, m)
    PROVE  FlowInv'
<1> DEFINE c == [kind |-> "Enter", map |-> m, step |-> "Begin"]
<1>1. /\ session' = [session EXCEPT ![p] = [state |-> "Entering", n |-> @.n + 1]]
      /\ call' = [call EXCEPT ![p] = c] /\ call[p] = None
      /\ finalize' = finalize /\ zoneEnter' = zoneEnter
  BY DEF EnterWorld, waiting
<1>2. c.kind = "Enter" /\ c \in Call
  BY DEF Call
<1> HIDE DEF c
<1>3. Calling(p)' /\ \A q \in Player \ {p} : Calling(q)' <=> Calling(q)
  BY <1>1, <1>2, NoneDistinct DEF Calling, TypeOK
<1>4. session'[p].n = session[p].n + 1 /\ \A q \in Player \ {p} : session'[q] = session[q]
  BY <1>1 DEF TypeOK
<1>5. /\ \A e \in finalize \cup zoneEnter : e.player \in Player /\ e.n \in Nat
      /\ \A q \in Player : session[q].n \in Nat
  BY EntriesTyped
<1>6. \A e \in finalize \cup zoneEnter : e.n <= session[e.player].n
  BY DEF FlowInv
<1>7. ASSUME NEW e \in finalize' \cup zoneEnter'
      PROVE  e.n <= session'[e.player].n /\ (Calling(e.player)' => e.n # session'[e.player].n)
  <2>1. CASE e.player = p
    BY <1>1, <1>4, <1>5, <1>6, <2>1
  <2>2. CASE e.player # p
    BY <1>1, <1>3, <1>4, <1>5, <2>2 DEF FlowInv
  <2> QED
    BY <2>1, <2>2
<1>8. /\ \A e, f \in finalize' : Same(e, f) => e = f
      /\ \A e, f \in zoneEnter' : Same(e, f) => e = f
      /\ \A e \in finalize', f \in zoneEnter' : ~Same(e, f)
  BY <1>1 DEF FlowInv
<1>9. ASSUME NEW q \in Player, Entering(q)', ~Calling(q)'
      PROVE  \E e \in finalize' \cup zoneEnter' : e.player = q /\ e.n = session'[q].n
  BY <1>1, <1>3, <1>4, <1>9 DEF FlowInv, Entering
<1> QED
  BY <1>7, <1>8, <1>9 DEF FlowInv, Same

\* An abort takes away exactly the entries of the session it ends.
LEMMA FlowAborts ==
    ASSUME TypeOK, FlowInv, NEW p \in Player, Abort(p)
    PROVE  FlowInv'
<1>1. /\ session' = [session EXCEPT ![p].state = "Out"] /\ call' = call
      /\ finalize' = finalize \ {f \in finalize : f.player = p /\ f.n = session[p].n}
      /\ zoneEnter' = {r \in zoneEnter : r.player # p \/ r.n # session[p].n}
  BY DEF Abort
<1>2. \A q \in Player : session[q] \in [state : State, n : Attempt]
  BY EntriesTyped
<1>3. /\ \A q \in Player : session'[q].n = session[q].n /\ (Entering(q)' => q # p /\ Entering(q))
      /\ \A q \in Player : Calling(q)' <=> Calling(q)
  BY <1>1, <1>2 DEF Entering, Calling, TypeOK
<1>4. finalize' \subseteq finalize /\ zoneEnter' \subseteq zoneEnter
  BY <1>1
<1>5. \A e \in finalize \cup zoneEnter : e.player \in Player
  BY EntriesTyped
<1>6. \A e \in finalize \cup zoneEnter : e.player # p => e \in finalize' \cup zoneEnter'
  BY <1>1
<1> QED
  BY <1>3, <1>4, <1>5, <1>6, FlowKept

\* An acknowledgement ends the enters it answers, with their sessions in the
\* world or out of it.
LEMMA FlowAck ==
    ASSUME TypeOK, FlowInv, NEW s \in Sid, OnZonePlayerEnterAck(s)
    PROVE  FlowInv'
<1> DEFINE x == Head(inbox[s])
           R == {r \in zoneEnter : /\ r.player = x.player
                                   /\ r.n = x.n
                                   /\ r.target = KeyOf(s, x.serial)}
<1>1. /\ zoneEnter' = zoneEnter \ R /\ finalize' = finalize /\ call' = call
      /\ R \subseteq zoneEnter
  BY DEF OnZonePlayerEnterAck
<1>2. PICK st \in {"InWorld", "Out"} :
         session' = [p \in Player |-> IF \E r \in R : r.player = p /\ Pending(r)
                                      THEN [session[p] EXCEPT !.state = st] ELSE session[p]]
  BY DEF OnZonePlayerEnterAck
<1> HIDE DEF R, x
<1>3. /\ \A e \in finalize \cup zoneEnter : e.player \in Player
      /\ \A p \in Player : session[p] \in [state : State, n : Attempt]
  BY EntriesTyped
<1>4. \A p \in Player : session'[p] = IF \E r \in R : r.player = p /\ Pending(r)
                                      THEN [session[p] EXCEPT !.state = st] ELSE session[p]
  BY <1>2
<1>5. \A p \in Player : session'[p].n = session[p].n /\ (Entering(p)' => session'[p] = session[p])
  BY <1>3, <1>4 DEF Entering
<1>6. \A e \in R : e.n = session[e.player].n => ~Entering(e.player)'
  <2> SUFFICES ASSUME NEW e \in R, e.n = session[e.player].n, Entering(e.player)'
               PROVE  FALSE
    OBVIOUS
  <2>1. e.player \in Player /\ session'[e.player] = session[e.player]
    BY <1>1, <1>3, <1>5
  <2>2. Pending(e)
    BY <1>3, <2>1 DEF Pending, Entering
  <2>3. session'[e.player].state = st
    BY <1>3, <1>4, <2>1, <2>2
  <2> QED
    BY <2>3 DEF Entering
<1>7. \A p \in Player : /\ Entering(p)' => Entering(p)
                        /\ Calling(p)' <=> Calling(p)
  BY <1>1, <1>5 DEF Entering, Calling
<1> QED
  BY <1>1, <1>5, <1>6, <1>7, FlowKept

\* Every step keeps the flows apart.
LEMMA FlowStep == TypeOK /\ FlowInv /\ [Next]_vars => FlowInv'
<1> SUFFICES ASSUME TypeOK, FlowInv, [Next]_vars PROVE FlowInv'
  OBVIOUS
<1>1. CASE UNCHANGED <<finalize, zoneEnter, session>> /\ \A p \in Player : Calling(p)' <=> Calling(p)
  BY <1>1, FlowKept DEF Entering
<1>2. CASE UNCHANGED <<finalize, zoneEnter, session, call>>
  BY <1>1, <1>2 DEF Calling
<1>3. ASSUME NEW s \in Sid, UnregisterZoneRoute(s) PROVE FlowInv'
  <2>1. CASE Drop({s}, {}, {})
    BY <2>1, FlowDrop
  <2> QED
    BY <1>2, <1>3, <2>1 DEF UnregisterZoneRoute, waiting, clients
<1>4. ASSUME NEW S, NEW T \in SUBSET zoneEnter, NEW U, ExpireStaleZoneRoutes(S, T, U) PROVE FlowInv'
  BY <1>4, FlowDrop DEF ExpireStaleZoneRoutes
<1>5. ASSUME NEW s \in Sid,
             \/ \E z \in Zone : ZoneConnect(z, s)
             \/ SocketClose(s) \/ (\E ok \in BOOLEAN : ZoneAnswer(s, ok))
             \/ RegisterZoneRoute(s) \/ Silence(s) \/ OnZoneRouteHeartbeat(s)
      PROVE  FlowInv'
  BY <1>2, <1>5 DEF ZoneConnect, SocketClose, ZoneAnswer, RegisterZoneRoute, Silence,
     OnZoneRouteHeartbeat, waiting, clients
<1>6. ASSUME NEW z \in Zone, ZoneLost(z) PROVE FlowInv'
  BY <1>2, <1>6 DEF ZoneLost, waiting, clients
<1>7. ASSUME NEW p \in Player, NEW c, call' = [call EXCEPT ![p] = c], c \in Call,
             c.kind = "Enter" <=> Calling(p), UNCHANGED <<finalize, zoneEnter, session>>
      PROVE  FlowInv'
  BY <1>1, <1>7, NoneDistinct DEF Calling, TypeOK
<1>8. ASSUME NEW p \in Player, NEW m \in Map, BeginPortalTransfer(p, m) PROVE FlowInv'
  <2>1. [kind |-> "Portal", map |-> m, step |-> "Begin"] \in Call
    BY DEF Call
  <2>2. ~Calling(p)
    BY <1>8 DEF BeginPortalTransfer, Calling
  <2> QED
    BY <1>7, <1>8, <2>1, <2>2 DEF BeginPortalTransfer, waiting
<1>9. ASSUME NEW p \in Player, AlreadyPending(p) PROVE FlowInv'
  <2> DEFINE c == [kind |-> call[p].kind, map |-> call[p].map, step |-> "Park", id |-> byMap[call[p].map]]
  <2>1. /\ call[p] # None /\ byMap[call[p].map] # 0
        /\ call' = [call EXCEPT ![p] = c] /\ UNCHANGED <<finalize, zoneEnter, session>>
    BY <1>9 DEF AlreadyPending, At, waiting
  <2>2. call[p].kind \in {"Enter", "Portal"} /\ call[p].map \in Map
    BY <2>1, CallFields
  <2>3. byMap[call[p].map] \in Request
    BY <2>1, <2>2 DEF TypeOK
  <2>4. c \in Call /\ (c.kind = "Enter" <=> Calling(p))
    BY <2>1, <2>2, <2>3 DEF Call, Calling
  <2> HIDE DEF c
  <2> QED
    BY <1>7, <2>1, <2>4
<1>10. ASSUME NEW p \in Player, SelectZoneRoute(p) PROVE FlowInv'
  <2>1. PICK s \in TrySelectZoneRouteForMap(call[p].map) :
          call' = [call EXCEPT ![p] =
                      [kind |-> call[p].kind, map |-> call[p].map, step |-> "Selected",
                       target |-> KeyOf(s, routes[s].serial), zone |-> routes[s].zone]]
    BY <1>10 DEF SelectZoneRoute
  <2> DEFINE c == [kind |-> call[p].kind, map |-> call[p].map, step |-> "Selected",
                   target |-> KeyOf(s, routes[s].serial), zone |-> routes[s].zone]
  <2>2. call[p] # None /\ UNCHANGED <<finalize, zoneEnter, session>>
    BY <1>10 DEF SelectZoneRoute, At, waiting
  <2>3. call[p].kind \in {"Enter", "Portal"} /\ call[p].map \in Map
    BY <2>2, CallFields
  <2>4. s \in Sid /\ routes[s] \in Route
    BY DEF TrySelectZoneRouteForMap, TypeOK
  <2>5. c \in Call /\ (c.kind = "Enter" <=> Calling(p))
    BY <2>2, <2>3, <2>4 DEF Call, Calling, Key, KeyOf, Route
  <2>6. call' = [call EXCEPT ![p] = c]
    BY <2>1
  <2> HIDE DEF c
  <2> QED
    BY <1>7, <2>2, <2>5, <2>6
<1>11. ASSUME NEW p \in Player, Evict(p) PROVE FlowInv'
  <2>1. session' = [session EXCEPT ![p].state = "Evicted"]
        /\ UNCHANGED <<finalize, zoneEnter, call>>
    BY <1>11 DEF Evict, waiting
  <2>2. \A q \in Player : /\ session'[q].n = session[q].n
                          /\ Entering(q)' => Entering(q)
                          /\ Calling(q)' <=> Calling(q)
    BY <2>1, EntriesTyped DEF Entering, Calling, TypeOK
  <2> QED
    BY <2>1, <2>2, FlowKept
<1>12. CASE UNCHANGED vars
  BY <1>2, <1>12 DEF vars, waiting, clients
<1>13. ASSUME NEW p \in Player, RecordRequest(p) PROVE FlowInv'
  <2> DEFINE c == [kind |-> call[p].kind, map |-> call[p].map, step |-> "Recorded",
                   id |-> nextRequest, target |-> call[p].target]
  <2>1. /\ call[p] # None /\ call[p].step = "Selected"
        /\ call' = [call EXCEPT ![p] = c] /\ UNCHANGED <<finalize, zoneEnter, session>>
    BY <1>13 DEF RecordRequest, At, waiting
  <2>2. /\ call[p].kind \in {"Enter", "Portal"} /\ call[p].map \in Map
        /\ call[p].target \in Key /\ nextRequest \in Request
    BY <2>1, CallFields DEF TypeOK
  <2>3. c \in Call /\ (c.kind = "Enter" <=> Calling(p))
    BY <2>1, <2>2 DEF Call, Calling
  <2> HIDE DEF c
  <2> QED
    BY <1>7, <2>1, <2>3
<1> QED
  BY <1>3, <1>4, <1>5, <1>6, <1>8, <1>9, <1>10, <1>11, <1>12, <1>13, FlowResponse, FlowCalls,
     FlowParks, FlowBegins, FlowAborts, FlowAck DEF Next

LEMMA FlowAlways == Spec => []FlowInv
<1>1. Init => FlowInv
  BY DEF Init, FlowInv, Entering, Calling
<1> QED
  BY <1>1, FlowStep, TypeCorrect, PTL DEF Spec

\* An entering session is in exactly one place until its enter ends, however the
\* handlers of different threads overlap.
THEOREM EntersInOnePlace == Spec => []EnterInOnePlace
<1>1. FlowInv => EnterInOnePlace
  <2> SUFFICES ASSUME FlowInv, NEW p \in Player, Entering(p)
               PROVE  \/ Calling(p) /\ Mine(finalize, p) = {} /\ Mine(zoneEnter, p) = {}
                      \/ /\ ~Calling(p) /\ Mine(zoneEnter, p) = {}
                         /\ \E f \in finalize : Mine(finalize, p) = {f}
                      \/ /\ ~Calling(p) /\ Mine(finalize, p) = {}
                         /\ \E e \in zoneEnter : Mine(zoneEnter, p) = {e}
    BY DEF EnterInOnePlace
  <2>1. CASE Calling(p)
    BY <2>1 DEF FlowInv, Mine
  <2>2. ASSUME ~Calling(p), NEW f \in finalize, f.player = p, f.n = session[p].n
        PROVE  Mine(zoneEnter, p) = {} /\ Mine(finalize, p) = {f}
    BY <2>2 DEF FlowInv, Mine, Same
  <2>3. ASSUME ~Calling(p), NEW e \in zoneEnter, e.player = p, e.n = session[p].n
        PROVE  Mine(finalize, p) = {} /\ Mine(zoneEnter, p) = {e}
    BY <2>3 DEF FlowInv, Mine, Same
  <2> QED
    BY <2>1, <2>2, <2>3 DEF FlowInv
<1> QED
  BY <1>1, FlowAlways, PTL
=============================================================================
