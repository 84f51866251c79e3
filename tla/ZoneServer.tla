----------------------------- MODULE ZoneServer -----------------------------
(***************************************************************************)
(* The zone server process (services/zone/runtime/zone_runtime.cpp): its   *)
(* map instances, the players bound to them, the spatial index it searches *)
(* for the players in sight of each other, and what it tells their         *)
(* clients.  Its handlers run one at a time on the one io thread, in the   *)
(* order in which the World server sent.  The reaping of empty dungeons    *)
(* runs on the main loop and takes no lock: handlers run between its test  *)
(* of an instance and its erasure.                                         *)
(*                                                                         *)
(* The World server's side is what the zone's correctness depends on: the  *)
(* maps it believes this process serves, where it has each player, and the *)
(* snapshot its zone actor is about to ask for (one per player at a time). *)
(* A message that is lost is one that is sent while the line is down.      *)
(***************************************************************************)
EXTENDS Integers, FiniteSets

CONSTANTS
    Player,     \* characters
    Map,        \* map instance keys (template and instance) this process may serve
    Dungeon,    \* the dungeon instances among them
    Capacity,   \* map_instance_capacity_
    Point,      \* positions <<x, y>>
    Radius,     \* world_sight_unit * aoi_radius_cells
    MaxBatch,   \* entities a batch carries: kMaxBatchEntityCount, and a size of 16 bits
    MaxStrays,  \* bound on strays
    None

MapInstanceState == [count : Nat, idle : BOOLEAN]
PlayerBindingState == [map : Map, at : Point \cup {None}]

ASSUME ZoneAssumption ==
    /\ IsFiniteSet(Player)
    /\ Dungeon \subseteq Map
    /\ Capacity \in Nat /\ Radius \in Nat /\ MaxBatch \in Nat /\ MaxStrays \in Nat
    /\ Point \subseteq Int \X Int
    /\ None \notin Map \cup Point \cup MapInstanceState \cup PlayerBindingState
    /\ None \notin [at : Point, reconnect : BOOLEAN]

VARIABLES
    instance,   \* map_instances_: map |-> None or [count, idle]
    binding,    \* player_bindings_: player |-> None or [map, at]
    index,      \* spatial_index_by_map_key_: entries [map, cell, player]
    reaping,    \* the instance the reaping has tested and not erased yet, or None
    torn,       \* history: the instances that were erased with players in them
    line,       \* the world line is up and registered
    assigned,   \* the World server's map_assignments_ for this process
    world,      \* where the World server has the player: None or [map, at]
    due,        \* the snapshot about to be requested: None or [at, reconnect]
    seen,       \* the players a player's client was told of and not despawned
    strays      \* lines and messages lost, enters abandoned, snapshots overtaken,
                \* batches cut

zone == <<instance, binding, index>>
reap == <<reaping, torn>>
vars == <<instance, binding, index, reaping, torn, line, assigned, world, due, seen, strays>>

-----------------------------------------------------------------------------
(* The spatial index *)

Greater(a, b) == IF a > b THEN a ELSE b

CellSize == Greater(1, Radius \div 2)

\* Mutant: the division rounds down.
NeighborRangeCut == Greater(1, Radius \div CellSize)

\* The cells to search on each side of the player's own: the sight radius
\* divided by the cell's size, rounded up.
NeighborRange == Greater(1, (Radius + CellSize - 1) \div CellSize)

\* ResolveSpatialCellCoord_ rounds towards minus infinity, as \div does.
CellOf(pt) == <<pt[1] \div CellSize, pt[2] \div CellSize>>

Near(c, d) == /\ d[1] \in c[1] - NeighborRange .. c[1] + NeighborRange
              /\ d[2] \in c[2] - NeighborRange .. c[2] + NeighborRange

InSight(a, b) ==
    LET dx == a[1] - b[1]
        dy == a[2] - b[2]
    IN  dx * dx + dy * dy =< Radius * Radius

Bound(b, p) == b[p] # None

Placed(b, p) == Bound(b, p) /\ b[p].at # None

Entry(m, pt, p) == [map |-> m, cell |-> CellOf(pt), player |-> p]

\* BuildVisibleActorIdsForPosition_: the index proposes, the bindings decide.
Visible(b, i, p, m, pt) ==
    {q \in Player \ {p} :
        /\ \E e \in i : e.map = m /\ e.player = q /\ Near(CellOf(pt), e.cell)
        /\ Placed(b, q)
        /\ b[q].map = m
        /\ InSight(b[q].at, pt)}

\* The players p sees from where the zone has it.
Sight(b, i, p) == IF Placed(b, p) THEN Visible(b, i, p, b[p].map, b[p].at) ELSE {}

\* UpdateActorSpatialIndex_: nothing to do while the cell stays the same.
Reindexed(i, p, old, new) ==
    CASE old.at = None -> i \cup {Entry(new.map, new.at, p)}
      [] old.at # None /\ CellOf(old.at) = CellOf(new.at) -> i
      [] OTHER -> (i \ {Entry(old.map, old.at, p)}) \cup {Entry(new.map, new.at, p)}

\* RemoveActorFromSpatialIndex_, where the binding has a position.
Unindexed(i, p, old) ==
    IF old.at = None THEN i ELSE i \ {Entry(old.map, old.at, p)}

-----------------------------------------------------------------------------
(* Map instances *)

Fresh == [count |-> 0, idle |-> FALSE]

Touched(n, m) == IF n[m] = None THEN n ELSE [n EXCEPT ![m].idle = FALSE]

\* Mutant: the player that goes is not subtracted.
KeepsCount(n, m) == Touched(n, m)

\* active_player_count is unsigned and guarded against zero.
Decremented(n, m) ==
    IF n[m] = None THEN n
    ELSE [n EXCEPT ![m] = [count |-> Greater(0, @.count - 1), idle |-> FALSE]]

Incremented(n, m) == [n EXCEPT ![m] = [count |-> @.count + 1, idle |-> FALSE]]

-----------------------------------------------------------------------------
(* What the handlers make of the zone: records of its three maps *)

Zone == [instance |-> instance, binding |-> binding, index |-> index]

\* OnPlayerEnterRequest_.  A player that is bound to another map changes over
\* with its position; its index entry is removed and none is made.
Entered(z, p, m) ==
    LET old == z.binding[p]
    IN  CASE z.instance[m] = None -> z
          [] z.instance[m] # None /\ old = None ->
                [z EXCEPT !.instance = Incremented(@, m),
                          !.binding  = [@ EXCEPT ![p] = [map |-> m, at |-> None]]]
          [] z.instance[m] # None /\ old # None /\ old.map = m ->
                [z EXCEPT !.instance = Touched(@, m)]
          [] OTHER ->
                [instance |-> Incremented(Decremented(z.instance, old.map), m),
                 binding  |-> [z.binding EXCEPT ![p].map = m],
                 index    |-> Unindexed(z.index, p, old)]

\* Mutant: the leave forgets the index.
LeftIndexed(z, p) ==
    IF z.binding[p] = None THEN z
    ELSE [z EXCEPT !.instance = Decremented(@, z.binding[p].map),
                   !.binding  = [@ EXCEPT ![p] = None]]

\* OnPlayerLeaveRequest_.
Left(z, p) ==
    LET old == z.binding[p]
    IN  IF old = None THEN z
        ELSE [instance |-> Decremented(z.instance, old.map),
              binding  |-> [z.binding EXCEPT ![p] = None],
              index    |-> Unindexed(z.index, p, old)]

\* OnPlayerMoveInternalRequest_, its change of the zone; it ignores a player
\* that is not bound.
Moved(z, p, pt) ==
    LET old == z.binding[p]
        new == [map |-> old.map, at |-> pt]
    IN  IF old = None THEN z
        ELSE [instance |-> Touched(z.instance, old.map),
              binding  |-> [z.binding EXCEPT ![p] = new],
              index    |-> Reindexed(z.index, p, old, new)]

Becomes(z) == /\ instance' = z.instance
              /\ binding' = z.binding
              /\ index' = z.index

-----------------------------------------------------------------------------
(* What the clients are told *)

\* The despawns of a leave.
SeenLess(s, p, others) ==
    [q \in Player |-> IF q = p THEN {} ELSE IF q \in others THEN s[q] \ {p} ELSE s[q]]

\* What arrives of a batch: one with too many entities is cut to the first
\* (ClampBatchEntityCount), or its size overflows and the World server drops it.
Arrives(batch) ==
    IF Cardinality(batch) =< MaxBatch THEN {batch}
    ELSE {{}} \cup {part \in SUBSET batch : Cardinality(part) = MaxBatch}

\* The spawns and despawns of a move: the batches of the player itself, and
\* one entity for each of the others.
SeenMoved(s, p, before, after, spawned, despawned) ==
    [q \in Player |-> CASE q = p -> (s[q] \ despawned) \cup spawned
                        [] q # p /\ q \in after \ before -> s[q] \cup {p}
                        [] q # p /\ q \in before \ after -> s[q] \ {p}
                        [] OTHER -> s[q]]

\* TrySendInitialAoiSnapshot_: the others are told unless it is a reconnect.
SeenSnapshot(s, p, told, after, reconnect) ==
    [q \in Player |-> CASE q = p -> told
                        [] q # p /\ q \in after /\ ~reconnect -> s[q] \cup {p}
                        [] OTHER -> s[q]]

\* From here on the zone, the World server and the clients may differ.
Stray == strays < MaxStrays /\ strays' = strays + 1

\* The views change from s to t.  Spawns and despawns are sent with
\* TrySendLossy: what does not fit the line's queue is dropped.
Tell(s, t, astray) ==
    \E D \in SUBSET {q \in Player : t[q] # s[q]} :
        /\ seen' = [q \in Player |-> IF q \in D THEN s[q] ELSE t[q]]
        /\ IF astray \/ D # {} THEN Stray ELSE UNCHANGED strays

-----------------------------------------------------------------------------
Init == /\ instance = [m \in Map |-> None]
        /\ binding = [p \in Player |-> None]
        /\ index = {}
        /\ reaping = None
        /\ torn = {}
        /\ line = FALSE
        /\ assigned = {}
        /\ world = [p \in Player |-> None]
        /\ due = [p \in Player |-> None]
        /\ seen = [p \in Player |-> {}]
        /\ strays = 0

\* MarkWorldRegistered_.
LineUp == /\ ~line
          /\ line' = TRUE
          /\ UNCHANGED <<zone, reap, assigned, world, due, seen, strays>>

\* MarkWorldDisconnected_ keeps instances and bindings; the World server
\* forgets the route and its assignments, and keeps its players.
LineDown == /\ line
            /\ line' = FALSE
            /\ assigned' = {}
            /\ Stray
            /\ UNCHANGED <<zone, reap, world, due, seen>>

Live == {m \in Map : instance[m] # None}

\* OnMapAssignRequest, EnsureMapInstance_; the World server always asks to
\* create, and records the assignment when the answer is ok.
Assign(m) ==
    /\ line /\ m \notin assigned
    /\ \/ /\ instance[m] # None
          /\ instance' = Touched(instance, m)
          /\ assigned' = assigned \cup {m}
       \/ /\ instance[m] = None
          /\ Cardinality(Live) < Capacity
          /\ instance' = [instance EXCEPT ![m] = Fresh]
          /\ assigned' = assigned \cup {m}
    /\ UNCHANGED <<binding, index, reap, line, world, due, seen, strays>>

\* The capacity is used up: capacity_full, and nothing changes.
AssignRefused(m) ==
    /\ line /\ m \notin assigned
    /\ instance[m] = None
    /\ Cardinality(Live) >= Capacity
    /\ UNCHANGED vars

\* An enter and its acknowledgement; the World server then places the player
\* and its zone actor is to request the snapshot.  A refused enter fails.
Enter(p, m, pt) ==
    /\ line /\ m \in assigned
    /\ world[p] = None /\ due[p] = None
    /\ Becomes(Entered(Zone, p, m))
    /\ IF instance[m] = None
         THEN UNCHANGED <<world, due>>
         ELSE /\ world' = [world EXCEPT ![p] = [map |-> m, at |-> pt]]
              /\ due' = [due EXCEPT ![p] = [at |-> pt, reconnect |-> FALSE]]
    /\ seen' = [seen EXCEPT ![p] = {}]
    /\ UNCHANGED <<reap, line, assigned, strays>>

\* The session ends before the acknowledgement comes, which is then stale and
\* dropped.  A leave follows only if the zone id of the player's actor, which
\* the enter has not set yet, happens to lead to this process.
EnterAbandoned(p, m) ==
    LET z == Entered(Zone, p, m)
    IN  /\ line /\ m \in assigned
        /\ world[p] = None /\ due[p] = None
        /\ \/ Becomes(z) /\ UNCHANGED seen
           \/ Becomes(Left(z, p)) /\ seen' = SeenLess(seen, p, Sight(z.binding, z.index, p))
        /\ Stray
        /\ UNCHANGED <<reap, line, assigned, world, due>>

\* BeginLeaveWorld_ sends the leave; on a line that is down it is lost.
Leave(p) ==
    /\ world[p] # None
    /\ world' = [world EXCEPT ![p] = None]
    /\ Becomes(IF line THEN Left(Zone, p) ELSE Zone)
    /\ Tell([seen EXCEPT ![p] = {}],
            SeenLess(seen, p, IF line THEN Sight(binding, index, p) ELSE {}), FALSE)
    /\ UNCHANGED <<reap, line, assigned, due>>

Empty(n, m) == m \in Dungeon /\ n[m] # None /\ n[m].count = 0

Without(z, m) == [z EXCEPT !.instance = [@ EXCEPT ![m] = None]]

\* CompletePortalTransfer_: a leave and an enter whose answer nobody awaits.
\* The reaping may test, or test and erase, the player's own dungeon between
\* the two: the leave lowers the count before it renews the last access.
Transfer(p, m, pt) ==
    LET z == Left(Zone, p)
    IN  /\ line /\ m \in assigned
        /\ world[p] # None /\ due[p] = None
        /\ \/ Becomes(Entered(z, p, m)) /\ UNCHANGED reaping
           \/ /\ reaping = None /\ Empty(z.instance, m)
              /\ \/ Becomes(Entered(z, p, m)) /\ reaping' = m
                 \/ Becomes(Entered(Without(z, m), p, m)) /\ UNCHANGED reaping
        /\ world' = [world EXCEPT ![p] = [map |-> m, at |-> pt]]
        /\ due' = [due EXCEPT ![p] = [at |-> pt, reconnect |-> FALSE]]
        /\ Tell([seen EXCEPT ![p] = {}], SeenLess(seen, p, Sight(binding, index, p)), FALSE)
        /\ UNCHANGED <<torn, line, assigned>>

\* A move of the client, mirrored to the zone with request id 0.  It may
\* overtake the snapshot that is due.
Move(p, pt) ==
    LET z == IF line THEN Moved(Zone, p, pt) ELSE Zone
        before == Sight(binding, index, p)
        after == Sight(z.binding, z.index, p)
    IN  /\ world[p] # None /\ world[p].at # pt
        /\ world' = [world EXCEPT ![p].at = pt]
        /\ Becomes(z)
        /\ IF line /\ Bound(binding, p)
             THEN \E spawned \in Arrives(after \ before), despawned \in Arrives(before \ after) :
                     Tell(seen, SeenMoved(seen, p, before, after, spawned, despawned),
                          \/ due[p] # None
                          \/ spawned # after \ before \/ despawned # before \ after)
             ELSE Tell(seen, seen, due[p] # None)
        /\ UNCHANGED <<reap, line, assigned, due>>

\* A client that reconnects knows nothing; its position is read now and the
\* zone actor requests the snapshot later.
Reconnect(p) ==
    /\ world[p] # None /\ due[p] = None
    /\ due' = [due EXCEPT ![p] = [at |-> world[p].at, reconnect |-> TRUE]]
    /\ seen' = [seen EXCEPT ![p] = {}]
    /\ UNCHANGED <<zone, reap, line, assigned, world, strays>>

\* RequestZoneInitialSnapshot, with the position read when it became due, and
\* the zone's answer.
Snapshot(p) ==
    LET z == IF line /\ due[p] # None THEN Moved(Zone, p, due[p].at) ELSE Zone
    IN  /\ due[p] # None
        /\ due' = [due EXCEPT ![p] = None]
        /\ Becomes(z)
        /\ IF line /\ Bound(binding, p)
             THEN LET sight == Sight(z.binding, z.index, p)
                  IN  \E told \in Arrives(sight) :
                         Tell([seen EXCEPT ![p] = told],
                              SeenSnapshot(seen, p, told, sight, due[p].reconnect), told # sight)
             ELSE UNCHANGED <<seen, strays>>
        /\ UNCHANGED <<reap, line, assigned, world>>

\* k_ReapEmptyDungeonInstances_ has passed since the last access; in an
\* instance with players nothing depends on it.
Ages(m) == /\ Empty(instance, m) /\ ~instance[m].idle
           /\ instance' = [instance EXCEPT ![m].idle = TRUE]
           /\ UNCHANGED <<binding, index, reap, line, assigned, world, due, seen, strays>>

In(m) == {p \in Player : Bound(binding, p) /\ binding[p].map = m}

\* ReapEmptyDungeonInstances_, its test of an instance...
ReapTests(m) ==
    /\ reaping = None
    /\ Empty(instance, m) /\ instance[m].idle
    /\ reaping' = m
    /\ UNCHANGED <<zone, torn, line, assigned, world, due, seen, strays>>

\* ...and its erasure, whoever entered since.  The World server is not told.
ReapErases ==
    /\ reaping # None
    /\ instance' = [instance EXCEPT ![reaping] = None]
    /\ torn' = IF In(reaping) = {} THEN torn ELSE torn \cup {reaping}
    /\ reaping' = None
    /\ UNCHANGED <<binding, index, line, assigned, world, due, seen, strays>>

Next == \/ LineUp
        \/ LineDown
        \/ \E m \in Map : Assign(m) \/ AssignRefused(m) \/ Ages(m) \/ ReapTests(m)
        \/ ReapErases
        \/ \E p \in Player :
              \/ Leave(p)
              \/ Reconnect(p)
              \/ Snapshot(p)
              \/ \E pt \in Point : Move(p, pt)
              \/ \E m \in Map : EnterAbandoned(p, m)
              \/ \E m \in Map, pt \in Point : Enter(p, m, pt) \/ Transfer(p, m, pt)

Spec == Init /\ [][Next]_vars

-----------------------------------------------------------------------------
Cells == {CellOf(pt) : pt \in Point}

\* Every variable has its type.
TypeOK ==
    /\ instance \in [Map -> {None} \cup MapInstanceState]
    /\ binding \in [Player -> {None} \cup PlayerBindingState]
    /\ index \subseteq [map : Map, cell : Cells, player : Player]
    /\ reaping \in Dungeon \cup {None} /\ torn \subseteq Dungeon
    /\ line \in BOOLEAN /\ strays \in 0 .. MaxStrays
    /\ assigned \subseteq Map
    /\ world \in [Player -> {None} \cup [map : Map, at : Point]]
    /\ due \in [Player -> {None} \cup [at : Point, reconnect : BOOLEAN]]
    /\ seen \in [Player -> SUBSET Player]

\* OnPlayerEnterRequest_, OnPlayerLeaveRequest_, ReapEmptyDungeonInstances_:
\* an instance counts exactly the players bound to it, and an erased one has
\* none, unless the reaping caught an enter and erased the instance under its
\* players.  Even when such a map is created again it never counts a player
\* too many, so that no empty dungeon is kept.  It holds whatever the World
\* server loses, repeats or abandons.
PlayersCounted ==
    \A m \in Map :
        IF instance[m] = None THEN m \notin torn => In(m) = {}
        ELSE /\ instance[m].count =< Cardinality(In(m))
             /\ m \notin torn => instance[m].count = Cardinality(In(m))

\* UpdateActorSpatialIndex_, RemoveActorFromSpatialIndex_: an entry of the
\* index is that of a bound player, in its map and in the cell it stands in:
\* no player is ever searched for where it was.
IndexSound ==
    \A e \in index : /\ Placed(binding, e.player)
                     /\ e = Entry(binding[e.player].map, binding[e.player].at, e.player)

\* The linear scan of OnPlayerMoveInternalRequest_ (enable_aoi_linear_compare_).
LinearVisible(p) ==
    {q \in Player \ {p} : /\ Placed(binding, q)
                          /\ binding[q].map = binding[p].map
                          /\ InSight(binding[q].at, binding[p].at)}

\* The two-sided spawns and despawns of moves, snapshots and leaves: while
\* nothing was lost, abandoned, overtaken or cut, the client of every player whose
\* snapshot came was told of exactly the players in its sight.
ViewsAgree ==
    strays = 0 => \A p \in Player : Placed(binding, p) /\ due[p] = None
                                    => seen[p] = LinearVisible(p)

\* A player's map is there.  The reaping can break it.
OccupiedStands == \A m \in Map : In(m) # {} => instance[m] # None

\* The check of OnPlayerMoveInternalRequest_: the cells find what the linear
\* scan finds.
CellsFindAll ==
    \A p \in Player : Placed(binding, p) => Sight(binding, index, p) = LinearVisible(p)
=============================================================================
