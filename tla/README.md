# A TLA+ model of the game back end

The repository is an online-game back end in C++20: a Login, an Account, a World, a Zone and a Control
server that talk over TCP lines, a database behind a worker queue, and a Redis cache. This directory
models the protocols between them and the machinery they share: the World server's sessions, its routing
of maps to zone processes, the zone process, the Account server's tickets, the Login server's sessions,
the database queue, the outbound lines and the generated wire messages. TLC checks the models on small
instances; TLAPS proves the safety of most of them for every value of their constants.

## 1. The system

| Component | State it keeps | Operations | Talks to | What makes it correct |
|---|---|---|---|---|
| TCP server (`net/tcp/tcp_server.h`) | slots, a serial per slot, a LIFO free list | accept, close, send | handlers, by callbacks | no callback acts on the slot's next connection |
| TCP client and session (`net/tcp/tcp_client.*`, `tcp_session.h`) | flags and backoff of the reconnect; send queue with limits | start, stop, connect, send, close | its line | one connection, one writer, nothing it took is skipped, reconnects until stopped |
| Network base (`app/runtime/networkex_base.h`) | latest serial per slot | connect, disconnect and packet callbacks, posted to an actor shard | actor system | stale serials are ignored, packets run on the shard of their arrival |
| Actor system (`net/actor`) | one FIFO queue and one thread per shard | post, stop | everything | order within a shard |
| World session runtime (`world_runtime_session.cpp`, `world_runtime_enter_world.cpp`) | authenticated sessions by slot, three reverse indexes, enter stages, reservations, close reasons, delayed closes, pending enter requests | enter, bind, kick, close, reconnect, logout | Account, database, zones, actors | the newest login wins, alone |
| Zone routing (`world_runtime_zone_route.cpp`) | zone routes, map assignments, pending assign, player-enter and portal requests | register, heartbeat, expire, assign, portal transfer | Zone servers | a route stands until its connection goes; an entering session is never forgotten or finished twice |
| Zone server (`zone_runtime.cpp`) | map instances, player bindings, spatial index | assign, enter, leave, move, snapshot, reap | World | counts that are never too high, a sound index, clients that see who is in sight |
| Account server (`account_line_runtime.cpp`) | world routes and their index, login sessions, tickets | authenticate, lists, issue, consume, notice, expire | Login, World, database | a ticket is granted once, to its claim |
| Login server (`login_line_runtime.cpp`) | login sessions, four indexes, detached identities, pending requests | login, world and character lists, select, notice | Account, clients | the indexes find every session, an entered player is forgotten |
| Database queue (`db/shard/db_shard_manager.h`, the DQS parts of the servers) | a pool of slots, one worker queue per shard, results | push, run, drain, stop | the servers | a slot has one owner, a request one answer |
| Wire messages (`proto/generated/cpp`, `protobuf_packet_codec.h`) | members and has-bits of each message | set, add, clear, copy, merge, swap, size, serialise, parse | all lines | the object behaves as the record it stands for |
| Player and zone actors (`world/actors`) | character state; cells and visibility | move, combat, enter, leave | World handler | not modelled |
| Persistence (`world_runtime_persistence.cpp`) | dirty characters, versions | write-behind, flush | Redis, database | only its queue is modelled |
| Control server | line state | register, forward commands | World | not modelled |

Login, end to end: the client logs in at the Login server, which asks the Account server to authenticate
it (a database job), then for worlds and characters; the Account server issues a ticket for a world. The
client connects to World and presents the ticket; World asks the Account server to consume it; a database
job loads the character; the session is bound (evicting older ones); a map instance is assigned by a
zone; the zone acknowledges the player; the session is `InWorld`, and World reports the enter to the
Account server, which relays it to the Login server.

What is hard about it: four kinds of thread (I/O threads, actor shards, strands, timers and the main
loop) change this state in separate critical sections; slots are reused immediately; callbacks are
routed by the character that is bound when they are *posted*; connections disappear between any two
steps; a kick, a reconnect, a logout and a disconnect of one session race; zones, world servers and the
lines between them come and go while others wait for their answers. `PROJECT.json` lists each hazard at
its line.

Where the threads are: `TcpServer::run` spawns all session coroutines on the acceptor's strand, so the
handlers of one line never overlap; the Login and the Account server handle packets there, inline, the
World server posts them to the shard of an actor, the Zone server to its one I/O thread. The main loop
of each server expires and drains on the main thread. A database worker is a thread of its own per shard.

## 2. Modules

| Module | Models |
|---|---|
| `SessionRegistry` | the promise of the World server: the newest claim on an account, character or slot wins, alone |
| `WorldSession` | slots, callbacks, session registry, enter-world requests, strand, timers |
| `ZoneRoute` | zone connections, routes, map assignments, the enters and portal transfers that wait for a zone |
| `ZoneServer` | map instances, bindings, spatial index and views of a zone process, with what World believes of it |
| `TicketAuthority` | the promise of the Account server: a ticket is granted once, to its claim, and reported once |
| `AccountTicket` | world routes, login sessions, character lists, tickets and their expiry |
| `LoginSession` | login sessions, indexes, detached identities, forwarded requests |
| `DbQueue` | the slot pool, the workers, the results, the stop |
| `LineTransport` | an outbound line: client, sessions, send queue, write loop |
| `MessageRow`, `CommonMessages`, `LoginMessages`, `WorldMessages`, `VisibilityMessages`, `AccountMessages`, `GeneratedMessages` | the generated code of the 41 message types, one table per generated function |
| `ProtoMessage`, `MessageCodec` | what those functions do to an object, and the calls servers make |
| `PlainMessage` | the promise of a generated message: a record of fields, each set or not |
| `MC*` and the `.cfg` files | small instances for TLC |
| `WorldSession_proofs`, `ZoneRoute_proofs`, `ZoneRouteSafety_proofs`, `AccountTicket_proofs`, `LoginSession_proofs`, `DbQueue_proofs`, `LineTransport_proofs`, `ZoneServer_proofs` | the theorems |

How they meet:

- `WorldSession` and `ZoneRoute` at the assign step of an enter: `AssignMapInstance` and `ZoneEnter` of
  `WorldSession` leave the answer of the zones open, `ZoneRoute` says where that answer comes from and
  keeps of a session only whether it is entering;
- `ZoneRoute` and `ZoneServer` at the zone's answers: `ZoneRoute` has several processes and the requests
  between them, `ZoneServer` one process and what its answers do to players;
- `AccountTicket` and `WorldSession` at the consume request: `TicketAuthority` is what `WorldSession`
  relies on when it takes any certified pair once;
- `LoginSession` and `AccountTicket` at the forwarded requests and the enter notice; `AccountTicket` and
  `DbQueue` at the authentication job;
- every line between servers is an instance of `LineTransport`.

### WorldSession: state

| Variable | Code |
|---|---|
| `serial`, `open`, `closing` | `slot_serials_`, the slot's `weak_ptr`, `TcpSession::close` called |
| `events` | connect and disconnect callbacks and packets posted to the shards, with the actor they were routed to on arrival; a packet has `begun` once `HandlePacket_` recorded its serial |
| `latest` | `session_serials_` |
| `authed`, `charKey`, `accountKey`, `tokenKey` | `authed_sessions_by_sid_` and its three reverse indexes |
| `stage`, `pendingKey` | `world_enter_stage_by_session_key_`, `pending_enter_session_key_by_char_id_` |
| `reason` | `session_close_reason_by_session_key_` (an absent entry is `NetworkDisconnect`, as the reader of the map takes it) |
| `delayed` | `delayed_world_close_entries_`: absent, reserved, armed with the grace or the kick delay |
| `strand` | tasks on `duplicate_session_strand_` |
| `flow` | every enter request, with the pending map (or running handler) it is in |
| `nextToken`, `nextRequest` | random tokens as a counter (256 random bits do not repeat), request ids |

### WorldSession: actions

An action is one critical section of `world_session_mtx_` together with the work its thread does around
it. `OnCharacterEnterSnapshotResult_` is four actions (`LoadSnapshot`, `TryBeginEnterWorldSession`,
`BindSession`, `AssignMapInstance`), because handlers of other shards run between its critical sections;
the requests such a handler holds are in no map, so an abort does not find them. `HandleDisconnected`
and `RunStrand` are the two halves of `HandleWorldSessionClosed`: the close reason is read in the first
and used in the second. `DelayedCloseFires` is the timer callback.

A packet is three steps. `PostPacket` is `on_packet` on the I/O thread: it routes the packet to the shard
of the character the slot has at that moment. `BeginPacket` is the start of `HandlePacket_`, which
records the packet's serial as the slot's latest. The handler (`RequestConsumeWorldAuthTicket`,
`LogoutWorld`, `TryReconnectWorldSession`) then works for whatever connection is the slot's latest by
then (`Sender`, `GetLatestSerial`): callbacks and packets of the slot on other shards may have changed
it, and the connection the packet came from may be gone. The full correspondence, with lines,
is the `map` of `PROJECT.json`.

What is abstracted:

- the Account server, the database and the zones answer anything they could answer, or nothing; the
  Account server certifies only pairs of `Owns`;
- two callbacks with different routes are taken to be on different shards (the worst case: more
  interleavings than with a fixed number of shards); routes are FIFO;
- the three short critical sections at the start of `HandleWorldSessionClosed` are one step, and
  reserving and arming a delayed close are one step of the strand;
- a soft and a hard logout are one reason; they differ only in the effects on the player actor;
- results sent to clients, logs and counters are left out; so are the effects of a leave on the player
  and zone actors, and the cancelling of timers at shutdown;
- serials do not wrap (2^32 connections on one slot).

The bounds `MaxSerial`, `MaxConnection`, `MaxToken`, `MaxRequest` and `MaxPacket` (packets posted and not
handled) are guards of `Accept`, `TakeToken` and `PostPacket`, and `Sends` is the set of packets clients
send; the proofs hold for all their values.

### ZoneRoute: state

| Variable | Code |
|---|---|
| `serial`, `open`, `closing` | the zone line's slots, as in `WorldSession` |
| `conn` | the connection each zone process believes it has (a zone may lose it before World notices) |
| `inbox` | hello, disconnect and packets of a slot, in the order its shard handles them |
| `outbox` | assign and player-enter requests on their way to a zone |
| `routes` | `zone_routes_by_sid_`; `stale` when the last heartbeat is older than the limit |
| `assignment` | `map_assignments_` |
| `assigns`, `byMap`, `nextRequest` | `pending_zone_assign_requests_`, its index by map key, the request ids |
| `finalize`, `portal` | the enters (a list per request) and portal transfers (one per request) that wait for an assign request |
| `zoneEnter` | `pending_zone_player_enter_requests_`, with the connection whose answer is expected and the one the request was sent to |
| `session`, `call` | a player's session and attempt; the `AssignMapInstance` call its shard is in |

### ZoneRoute: actions

`EnterWorld` and `BeginPortalTransfer` start a call of `AssignMapInstance`. The call finds the map
assigned (`AlreadyAssigned`), finds a request under way (`AlreadyPending`), finds nobody to ask
(`NoZoneAvailable`), or selects a route under the lock (`SelectZoneRoute`), records the request
(`RecordRequest`), indexes it by map and sends it (`SendMapAssignRequest`), and returns to the caller,
which records who waits (`Park`). These are separate steps because no lock is held between them: the
eight shards of `config/world_server.ini` and the main loop run their handlers in between. `OnZoneMapAssignResponse`,
`OnZonePlayerEnterAck`, `RegisterZoneRoute` and `UnregisterZoneRoute` are the handlers of a zone slot's
events; `ExpireStaleZoneRoutes` is the pass of the main loop with its three parts; `Abort` is the
cleanup of a kicked or lost session.

What is abstracted:

- load scores are what zones report, so any route that serves the map may be selected; without a
  topology every route serves every map, so the second lookup (`TrySelectZoneRoute_`) adds nothing;
- zones answer a request with its own ids, so the mismatch branches of the two answers are unreachable;
- a portal's player-enter carries request id 0, whose answer World ignores: it is not sent here; what a
  transfer does to positions, zone bindings and the client is not state of this module;
- a player is a client connection with its character, an attempt number stands for its session key and
  request id; the source map and the cooldown of a portal are left out;
- independent requests to a zone are a set: their order does not matter to it;
- the handlers of a zone's events, the expiry and the cleanup of a session are a step each; a call is
  five; races inside a container have no outcomes to model.

The bounds `MaxSerial`, `MaxConnection`, `MaxRequest` and `MaxAttempt` are guards of `ZoneConnect`,
`MayCall` and `EnterWorld`.

### AccountTicket

State: `conn`, `serial` (the world line), `routes` and `index` (`worlds_by_sid_`,
`world_sid_by_world_id_`), `coordinators`, `coordinator` (the login line and `login_sid_`), `sessions`
(`login_character_sessions_`), `asked` (character lists a world has to send), `pending` and `consumed`
(the two ticket maps), `strand` and `erasing` (what the handler of the world line, and the main loop,
have left to do after their first critical section), `grants` and `notices` (what was answered).

A consume request is two actions (`OnWorldTicketConsumeRequest`, `ConsumeIssuedWorldTicket`) and an
enter notice three (`OnWorldEnterSuccessNotify`, `TryMatchConsumedWorldEnterSuccessNotify`,
`RelayWorldEnterSuccess`), because the route is resolved under one mutex and the ticket looked up and
erased under another, and the main loop expires both in between. The drop of a route and the erasure of
its tickets are separate steps for the same reason. Routes say hello, report ready or hidden, fall
silent (`late`), expire and close; a world server may return on another slot before its old connection
is closed.

Abstracted: tokens and login sessions are fresh (random 256 bits); a database answer is
`OnAuthenticated`, which may come or not; a ticket is `old` when its time is over; load, names and
endpoints of worlds are left out. Bound: `MaxSerial`, in `WorldConnect`.

### LoginSession

State: the client line (`serial`, `conn`, `kicked`), `ready` (`account_ready_`), `sessions` and its four
indexes (`byAccount`, `byChar`, `byLogin`, `byToken`), the two tables of identities that left for a
world (`detached`, `leftWith`), the requests forwarded (`pending`, one map for the code's five) and
those the Account server has yet to answer (`awaited`), and what the Account server did (`issued`,
`entered`).

Each packet of a client and of the Account server is an action, with the code's checks: the answer to a
selection is dropped when its session is gone; an authentication answer makes its session whether or not
its connection is still there, after removing the ones it replaces (`RemoveLoginSessions`, with the
detached identities and the kicks that follow). The loss of the account line keeps the pending requests, as the
code does; only login requests expire. `MaxSerial` is a bound per slot and `MaxRequest` one on the
request counter.

Abstracted: the layout of world and character lists; a login session or a token is named by the request
it was made for; character ownership is checked by the Account server.

### DbQueue

State: `slots` (payloads), `empty` (the free list), `queue` (one per worker), `caller` (a thread between
taking a slot and pushing it), `worker` (where in `DbWorker::loop_`), `stopping`, `stopper` (where in
`DbShardManager::stop`), `results`, `answered`, `asked`.

The worker's `wait` is three places (`check`, `parking`, `asleep`), because a notify between the test of
the predicate and the sleep reaches nobody unless the mutex is held: `push` holds it, `stop` does not.
`FreedByJob` says whether the job returns its slot before the worker does (World and Channel), `Drains`
whether the stop waits for the pool and callers go on meanwhile (World). The query itself is one step
that always answers: a failed query answers too. Bound: `MaxJob`, in `Asks`.

### LineTransport

State: `client` (the flags and the backoff of `TcpClient`), `loops` (how many coroutines are spawned,
past the test of the stop flags, resolving, connecting, failed, waiting), `current` (`session_`), `serial`, `conn` (the sessions: life, open,
frames posted to the strand, queue, counted bytes, write loops, frames accepted and written), `sent`.

Every completion may fail. A lossy frame that does not fit is dropped, a reliable one closes the
session. Frame sizes are what the 16-bit header holds (`SizeOf`, modulo `Word`), so a body that does not
fit the header is not what the peer reads. Every frame for which `Send` answers true is in `accepted`;
those whose size wraps below a header or exceeds the maximum are silently dropped by `async_send`
(`Ignored`), the other reliable ones are what the session owes (`Owed`).

The stop flags are plain bools that `stop` writes on another thread, so a test and what follows it are
two steps: `ConnectBegins` and `ResolveBegins`, the end of an attempt and `WaitBegins`. The servers call
`stop` after their I/O threads are joined (`server_runtime_base.cpp:41`); the test client calls it beside
them (`apps/test_client/main.cpp:190`). Both are behaviours of the model, and nothing is stated of what
may begin after a stop.
 Bounds: `MaxSerial` sessions and the frames of `BodyOf`.
Abstracted: headers that cannot be parsed are a failed read; byte statistics are left out.

### ZoneServer

State: `instance`, `binding`, `index` (the zone's three maps), `line`, and around them what World
believes: `assigned`, `world` (where World has a player), `due` (the snapshot its actor is about to ask
for), `seen` (what the clients were told), and `strays`, which counts what went wrong.

`Enter`, `Leave`, `Transfer` (a portal: leave here, enter there), `Move`, `Reconnect`, `Snapshot`,
`Assign`, `AssignRefused` and `Ages` are the operations of the I/O thread and the clock. The main loop
reaps idle dungeons in two steps, the test of the count (`ReapTests`) and the erasure (`ReapErases`),
because it takes no lock: a player may have entered in between, or a portal passed through, and its map
is then `torn` from under it. `LineUp` and `LineDown` the registration
and its loss (the zone keeps its players); `EnterAbandoned` is an enter World gave up while the zone
processed it. A batch of more than `MaxBatch` entities (4096 in the code, and a 16-bit size of the body)
is cut or not sent (`Arrives`), which counts as a stray. `Tell` is the batch of spawns and despawns, which the code sends with `TrySendLossy`: each
may be lost, which counts as a stray.

Abstracted: a request, its handling and its answer are one step, and a lost message is one sent while
the line is down; what a race inside `map_instances_` does to the container itself has no outcomes to
model, and the reaping looks at one instance at a time; one snapshot per player is under way at a time; only empty dungeons grow idle; a map the
process does not know is refused without any change of state; damage, formatting and metrics are left
out. Bound: `MaxStrays`.

### The messages

For each message type eleven tables stand for eleven generated functions: the members in layout order,
the accessors, the copy constructor, `SharedCtor`, the two parse tables, `Clear`, `_InternalSerialize`,
`ByteSizeLong`, `MergeImpl`, `InternalSwap`. Each was read off its function alone: a has-bit or a member
range that is wrong in one function disagrees with the others. `ProtoMessage` interprets the tables (the
protobuf runtime, varints and wire types, is modelled as far as the generated code uses it, and marked
external), `MessageCodec` makes the calls, `PlainMessage` says what they must amount to. Reflection,
arenas and descriptors are the runtime's.

## 3. Runs

| Run | Instance | Shows |
|---|---|---|
| `duplicate_login` | 2 slots, 2 connections in all (both on one slot, or one each), 1 account with 2 characters, 2 requests, 2 tokens, 1 packet waiting at a time (2,373,847 states) | `Authoritative`, `EnteringIsReserved`, `StaleCloseHarmless`, `ImplementsRegistry`: logins of one account, with the same or the other character, in every interleaving with kicks, reconnects, logouts, lost connections and packets and callbacks of a slot's former connection |
| `session_liveness` | 2 slots, 1 character, enters and reconnects, fair (378,956 states) | `VictimIsClosed` |
| `account_tickets` | 2 slots, 2 worlds, 1 login session, 1 token, 1 login connection, fair | `RouteIndexExact`, `ConsumedHasRoute`, `ImplementsAuthority`, `TicketSettles` while world servers leave and return between the critical sections of a consume |
| `login_sessions` | 2 slots, one used twice, 1 account with 1 character, 4 requests, fair | `TypeOK`, `SessionsIndexed`, `EnteredIsForgotten`, `TokenHeldOnce`, `LoginAnswered` |
| `message_codec` | all 41 message types, sequences of 3 calls on an empty and a filled object | `SizeExact`, `HasBitsConsistent`, `MessagesAreRecords` (each object refines its record) |
| `zone_routes` | 2 slots, 2 connections, 2 channels of one zone, 1 map, 1 player that enters and takes portals, 3 requests, fair (112,906 states) | `EnterInOnePlace`, `RouteNotReplaced`, `SentEnterEnds`, `UnroutedZonesReconnect` while zones vanish, go silent, expire and register again between the steps of a call |
| `zone_server` | 2 players, 2 fields and a dungeon, 3 positions in a line, room for 2 instances, 1 stray (493,772 states) | `PlayersCounted`, `IndexSound`, `ViewsAgree` |
| `db_queue` | the account server: 2 slots, 2 workers, 5 requests, a stop at any moment, fair | `SlotOwned`, `RequestHeldOnce`, `RequestAnswered` |
| `line_transport` | 2 sessions, 4 frames: one whose size wraps in the header, one that fits with no other, one lossy, fair (528,802 states) | `TypeOK`, `OneWriter`, `NoGap`, `OneConnection`, `Reconnects`, `WrittenOrClosed` |
| `packet_identity`, `dqs_stop`, `dqs_drain` | smallest that shows it | three statements of the documents that the code does not keep (section 4) |

Why these bounds: an eviction needs two sessions at a time and a token for each; a stale callback needs
one slot used twice, or one packet that waits while another connection takes the slot. In the routing, a
stale route needs a zone that connects on a second slot while its first is still registered; an answer
from another connection than the awaited one needs two channels of a zone; a map that is asked for again
needs two ids, and again for a portal a third. A ticket has one life, so one token shows every order of consume, notice, expiry and departure; two
worlds are needed for a claim of the wrong one. A login that is displaced needs two slots, a late answer
one of them used again; four requests are a login on each and a list and a selection. The database pool
must be used up (5 requests, 2 slots) and both workers busy. The sight radius of `ZoneServer` is no
multiple of the cell's size: the middle position sees both others at exactly the radius, one two and one
three cells away, and these do not see each other; three maps compete for two instances, and a dungeon is
reaped under an assignment. With two players a batch has one entity, so a cut needs three
(`ZoneServerCrowd.cfg`, one map and three players with batches of one, which passes by hand in 282,519
states). Three calls on
a message are a change, a transfer to the other object and a use of the result. Beyond these bounds every
safety property but those of the messages is proved (section 5).

Slots in `WorldSession`, players and channels in `ZoneRoute`, players and fields in `ZoneServer` are
interchangeable and are symmetry sets in safety runs; the liveness runs use none. Deadlock is an error
in `login_sessions` and `zone_server`; elsewhere a server without clients, or whose bounds are used up,
has nothing to do.

Fairness:

- `WorldSession`: sockets the server closed do close (asio completes the pending read), shards and the
  strand run what is queued, armed timers expire. Nothing is assumed of clients, of the Account server,
  of the database or of zones.
- `ZoneRoute`: shards handle their inbox, the main loop expires what is stale, calls go on, closed
  sockets close, heartbeats stop over a connection the zone has lost, and a zone answers what it received
  (`ZoneRuntime` answers every request). All of it weak: nothing disables these steps but their being done.
- `AccountTicket` and `LoginSession`: time passes and the main loop ticks; nothing else.
- `DbQueue`: threads that can run do, and the main loop drains results. Requests and the stop need not
  come.
- `LineTransport`: coroutines and posted work run; an open socket can be written to or fails; a closed
  one fails its read. Strong fairness of `Resolved` and `Connected` says that the remote is reachable
  again and again: `Reconnects` is about the line's own retries, not about the remote.

## 4. What the code does not keep

Three runs expect a violation:

1. `PacketActsForItsSession` (`packet_identity`): the slot of a lost connection is the next one handed
   out and sessions are keyed by slot, so gameplay packets of a new, unauthenticated connection resolve
   to the character of the slot's former connection.
2. `StopReturns` (`dqs_stop`): `DbWorker::stop` sets the stop token and notifies without the worker's
   mutex (`db_shard_manager.h:33`), and the worker waits with a plain condition variable (`:55`). Between
   the test of the predicate and the wait the notify reaches nobody: the worker sleeps on, `join` does
   not return.
3. `DrainedIsDone` (`dqs_drain`): in the World server the job returns its slot
   (`world_runtime_persistence.cpp:749`) and so does the worker (`world_runtime_core.cpp:89`). The free
   list then names a slot twice, two requests share it, and the drain at shutdown, which
   `docs/test_checklist_next_stage.md:42` describes, counts an empty pool with a request not done. The
   trace has 13 states.

The other configurations are run by hand, as `tlc -config X.cfg MCModule`; TLC reports a violation in
each (but `ZoneServerCrowd.cfg`, section 3):

4. `WorldSessionGraceTeardown.cfg`, `GraceEndsInTeardown`: when the reconnect grace expires, the timer
   callback only closes a connection that is gone already; the session stays bound and its character
   stays in the world.
5. `WorldSessionReconnectEvicts.cfg`, `EvictedIsClosed`: a reconnect takes the session of a connection
   that is still alive, and does not close that connection.
6. `WorldSessionLateLogout.cfg`, `LogoutUnbinds`: a logout that arrives before the bind waits on the
   shard of no character, the disconnect callback of its connection on the character's. Handled second,
   the logout marks the session as logged out and closes a connection that is gone: the session stays
   bound.
7. `LoginLateAuth.cfg`, `StaleSerialIgnored`: an authentication answer for a closed connection replaces
   the session of the newer connection of its slot.
8. `ZoneRouteMismatch.cfg`, `EnterAwaitsItsZone`: the player-enter goes to the process the map is
   assigned to, its answer is expected from the first route with the map's zone id. With two channels of
   a zone, as `config/servers.json` has them, these differ; the answer is ignored and the enter times
   out (`SentEnterEnds` of `zone_routes`).
9. `ZoneRouteDisplaced.cfg`, `NoTransferDisplaced`: one portal transfer is kept per assign request,
   though all callers for a map share the request; a second player's transfer overwrites the first.
10. `ZoneRouteLateWaiter.cfg`, `EnterEnds`: the request is sent before the enter is recorded as waiting
    for it; an answer handled on another shard in between finds nobody, and the enter waits for ever.
11. `ZoneRouteUnrouted.cfg`, `RequestsRouted`: the route is selected under the lock and the request
    recorded after it; a route lost in between leaves a request that no loss of a route will fail.
12. `ZoneRouteUnrouted.cfg` again, with `-continue`, `IndexIsPending`: the loss of a route between recording a request and indexing
    it removes the request first; the index then names a request that is gone, and later callers for the
    map are told to wait for it.
13. `ZoneServerReap.cfg`, `OccupiedStands`: the main loop erases a dungeon it found empty after a player
    has entered it on the I/O thread (7 states).
14. `ZoneServerLinear.cfg`, `CellsFindAll`, the check the code itself makes when
    `enable_aoi_linear_compare_` is set (`zone_runtime.cpp:553`): after a lost leave or an abandoned
    enter, the player's next enter into another map keeps its position and has no entry in the index, so
    nobody finds it until it changes its cell.

None of items 1, 4, 5 and 6 breaks `Authoritative`: the registry always agrees with its indexes
for every session that is bound.

Also reachable in the models, without a document that says otherwise:

- whoever logs in on the slot of a lost connection erases the session waiting there for its owner; a
  reconnect on an authenticated connection overwrites its session and leaves index entries that resolve
  to somebody else's session, which a later login of the first identity evicts (the reason why
  `SessionRegistry` lets a `Take` end other sessions than the conflicting ones);
- a client that asks to enter twice can have one request cancel the stage of the other, leaving a
  character reserved for a session that is not entering until its connection ends (so the converse of
  `EnteringIsReserved` does not hold); a request whose connection is lost while the snapshot handler
  holds it is bound all the same, to a connection whose close was processed before;
- the cleanup of an enter erases its request as an orphan although a portal transfer waits for it;
- a reaped dungeon stays assigned at World: the zone refuses a portal's enter into it, World ignores the
  refusal and has the player in a map where the zone does not;
- spawns and despawns are sent lossy (`zone_world_handler.cpp:114`, `:138`), and a move that overtakes
  the snapshot of a portal or a reconnect leaves views that nothing repairs;
- the characters cached for one world survive the selection of another;
- World and character requests of the Login server have no timeout: with the account line lost they wait
  until their client leaves;
- every outbound line is created with automatic reconnect, though a comment in `line_client_host.h:27`
  says the client has none; a connect under way at a stop is not cancelled, so that a session may come
  up after it; a send with the serial of the former session goes to the new one when the table of
  serials has no entry;
- a body of 65532 bytes or more wraps the header's size to less than a header: `Send` answers true, the
  frame is dropped and the connection goes on;
- a view is cut without a trace when a batch has more than 4096 entities.

## 5. Proofs

### WorldSession

All theorems are about `Spec`, for every value of the constants that satisfies `OwnsAssumption`
(ownership relates accounts and characters), `BoundAssumption` (bounds are naturals) and
`NoneAssumption` (the absent value is none of the keys, sessions and characters).

- `TypeCorrect`: `TypeOK` is inductive as it stands; one lemma per group of actions. It includes that
  only a request that is still waiting for its ticket has no character.
- `Authority`: `TypeOK /\ Authoritative` is inductive. `Authoritative` needs its last conjunct, that the
  tokens of bound sessions are already issued, so that a fresh token meets no session. The lemmas:
  `BoundOnce` (two slots never share a key, account, character or token), `EraseKeeps` (erasing the
  index entries of some sessions keeps those of the others), and one lemma for each of unbind, bind and
  reconnect.
- `Reservation`: `TypeOK /\ EnteringIsReserved` is inductive; a reservation is freed only together with
  the stage of its key.
- `LateCloses`: the action property `StaleCloseHarmless` from `TypeOK`; `OnlyStrandPops` says that no
  other thread shortens the strand's queue.
- `Refinement`: `Spec` implies `SessionRegistry`'s specification under the mapping `BoundSessions`.
  Authority is what makes it hold: a bind looks for conflicting sessions only in the indexes.
- `OneSession`: the abstract specification's own invariant, transported to the runtime.
- `Certification`: every bound session is for a pair of `Owns`. `CertifiedInv` carries the pair through
  the requests in progress; `BoundStep` lists what can change the bound sessions at all, `BindSlots` and
  `ReconnectSlots` what a bind and a reconnect leave at each slot.
- `EvictionsKick`, an action property: a bind that ends a session of another slot queues its kick. The
  point is in `KicksAll`: the lookups by character and by account find one session each, and
  `KickTasks` leaves none of them out when they are the same.
- `KickedIsClosing`, `KickStands` and `LiveSessionsKept`, from `PastInv`: requests, sessions, callbacks,
  packets, latest serials, tasks, stages and delayed closes are of connections that were accepted; the queued disconnects and
  closes and the delayed closes that wait for a reconnect are of connections that are gone; and a
  connection in stage `Closing` that is up has its close armed or under way (`ClosingIsDoomed`). A kick
  may find a delayed close that was reserved or armed already and arms none: only because such a close
  is of a connection that is gone, or a kick's own, does the victim not stay up. `KickStands` adds that
  nothing disarms that close while somebody else has the session, and `LiveSessionsKept` that a
  connection that is up loses its session only to a bind, to the undoing of its own enter or to another
  connection's reconnect. That packets wait on shards is why the latest serials are in the invariant: a
  handler works for the latest connection of its slot, which must be one that was accepted
  (`PastLatest`); `EventFields` and `PacketFields` say once what is in an event, `ReconnectCases` and
  `QuietCases` what a handler can do. `LiveSessionsKept` does not say that the bind is for the same character or account, which is
  false (section 4: the index entries that a reconnect leaves).

### ZoneRoute

For every topology (`TopologyAssumption`), all bounds (`BoundAssumption`) and an absent value that is no
zone, key, route or call (`NoneAssumption`):

- `TypeCorrect`: `TypeOK` is inductive.
- `SlotOrder`: `Order` is inductive together with `TypeOK`. It says of each slot's inbox that a hello
  and the route belong to the connection that is up or are followed by that connection's disconnect,
  and that this disconnect comes before the next hello. One lemma per way the inbox changes
  (`OrderedConnect`, `OrderedClose`, `OrderedAnswer`, `OrderedHandle`, `OrderedRegister`).
- `RoutesNotReplaced`: the action property `RouteNotReplaced`, from `Order`. It rests on the order of one
  slot's events alone, whatever other threads do.
- `AssignedAlwaysServed`: a map is assigned only to a process that serves it. `PlacementInv` carries this
  through a request on its way: what a call has selected or recorded and what a request asks for is served
  by the process it is meant for.
- `EntersInOnePlace`: `EnterInOnePlace`. An entering session is with its call, or is one waiter, or one
  player enter, never none and never two. `FlowInv` adds that no entry is of an attempt still to come, that
  an attempt has one entry in the two maps together, and none while its call has it; `TakenUp` states once
  how the answer to an assignment turns waiters into player enters.

No theorem assumes that handlers do not overlap. What would need it (that every request has its route,
every waiter its request, a map one request, an enter its zone) is false in the code: section 4, items
8 and 10 to 12.

### AccountTicket

From `SessionAssumption`, `BoundAssumption` and `NoneAssumption`, for all sets of slots, worlds,
sessions, tokens:

- `TypeCorrect`: `TypeOK` is inductive.
- `RoutesAgree`: `RouteIndexExact` from `RouteInv`, which adds that a route belongs to the connection of
  its slot (`RouteOfConn`) and states the agreement of the tables in both directions (`IndexAgrees`).
- `ConsumedRouted` and `TicketsImplement`: from `TicketInv`. The refinement needs for each token that
  it is in one map at most, that its grants and notices are those of its phase (`TokenFacts`), and that
  what the world line's handler resolved earlier still fits the ticket it holds (`StrandFacts`).
  `ConsumedHasRoute` is inductive with these: between the resolution of a sender and the ticket's lock
  the route can only go together with an erasure that is still to come.
- `GrantedOnce` and `SpentForever`: what `TicketAuthority` promises (one grant, one notice, a spent token
  stays spent: `Promised`, `PromiseNext`), shown of the abstract specification and transported through
  the refinement to the two maps.
- `TicketsAreGenuine`: a ticket is for an authenticated session, its account and a character of that
  account, and was granted to that session. It needs `CachedGenuine`: the characters a session may pick
  from are its account's.

### LoginSession

From `OwnerAssumption`, `BoundAssumption` and `NoneAssumption`, for all sets of slots, accounts and
characters: `TypeCorrect`, `SessionsIndexedAlways`, `EnteredForgottenAlways`, `TokenHeldOnceAlways`, and
`OneLoginAlways` (two slots share no account, login session or token), all
from one invariant `Inv`. None of the safety properties is inductive alone, because a late answer
carries names that were valid when its request was forwarded. What is added:

- `SpentNames`: a login session or token in use was already answered, so no answer still to come brings
  it a second time;
- `Agreeing`: a pending request and an issued token agree with the session of their login session about
  the account and the character, and a token was issued once;
- `Separate`: `TokenHeldOnce`, and the same of login sessions: a detached identity and a session differ
  in both.

The tables are arguments of `Indexed` and `Separate`, so that one lemma per table operation (what an
unbind removes, what a bind displaces) serves all handlers that compose them.

### DbQueue

For `~FreedByJob`, from `ConstantsAssumption`: `SlotOwned` says that every slot is in exactly one place.
The inductive form `Owned` splits it into pairs of kinds of place (free list, callers, queues, workers)
and a covering part, with one lemma per kind of move. `TypeCorrect` follows because a free list without
repetitions is no longer than the pool. `Held` adds that
a slot with a caller, in a queue or with a worker that has not finished has its payload.

`RequestsHeldOnce` is about the requests the slots carry: none is lost, none is answered twice. Its
invariant `Tracked` says that results and answers have no repetition and nothing in common (`DoneOnce`),
that two slots never carry the same request (`PayloadsApart`) and a free one carries none
(`FreeIsReset`), that a worker works on what its slot carries (`WorkersRead`), that the request in a slot
is done exactly between the worker's run and its recycle (`RanIsDone`), and that each request made is
done or in a slot (`NoneLost`). It needs `Owned`: a slot with two owners would be overwritten by one of
them. With `FreedByJob` these are false (section 4, item 3).

`RequestsKeepTheirShard` (from `Sharded`: what is queued at a worker or in its hands has that worker's
shard) and `NoRequestStranded` are for `~FreedByJob` too: a slot given back early is refilled with a
request of another shard while it is still queued at the first. `NoRequestStranded` joins `Tracked`,
`Sharded` and `ParkedIsIdle`: a worker that waits, or has found its queue empty and is about to, has an
empty queue, since `push` appends under the mutex and notifies after it. `StopJoinsAll` needs no
hypothesis: `StopInOrder` says which workers the stopper has joined and that a worker ends only once it
was asked to stop. It says what holds when the stop returns; that it may not return is in section 4.

### LineTransport

From `ConstantsAssumption`, for all frames and limits: `OneWriterAlways` (a session's write loop starts
with the first queued frame and ends with the last, per session, from `Written`); `OneConnectionAlways`
(each retry is scheduled by the end of the attempt before it, in however many steps).

`TypeCorrect` and `NoGapAlways` follow from `Flowing`, four facts of each session and a bound on what was
sent: the counted bytes are those of the queued frames (`Counted`; a sum over a queue is the cardinality of
the set `QueuedBytes`, which the prover can reason about without induction); written, queued and posted
frames follow one another in the order of the sends (`Ordered`) and were accepted (`Known`); and a
frame the session owes is written, or nothing sent after it is and an open session still has it (`Kept`).
A frame `async_send` ignores is accepted and owed to nobody (`FlowIgnored`). `NoGap`
alone says nothing of frames on their way and is not inductive.

`NeverLeftAlone` and `SendsToLiveSession` follow from `Driven`: before the stop the client has one live
session, its current one, and no reconnect coroutine, or no session and exactly one coroutine, so that
the end of a session or of an attempt always hands over to a next attempt. `FramesAreOnTheirWay`: a
frame an open session owes is written, queued with a write loop running, or posted.

### ZoneServer

From `ZoneAssumption` (finitely many players, points are pairs of integers, the absent value is no
record): `CountsNeverExceed` and `IndexIsSound` from `ZInv`, an invariant of the zone's three maps and of
`torn`, the instances the reaping took from under a player. An instance that was not torn counts its
players exactly; one that was torn and made again counts from zero while players of its former life are
still bound, so that it never counts too many, and the leave of such a player does not lower the count
below zero. Nothing World believes is needed, so lost and abandoned messages cannot break them. An action composes
up to three changes of the maps (a portal leaves and enters); each change is a function of the three
maps and has one lemma (`ZEntered`, `ZLeft`, `ZMoved`), and the cardinality facts `OneMore` and
`OneLess` are stated once.

`ViewsAlwaysAgree`, for every radius, all positions and every batch limit, from `Steady`. A batch that is
cut is a stray. While nothing strayed, a bound
player is one World has, on a line that is up; it stands where World has it, or nowhere before its first
snapshot; and a snapshot that is due was asked for with that position (`Bindings`). That is why the
snapshot of a reconnect may be kept from the others: the player does not move by it. Every player that
stands somewhere is in the index (`Whole`), and every client whose snapshot came knows those a linear
scan finds (`Told`). The geometry is in `SightIsNear`: the range, rounded up, times the cell's size spans
the radius (`RangeSpansRadius`), so two positions in sight of each other are in cells the search visits;
and sight is mutual, so that the spawns and despawns of one player's move are right for the others
(`ScanOthers`). `CellsFindAllUnlessStrayed` is the same fact of the code's own debugging check, that the
cells find what the linear scan finds; after a stray it can fail (`ZoneServerLinear.cfg`).

### Only model-checked

Liveness (fairness is out of the prover's reach): `VictimIsClosed`, `SentEnterEnds`,
`UnroutedZonesReconnect`, `TicketSettles`, `LoginAnswered`, `RequestAnswered`, `Reconnects`,
`WrittenOrClosed`. Of four of them the half that is a safety property is proved, namely that what the
fairness has to bring about is always still there to happen: `KickedIsClosing` and `KickStands` for
`VictimIsClosed`, `NoRequestStranded` for `RequestAnswered`,
`NeverLeftAlone` for `Reconnects`, `FramesAreOnTheirWay` for `WrittenOrClosed`. The message properties (`SizeExact`, `HasBitsConsistent`, `MessagesAreRecords`):
`ProtoMessage` is recursive, as messages are nested, and what a recursive definition computes needs an
induction over data. The theorems of `DbQueue` but `StopJoinsAll` are for
`~FreedByJob`, the account server, and false for the World server's double return (`dqs_drain`).

## 6. Not modelled

- World's player and zone actors: cells, visibility deltas and combat on one thread, sequential code
  whose state is geometry. What a late leave does there (`world_runtime_session.cpp:956`) is a hazard
  without a property.
- The write-behind of characters: what it stores ends in a stub (`save_character_blob`,
  `odbc_wrapper.cpp:268`), so there is no stored version to make a promise about. Its queue is `DbQueue`.
- Redis, ODBC and SQL, the account database: clients of external stores; their answers are
  nondeterministic here.
- The packed structs of the internal lines are fixed layouts copied with `memcpy`.
- Configuration, logging, metrics, the hash, combat, level and item tables: parsing, formatting, pure
  lookups.
- The Control server registers its lines and forwards nothing that changes session state; its line is an
  instance of `LineTransport`. The Channel server is an older copy of the World runtime in one file; its
  database queue is `DbQueue` with `FreedByJob`.
- Data races inside a container (`world_runtime_enter_world.cpp:600`): undefined behaviour without a
  meaningful set of outcomes; each access is taken to be atomic, a test and the change after it are not.
- Clients, load generators and data builders.

## 7. Plan

1. A composition of `WorldSession` and `ZoneRoute` in which the zones' answers are those of `ZoneRoute`.
2. `WorldActors`: posts of enter and leave to the player and zone actors, in the order of the sessions.
