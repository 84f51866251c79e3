---------------------------- MODULE WorldSession ----------------------------
(***************************************************************************)
(* The authenticated session of the World server: how a client connection  *)
(* enters the world with a ticket, becomes the authoritative session of    *)
(* its account and character, is evicted by a newer login, reclaimed with  *)
(* a reconnect token, and closed.                                          *)
(*                                                                         *)
(* Four kinds of thread touch this state: the I/O threads that accept and  *)
(* lose sockets (Accept, SocketClose), the actor shards that run packet,   *)
(* connect, disconnect, database and zone handlers, the strand             *)
(* duplicate_session_strand_ that serialises kicks and closes, and the     *)
(* timers of the delayed closes.  One action is one critical section of    *)
(* world_session_mtx_ together with the work its thread does around it.    *)
(***************************************************************************)
EXTENDS Naturals, Sequences, FiniteSets

CONSTANTS
    Sid,          \* slots of the TcpServer
    Account,
    Char,
    Owns,         \* the (account, character) pairs the Account server certifies
    None,         \* an absent map entry
    MaxSerial,    \* bound: connections accepted on one slot
    MaxConnection,\* bound: connections accepted on all slots
    MaxToken,     \* bound: reconnect tokens generated
    MaxRequest,   \* bound: enter-world requests
    MaxPacket,    \* bound: packets posted and not handled yet
    Sends         \* bound: the packets clients send, of "Enter", "Logout", "Reconnect"

Serial  == 1 .. MaxSerial
Token   == 1 .. MaxToken
Key     == [sid : Sid, serial : Serial]
Session == [account : Account, char : Char, serial : Serial, token : Token]

ASSUME OwnsAssumption  == Owns \subseteq Account \X Char
ASSUME BoundAssumption == /\ MaxSerial \in Nat
                          /\ MaxConnection \in Nat
                          /\ MaxToken \in Nat
                          /\ MaxRequest \in Nat
                          /\ MaxPacket \in Nat
ASSUME NoneAssumption  == None \notin Key \cup Session \cup Char

VARIABLES
    serial,       \* TcpServer::slot_serials_: serial of the last connection of a slot
    open,         \* is the slot's last connection still up
    closing,      \* connections the server has called close() on
    events,       \* callbacks and packets posted to the actor shards
    latest,       \* NetworkEXBase::session_serials_ (0: no entry)
    authed,       \* authed_sessions_by_sid_
    charKey,      \* authed_session_key_by_char_id_
    accountKey,   \* authed_session_key_by_account_id_
    tokenKey,     \* reconnect_session_key_by_token_
    nextToken,
    stage,        \* world_enter_stage_by_session_key_
    pendingKey,   \* pending_enter_session_key_by_char_id_
    reason,       \* session_close_reason_by_session_key_
    delayed,      \* delayed_world_close_entries_
    strand,       \* tasks queued on duplicate_session_strand_
    flow,         \* enter-world requests in progress
    nextRequest

transport == <<serial, open, closing, events, latest>>
registry  == <<authed, charKey, accountKey, tokenKey, nextToken>>
enter     == <<stage, pendingKey>>
requests  == <<flow, nextRequest>>
vars      == <<transport, registry, enter, reason, delayed, strand, requests>>

Stage  == {"None", "EnterPending", "InWorld", "Closing"}
Reason == {"NetworkDisconnect", "DuplicateKick", "ExplicitLogout"}

\* A delayed close is reserved, then armed with the reconnect grace (5 s) or
\* with the delay after a kick packet (150 ms).
Delayed == {"None", "Reserved", "Grace", "Kick"}

\* Where an enter-world request is.  The requests of MappedStep sit in one of
\* the runtime's four pending maps; the others are held by a running handler.
MappedStep == {"Consume", "Snapshot", "Assign", "ZoneEnter"}
Step       == MappedStep \cup {"Loaded", "Begun", "Bound"}
Request    == [id : 1 .. MaxRequest, key : Key, account : Account,
               char : Char \cup {None}, step : Step]

\* What a client sends, as far as it concerns its session.
Message == [op : {"Enter"}, account : Account]
             \cup [op : {"Logout"}]
             \cup [op : {"Reconnect"}, token : Token]

\* An event keeps the shard it was routed to; a packet has begun once
\* HandlePacket_ has recorded the serial it came with.
Event == [kind : {"Connect", "Disconnect"}, key : Key, route : Char \cup {None}]
           \cup [kind : {"Packet"}, key : Key, route : Char \cup {None},
                 msg : Message, begun : BOOLEAN]
Task  == [kind : {"Kick", "Closed"}, key : Key, reason : Reason]

-----------------------------------------------------------------------------
(* Lookups. *)

KeyOf(s, n) == [sid |-> s, serial |-> n]

\* The connection is up: TcpServer::try_get_session_ finds it.
Live(k) == open[k.sid] /\ serial[k.sid] = k.serial

\* authed_sessions_by_sid_ holds a session of exactly this connection.
BoundAt(k) == authed[k.sid] # None /\ authed[k.sid].serial = k.serial

SessionKey(s) == KeyOf(s, authed[s].serial)

\* The character a slot resolves to, whatever connection now occupies it.
FindCharIdBySession(s) == IF authed[s] = None THEN None ELSE authed[s].char

IsEnterWorldSessionPending(k, c) == stage[k] = "EnterPending" /\ pendingKey[c] = k

-----------------------------------------------------------------------------
(* Transport: the slots of the TcpServer, the posted callbacks and packets. *)

Post(kind, k) ==
    events' = Append(events,
                     [kind |-> kind, key |-> k, route |-> FindCharIdBySession(k.sid)])

Accept(s) ==
    /\ ~open[s]
    /\ serial[s] < MaxSerial
    /\ Cardinality({k \in Key : k.serial <= serial[k.sid]}) < MaxConnection
    /\ open' = [open EXCEPT ![s] = TRUE]
    /\ serial' = [serial EXCEPT ![s] = @ + 1]
    /\ Post("Connect", KeyOf(s, serial[s] + 1))
    /\ UNCHANGED <<closing, latest, registry, enter, reason, delayed, strand, requests>>

\* The read loop ends: the peer went away, or the server closed the socket.
SocketClose(k) ==
    /\ Live(k)
    /\ open' = [open EXCEPT ![k.sid] = FALSE]
    /\ closing' = closing \ {k}
    /\ Post("Disconnect", k)
    /\ UNCHANGED <<serial, latest, registry, enter, reason, delayed, strand, requests>>

Packets(op) == {i \in 1 .. Len(events) : events[i].kind = "Packet" /\ events[i].msg.op = op}

\* The read loop has a packet of k and posts it to the shard of the character
\* the slot has now.
PostPacket(k, m) ==
    /\ Live(k)
    /\ m.op \in Sends
    /\ Cardinality({i \in 1 .. Len(events) : events[i].kind = "Packet"}) < MaxPacket
    /\ m.op = "Enter" => nextRequest + Cardinality(Packets("Enter")) <= MaxRequest
    /\ m.op = "Reconnect" => m.token < nextToken
    /\ events' = Append(events, [kind |-> "Packet", key |-> k,
                                 route |-> FindCharIdBySession(k.sid), msg |-> m, begun |-> FALSE])
    /\ UNCHANGED <<serial, open, closing, latest, registry, enter, reason, delayed, strand, requests>>

\* NetworkEXBase::Close: nothing happens unless the connection is still up.
Close(k) == closing' = IF Live(k) THEN closing \cup {k} ELSE closing

\* A shard runs the oldest callback that was routed to it.
IsHead(i) == \A j \in 1 .. i - 1 : events[j].route # events[i].route

Consumed(i) ==
    events' = SubSeq(events, 1, i - 1) \o SubSeq(events, i + 1, Len(events))

HandleConnected(i) ==
    /\ events[i].kind = "Connect"
    /\ Consumed(i)
    /\ latest' = [latest EXCEPT ![events[i].key.sid] = events[i].key.serial]
    /\ UNCHANGED <<serial, open, closing, registry, enter, reason, delayed, strand, requests>>

\* HandlePacket_ takes the packet's serial for the slot's latest, even when its
\* connection is gone or another has the slot.
BeginPacket(i) ==
    /\ events[i].kind = "Packet"
    /\ ~events[i].begun
    /\ events' = [events EXCEPT ![i].begun = TRUE]
    /\ latest' = [latest EXCEPT ![events[i].key.sid] = events[i].key.serial]
    /\ UNCHANGED <<serial, open, closing, registry, enter, reason, delayed, strand, requests>>

\* The connection its handler then works for: the latest the slot has by now.
Sender(i) == KeyOf(events[i].key.sid, latest[events[i].key.sid])

Packet(i, op) ==
    /\ events[i].kind = "Packet"
    /\ events[i].begun
    /\ events[i].msg.op = op
    /\ Consumed(i)
    /\ UNCHANGED <<serial, open, latest>>

-----------------------------------------------------------------------------
(* The authenticated-session registry (under world_session_mtx_). *)

\* Index entries left when the sessions of the slots in E are erased: an entry
\* goes only if it still names the erased session.
EraseCharKeys(E) ==
    [c \in Char |->
        IF \E s \in E : authed[s] # None /\ authed[s].char = c /\ charKey[c] = SessionKey(s)
        THEN None ELSE charKey[c]]

EraseAccountKeys(E) ==
    [a \in Account |->
        IF \E s \in E : authed[s] # None /\ authed[s].account = a /\ accountKey[a] = SessionKey(s)
        THEN None ELSE accountKey[a]]

EraseTokenKeys(E) ==
    [t \in Token |->
        IF \E s \in E : authed[s] # None /\ authed[s].token = t /\ tokenKey[t] = SessionKey(s)
        THEN None ELSE tokenKey[t]]

EraseReasons(E) ==
    [k \in Key |-> IF k.sid \in E /\ BoundAt(k) THEN "NetworkDisconnect" ELSE reason[k]]

ErasePendingKeys(k) ==
    [c \in Char |-> IF pendingKey[c] = k THEN None ELSE pendingKey[c]]

\* Mutant: the unbind compares only the slot.
UnbindIgnoringSerial(k) ==
    /\ authed[k.sid] # None
    /\ authed' = [authed EXCEPT ![k.sid] = None]
    /\ charKey' = EraseCharKeys({k.sid})
    /\ accountKey' = EraseAccountKeys({k.sid})
    /\ tokenKey' = EraseTokenKeys({k.sid})
    /\ reason' = [reason EXCEPT ![k] = "NetworkDisconnect"]
    /\ stage' = [stage EXCEPT ![k] = "None"]
    /\ pendingKey' = ErasePendingKeys(k)
    /\ UNCHANGED nextToken

\* UnbindAuthenticatedWorldSessionBySid, result Removed.
UnbindAuthenticatedWorldSession(k) ==
    /\ BoundAt(k)
    /\ authed' = [authed EXCEPT ![k.sid] = None]
    /\ charKey' = EraseCharKeys({k.sid})
    /\ accountKey' = EraseAccountKeys({k.sid})
    /\ tokenKey' = EraseTokenKeys({k.sid})
    /\ reason' = [reason EXCEPT ![k] = "NetworkDisconnect"]
    /\ stage' = [stage EXCEPT ![k] = "None"]
    /\ pendingKey' = ErasePendingKeys(k)
    /\ UNCHANGED nextToken

\* Mutant: a login does not look for the account's session.
NoAccountLookup(s, a) == {}

\* The sessions of other slots that hold the character, or the account, a new
\* session is about to take, as the indexes report them.
OldCharSids(s, c)    == {t \in Sid \ {s} : authed[t] # None /\ charKey[c] = SessionKey(t)}
OldAccountSids(s, a) == {t \in Sid \ {s} : authed[t] # None /\ accountKey[a] = SessionKey(t)}

Kick(s) == [kind |-> "Kick", key |-> SessionKey(s), reason |-> "DuplicateKick"]

\* One kick for the old session of the character, one for that of the account
\* unless they are the same session.
KickTasks(C, A) ==
    LET one(E) == IF E = {} THEN <<>> ELSE <<Kick(CHOOSE t \in E : TRUE)>>
    IN  one(C) \o one(A \ C)

\* The new session keeps the reconnect token of the character's old session.
TakeToken(C, t) ==
    IF C = {}
    THEN /\ nextToken \in Token
         /\ t = nextToken
         /\ nextToken' = nextToken + 1
    ELSE /\ \E u \in C : t = authed[u].token
         /\ UNCHANGED nextToken

BindAuthenticatedWorldSessionForLogin(k, a, c) ==
    LET C == OldCharSids(k.sid, c)
        A == OldAccountSids(k.sid, a)
        E == C \cup A \cup {k.sid}
    IN  \/ /\ BoundAt(k)
           /\ authed[k.sid].account = a
           /\ authed[k.sid].char = c
           /\ UNCHANGED <<registry, reason, strand>>
        \/ /\ ~(BoundAt(k) /\ authed[k.sid].account = a /\ authed[k.sid].char = c)
           /\ \E t \in Token :
                /\ TakeToken(C, t)
                /\ authed' = [s \in Sid |->
                     IF s = k.sid
                     THEN [account |-> a, char |-> c, serial |-> k.serial, token |-> t]
                     ELSE IF s \in E THEN None ELSE authed[s]]
                /\ tokenKey' = [EraseTokenKeys(E) EXCEPT ![t] = k]
           /\ charKey' = [EraseCharKeys(E) EXCEPT ![c] = k]
           /\ accountKey' = [EraseAccountKeys(E) EXCEPT ![a] = k]
           /\ reason' = [EraseReasons(E) EXCEPT ![k] = "NetworkDisconnect"]
           /\ strand' = strand \o KickTasks(C, A)

-----------------------------------------------------------------------------
(* Entering the world. *)

Advance(f, step) == flow' = (flow \ {f}) \cup {[f EXCEPT !.step = step]}
Drop(f)          == flow' = flow \ {f}

\* HandleEnterWorldWithToken: ask the Account server to consume the ticket.
RequestConsumeWorldAuthTicket(i) ==
    /\ Packet(i, "Enter")
    /\ nextRequest <= MaxRequest                        \* bound, met by PostPacket
    /\ IF latest[events[i].key.sid] = 0
       THEN UNCHANGED requests
       ELSE /\ nextRequest' = nextRequest + 1
            /\ flow' = flow \cup {[id |-> nextRequest, key |-> Sender(i),
                                   account |-> events[i].msg.account,
                                   char |-> None, step |-> "Consume"]}
    /\ UNCHANGED <<closing, registry, enter, reason, delayed, strand>>

\* The ticket is refused, or certifies a character whose snapshot is loaded next.
OnWorldAuthTicketConsumeResponse(f) ==
    /\ f.step = "Consume"
    /\ \/ Drop(f)
       \/ \E c \in Char :
            /\ <<f.account, c>> \in Owns
            /\ flow' = (flow \ {f}) \cup {[f EXCEPT !.char = c, !.step = "Snapshot"]}
    /\ UNCHANGED <<transport, registry, enter, reason, delayed, strand, nextRequest>>

CancelPendingEnterWorldSession(k, c) ==
    /\ stage' = IF stage[k] = "EnterPending" THEN [stage EXCEPT ![k] = "None"] ELSE stage
    /\ pendingKey' = IF pendingKey[c] = k THEN [pendingKey EXCEPT ![c] = None] ELSE pendingKey

\* OnCharacterEnterSnapshotResult_ runs in four steps of one handler: it takes
\* the request out of its map, starts the enter, binds the session and assigns
\* a map instance.  Handlers of other shards run between them.
LoadSnapshot(f) ==
    /\ f.step = "Snapshot"
    /\ \/ /\ Advance(f, "Loaded")
          /\ UNCHANGED enter
       \/ /\ Drop(f)
          /\ CancelPendingEnterWorldSession(f.key, f.char)
    /\ UNCHANGED <<transport, registry, reason, delayed, strand, nextRequest>>

\* Mutant: the enter starts although another connection reserved the character.
BeginIgnoringReservation(f) ==
    /\ f.step = "Loaded"
    /\ IF stage[f.key] = "None"
       THEN /\ Advance(f, "Begun")
            /\ stage' = [stage EXCEPT ![f.key] = "EnterPending"]
            /\ pendingKey' = [pendingKey EXCEPT ![f.char] = f.key]
       ELSE /\ Drop(f)
            /\ UNCHANGED enter
    /\ UNCHANGED <<transport, registry, reason, delayed, strand, nextRequest>>

TryBeginEnterWorldSession(f) ==
    /\ f.step = "Loaded"
    /\ IF stage[f.key] = "None" /\ pendingKey[f.char] \in {None, f.key}
       THEN /\ Advance(f, "Begun")
            /\ stage' = [stage EXCEPT ![f.key] = "EnterPending"]
            /\ pendingKey' = [pendingKey EXCEPT ![f.char] = f.key]
       ELSE /\ Drop(f)
            /\ UNCHANGED enter
    /\ UNCHANGED <<transport, registry, reason, delayed, strand, nextRequest>>

BindSession(f) ==
    /\ f.step = "Begun"
    /\ BindAuthenticatedWorldSessionForLogin(f.key, f.account, f.char)
    /\ Advance(f, "Bound")
    /\ UNCHANGED <<transport, enter, delayed, nextRequest>>

\* Undo an enter: cancel the reservation and unbind whatever is bound at k.
RollbackBoundEnterWorld(k, c) ==
    \/ UnbindAuthenticatedWorldSession(k)
    \/ /\ ~BoundAt(k)
       /\ CancelPendingEnterWorldSession(k, c)
       /\ UNCHANGED <<registry, reason>>

\* The map already has a zone (the zone is told of the player), an assignment
\* request is sent to a zone, or there is no zone or the send fails.
AssignMapInstance(f) ==
    /\ f.step = "Bound"
    /\ \/ /\ Advance(f, "ZoneEnter") \/ Advance(f, "Assign")
          /\ UNCHANGED <<registry, enter, reason>>
       \/ /\ Drop(f)
          /\ RollbackBoundEnterWorld(f.key, f.char)
    /\ UNCHANGED <<transport, delayed, strand, nextRequest>>

\* The zone accepts the map (and the player enter is sent), or rejects it, the
\* route is lost or the send fails.  A stale request is only dropped.
OnZoneMapAssignResponse(f) ==
    /\ f.step = "Assign"
    /\ IF IsEnterWorldSessionPending(f.key, f.char)
       THEN \/ /\ Advance(f, "ZoneEnter")
               /\ UNCHANGED <<registry, enter, reason>>
            \/ /\ Drop(f)
               /\ RollbackBoundEnterWorld(f.key, f.char)
       ELSE /\ Drop(f)
            /\ UNCHANGED <<registry, enter, reason>>
    /\ UNCHANGED <<transport, delayed, strand, nextRequest>>

PromoteEnterWorldSessionToInWorld(k, c) ==
    /\ BoundAt(k)
    /\ authed[k.sid].char = c
    /\ stage' = [stage EXCEPT ![k] = "InWorld"]
    /\ pendingKey' = [pendingKey EXCEPT ![c] = None]

\* The zone's answer to the player enter: the session is promoted (unless it is
\* no longer bound: the stale ack is ignored), or the enter is undone because
\* the zone refused, did not answer in time, lost its route, or the Account
\* server could not be told.
OnZonePlayerEnterAck(f) ==
    /\ f.step = "ZoneEnter"
    /\ Drop(f)
    /\ IF IsEnterWorldSessionPending(f.key, f.char)
       THEN \/ /\ PromoteEnterWorldSessionToInWorld(f.key, f.char)
               /\ UNCHANGED <<registry, reason>>
            \/ RollbackBoundEnterWorld(f.key, f.char)
            \/ /\ ~(BoundAt(f.key) /\ authed[f.key.sid].char = f.char)
               /\ UNCHANGED <<registry, enter, reason>>
       ELSE UNCHANGED <<registry, enter, reason>>
    /\ UNCHANGED <<transport, delayed, strand, nextRequest>>

-----------------------------------------------------------------------------
(* Leaving, losing and reclaiming a session. *)

\* HandleLogoutWorld: a logout of a connection without a session is rejected.
LogoutWorld(i) ==
    LET k == Sender(i)
    IN  /\ Packet(i, "Logout")
        /\ IF BoundAt(k)
           THEN /\ reason' = [reason EXCEPT ![k] = "ExplicitLogout"]
                /\ Close(k)
           ELSE UNCHANGED <<reason, closing>>
        /\ UNCHANGED <<registry, enter, delayed, strand, requests>>

\* Mutant: the reconnect leaves the session at its old slot too.
ReconnectCopies(k, t) ==
    LET p == tokenKey[t]
        x == authed[p.sid]
    IN  /\ BoundAt(p)
        /\ authed' = [authed EXCEPT ![k.sid] = [x EXCEPT !.serial = k.serial]]
        /\ charKey' = [charKey EXCEPT ![x.char] = k]
        /\ accountKey' = [accountKey EXCEPT ![x.account] = k]
        /\ tokenKey' = [tokenKey EXCEPT ![t] = k]
        /\ stage' = [[stage EXCEPT ![p] = "None"] EXCEPT ![k] = "InWorld"]
        /\ pendingKey' = ErasePendingKeys(p)
        /\ delayed' = [delayed EXCEPT ![p] = "None"]
        /\ UNCHANGED reason

\* TryReconnectWorldSession on connection k with an issued token.
ReconnectMoves(k, t) ==
    LET p == tokenKey[t]
        x == authed[p.sid]
    IN  /\ BoundAt(p)
        /\ x.token = t
        /\ authed' = [[authed EXCEPT ![p.sid] = None]
                             EXCEPT ![k.sid] = [x EXCEPT !.serial = k.serial]]
        /\ charKey' = [charKey EXCEPT ![x.char] = k]
        /\ accountKey' = [accountKey EXCEPT ![x.account] = k]
        /\ tokenKey' = [tokenKey EXCEPT ![t] = k]
        /\ stage' = [[stage EXCEPT ![p] = "None"] EXCEPT ![k] = "InWorld"]
        /\ reason' = [[reason EXCEPT ![p] = "NetworkDisconnect"]
                             EXCEPT ![k] = "NetworkDisconnect"]
        /\ pendingKey' = ErasePendingKeys(p)
        /\ delayed' = [delayed EXCEPT ![p] = "None"]   \* CancelDelayedWorldClose

\* HandleReconnectWorld: a token whose session is gone loses its entry; a token
\* without an entry, or of another session than its entry names, is rejected.
TryReconnectWorldSession(i) ==
    LET k == Sender(i)
        t == events[i].msg.token
    IN  /\ Packet(i, "Reconnect")
        /\ IF latest[k.sid] = 0 \/ tokenKey[t] = None
           THEN UNCHANGED <<registry, enter, reason, delayed>>
           ELSE \/ /\ ReconnectMoves(k, t)
                   /\ UNCHANGED nextToken
                \/ /\ ~BoundAt(tokenKey[t])
                   /\ tokenKey' = [tokenKey EXCEPT ![t] = None]
                   /\ UNCHANGED <<authed, charKey, accountKey, nextToken, enter, reason, delayed>>
                \/ /\ BoundAt(tokenKey[t])
                   /\ authed[tokenKey[t].sid].token # t
                   /\ UNCHANGED <<registry, enter, reason, delayed>>
        /\ UNCHANGED <<closing, strand, requests>>

\* AbortEnterWorldFlowBySession_: the requests a running handler holds survive.
AbortEnterWorldFlow(k) ==
    /\ flow' = {f \in flow : f.key # k \/ f.step \notin MappedStep}
    /\ pendingKey' = ErasePendingKeys(k)

\* HandleDisconnected_: a callback that is not of the slot's latest serial is
\* ignored; otherwise HandleWorldSessionClosed aborts the enter, forgets the
\* stage and hands the close, with the reason known now, to the strand.
HandleDisconnected(i) ==
    LET k == events[i].key
    IN  /\ events[i].kind = "Disconnect"
        /\ Consumed(i)
        /\ IF latest[k.sid] = k.serial
           THEN /\ AbortEnterWorldFlow(k)
                /\ stage' = [stage EXCEPT ![k] = "None"]
                /\ strand' = Append(strand,
                                    [kind |-> "Closed", key |-> k, reason |-> reason[k]])
                /\ latest' = [latest EXCEPT ![k.sid] = 0]
           ELSE UNCHANGED <<flow, enter, strand, latest>>
        /\ UNCHANGED <<serial, open, closing, registry, reason, delayed, nextRequest>>

\* Mutant: the delayed close is reserved and never armed.
KickWithoutTimer(k) ==
    /\ AbortEnterWorldFlow(k)
    /\ stage' = [stage EXCEPT ![k] = "Closing"]
    /\ reason' = [reason EXCEPT ![k] = "DuplicateKick"]
    /\ delayed' = [delayed EXCEPT ![k] = "Reserved"]
    /\ UNCHANGED <<transport, registry, nextRequest>>

\* ProcessDuplicateWorldSessionKickOnIo_: send the kick packet and arm the
\* delayed close; if the connection is gone the send fails and the immediate
\* Close finds nothing to close.
ProcessDuplicateWorldSessionKick(k) ==
    /\ AbortEnterWorldFlow(k)
    /\ stage' = [stage EXCEPT ![k] = "Closing"]
    /\ reason' = [reason EXCEPT ![k] = "DuplicateKick"]
    /\ delayed' = IF delayed[k] = "None"
                  THEN [delayed EXCEPT ![k] = IF Live(k) THEN "Kick" ELSE "Reserved"]
                  ELSE delayed
    /\ UNCHANGED <<transport, registry, nextRequest>>

\* ProcessWorldSessionClosedOnIo_.
ProcessWorldSessionClosed(k) ==
    /\ delayed' = [delayed EXCEPT ![k] = "None"]
    /\ \/ UnbindAuthenticatedWorldSession(k)
       \/ ~BoundAt(k) /\ UNCHANGED <<registry, enter, reason>>
    /\ UNCHANGED <<transport, requests>>

\* The strand half of HandleWorldSessionClosed: keep the session for the
\* reconnect grace, or tear it down.
CloseOnStrand(k, why) ==
    IF why # "ExplicitLogout" /\ delayed[k] = "None"
    THEN /\ delayed' = [delayed EXCEPT ![k] = "Grace"]
         /\ UNCHANGED <<transport, registry, enter, reason, requests>>
    ELSE ProcessWorldSessionClosed(k)

RunStrand ==
    /\ strand # <<>>
    /\ strand' = Tail(strand)
    /\ LET task == Head(strand)
       IN  \/ task.kind = "Kick" /\ ProcessDuplicateWorldSessionKick(task.key)
           \/ task.kind = "Closed" /\ CloseOnStrand(task.key, task.reason)

\* The timer armed by ArmReservedDelayedWorldClose_ expires.
DelayedCloseFires(k) ==
    /\ delayed[k] \in {"Grace", "Kick"}
    /\ delayed' = [delayed EXCEPT ![k] = "None"]
    /\ Close(k)
    /\ UNCHANGED <<serial, open, events, latest, registry, enter, reason, strand, requests>>

-----------------------------------------------------------------------------
Init ==
    /\ serial = [s \in Sid |-> 0]
    /\ open = [s \in Sid |-> FALSE]
    /\ closing = {}
    /\ events = <<>>
    /\ latest = [s \in Sid |-> 0]
    /\ authed = [s \in Sid |-> None]
    /\ charKey = [c \in Char |-> None]
    /\ accountKey = [a \in Account |-> None]
    /\ tokenKey = [t \in Token |-> None]
    /\ nextToken = 1
    /\ stage = [k \in Key |-> "None"]
    /\ pendingKey = [c \in Char |-> None]
    /\ reason = [k \in Key |-> "NetworkDisconnect"]
    /\ delayed = [k \in Key |-> "None"]
    /\ strand = <<>>
    /\ flow = {}
    /\ nextRequest = 1

\* One step of the shard that runs what was posted to route r.
Shard(r) ==
    \E i \in 1 .. Len(events) :
        /\ events[i].route = r
        /\ IsHead(i)
        /\ \/ HandleConnected(i)
           \/ HandleDisconnected(i)
           \/ BeginPacket(i)
           \/ RequestConsumeWorldAuthTicket(i)
           \/ LogoutWorld(i)
           \/ TryReconnectWorldSession(i)

EnterStep(f) ==
    \/ OnWorldAuthTicketConsumeResponse(f)
    \/ LoadSnapshot(f)
    \/ TryBeginEnterWorldSession(f)
    \/ BindSession(f)
    \/ AssignMapInstance(f)
    \/ OnZoneMapAssignResponse(f)
    \/ OnZonePlayerEnterAck(f)

Next ==
    \/ \E s \in Sid : Accept(s)
    \/ \E k \in Key : SocketClose(k)
    \/ \E k \in Key, m \in Message : PostPacket(k, m)
    \/ \E r \in Char \cup {None} : Shard(r)
    \/ \E f \in flow : EnterStep(f)
    \/ RunStrand
    \/ \E k \in Key : DelayedCloseFires(k)

Spec == Init /\ [][Next]_vars

\* Sockets the server closed do close, shards and the strand run their queues,
\* timers expire.  Clients, the Account server, the database and zones may stop.
Fairness ==
    /\ \A k \in Key : WF_vars(k \in closing /\ SocketClose(k))
    /\ \A r \in Char \cup {None} : WF_vars(Shard(r))
    /\ WF_vars(RunStrand)
    /\ \A k \in Key : WF_vars(DelayedCloseFires(k))

FairSpec == Spec /\ Fairness

-----------------------------------------------------------------------------
(* Properties. *)

TypeOK ==
    /\ serial \in [Sid -> 0 .. MaxSerial]
    /\ open \in [Sid -> BOOLEAN]
    /\ closing \subseteq Key
    /\ events \in Seq(Event)
    /\ latest \in [Sid -> 0 .. MaxSerial]
    /\ authed \in [Sid -> Session \cup {None}]
    /\ charKey \in [Char -> Key \cup {None}]
    /\ accountKey \in [Account -> Key \cup {None}]
    /\ tokenKey \in [Token -> Key \cup {None}]
    /\ nextToken \in 1 .. MaxToken + 1
    /\ stage \in [Key -> Stage]
    /\ pendingKey \in [Char -> Key \cup {None}]
    /\ reason \in [Key -> Reason]
    /\ delayed \in [Key -> Delayed]
    /\ strand \in Seq(Task)
    /\ flow \subseteq Request
    /\ \A f \in flow : f.step = "Consume" <=> f.char = None
    /\ nextRequest \in 1 .. MaxRequest + 1

\* Every bound session is the one all three reverse indexes name for its
\* character, its account and its reconnect token, so that a newer login finds
\* it to evict and its token, which is not issued again, reclaims it.  So no
\* account, character or token is bound twice: "single active world session per
\* account + per character".
Authoritative ==
    \A s \in Sid : authed[s] # None =>
        /\ charKey[authed[s].char] = SessionKey(s)
        /\ accountKey[authed[s].account] = SessionKey(s)
        /\ tokenKey[authed[s].token] = SessionKey(s)
        /\ authed[s].token < nextToken

\* A session that is entering holds the reservation of some character: the
\* stage and the reservation are only changed together, by whichever of the
\* zone's answer, a rollback, a kick, a reconnect or a disconnect comes first.
EnteringIsReserved ==
    \A k \in Key : stage[k] = "EnterPending" => \E c \in Char : pendingKey[c] = k

\* The bound sessions, as claims of the abstract registry.
BoundSessions ==
    {[account |-> authed[s].account, char |-> authed[s].char, key |-> SessionKey(s)] :
        s \in {t \in Sid : authed[t] # None}}

R == INSTANCE SessionRegistry WITH sessions <- BoundSessions

\* The runtime implements the abstract registry: the index lookups of a bind
\* find every conflicting session, and unbinds and reconnects touch no other.
ImplementsRegistry == R!Spec

\* Processing the close of a connection on the strand, however late it runs and
\* whoever has the slot by then, never touches the session of another connection.
StaleCloseHarmless ==
    [][\A k \in Key :
         (strand # <<>> /\ strand' = Tail(strand) /\ Head(strand).key # k /\ BoundAt(k))
            => BoundAt(k)']_vars

KickQueued(k) == \E i \in 1 .. Len(strand) : strand[i].kind = "Kick" /\ strand[i].key = k

\* A session evicted by a newer login loses its connection, unless it reclaims
\* the character with the token before the delayed close runs.
VictimIsClosed ==
    \A k \in Key : KickQueued(k) ~> (~Live(k) \/ BoundAt(k))

\* "Disconnect then reconnect after grace window and verify full teardown":
\* when the grace of a lost connection is over its session is unbound.
GraceEndsInTeardown ==
    \A k \in Key : delayed[k] = "Grace" ~> ~BoundAt(k)

\* "World handler now rejects gameplay packets from unauthenticated sessions":
\* the character a packet of a live connection acts for, which
\* ResolveAuthenticatedCharIdOrReject_ looks up by slot, is bound to that
\* connection.
PacketActsForItsSession ==
    \A k \in Key : Live(k) /\ FindCharIdBySession(k.sid) # None => BoundAt(k)

\* "old session(s) are kicked/closed", "same character reconnect": a live
\* connection that was in the world and loses its session is being closed.
EvictedIsClosed ==
    [][\A k \in Key :
         (Live(k) /\ BoundAt(k) /\ stage[k] = "InWorld" /\ ~BoundAt(k)') =>
            KickQueued(k)' \/ k \in closing']_vars

\* An explicit logout ends in the session being unbound, unless a reconnect
\* reclaims the session (and clears the reason) before the close is processed.
LogoutUnbinds ==
    \A k \in Key : (BoundAt(k) /\ reason[k] = "ExplicitLogout")
                       ~> (~BoundAt(k) \/ reason[k] # "ExplicitLogout")

=============================================================================
