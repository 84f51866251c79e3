------------------------- MODULE WorldSession_proofs -------------------------
(***************************************************************************)
(* Theorems about WorldSession for every set of slots, accounts and        *)
(* characters, every ownership relation and every bound: types, the one    *)
(* session per account and character, the refinement of SessionRegistry,   *)
(* who is bound, and what kicks and closes may do to connections.          *)
(***************************************************************************)
EXTENDS WorldSession, SequenceTheorems, TLAPS

\* What the type invariant says of one bound session.
LEMMA BoundSessionType ==
    ASSUME TypeOK, NEW s \in Sid, authed[s] # None
    PROVE  /\ authed[s] \in Session
           /\ SessionKey(s) \in Key
           /\ SessionKey(s).sid = s
           /\ SessionKey(s).serial = authed[s].serial
BY DEF TypeOK, Session, SessionKey, KeyOf, Key

\* Taking one element out of a sequence leaves a sequence of the same type.
LEMMA ConsumedType ==
    ASSUME NEW S, NEW q \in Seq(S), NEW i \in 1 .. Len(q)
    PROVE  SubSeq(q, 1, i - 1) \o SubSeq(q, i + 1, Len(q)) \in Seq(S)
<1>1. SubSeq(q, 1, i - 1) \in Seq(S)
  BY SubSeqProperties
<1>2. SubSeq(q, i + 1, Len(q)) \in Seq(S)
  BY SubSeqProperties
<1> QED
  BY <1>1, <1>2, ConcatProperties

\* The kicks of a bind are tasks of the strand.
LEMMA KickTasksType ==
    ASSUME TypeOK, NEW s \in Sid, NEW a \in Account, NEW c \in Char
    PROVE  KickTasks(OldCharSids(s, c), OldAccountSids(s, a)) \in Seq(Task)
<1> DEFINE C == OldCharSids(s, c)
           A == OldAccountSids(s, a)
           one(E) == IF E = {} THEN <<>> ELSE <<Kick(CHOOSE t \in E : TRUE)>>
<1>1. ASSUME NEW E, E \subseteq {t \in Sid : authed[t] # None}
      PROVE  one(E) \in Seq(Task)
  <2>1. CASE E = {}
    BY <2>1
  <2>2. CASE E # {}
    <3>1. (CHOOSE t \in E : TRUE) \in E
      BY <2>2
    <3>2. Kick(CHOOSE t \in E : TRUE) \in Task
      BY <3>1, <1>1, BoundSessionType DEF Kick, Task, Reason
    <3> QED
      BY <3>2, <2>2
  <2> QED
    BY <2>1, <2>2
<1>2. one(C) \in Seq(Task) /\ one(A \ C) \in Seq(Task)
  <2>1. C \subseteq {t \in Sid : authed[t] # None}
    BY DEF OldCharSids
  <2>2. A \ C \subseteq {t \in Sid : authed[t] # None}
    BY DEF OldAccountSids
  <2> HIDE DEF C, A, one
  <2> QED
    BY <2>1, <2>2, <1>1
<1>3. KickTasks(C, A) = one(C) \o one(A \ C)
  BY DEF KickTasks
<1> QED
  BY <1>2, <1>3, ConcatProperties

\* What the type invariant says of a posted callback or packet.
LEMMA EventFields ==
    ASSUME TypeOK, NEW i \in 1 .. Len(events)
    PROVE  /\ events[i] \in Event
           /\ events[i].key \in Key /\ events[i].key.sid \in Sid /\ events[i].key.serial \in Serial
           /\ events[i].kind = "Packet" => events[i].msg \in Message
<1>1. events[i] \in Event
  BY DEF TypeOK
<1>2. events[i].key \in Key /\ (events[i].kind = "Packet" => events[i].msg \in Message)
  BY <1>1 DEF Event
<1> QED
  BY <1>1, <1>2 DEF Key

\* What a packet carries, and the connection its handler works for.
LEMMA PacketFields ==
    ASSUME TypeOK, NEW i \in 1 .. Len(events), events[i].kind = "Packet"
    PROVE  /\ events[i].msg.op = "Enter" => events[i].msg.account \in Account
           /\ events[i].msg.op = "Reconnect" => events[i].msg.token \in Token
           /\ Sender(i).sid = events[i].key.sid
           /\ Sender(i).serial = latest[events[i].key.sid]
           /\ latest[events[i].key.sid] # 0 => Sender(i) \in Key
<1>1. events[i].key.sid \in Sid /\ events[i].msg \in Message
  BY EventFields
<1>2. latest[events[i].key.sid] \in 0 .. MaxSerial
  BY <1>1 DEF TypeOK
<1>3. latest[events[i].key.sid] # 0 => latest[events[i].key.sid] \in Serial
  BY <1>2, BoundAssumption DEF Serial
<1>4. /\ events[i].msg.op = "Enter" => events[i].msg.account \in Account
      /\ events[i].msg.op = "Reconnect" => events[i].msg.token \in Token
  BY <1>1 DEF Message
<1> QED
  BY <1>1, <1>3, <1>4 DEF Sender, KeyOf, Key

\* A reconnect finds that the session of its token is gone.
Forgets(t) ==
    /\ ~BoundAt(tokenKey[t])
    /\ tokenKey' = [tokenKey EXCEPT ![t] = None]
    /\ UNCHANGED <<authed, charKey, accountKey, enter, reason, delayed>>

\* What the packet of a reconnect does.
LEMMA ReconnectCases ==
    ASSUME TypeOK, NEW i \in 1 .. Len(events), TryReconnectWorldSession(i)
    PROVE  /\ Consumed(i)
           /\ UNCHANGED <<serial, open, closing, latest, strand, flow, nextRequest, nextToken>>
           /\ \/ UNCHANGED <<registry, enter, reason, delayed>>
              \/ \E k \in Key, t \in Token :
                   /\ k = Sender(i) /\ k.serial = latest[k.sid] /\ tokenKey[t] # None
                   /\ ReconnectMoves(k, t) \/ Forgets(t)
<1> DEFINE k == Sender(i)
           t == events[i].msg.token
<1>1. Packet(i, "Reconnect")
  BY DEF TryReconnectWorldSession
<1>2. t \in Token /\ k.serial = latest[k.sid] /\ (latest[k.sid] # 0 => k \in Key)
  BY <1>1, PacketFields DEF Packet
<1>3. Consumed(i) /\ UNCHANGED <<serial, open, closing, latest, strand, flow, nextRequest>>
  BY <1>1 DEF TryReconnectWorldSession, Packet, requests
<1>4. CASE latest[k.sid] = 0 \/ tokenKey[t] = None
  BY <1>3, <1>4 DEF TryReconnectWorldSession, registry
<1>5. CASE ~(latest[k.sid] = 0 \/ tokenKey[t] = None)
  <2>1. \/ ReconnectMoves(k, t) /\ UNCHANGED nextToken
        \/ Forgets(t) /\ UNCHANGED nextToken
        \/ UNCHANGED <<registry, enter, reason, delayed>>
    BY <1>5 DEF TryReconnectWorldSession, Forgets
  <2>2. k \in Key /\ tokenKey[t] # None /\ UNCHANGED nextToken
    BY <1>2, <1>5, <2>1 DEF registry
  <2> HIDE DEF k, t
  <2>3. \/ UNCHANGED <<registry, enter, reason, delayed>>
        \/ \E x \in Key, y \in Token :
              /\ x = k /\ x.serial = latest[x.sid] /\ tokenKey[y] # None
              /\ ReconnectMoves(x, y) \/ Forgets(y)
    BY <1>2, <2>1, <2>2
  <2> QED
    BY <1>3, <2>2, <2>3 DEF k
<1> QED
  BY <1>4, <1>5

\* A callback or packet that is neither a disconnect nor a reconnect leaves the
\* sessions, the enters and the closes alone; a logout may begin a close.
LEMMA QuietCases ==
    ASSUME TypeOK, NEW i \in 1 .. Len(events),
           \/ HandleConnected(i) \/ BeginPacket(i)
           \/ RequestConsumeWorldAuthTicket(i) \/ LogoutWorld(i)
    PROVE  /\ UNCHANGED <<serial, open, registry, enter, delayed, strand>>
           /\ closing \subseteq closing'
BY DEF HandleConnected, BeginPacket, RequestConsumeWorldAuthTicket, LogoutWorld, Packet, Close

-----------------------------------------------------------------------------
(* Type correctness. *)

\* Removing the session bound at a key keeps the registry and enter maps typed.
LEMMA UnbindType ==
    ASSUME TypeOK, NEW k \in Key, UnbindAuthenticatedWorldSession(k)
    PROVE  /\ authed' \in [Sid -> Session \cup {None}]
           /\ charKey' \in [Char -> Key \cup {None}]
           /\ accountKey' \in [Account -> Key \cup {None}]
           /\ tokenKey' \in [Token -> Key \cup {None}]
           /\ nextToken' \in 1 .. MaxToken + 1
           /\ stage' \in [Key -> Stage]
           /\ pendingKey' \in [Char -> Key \cup {None}]
           /\ reason' \in [Key -> Reason]
<1> USE DEF TypeOK, UnbindAuthenticatedWorldSession
<1>1. charKey' \in [Char -> Key \cup {None}]
  BY DEF EraseCharKeys
<1>2. accountKey' \in [Account -> Key \cup {None}]
  BY DEF EraseAccountKeys
<1>3. tokenKey' \in [Token -> Key \cup {None}]
  BY DEF EraseTokenKeys
<1>4. pendingKey' \in [Char -> Key \cup {None}]
  BY DEF ErasePendingKeys
<1>5. stage' \in [Key -> Stage] /\ reason' \in [Key -> Reason]
  BY DEF Stage, Reason
<1> QED
  BY <1>1, <1>2, <1>3, <1>4, <1>5

\* Cancelling a reservation keeps the enter maps typed.
LEMMA CancelType ==
    ASSUME TypeOK, NEW k \in Key, NEW c, CancelPendingEnterWorldSession(k, c)
    PROVE  /\ stage' \in [Key -> Stage]
           /\ pendingKey' \in [Char -> Key \cup {None}]
BY DEF TypeOK, CancelPendingEnterWorldSession, Stage

\* A rollback keeps the registry and enter maps typed.
LEMMA RollbackType ==
    ASSUME TypeOK, NEW k \in Key, NEW c, RollbackBoundEnterWorld(k, c)
    PROVE  /\ authed' \in [Sid -> Session \cup {None}]
           /\ charKey' \in [Char -> Key \cup {None}]
           /\ accountKey' \in [Account -> Key \cup {None}]
           /\ tokenKey' \in [Token -> Key \cup {None}]
           /\ nextToken' \in 1 .. MaxToken + 1
           /\ stage' \in [Key -> Stage]
           /\ pendingKey' \in [Char -> Key \cup {None}]
           /\ reason' \in [Key -> Reason]
<1>1. CASE UnbindAuthenticatedWorldSession(k)
  BY <1>1, UnbindType
<1>2. CASE CancelPendingEnterWorldSession(k, c) /\ UNCHANGED <<registry, reason>>
  BY <1>2, CancelType DEF TypeOK, registry
<1> QED
  BY <1>1, <1>2 DEF RollbackBoundEnterWorld

\* A bind keeps the registry, the reasons and the strand typed.
LEMMA BindType ==
    ASSUME TypeOK, NEW k \in Key, NEW a \in Account, NEW c \in Char,
           BindAuthenticatedWorldSessionForLogin(k, a, c)
    PROVE  /\ authed' \in [Sid -> Session \cup {None}]
           /\ charKey' \in [Char -> Key \cup {None}]
           /\ accountKey' \in [Account -> Key \cup {None}]
           /\ tokenKey' \in [Token -> Key \cup {None}]
           /\ nextToken' \in 1 .. MaxToken + 1
           /\ reason' \in [Key -> Reason]
           /\ strand' \in Seq(Task)
<1> DEFINE C == OldCharSids(k.sid, c)
           A == OldAccountSids(k.sid, a)
           E == C \cup A \cup {k.sid}
<1>0. k.sid \in Sid /\ k.serial \in Serial
  BY DEF Key
<1>1. CASE UNCHANGED <<registry, reason, strand>>
  BY <1>1 DEF TypeOK, registry
<1>2. CASE ~UNCHANGED <<registry, reason, strand>>
  <2>1. PICK t \in Token :
          /\ TakeToken(C, t)
          /\ authed' = [s \in Sid |->
               IF s = k.sid
               THEN [account |-> a, char |-> c, serial |-> k.serial, token |-> t]
               ELSE IF s \in E THEN None ELSE authed[s]]
          /\ tokenKey' = [EraseTokenKeys(E) EXCEPT ![t] = k]
    BY <1>2, Zenon DEF BindAuthenticatedWorldSessionForLogin
  <2>2. /\ charKey' = [EraseCharKeys(E) EXCEPT ![c] = k]
        /\ accountKey' = [EraseAccountKeys(E) EXCEPT ![a] = k]
        /\ reason' = [EraseReasons(E) EXCEPT ![k] = "NetworkDisconnect"]
        /\ strand' = strand \o KickTasks(C, A)
    BY <1>2, Zenon DEF BindAuthenticatedWorldSessionForLogin
  <2> HIDE DEF C, A, E
  <2>3. authed' \in [Sid -> Session \cup {None}]
    BY <2>1, <1>0 DEF TypeOK, Session
  <2>4. charKey' \in [Char -> Key \cup {None}]
    BY <2>2 DEF TypeOK, EraseCharKeys
  <2>5. accountKey' \in [Account -> Key \cup {None}]
    BY <2>2 DEF TypeOK, EraseAccountKeys
  <2>6. tokenKey' \in [Token -> Key \cup {None}]
    BY <2>1 DEF TypeOK, EraseTokenKeys
  <2>7. nextToken' \in 1 .. MaxToken + 1
    BY <2>1, BoundAssumption DEF TypeOK, TakeToken, Token
  <2>8. reason' \in [Key -> Reason]
    BY <2>2 DEF TypeOK, EraseReasons, Reason
  <2>9. strand' \in Seq(Task)
    <3>1. KickTasks(C, A) \in Seq(Task)
      BY <1>0, KickTasksType DEF C, A
    <3> QED
      BY <2>2, <3>1, ConcatProperties DEF TypeOK
  <2> QED
    BY <2>3, <2>4, <2>5, <2>6, <2>7, <2>8, <2>9
<1> QED
  BY <1>1, <1>2

\* A successful reconnect keeps what it changes typed.
LEMMA ReconnectType ==
    ASSUME TypeOK, NEW k \in Key, NEW t \in Token, tokenKey[t] # None, ReconnectMoves(k, t)
    PROVE  /\ authed' \in [Sid -> Session \cup {None}]
           /\ charKey' \in [Char -> Key \cup {None}]
           /\ accountKey' \in [Account -> Key \cup {None}]
           /\ tokenKey' \in [Token -> Key \cup {None}]
           /\ stage' \in [Key -> Stage]
           /\ pendingKey' \in [Char -> Key \cup {None}]
           /\ reason' \in [Key -> Reason]
           /\ delayed' \in [Key -> Delayed]
<1> DEFINE p == tokenKey[t]
           x == authed[p.sid]
<1>1. p \in Key /\ p.sid \in Sid /\ k.sid \in Sid /\ k.serial \in Serial
  BY DEF TypeOK, Key
<1>2. x \in Session
  BY <1>1 DEF ReconnectMoves, BoundAt, TypeOK
<1>3. [x EXCEPT !.serial = k.serial] \in Session
  BY <1>1, <1>2 DEF Session
<1>4. authed' \in [Sid -> Session \cup {None}]
  BY <1>1, <1>3 DEF ReconnectMoves, TypeOK
<1>5. /\ charKey' \in [Char -> Key \cup {None}]
      /\ accountKey' \in [Account -> Key \cup {None}]
      /\ tokenKey' \in [Token -> Key \cup {None}]
  BY DEF ReconnectMoves, TypeOK
<1>6. stage' \in [Key -> Stage] /\ reason' \in [Key -> Reason] /\ delayed' \in [Key -> Delayed]
  BY DEF ReconnectMoves, TypeOK, Stage, Reason, Delayed
<1>7. pendingKey' \in [Char -> Key \cup {None}]
  BY DEF ReconnectMoves, TypeOK, ErasePendingKeys
<1> QED
  BY <1>4, <1>5, <1>6, <1>7

\* A step of the transport keeps the type invariant.
LEMMA TransportType ==
    ASSUME TypeOK
    PROVE  /\ \A s \in Sid : Accept(s) => TypeOK'
           /\ \A k \in Key : SocketClose(k) => TypeOK'
           /\ \A k \in Key, m \in Message : PostPacket(k, m) => TypeOK'
           /\ \A i \in 1 .. Len(events) : HandleConnected(i) \/ BeginPacket(i) => TypeOK'
<1> USE DEF transport, registry, enter, requests
<1>1. ASSUME NEW kind \in {"Connect", "Disconnect"}, NEW k \in Key, Post(kind, k)
      PROVE  events' \in Seq(Event)
  <2>1. FindCharIdBySession(k.sid) \in Char \cup {None}
    BY DEF FindCharIdBySession, TypeOK, Key, Session
  <2>2. [kind |-> kind, key |-> k, route |-> FindCharIdBySession(k.sid)] \in Event
    BY <2>1 DEF Event
  <2> QED
    BY <1>1, <2>2, AppendProperties DEF Post, TypeOK
<1>2. ASSUME NEW s \in Sid, Accept(s)
      PROVE  TypeOK'
  <2>1. KeyOf(s, serial[s] + 1) \in Key /\ serial[s] + 1 \in 0 .. MaxSerial
    BY <1>2, BoundAssumption DEF Accept, TypeOK, Key, KeyOf, Serial
  <2>2. events' \in Seq(Event)
    BY <2>1, <1>1, <1>2 DEF Accept
  <2> QED
    BY <1>2, <2>1, <2>2 DEF Accept, TypeOK
<1>3. ASSUME NEW k \in Key, SocketClose(k)
      PROVE  TypeOK'
  <2>1. events' \in Seq(Event)
    BY <1>1, <1>3 DEF SocketClose
  <2> QED
    BY <1>3, <2>1 DEF SocketClose, TypeOK
<1>4. ASSUME NEW i \in 1 .. Len(events), HandleConnected(i)
      PROVE  TypeOK'
  <2>1. events' \in Seq(Event)
    BY <1>4, ConsumedType DEF HandleConnected, Consumed, TypeOK
  <2>2. events[i] \in Event
    BY DEF TypeOK
  <2>3. events[i].key.sid \in Sid /\ events[i].key.serial \in 0 .. MaxSerial
    BY EventFields, BoundAssumption DEF Serial
  <2> QED
    BY <1>4, <2>1, <2>3 DEF HandleConnected, TypeOK
<1>5. ASSUME NEW k \in Key, NEW m \in Message, PostPacket(k, m)
      PROVE  TypeOK'
  <2> DEFINE e == [kind |-> "Packet", key |-> k, route |-> FindCharIdBySession(k.sid),
                   msg |-> m, begun |-> FALSE]
  <2>1. FindCharIdBySession(k.sid) \in Char \cup {None}
    BY DEF FindCharIdBySession, TypeOK, Key, Session
  <2>2. e \in Event
    BY <2>1 DEF Event
  <2>3. events' = Append(events, e)
    BY <1>5 DEF PostPacket
  <2> HIDE DEF e
  <2>4. events' \in Seq(Event)
    BY <2>2, <2>3, AppendProperties DEF TypeOK
  <2> QED
    BY <1>5, <2>4 DEF PostPacket, TypeOK
<1>6. ASSUME NEW i \in 1 .. Len(events), BeginPacket(i)
      PROVE  TypeOK'
  <2> DEFINE e == [events[i] EXCEPT !.begun = TRUE]
  <2>1. events[i] \in Event /\ events[i].kind = "Packet"
    BY <1>6, EventFields DEF BeginPacket
  <2>2. e \in Event
    BY <2>1 DEF Event
  <2>3. events' = [events EXCEPT ![i] = e]
    BY <1>6 DEF BeginPacket
  <2> HIDE DEF e
  <2>4. events' \in Seq(Event)
    BY <2>2, <2>3, ExceptSeq DEF TypeOK
  <2>5. events[i].key.sid \in Sid /\ events[i].key.serial \in 0 .. MaxSerial
    BY EventFields, BoundAssumption DEF Serial
  <2> QED
    BY <1>6, <2>4, <2>5 DEF BeginPacket, TypeOK
<1> QED
  BY <1>2, <1>3, <1>4, <1>5, <1>6

\* Moving a request on, or dropping it, keeps the requests typed.
LEMMA FlowType ==
    ASSUME TypeOK, NEW f \in flow
    PROVE  /\ f \in Request
           /\ Drop(f) => (flow' \subseteq Request /\ \A g \in flow' : g.step = "Consume" <=> g.char = None)
           /\ \A step \in Step \ {"Consume"} :
                (f.step # "Consume" /\ Advance(f, step)) =>
                    (flow' \subseteq Request /\ \A g \in flow' : g.step = "Consume" <=> g.char = None)
           /\ f.step # "Consume" => f.char \in Char
<1>1. f \in Request /\ (f.step = "Consume" <=> f.char = None)
  BY DEF TypeOK
<1>2. ASSUME NEW step \in Step \ {"Consume"}, f.step # "Consume"
      PROVE  LET g == [f EXCEPT !.step = step]
             IN  g \in Request /\ ~(g.step = "Consume") /\ ~(g.char = None)
  BY <1>1, <1>2 DEF Request
<1> QED
  BY <1>1, <1>2 DEF TypeOK, Drop, Advance, Request

\* A step of an enter request keeps the type invariant.
LEMMA EnterType ==
    ASSUME TypeOK, NEW f \in flow, EnterStep(f)
    PROVE  TypeOK'
<1> USE DEF transport, registry, enter, requests
<1>0. f \in Request /\ f.key \in Key /\ f.account \in Account
  BY FlowType DEF Request
<1>1. CASE OnWorldAuthTicketConsumeResponse(f)
  <2>1. CASE Drop(f)
    BY <1>1, <2>1, FlowType DEF OnWorldAuthTicketConsumeResponse, TypeOK
  <2>2. CASE \E c \in Char : flow' = (flow \ {f}) \cup {[f EXCEPT !.char = c, !.step = "Snapshot"]}
    <3>1. PICK c \in Char : flow' = (flow \ {f}) \cup {[f EXCEPT !.char = c, !.step = "Snapshot"]}
      BY <2>2
    <3>2. /\ [f EXCEPT !.char = c, !.step = "Snapshot"] \in Request
          /\ [f EXCEPT !.char = c, !.step = "Snapshot"].step = "Snapshot"
          /\ [f EXCEPT !.char = c, !.step = "Snapshot"].char = c
      BY <1>0 DEF Request, Step, MappedStep
    <3>3. c # None
      BY NoneAssumption
    <3>4. flow' \subseteq Request /\ \A g \in flow' : g.step = "Consume" <=> g.char = None
      BY <3>1, <3>2, <3>3 DEF TypeOK
    <3> QED
      BY <1>1, <3>4 DEF OnWorldAuthTicketConsumeResponse, TypeOK
  <2> QED
    BY <1>1, <2>1, <2>2 DEF OnWorldAuthTicketConsumeResponse
<1>2. CASE LoadSnapshot(f)
  <2>1. flow' \subseteq Request /\ \A g \in flow' : g.step = "Consume" <=> g.char = None
    BY <1>2, FlowType DEF LoadSnapshot, Step
  <2>2. stage' \in [Key -> Stage] /\ pendingKey' \in [Char -> Key \cup {None}]
    BY <1>2, <1>0, CancelType DEF LoadSnapshot, TypeOK
  <2> QED
    BY <1>2, <2>1, <2>2 DEF LoadSnapshot, TypeOK
<1>3. CASE TryBeginEnterWorldSession(f)
  <2>1. flow' \subseteq Request /\ \A g \in flow' : g.step = "Consume" <=> g.char = None
    BY <1>3, FlowType DEF TryBeginEnterWorldSession, Step
  <2>2. stage' \in [Key -> Stage] /\ pendingKey' \in [Char -> Key \cup {None}]
    BY <1>3, <1>0 DEF TryBeginEnterWorldSession, TypeOK, Stage
  <2> QED
    BY <1>3, <2>1, <2>2 DEF TryBeginEnterWorldSession, TypeOK
<1>4. CASE BindSession(f)
  <2>1. flow' \subseteq Request /\ \A g \in flow' : g.step = "Consume" <=> g.char = None
    BY <1>4, FlowType DEF BindSession, Step
  <2>2. f.char \in Char
    BY <1>4, FlowType DEF BindSession
  <2> QED
    BY <1>4, <1>0, <2>1, <2>2, BindType DEF BindSession, TypeOK
<1>5. CASE AssignMapInstance(f)
  <2>1. flow' \subseteq Request /\ \A g \in flow' : g.step = "Consume" <=> g.char = None
    BY <1>5, FlowType DEF AssignMapInstance, Step, MappedStep
  <2>2. CASE RollbackBoundEnterWorld(f.key, f.char)
    BY <1>5, <1>0, <2>1, <2>2, RollbackType DEF AssignMapInstance, TypeOK
  <2>3. CASE UNCHANGED <<registry, enter, reason>>
    BY <1>5, <2>1, <2>3 DEF AssignMapInstance, TypeOK
  <2> QED
    BY <1>5, <2>2, <2>3 DEF AssignMapInstance
<1>6. CASE OnZoneMapAssignResponse(f)
  <2>1. flow' \subseteq Request /\ \A g \in flow' : g.step = "Consume" <=> g.char = None
    BY <1>6, FlowType DEF OnZoneMapAssignResponse, Step, MappedStep
  <2>2. CASE RollbackBoundEnterWorld(f.key, f.char)
    BY <1>6, <1>0, <2>1, <2>2, RollbackType DEF OnZoneMapAssignResponse, TypeOK
  <2>3. CASE UNCHANGED <<registry, enter, reason>>
    BY <1>6, <2>1, <2>3 DEF OnZoneMapAssignResponse, TypeOK
  <2> QED
    BY <1>6, <2>2, <2>3 DEF OnZoneMapAssignResponse
<1>7. CASE OnZonePlayerEnterAck(f)
  <2>1. flow' \subseteq Request /\ \A g \in flow' : g.step = "Consume" <=> g.char = None
    BY <1>7, FlowType DEF OnZonePlayerEnterAck
  <2>2. CASE RollbackBoundEnterWorld(f.key, f.char)
    BY <1>7, <1>0, <2>1, <2>2, RollbackType DEF OnZonePlayerEnterAck, TypeOK
  <2>3. CASE UNCHANGED <<registry, enter, reason>>
    BY <1>7, <2>1, <2>3 DEF OnZonePlayerEnterAck, TypeOK
  <2>4. CASE PromoteEnterWorldSessionToInWorld(f.key, f.char) /\ UNCHANGED <<registry, reason>>
    <3>1. stage' \in [Key -> Stage] /\ pendingKey' \in [Char -> Key \cup {None}]
      BY <2>4, <1>0 DEF PromoteEnterWorldSessionToInWorld, TypeOK, Stage
    <3> QED
      BY <1>7, <2>1, <2>4, <3>1 DEF OnZonePlayerEnterAck, TypeOK
  <2> QED
    BY <1>7, <2>2, <2>3, <2>4 DEF OnZonePlayerEnterAck
<1> QED
  BY <1>1, <1>2, <1>3, <1>4, <1>5, <1>6, <1>7 DEF EnterStep

\* Handling a packet of a client keeps the type invariant.
LEMMA PacketType ==
    ASSUME TypeOK, NEW i \in 1 .. Len(events)
    PROVE  /\ RequestConsumeWorldAuthTicket(i) => TypeOK'
           /\ LogoutWorld(i) => TypeOK'
           /\ TryReconnectWorldSession(i) => TypeOK'
<1> USE DEF transport, registry, enter, requests
<1>1. Consumed(i) => events' \in Seq(Event)
  BY ConsumedType DEF Consumed, TypeOK
<1>2. ASSUME RequestConsumeWorldAuthTicket(i)
      PROVE  TypeOK'
  <2> DEFINE r == [id |-> nextRequest, key |-> Sender(i), account |-> events[i].msg.account,
                   char |-> None, step |-> "Consume"]
  <2>0. Packet(i, "Enter")
    BY <1>2 DEF RequestConsumeWorldAuthTicket
  <2>1. events' \in Seq(Event) /\ UNCHANGED <<serial, open, latest>>
    BY <1>1, <2>0 DEF Packet
  <2>2. CASE latest[events[i].key.sid] = 0
    BY <1>2, <2>1, <2>2 DEF RequestConsumeWorldAuthTicket, TypeOK
  <2>3. CASE latest[events[i].key.sid] # 0
    <3>1. nextRequest \in 1 .. MaxRequest /\ nextRequest' \in 1 .. MaxRequest + 1
      BY <1>2, <2>3, BoundAssumption DEF RequestConsumeWorldAuthTicket, TypeOK
    <3>2. Sender(i) \in Key /\ events[i].msg.account \in Account
      BY <2>0, <2>3, PacketFields DEF Packet
    <3>3. r \in Request /\ r.step = "Consume" /\ r.char = None
      BY <3>1, <3>2 DEF Request, Step, MappedStep
    <3>4. flow' = flow \cup {r}
      BY <1>2, <2>3 DEF RequestConsumeWorldAuthTicket
    <3>5. flow' \subseteq Request /\ \A g \in flow' : g.step = "Consume" <=> g.char = None
      BY <3>3, <3>4 DEF TypeOK
    <3> QED
      BY <1>2, <2>1, <3>1, <3>5 DEF RequestConsumeWorldAuthTicket, TypeOK
  <2> QED
    BY <2>2, <2>3
<1>3. ASSUME LogoutWorld(i)
      PROVE  TypeOK'
  <2>0. Packet(i, "Logout")
    BY <1>3 DEF LogoutWorld
  <2>1. events' \in Seq(Event) /\ UNCHANGED <<serial, open, latest>>
    BY <1>1, <2>0 DEF Packet
  <2>2. BoundAt(Sender(i)) => Sender(i) \in Key
    <3>1. events[i].key.sid \in Sid
      BY EventFields
    <3>2. BoundAt(Sender(i)) => latest[events[i].key.sid] \in Serial
      BY <2>0, <3>1, PacketFields DEF Packet, BoundAt, TypeOK, Session
    <3> QED
      BY <2>0, <3>2, PacketFields DEF Packet, Serial
  <2>3. /\ reason' \in [Key -> Reason]
        /\ closing' \subseteq Key
    BY <1>3, <2>2 DEF LogoutWorld, Close, TypeOK, Reason
  <2> QED
    BY <1>3, <2>1, <2>3 DEF LogoutWorld, TypeOK
<1>4. ASSUME TryReconnectWorldSession(i)
      PROVE  TypeOK'
  <2>1. /\ Consumed(i)
        /\ UNCHANGED <<serial, open, closing, latest, strand, flow, nextRequest, nextToken>>
    BY <1>4, ReconnectCases
  <2>2. CASE UNCHANGED <<registry, enter, reason, delayed>>
    BY <1>1, <2>1, <2>2 DEF TypeOK
  <2>3. ASSUME NEW k \in Key, NEW t \in Token, tokenKey[t] # None, ReconnectMoves(k, t)
        PROVE  TypeOK'
    BY <1>1, <2>1, <2>3, ReconnectType DEF TypeOK
  <2>4. ASSUME NEW t \in Token, Forgets(t)
        PROVE  TypeOK'
    BY <1>1, <2>1, <2>4 DEF Forgets, TypeOK
  <2> QED
    BY <1>4, <2>2, <2>3, <2>4, ReconnectCases
<1> QED
  BY <1>2, <1>3, <1>4

\* Closing steps keep the type invariant.
LEMMA CloseType ==
    ASSUME TypeOK
    PROVE  /\ \A i \in 1 .. Len(events) : HandleDisconnected(i) => TypeOK'
           /\ RunStrand => TypeOK'
           /\ \A k \in Key : DelayedCloseFires(k) => TypeOK'
<1> USE DEF transport, registry, enter, requests
<1>1. ASSUME NEW k \in Key, AbortEnterWorldFlow(k)
      PROVE  /\ flow' \subseteq Request
             /\ \A g \in flow' : g.step = "Consume" <=> g.char = None
             /\ pendingKey' \in [Char -> Key \cup {None}]
  BY <1>1 DEF AbortEnterWorldFlow, ErasePendingKeys, TypeOK
<1>2. ASSUME NEW i \in 1 .. Len(events), HandleDisconnected(i)
      PROVE  TypeOK'
  <2> DEFINE k == events[i].key
  <2>0. events[i] \in Event
    BY DEF TypeOK
  <2>1. k \in Key /\ k.sid \in Sid
    BY <2>0 DEF Event, Key
  <2>2. events' \in Seq(Event)
    BY <1>2, ConsumedType DEF HandleDisconnected, Consumed, TypeOK
  <2>3. CASE latest[k.sid] = k.serial
    <3>1. [kind |-> "Closed", key |-> k, reason |-> reason[k]] \in Task
      BY <2>1 DEF Task, TypeOK
    <3>2. /\ AbortEnterWorldFlow(k)
          /\ stage' = [stage EXCEPT ![k] = "None"]
          /\ strand' = Append(strand, [kind |-> "Closed", key |-> k, reason |-> reason[k]])
          /\ latest' = [latest EXCEPT ![k.sid] = 0]
      BY <1>2, <2>3, Zenon DEF HandleDisconnected
    <3>3. strand' \in Seq(Task)
      <4> strand \in Seq(Task)
        BY DEF TypeOK
      <4> HIDE DEF k
      <4> QED
        BY <3>1, <3>2, AppendProperties
    <3>4. stage' \in [Key -> Stage] /\ latest' \in [Sid -> 0 .. MaxSerial]
      BY <2>1, <3>2, BoundAssumption DEF TypeOK, Stage
    <3> HIDE DEF k
    <3> QED
      BY <1>1, <1>2, <2>1, <2>2, <3>2, <3>3, <3>4 DEF HandleDisconnected, TypeOK
  <2>4. CASE ~(latest[k.sid] = k.serial)
    BY <1>2, <2>2, <2>4 DEF HandleDisconnected, TypeOK
  <2> QED
    BY <2>3, <2>4
<1>3. ASSUME RunStrand
      PROVE  TypeOK'
  <2> DEFINE k == Head(strand).key
  <2>1. Head(strand) \in Task /\ strand' \in Seq(Task) /\ k \in Key
    <3>1. strand \in Seq(Task) /\ strand # <<>> /\ strand' = Tail(strand)
      BY <1>3 DEF RunStrand, TypeOK
    <3>2. Head(strand) \in Task /\ Tail(strand) \in Seq(Task)
      BY <3>1, HeadTailProperties
    <3> QED
      BY <3>1, <3>2 DEF Task
  <2> HIDE DEF k
  <2>2. CASE ProcessDuplicateWorldSessionKick(k)
    <3>1. /\ stage' \in [Key -> Stage]
          /\ reason' \in [Key -> Reason]
          /\ delayed' \in [Key -> Delayed]
      BY <2>1, <2>2 DEF ProcessDuplicateWorldSessionKick, TypeOK, Stage, Reason, Delayed
    <3> QED
      BY <1>1, <2>1, <2>2, <3>1 DEF ProcessDuplicateWorldSessionKick, TypeOK
  <2>3. CASE ProcessWorldSessionClosed(k)
    <3>1. delayed' \in [Key -> Delayed]
      BY <2>3 DEF ProcessWorldSessionClosed, TypeOK, Delayed
    <3>2. CASE UnbindAuthenticatedWorldSession(k)
      BY <2>1, <2>3, <3>1, <3>2, UnbindType DEF ProcessWorldSessionClosed, TypeOK
    <3>3. CASE UNCHANGED <<registry, enter, reason>>
      BY <2>1, <2>3, <3>1, <3>3 DEF ProcessWorldSessionClosed, TypeOK
    <3> QED
      BY <2>3, <3>2, <3>3 DEF ProcessWorldSessionClosed
  <2>4. CASE /\ delayed' = [delayed EXCEPT ![k] = "Grace"]
             /\ UNCHANGED <<transport, registry, enter, reason, requests>>
    BY <2>1, <2>4 DEF TypeOK, Delayed
  <2> QED
    BY <1>3, <2>2, <2>3, <2>4 DEF RunStrand, CloseOnStrand, k
<1>4. ASSUME NEW k \in Key, DelayedCloseFires(k)
      PROVE  TypeOK'
  BY <1>4 DEF DelayedCloseFires, Close, TypeOK, Delayed
<1> QED
  BY <1>2, <1>3, <1>4

\* Every step keeps the type invariant.
LEMMA TypeStep == TypeOK /\ [Next]_vars => TypeOK'
<1> SUFFICES ASSUME TypeOK, [Next]_vars
             PROVE  TypeOK'
  OBVIOUS
<1>1. CASE Next
  <2>1. CASE \E r \in Char \cup {None} : Shard(r)
    BY <2>1, TransportType, PacketType, CloseType DEF Shard
  <2>2. CASE \E f \in flow : EnterStep(f)
    BY <2>2, EnterType
  <2> QED
    BY <1>1, <2>1, <2>2, TransportType, CloseType DEF Next
<1>2. CASE UNCHANGED vars
  BY <1>2 DEF vars, transport, registry, enter, requests, TypeOK
<1> QED
  BY <1>1, <1>2

\* The program starts in a typed state.
LEMMA TypeInit == Init => TypeOK
<1> SUFFICES ASSUME Init PROVE TypeOK
  OBVIOUS
<1>1. events \in Seq(Event) /\ strand \in Seq(Task)
  BY DEF Init
<1>2. nextToken \in 1 .. MaxToken + 1 /\ nextRequest \in 1 .. MaxRequest + 1
  BY BoundAssumption DEF Init
<1> QED
  BY <1>1, <1>2, BoundAssumption DEF Init, TypeOK, Stage, Reason, Delayed

\* The maps of the session runtime always hold values of their types.
THEOREM TypeCorrect == Spec => []TypeOK
BY TypeInit, TypeStep, PTL DEF Spec

-----------------------------------------------------------------------------
(* Authority: the invariant TypeOK /\ Authoritative is inductive. *)

\* Two slots never hold sessions of one key, character, account or token.
LEMMA BoundOnce ==
    ASSUME TypeOK, Authoritative,
           NEW s \in Sid, NEW t \in Sid, authed[s] # None, authed[t] # None,
           \/ SessionKey(s) = SessionKey(t)
           \/ authed[s].char = authed[t].char
           \/ authed[s].account = authed[t].account
           \/ authed[s].token = authed[t].token
    PROVE  s = t
<1>1. SessionKey(s) = SessionKey(t)
  BY DEF Authoritative
<1> QED
  BY <1>1, BoundSessionType

\* The index entries of the sessions that stay survive the erasing of others.
LEMMA EraseKeeps ==
    ASSUME TypeOK, Authoritative,
           NEW E \in SUBSET Sid, NEW s \in Sid \ E, authed[s] # None
    PROVE  /\ EraseCharKeys(E)[authed[s].char] = SessionKey(s)
           /\ EraseAccountKeys(E)[authed[s].account] = SessionKey(s)
           /\ EraseTokenKeys(E)[authed[s].token] = SessionKey(s)
<1>1. authed[s].char \in Char /\ authed[s].account \in Account /\ authed[s].token \in Token
  BY BoundSessionType DEF Session
<1>2. \A t \in E : authed[t] # None => SessionKey(t) # SessionKey(s)
  BY BoundOnce
<1> QED
  BY <1>1, <1>2 DEF Authoritative, EraseCharKeys, EraseAccountKeys, EraseTokenKeys

\* An unbind keeps every other session authoritative.
LEMMA UnbindAuthoritative ==
    ASSUME TypeOK, Authoritative, NEW k \in Key, UnbindAuthenticatedWorldSession(k)
    PROVE  Authoritative'
<1> SUFFICES ASSUME NEW s \in Sid, authed'[s] # None
             PROVE  /\ charKey'[authed'[s].char] = SessionKey(s)'
                    /\ accountKey'[authed'[s].account] = SessionKey(s)'
                    /\ tokenKey'[authed'[s].token] = SessionKey(s)'
                    /\ authed'[s].token < nextToken'
  BY DEF Authoritative
<1>1. k.sid \in Sid
  BY DEF Key
<1>2. s # k.sid /\ authed'[s] = authed[s]
  BY <1>1 DEF UnbindAuthenticatedWorldSession, TypeOK
<1>3. SessionKey(s)' = SessionKey(s)
  BY <1>2 DEF SessionKey, KeyOf
<1>4. {k.sid} \in SUBSET Sid /\ s \in Sid \ {k.sid} /\ authed[s] # None
  BY <1>1, <1>2
<1>5. authed[s].token < nextToken
  BY <1>4 DEF Authoritative
<1> QED
  BY <1>2, <1>3, <1>4, <1>5, EraseKeeps DEF UnbindAuthenticatedWorldSession

\* A bind evicts every session that shares the character or the account, and
\* keeps every other one authoritative.
LEMMA BindAuthoritative ==
    ASSUME TypeOK, Authoritative, NEW k \in Key, NEW a \in Account, NEW c \in Char,
           BindAuthenticatedWorldSessionForLogin(k, a, c)
    PROVE  Authoritative'
<1> DEFINE C == OldCharSids(k.sid, c)
           A == OldAccountSids(k.sid, a)
           E == C \cup A \cup {k.sid}
<1>0. k.sid \in Sid /\ k.serial \in Serial /\ E \in SUBSET Sid
  BY DEF Key, OldCharSids, OldAccountSids
<1>1. CASE UNCHANGED registry
  BY <1>1 DEF registry, Authoritative, SessionKey, KeyOf
<1>2. CASE ~UNCHANGED registry
  <2>1. PICK t \in Token :
          /\ TakeToken(C, t)
          /\ authed' = [s \in Sid |->
               IF s = k.sid
               THEN [account |-> a, char |-> c, serial |-> k.serial, token |-> t]
               ELSE IF s \in E THEN None ELSE authed[s]]
          /\ tokenKey' = [EraseTokenKeys(E) EXCEPT ![t] = k]
    BY <1>2, Zenon DEF BindAuthenticatedWorldSessionForLogin
  <2>2. /\ charKey' = [EraseCharKeys(E) EXCEPT ![c] = k]
        /\ accountKey' = [EraseAccountKeys(E) EXCEPT ![a] = k]
    BY <1>2, Zenon DEF BindAuthenticatedWorldSessionForLogin
  <2>3. \A s \in Sid \ E : authed[s] # None => authed[s].char # c /\ authed[s].account # a
    BY DEF OldCharSids, OldAccountSids, Authoritative
  <2>4. \A s \in Sid \ E : authed[s] # None => authed[s].token # t
    <3>1. CASE C = {}
      BY <2>1, <3>1 DEF TakeToken, Authoritative, TypeOK, Session, Token
    <3>2. CASE C # {}
      <4>1. PICK u \in C : t = authed[u].token
        BY <2>1, <3>2 DEF TakeToken
      <4>2. u \in Sid /\ authed[u] # None /\ u \in E
        BY DEF OldCharSids
      <4> QED
        BY <4>1, <4>2, BoundOnce
    <3> QED
      BY <3>1, <3>2
  <2>5. /\ nextToken \in Nat /\ nextToken' \in Nat
        /\ nextToken <= nextToken' /\ t < nextToken'
    <3>1. CASE C = {}
      BY <2>1, <3>1 DEF TakeToken, TypeOK, Token
    <3>2. CASE C # {}
      <4>1. PICK u \in C : t = authed[u].token
        BY <2>1, <3>2 DEF TakeToken
      <4>2. u \in Sid /\ authed[u] # None
        BY DEF OldCharSids
      <4> QED
        BY <2>1, <3>2, <4>1, <4>2 DEF TakeToken, Authoritative, TypeOK
    <3> QED
      BY <3>1, <3>2
  <2>6. /\ DOMAIN EraseCharKeys(E) = Char
        /\ DOMAIN EraseAccountKeys(E) = Account
        /\ DOMAIN EraseTokenKeys(E) = Token
    BY DEF EraseCharKeys, EraseAccountKeys, EraseTokenKeys
  <2> HIDE DEF C, A, E
  <2> SUFFICES ASSUME NEW s \in Sid, authed'[s] # None
               PROVE  /\ charKey'[authed'[s].char] = SessionKey(s)'
                      /\ accountKey'[authed'[s].account] = SessionKey(s)'
                      /\ tokenKey'[authed'[s].token] = SessionKey(s)'
                      /\ authed'[s].token < nextToken'
    BY DEF Authoritative
  <2>7. CASE s = k.sid
    <3>1. SessionKey(s)' = k
      BY <1>0, <2>1, <2>7 DEF SessionKey, KeyOf, Key
    <3>2. authed'[s] = [account |-> a, char |-> c, serial |-> k.serial, token |-> t]
      BY <2>1, <2>7
    <3> QED
      BY <2>1, <2>2, <2>5, <2>6, <3>1, <3>2
  <2>8. CASE s # k.sid
    <3>1. s \in Sid \ E /\ authed'[s] = authed[s] /\ authed[s] # None
      BY <2>1, <2>8
    <3>2. SessionKey(s)' = SessionKey(s)
      BY <3>1 DEF SessionKey, KeyOf
    <3>3. authed[s].token < nextToken /\ authed[s].token \in Token
      BY <3>1, BoundSessionType DEF Authoritative, Session
    <3>4. authed'[s].token < nextToken'
      BY <2>5, <3>1, <3>3 DEF Token
    <3> QED
      BY <1>0, <2>1, <2>2, <2>3, <2>4, <2>6, <3>1, <3>2, <3>4, EraseKeeps
  <2> QED
    BY <2>7, <2>8
<1> QED
  BY <1>1, <1>2

\* A reconnect moves one session to its new connection.  The session it may
\* overwrite there was never the one the three indexes name for the moved one.
LEMMA ReconnectAuthoritative ==
    ASSUME TypeOK, Authoritative, NEW k \in Key, NEW t \in Token,
           tokenKey[t] # None, ReconnectMoves(k, t), UNCHANGED nextToken
    PROVE  Authoritative'
<1> DEFINE p == tokenKey[t]
           x == authed[p.sid]
<1>1. p \in Key /\ p.sid \in Sid /\ k.sid \in Sid /\ k.serial \in Serial
  BY DEF TypeOK, Key
<1>2. x # None /\ x \in Session /\ x.token = t
  BY <1>1 DEF ReconnectMoves, BoundAt, TypeOK
<1>3. /\ authed' = [[authed EXCEPT ![p.sid] = None]
                           EXCEPT ![k.sid] = [x EXCEPT !.serial = k.serial]]
      /\ charKey' = [charKey EXCEPT ![x.char] = k]
      /\ accountKey' = [accountKey EXCEPT ![x.account] = k]
      /\ tokenKey' = [tokenKey EXCEPT ![t] = k]
  BY Zenon DEF ReconnectMoves
<1>4. x.char \in Char /\ x.account \in Account
  BY <1>2 DEF Session
<1> SUFFICES ASSUME NEW s \in Sid, authed'[s] # None
             PROVE  /\ charKey'[authed'[s].char] = SessionKey(s)'
                    /\ accountKey'[authed'[s].account] = SessionKey(s)'
                    /\ tokenKey'[authed'[s].token] = SessionKey(s)'
                    /\ authed'[s].token < nextToken'
  BY DEF Authoritative
<1>5. CASE s = k.sid
  <2>1. authed'[s] = [x EXCEPT !.serial = k.serial]
    BY <1>1, <1>3, <1>5 DEF TypeOK
  <2>2. /\ authed'[s].char = x.char /\ authed'[s].account = x.account
        /\ authed'[s].token = t /\ authed'[s].serial = k.serial
    BY <1>2, <2>1 DEF Session
  <2>3. SessionKey(s)' = k
    BY <1>5, <2>2 DEF SessionKey, KeyOf, Key
  <2>4. t < nextToken
    BY <1>1, <1>2 DEF Authoritative
  <2> HIDE DEF p, x
  <2> QED
    BY <1>3, <1>4, <2>2, <2>3, <2>4 DEF TypeOK
<1>6. CASE s # k.sid
  <2>1. s # p.sid /\ authed'[s] = authed[s] /\ authed[s] # None
    BY <1>1, <1>3, <1>6 DEF TypeOK
  <2>2. SessionKey(s)' = SessionKey(s)
    BY <2>1 DEF SessionKey, KeyOf
  <2>3. authed[s].char # x.char /\ authed[s].account # x.account /\ authed[s].token # t
    BY <1>1, <1>2, <2>1, BoundOnce
  <2>4. authed[s].char \in Char /\ authed[s].account \in Account /\ authed[s].token \in Token
    BY <2>1, BoundSessionType DEF Session
  <2>5. /\ charKey[authed[s].char] = SessionKey(s)
        /\ accountKey[authed[s].account] = SessionKey(s)
        /\ tokenKey[authed[s].token] = SessionKey(s)
        /\ authed[s].token < nextToken
    BY <2>1 DEF Authoritative
  <2> HIDE DEF p, x
  <2> QED
    BY <1>3, <2>1, <2>2, <2>3, <2>4, <2>5 DEF TypeOK
<1> QED
  BY <1>5, <1>6

\* Undoing an enter keeps the registry authoritative.
LEMMA RollbackAuthoritative ==
    ASSUME TypeOK, Authoritative, NEW k \in Key, NEW c \in Char,
           RollbackBoundEnterWorld(k, c)
    PROVE  Authoritative'
<1>1. CASE UnbindAuthenticatedWorldSession(k)
  BY <1>1, UnbindAuthoritative
<1>2. CASE UNCHANGED registry
  BY <1>2 DEF registry, Authoritative, SessionKey, KeyOf
<1> QED
  BY <1>1, <1>2 DEF RollbackBoundEnterWorld

\* Every step keeps the registry authoritative.
LEMMA AuthoritativeStep == TypeOK /\ Authoritative /\ [Next]_vars => Authoritative'
<1> SUFFICES ASSUME TypeOK, Authoritative, [Next]_vars
             PROVE  Authoritative'
  OBVIOUS
<1>1. CASE UNCHANGED registry
  BY <1>1 DEF registry, Authoritative, SessionKey, KeyOf
<1>2. ASSUME NEW f \in flow, EnterStep(f)
      PROVE  Authoritative'
  <2>1. f \in Request /\ f.key \in Key /\ f.account \in Account
    BY DEF TypeOK, Request
  <2>2. f.step # "Consume" => f.char \in Char
    BY <2>1 DEF TypeOK, Request
  <2>3. CASE BindSession(f)
    BY <2>1, <2>2, <2>3, BindAuthoritative DEF BindSession
  <2>4. CASE f.step # "Consume" /\ RollbackBoundEnterWorld(f.key, f.char)
    BY <2>1, <2>2, <2>4, RollbackAuthoritative
  <2>5. CASE PromoteEnterWorldSessionToInWorld(f.key, f.char) /\ UNCHANGED registry
    BY <1>1, <2>5
  <2>6. CASE OnWorldAuthTicketConsumeResponse(f) \/ LoadSnapshot(f) \/ TryBeginEnterWorldSession(f)
    BY <1>1, <2>6 DEF OnWorldAuthTicketConsumeResponse, LoadSnapshot, TryBeginEnterWorldSession
  <2>7. CASE AssignMapInstance(f)
    BY <1>1, <2>4, <2>7 DEF AssignMapInstance
  <2>8. CASE OnZoneMapAssignResponse(f)
    BY <1>1, <2>4, <2>8 DEF OnZoneMapAssignResponse
  <2>9. CASE OnZonePlayerEnterAck(f)
    BY <1>1, <2>4, <2>9 DEF OnZonePlayerEnterAck
  <2> QED
    BY <1>2, <2>3, <2>6, <2>7, <2>8, <2>9 DEF EnterStep
<1>3. ASSUME NEW i \in 1 .. Len(events), TryReconnectWorldSession(i)
      PROVE  Authoritative'
  <2>0. UNCHANGED nextToken
    BY <1>3, ReconnectCases
  <2>1. ASSUME NEW k \in Key, NEW t \in Token, tokenKey[t] # None, ReconnectMoves(k, t)
        PROVE  Authoritative'
    BY <2>0, <2>1, ReconnectAuthoritative
  <2>2. ASSUME NEW t \in Token, Forgets(t)
        PROVE  Authoritative'
    <3>1. \A s \in Sid : authed[s] # None => authed[s].token # t
      <4>1. \A s \in Sid : authed[s] # None => BoundAt(SessionKey(s))
        BY DEF BoundAt, SessionKey, KeyOf
      <4> QED
        BY <2>2, <4>1 DEF Authoritative, Forgets
    <3> QED
      BY <2>0, <2>2, <3>1 DEF Authoritative, SessionKey, KeyOf, TypeOK, Forgets
  <2> QED
    BY <1>1, <1>3, <2>1, <2>2, ReconnectCases
<1>4. CASE RunStrand
  <2> DEFINE k == Head(strand).key
  <2>1. k \in Key
    <3>1. Head(strand) \in Task
      BY <1>4 DEF RunStrand, TypeOK
    <3> QED
      BY <3>1 DEF Task
  <2>2. CASE ProcessWorldSessionClosed(k)
    BY <1>1, <2>1, <2>2, UnbindAuthoritative DEF ProcessWorldSessionClosed
  <2>3. CASE UNCHANGED registry
    BY <1>1, <2>3
  <2> QED
    BY <1>4, <2>2, <2>3 DEF RunStrand, CloseOnStrand, ProcessDuplicateWorldSessionKick, k
<1>5. CASE \/ \E s \in Sid : Accept(s)
           \/ \E k \in Key : SocketClose(k)
           \/ \E k \in Key, m \in Message : PostPacket(k, m)
           \/ \E k \in Key : DelayedCloseFires(k)
           \/ UNCHANGED vars
  <2>1. UNCHANGED registry
    BY <1>5 DEF Accept, SocketClose, PostPacket, DelayedCloseFires, vars
  <2> QED
    BY <1>1, <2>1
<1>6. ASSUME NEW r, Shard(r)
      PROVE  Authoritative'
  <2>1. PICK i \in 1 .. Len(events) :
          \/ HandleConnected(i) \/ HandleDisconnected(i) \/ BeginPacket(i)
          \/ RequestConsumeWorldAuthTicket(i) \/ LogoutWorld(i) \/ TryReconnectWorldSession(i)
    BY <1>6 DEF Shard
  <2>2. TryReconnectWorldSession(i) \/ UNCHANGED registry
    BY <2>1, QuietCases DEF HandleDisconnected
  <2> QED
    BY <1>1, <1>3, <2>2
<1> QED
  BY <1>2, <1>4, <1>5, <1>6 DEF Next

\* In every reachable state the session bound at a slot is the one the character,
\* account and token indexes of BindAuthenticatedWorldSessionForLogin name, so at
\* most one session per account, per character and per token exists.
THEOREM Authority == Spec => []Authoritative
<1>1. Init => Authoritative
  BY DEF Init, Authoritative
<1> QED
  BY <1>1, TypeInit, TypeStep, AuthoritativeStep, PTL DEF Spec
-----------------------------------------------------------------------------
(* Reservations: TypeOK /\ EnteringIsReserved is inductive. *)

\* Cancelling, unbinding or undoing an enter frees only reservations of its key,
\* and ends that key's EnterPending stage.
LEMMA RollbackReserved ==
    ASSUME TypeOK, EnteringIsReserved, NEW k \in Key, NEW c \in Char,
           \/ CancelPendingEnterWorldSession(k, c)
           \/ UnbindAuthenticatedWorldSession(k)
           \/ RollbackBoundEnterWorld(k, c)
    PROVE  EnteringIsReserved'
<1>1. CASE CancelPendingEnterWorldSession(k, c)
  BY <1>1 DEF CancelPendingEnterWorldSession, EnteringIsReserved, TypeOK
<1>2. CASE UnbindAuthenticatedWorldSession(k)
  BY <1>2 DEF UnbindAuthenticatedWorldSession, ErasePendingKeys, EnteringIsReserved, TypeOK
<1> QED
  BY <1>1, <1>2 DEF RollbackBoundEnterWorld

\* Every step keeps the reservations of the entering sessions.
LEMMA ReservedStep == TypeOK /\ EnteringIsReserved /\ [Next]_vars => EnteringIsReserved'
<1> SUFFICES ASSUME TypeOK, EnteringIsReserved, [Next]_vars
             PROVE  EnteringIsReserved'
  OBVIOUS
<1>1. CASE UNCHANGED enter
  BY <1>1 DEF enter, EnteringIsReserved
<1>2. ASSUME NEW f \in flow, EnterStep(f)
      PROVE  EnteringIsReserved'
  <2>1. f.key \in Key /\ (f.step # "Consume" => f.char \in Char)
    BY DEF TypeOK, Request
  <2>2. CASE OnWorldAuthTicketConsumeResponse(f) \/ BindSession(f)
    BY <1>1, <2>2 DEF OnWorldAuthTicketConsumeResponse, BindSession
  <2>3. CASE LoadSnapshot(f)
    BY <1>1, <2>1, <2>3, RollbackReserved DEF LoadSnapshot
  <2>4. CASE TryBeginEnterWorldSession(f)
    <3>1. None \notin Key
      BY NoneAssumption
    <3>2. f.char \in Char
      BY <2>1, <2>4 DEF TryBeginEnterWorldSession
    <3>3. CASE /\ pendingKey[f.char] \in {None, f.key}
               /\ stage' = [stage EXCEPT ![f.key] = "EnterPending"]
               /\ pendingKey' = [pendingKey EXCEPT ![f.char] = f.key]
      BY <2>1, <3>1, <3>2, <3>3 DEF EnteringIsReserved, TypeOK
    <3> QED
      BY <1>1, <2>4, <3>3 DEF TryBeginEnterWorldSession
  <2>5. CASE AssignMapInstance(f)
    BY <1>1, <2>1, <2>5, RollbackReserved DEF AssignMapInstance
  <2>6. CASE OnZoneMapAssignResponse(f)
    BY <1>1, <2>1, <2>6, RollbackReserved DEF OnZoneMapAssignResponse
  <2>7. CASE OnZonePlayerEnterAck(f)
    <3>1. CASE /\ IsEnterWorldSessionPending(f.key, f.char)
               /\ PromoteEnterWorldSessionToInWorld(f.key, f.char)
      BY <2>1, <2>7, <3>1 DEF OnZonePlayerEnterAck, IsEnterWorldSessionPending,
                    PromoteEnterWorldSessionToInWorld, EnteringIsReserved, TypeOK
    <3> QED
      BY <1>1, <2>1, <2>7, <3>1, RollbackReserved DEF OnZonePlayerEnterAck
  <2> QED
    BY <1>2, <2>2, <2>3, <2>4, <2>5, <2>6, <2>7 DEF EnterStep
<1>3. ASSUME NEW i \in 1 .. Len(events), TryReconnectWorldSession(i)
      PROVE  EnteringIsReserved'
  <2>1. ASSUME NEW k \in Key, NEW t \in Token, tokenKey[t] # None, ReconnectMoves(k, t)
        PROVE  EnteringIsReserved'
    <3> DEFINE p == tokenKey[t]
    <3>1. p \in Key
      BY <2>1 DEF TypeOK
    <3>2. /\ stage' = [[stage EXCEPT ![p] = "None"] EXCEPT ![k] = "InWorld"]
          /\ pendingKey' = ErasePendingKeys(p)
      BY <2>1, Zenon DEF ReconnectMoves
    <3> HIDE DEF p
    <3> QED
      BY <3>1, <3>2 DEF ErasePendingKeys, EnteringIsReserved, TypeOK
  <2>2. ASSUME NEW t \in Token, Forgets(t)
        PROVE  EnteringIsReserved'
    BY <1>1, <2>2 DEF Forgets
  <2> QED
    BY <1>1, <1>3, <2>1, <2>2, ReconnectCases
<1>4. ASSUME NEW i \in 1 .. Len(events), HandleDisconnected(i)
      PROVE  EnteringIsReserved'
  <2>1. events[i].key \in Key
    <3>1. events[i] \in Event
      BY <1>4 DEF TypeOK
    <3> QED
      BY <3>1 DEF Event
  <2> DEFINE k == events[i].key
  <2>2. CASE UNCHANGED enter
    BY <1>1, <2>2
  <2>3. CASE /\ pendingKey' = ErasePendingKeys(k)
             /\ stage' = [stage EXCEPT ![k] = "None"]
    <3> HIDE DEF k
    <3> QED
      BY <2>3 DEF ErasePendingKeys, EnteringIsReserved, TypeOK
  <2> QED
    BY <1>4, <2>2, <2>3 DEF HandleDisconnected, AbortEnterWorldFlow
<1>5. CASE RunStrand
  <2> DEFINE k == Head(strand).key
  <2>1. k \in Key
    <3>1. Head(strand) \in Task
      BY <1>5 DEF RunStrand, TypeOK
    <3> QED
      BY <3>1 DEF Task
  <2>2. CASE ProcessDuplicateWorldSessionKick(k)
    BY <2>1, <2>2 DEF ProcessDuplicateWorldSessionKick, AbortEnterWorldFlow,
                      ErasePendingKeys, EnteringIsReserved, TypeOK
  <2>3. CASE UnbindAuthenticatedWorldSession(k)
    BY <2>1, <2>3 DEF UnbindAuthenticatedWorldSession, ErasePendingKeys,
                      EnteringIsReserved, TypeOK
  <2> QED
    BY <1>1, <1>5, <2>2, <2>3 DEF RunStrand, CloseOnStrand, ProcessWorldSessionClosed, k
<1>6. CASE \/ \E s \in Sid : Accept(s)
           \/ \E k \in Key : SocketClose(k)
           \/ \E k \in Key, m \in Message : PostPacket(k, m)
           \/ \E k \in Key : DelayedCloseFires(k)
           \/ UNCHANGED vars
  <2>1. UNCHANGED enter
    BY <1>6 DEF Accept, SocketClose, PostPacket, DelayedCloseFires, vars
  <2> QED
    BY <1>1, <2>1
<1>7. ASSUME NEW r, Shard(r)
      PROVE  EnteringIsReserved'
  <2>1. PICK i \in 1 .. Len(events) :
          \/ HandleConnected(i) \/ HandleDisconnected(i) \/ BeginPacket(i)
          \/ RequestConsumeWorldAuthTicket(i) \/ LogoutWorld(i) \/ TryReconnectWorldSession(i)
    BY <1>7 DEF Shard
  <2>2. HandleDisconnected(i) \/ TryReconnectWorldSession(i) \/ UNCHANGED enter
    BY <2>1, QuietCases
  <2> QED
    BY <1>1, <1>3, <1>4, <2>2
<1> QED
  BY <1>2, <1>5, <1>6, <1>7 DEF Next

\* However the zone's answer, the database's, a kick, a reconnect and a disconnect
\* interleave, a session in stage EnterPending holds a reservation in
\* pending_enter_session_key_by_char_id_.
THEOREM Reservation == Spec => []EnteringIsReserved
<1>1. Init => EnteringIsReserved
  BY DEF Init, EnteringIsReserved
<1> QED
  BY <1>1, TypeInit, TypeStep, ReservedStep, PTL DEF Spec

-----------------------------------------------------------------------------
(* Late closes. *)

\* Only the strand shortens its queue.
LEMMA OnlyStrandPops ==
    ASSUME TypeOK, [Next]_vars, strand # <<>>, strand' = Tail(strand)
    PROVE  RunStrand
<1> SUFFICES ASSUME ~RunStrand
             PROVE  FALSE
  OBVIOUS
<1>1. strand \in Seq(Task) /\ Len(strand') = Len(strand) - 1 /\ Len(strand) \in Nat
  BY DEF TypeOK
<1>2. CASE UNCHANGED strand
  BY <1>1, <1>2
<1>3. ASSUME NEW k \in Key, NEW a \in Account, NEW c \in Char,
             BindAuthenticatedWorldSessionForLogin(k, a, c)
      PROVE  FALSE
  <2> DEFINE C == OldCharSids(k.sid, c)
             A == OldAccountSids(k.sid, a)
  <2>1. CASE strand' = strand \o KickTasks(C, A)
    <3>1. KickTasks(C, A) \in Seq(Task)
      BY KickTasksType DEF Key
    <3>2. PICK q \in Seq(Task) : strand' = strand \o q
      BY <2>1, <3>1, Zenon
    <3>3. Len(strand \o q) = Len(strand) + Len(q)
      BY <1>1, ConcatProperties, Zenon
    <3>4. Len(q) \in Nat
      OBVIOUS
    <3>5. Len(strand') = Len(strand) + Len(q)
      BY <3>2, <3>3, Zenon
    <3> QED
      BY <1>1, <3>4, <3>5
  <2> QED
    BY <1>2, <1>3, <2>1 DEF BindAuthenticatedWorldSessionForLogin
<1>4. ASSUME NEW f \in flow, EnterStep(f)
      PROVE  FALSE
  <2>1. f.key \in Key /\ f.account \in Account /\ (f.step # "Consume" => f.char \in Char)
    BY DEF TypeOK, Request
  <2>2. ~BindSession(f)
    BY <1>3, <2>1 DEF BindSession
  <2> QED
    BY <1>2, <1>4, <2>2 DEF EnterStep, OnWorldAuthTicketConsumeResponse, LoadSnapshot,
        TryBeginEnterWorldSession, AssignMapInstance, OnZoneMapAssignResponse, OnZonePlayerEnterAck
<1>5. ASSUME NEW i \in 1 .. Len(events), HandleDisconnected(i)
      PROVE  FALSE
  <2>1. events[i].key \in Key
    <3>1. events[i] \in Event
      BY <1>5 DEF TypeOK
    <3> QED
      BY <3>1 DEF Event
  <2>2. CASE strand' = Append(strand, [kind |-> "Closed", key |-> events[i].key,
                                       reason |-> reason[events[i].key]])
    BY <1>1, <2>2
  <2> QED
    BY <1>2, <1>5, <2>2 DEF HandleDisconnected
<1>6. ASSUME NEW r, Shard(r)
      PROVE  FALSE
  <2>1. PICK i \in 1 .. Len(events) :
          \/ HandleConnected(i) \/ HandleDisconnected(i) \/ BeginPacket(i)
          \/ RequestConsumeWorldAuthTicket(i) \/ LogoutWorld(i) \/ TryReconnectWorldSession(i)
    BY <1>6 DEF Shard
  <2>2. HandleDisconnected(i) \/ UNCHANGED strand
    BY <2>1, QuietCases, ReconnectCases
  <2> QED
    BY <1>2, <1>5, <2>2
<1> QED
  BY <1>2, <1>4, <1>6 DEF Next, Accept, SocketClose, PostPacket, DelayedCloseFires, vars

\* A kick or a close that runs late on duplicate_session_strand_, after its slot
\* was given to another connection, unbinds no session of another connection.
THEOREM LateCloses == Spec => StaleCloseHarmless
<1> DEFINE Harmless == \A k \in Key :
              (strand # <<>> /\ strand' = Tail(strand) /\ Head(strand).key # k /\ BoundAt(k))
                 => BoundAt(k)'
<1>1. TypeOK /\ [Next]_vars => [Harmless]_vars
  <2> SUFFICES ASSUME TypeOK, [Next]_vars, NEW k \in Key,
                      strand # <<>>, strand' = Tail(strand), Head(strand).key # k, BoundAt(k)
               PROVE  BoundAt(k)'
    OBVIOUS
  <2> DEFINE q == Head(strand).key
  <2>1. RunStrand
    BY OnlyStrandPops
  <2>2. q \in Key
    <3>1. Head(strand) \in Task
      BY DEF TypeOK
    <3> QED
      BY <3>1 DEF Task
  <2>3. CASE UnbindAuthenticatedWorldSession(q)
    <3>1. authed' = [authed EXCEPT ![q.sid] = None] /\ BoundAt(q)
      BY <2>3 DEF UnbindAuthenticatedWorldSession
    <3>2. q.sid # k.sid
      BY <2>2, <3>1 DEF BoundAt, Key
    <3> HIDE DEF q
    <3> QED
      BY <3>1, <3>2 DEF BoundAt, TypeOK, Key
  <2>4. CASE UNCHANGED registry
    BY <2>4 DEF registry, BoundAt
  <2> QED
    BY <2>1, <2>3, <2>4 DEF RunStrand, CloseOnStrand, ProcessWorldSessionClosed,
                            ProcessDuplicateWorldSessionKick, q
<1> QED
  BY <1>1, TypeCorrect, PTL DEF Spec, StaleCloseHarmless

-----------------------------------------------------------------------------
(***************************************************************************)
(* The session runtime implements SessionRegistry: every step of Spec is a *)
(* Take, a Release or a stutter of the bound sessions.  The argument rests *)
(* on Authoritative: the three indexes find every session that conflicts   *)
(* with the one a bind or a reconnect installs.                            *)
(***************************************************************************)

ClaimOf(s) == [account |-> authed[s].account, char |-> authed[s].char, key |-> SessionKey(s)]

\* The claims are those of the bound slots.
LEMMA ClaimsOfSlots ==
    \A r : r \in BoundSessions <=> \E s \in Sid : authed[s] # None /\ r = ClaimOf(s)
BY DEF BoundSessions, ClaimOf

\* The claim of a bound slot is a claim of the registry.
LEMMA ClaimType ==
    ASSUME TypeOK, NEW s \in Sid, authed[s] # None
    PROVE  ClaimOf(s) \in R!Claim
<1>1. SessionKey(s) \in Key /\ authed[s] \in Session
  BY BoundSessionType
<1> QED
  BY <1>1 DEF ClaimOf, R!Claim, Session

\* A step that installs one session, keeps or ends the others and leaves none
\* that shares its account or character, is a Take.
LEMMA InstallIsTake ==
    ASSUME TypeOK', NEW s \in Sid, authed'[s] # None,
           \A t \in Sid \ {s} : authed'[t] # None =>
              /\ authed'[t] = authed[t]
              /\ authed'[t].account # authed'[s].account
              /\ authed'[t].char # authed'[s].char
    PROVE  R!Next
<1> DEFINE r == ClaimOf(s)'
<1>1. \A x : x \in BoundSessions' <=> \E t \in Sid : authed'[t] # None /\ x = ClaimOf(t)'
  BY DEF BoundSessions, ClaimOf
<1>2. r \in BoundSessions'
  BY <1>1
<1>3. r \in R!Claim
  <2>1. SessionKey(s)' \in Key /\ authed'[s] \in Session
    BY DEF TypeOK, SessionKey, KeyOf, Session, Key
  <2> QED
    BY <2>1 DEF ClaimOf, R!Claim, Session
<1>4. ASSUME NEW x \in BoundSessions', x # r
      PROVE  x \in BoundSessions /\ ~R!Conflict(x, r)
  <2>1. PICK t \in Sid : authed'[t] # None /\ x = ClaimOf(t)'
    BY <1>1
  <2>2. t # s
    BY <1>4, <2>1
  <2>3. authed'[t] = authed[t] /\ ClaimOf(t)' = ClaimOf(t)
    BY <2>1, <2>2 DEF ClaimOf, SessionKey, KeyOf
  <2>4. x \in BoundSessions
    BY <2>1, <2>3, ClaimsOfSlots
  <2> QED
    BY <2>1, <2>2, <2>4 DEF R!Conflict, ClaimOf, SessionKey, KeyOf
<1> HIDE DEF r
<1>5. R!Take(r)
  BY <1>2, <1>4 DEF R!Take
<1> QED
  BY <1>3, <1>5 DEF R!Next

\* A step that only ends one session is a Release.
LEMMA UnbindIsRelease ==
    ASSUME TypeOK, NEW k \in Key, UnbindAuthenticatedWorldSession(k)
    PROVE  R!Next
<1> DEFINE s == k.sid
           r == ClaimOf(s)
<1>1. s \in Sid /\ authed[s] # None /\ authed' = [authed EXCEPT ![s] = None]
  BY DEF UnbindAuthenticatedWorldSession, BoundAt, Key
<1>2. \A x : x \in BoundSessions' <=> \E t \in Sid : authed'[t] # None /\ x = ClaimOf(t)'
  BY DEF BoundSessions, ClaimOf
<1>3. \A t \in Sid : t # s => authed'[t] = authed[t] /\ ClaimOf(t)' = ClaimOf(t) /\ ClaimOf(t) # r
  BY <1>1 DEF TypeOK, ClaimOf, SessionKey, KeyOf
<1>4. authed'[s] = None
  BY <1>1 DEF TypeOK
<1> HIDE DEF s, r
<1>5. BoundSessions' = BoundSessions \ {r}
  BY <1>2, <1>3, <1>4, ClaimsOfSlots DEF r
<1>6. r \in BoundSessions
  BY <1>1, ClaimsOfSlots DEF r
<1> QED
  BY <1>5, <1>6 DEF R!Next, R!Release

\* A bind is a Take: the indexes report every session it conflicts with.
LEMMA BindIsTake ==
    ASSUME TypeOK, Authoritative, TypeOK', NEW k \in Key, NEW a \in Account, NEW c \in Char,
           BindAuthenticatedWorldSessionForLogin(k, a, c), ~UNCHANGED registry
    PROVE  R!Next
<1> DEFINE E == OldCharSids(k.sid, c) \cup OldAccountSids(k.sid, a) \cup {k.sid}
<1>1. k.sid \in Sid
  BY DEF Key
<1>2. PICK t \in Token :
        authed' = [s \in Sid |->
               IF s = k.sid
               THEN [account |-> a, char |-> c, serial |-> k.serial, token |-> t]
               ELSE IF s \in E THEN None ELSE authed[s]]
  BY Zenon DEF BindAuthenticatedWorldSessionForLogin
<1>3. \A s \in Sid \ E : authed[s] # None => authed[s].char # c /\ authed[s].account # a
  BY DEF OldCharSids, OldAccountSids, Authoritative
<1> HIDE DEF E
<1>4. authed'[k.sid] = [account |-> a, char |-> c, serial |-> k.serial, token |-> t]
  BY <1>1, <1>2
<1>5. authed'[k.sid] # None
  <2>1. k.serial \in Serial
    BY DEF Key
  <2>2. authed'[k.sid] \in Session
    BY <1>4, <2>1 DEF Session
  <2> QED
    BY <2>2, NoneAssumption
<1>6. \A s \in Sid \ {k.sid} : authed'[s] # None =>
         authed'[s] = authed[s] /\ authed[s].char # c /\ authed[s].account # a
  BY <1>2, <1>3
<1> QED
  BY <1>1, <1>4, <1>5, <1>6, InstallIsTake

\* A reconnect is a Take: the moved session conflicts with no other.
LEMMA ReconnectIsTake ==
    ASSUME TypeOK, Authoritative, TypeOK', NEW k \in Key, NEW t \in Token,
           tokenKey[t] # None, ReconnectMoves(k, t)
    PROVE  R!Next
<1> DEFINE p == tokenKey[t]
           x == authed[p.sid]
<1>1. p \in Key /\ p.sid \in Sid /\ k.sid \in Sid /\ k.serial \in Serial
  BY DEF TypeOK, Key
<1>2. x # None /\ x \in Session
  BY <1>1 DEF ReconnectMoves, BoundAt, TypeOK
<1>3. authed' = [[authed EXCEPT ![p.sid] = None]
                        EXCEPT ![k.sid] = [x EXCEPT !.serial = k.serial]]
  BY Zenon DEF ReconnectMoves
<1>4. authed'[k.sid] = [x EXCEPT !.serial = k.serial]
  BY <1>1, <1>3 DEF TypeOK
<1>5. authed'[k.sid].char = x.char /\ authed'[k.sid].account = x.account
  BY <1>2, <1>4 DEF Session
<1>6. authed'[k.sid] # None
  <2>1. authed'[k.sid] \in Session
    BY <1>1, <1>2, <1>4 DEF Session
  <2> QED
    BY <2>1, NoneAssumption
<1>7. ASSUME NEW s \in Sid \ {k.sid}, authed'[s] # None
      PROVE  authed'[s] = authed[s] /\ authed[s].char # x.char /\ authed[s].account # x.account
  <2>1. s # p.sid /\ authed'[s] = authed[s]
    BY <1>1, <1>3, <1>7 DEF TypeOK
  <2> QED
    BY <1>1, <1>2, <1>7, <2>1, BoundOnce
<1> HIDE DEF p, x
<1> QED
  BY <1>1, <1>5, <1>6, <1>7, InstallIsTake

\* Every step of the runtime is a step of the abstract registry or stutters.
LEMMA RegistryStep ==
    TypeOK /\ Authoritative /\ [Next]_vars => [R!Next]_BoundSessions
<1> SUFFICES ASSUME TypeOK, Authoritative, [Next]_vars
             PROVE  [R!Next]_BoundSessions
  OBVIOUS
<1>0. TypeOK'
  BY TypeStep
<1>1. CASE UNCHANGED authed
  BY <1>1 DEF BoundSessions, SessionKey, KeyOf
<1>2. ASSUME NEW f \in flow, EnterStep(f)
      PROVE  [R!Next]_BoundSessions
  <2>1. f.key \in Key /\ f.account \in Account /\ (f.step # "Consume" => f.char \in Char)
    BY DEF TypeOK, Request
  <2>2. CASE BindSession(f)
    BY <1>0, <1>1, <2>1, <2>2, BindIsTake DEF BindSession, registry
  <2>3. CASE UnbindAuthenticatedWorldSession(f.key)
    BY <2>1, <2>3, UnbindIsRelease
  <2>4. CASE RollbackBoundEnterWorld(f.key, f.char)
    BY <1>1, <2>3, <2>4 DEF RollbackBoundEnterWorld, registry
  <2>5. CASE OnWorldAuthTicketConsumeResponse(f) \/ LoadSnapshot(f) \/ TryBeginEnterWorldSession(f)
    BY <1>1, <2>5 DEF OnWorldAuthTicketConsumeResponse, LoadSnapshot,
                      TryBeginEnterWorldSession, registry
  <2>6. CASE AssignMapInstance(f)
    BY <1>1, <2>4, <2>6 DEF AssignMapInstance, registry
  <2>7. CASE OnZoneMapAssignResponse(f)
    BY <1>1, <2>4, <2>7 DEF OnZoneMapAssignResponse, registry
  <2>8. CASE OnZonePlayerEnterAck(f)
    BY <1>1, <2>4, <2>8 DEF OnZonePlayerEnterAck, registry
  <2> QED
    BY <1>2, <2>2, <2>5, <2>6, <2>7, <2>8 DEF EnterStep
<1>3. ASSUME NEW i \in 1 .. Len(events), TryReconnectWorldSession(i)
      PROVE  [R!Next]_BoundSessions
  <2>1. ASSUME NEW k \in Key, NEW t \in Token, tokenKey[t] # None, ReconnectMoves(k, t)
        PROVE  R!Next
    BY <1>0, <2>1, ReconnectIsTake
  <2>2. ASSUME NEW t \in Token, Forgets(t)
        PROVE  UNCHANGED authed
    BY <2>2 DEF Forgets
  <2>3. UNCHANGED registry => UNCHANGED authed
    BY DEF registry
  <2> QED
    BY <1>1, <1>3, <2>1, <2>2, <2>3, ReconnectCases
<1>4. CASE RunStrand
  <2> DEFINE k == Head(strand).key
  <2>1. k \in Key
    <3>1. Head(strand) \in Task
      BY <1>4 DEF RunStrand, TypeOK
    <3> QED
      BY <3>1 DEF Task
  <2>2. CASE UnbindAuthenticatedWorldSession(k)
    BY <2>1, <2>2, UnbindIsRelease
  <2>3. CASE UNCHANGED registry
    BY <1>1, <2>3 DEF registry
  <2> QED
    BY <1>4, <2>2, <2>3 DEF RunStrand, CloseOnStrand, ProcessWorldSessionClosed,
                            ProcessDuplicateWorldSessionKick, k
<1>5. CASE \/ \E s \in Sid : Accept(s)
           \/ \E k \in Key : SocketClose(k)
           \/ \E k \in Key, m \in Message : PostPacket(k, m)
           \/ \E k \in Key : DelayedCloseFires(k)
           \/ UNCHANGED vars
  <2>1. UNCHANGED authed
    BY <1>5 DEF Accept, SocketClose, PostPacket, registry, DelayedCloseFires, vars
  <2> QED
    BY <1>1, <2>1
<1>6. ASSUME NEW r, Shard(r)
      PROVE  [R!Next]_BoundSessions
  <2>1. PICK i \in 1 .. Len(events) :
          \/ HandleConnected(i) \/ HandleDisconnected(i) \/ BeginPacket(i)
          \/ RequestConsumeWorldAuthTicket(i) \/ LogoutWorld(i) \/ TryReconnectWorldSession(i)
    BY <1>6 DEF Shard
  <2>2. TryReconnectWorldSession(i) \/ UNCHANGED authed
    BY <2>1, QuietCases DEF HandleDisconnected, registry
  <2> QED
    BY <1>1, <1>3, <2>2
<1> QED
  BY <1>2, <1>4, <1>5, <1>6 DEF Next

\* The sessions bound by BindAuthenticatedWorldSessionForLogin, moved by
\* TryReconnectWorldSession and removed by UnbindAuthenticatedWorldSessionBySid
\* behave as the abstract registry: the newest claim wins, alone.
THEOREM Refinement == Spec => ImplementsRegistry
<1>1. Init => R!Init
  BY DEF Init, R!Init, BoundSessions
<1> QED
  BY <1>1, TypeCorrect, Authority, RegistryStep, PTL DEF Spec, ImplementsRegistry, R!Spec

\* What the abstract registry promises holds of the bound sessions: two of them
\* never share an account, a character or a slot (one authenticated world session
\* per account and per character).
THEOREM OneSession == Spec => []R!Exclusive
<1>1. R!Init => R!Exclusive
  BY DEF R!Init, R!Exclusive
<1>2. ASSUME R!Exclusive, [R!Next]_BoundSessions
      PROVE  R!Exclusive'
  <2>1. ASSUME NEW r \in R!Claim, R!Take(r)
        PROVE  R!Exclusive'
    BY <1>2, <2>1 DEF R!Exclusive, R!Take, R!Conflict
  <2>2. ASSUME NEW r \in BoundSessions, R!Release(r)
        PROVE  R!Exclusive'
    BY <1>2, <2>2 DEF R!Exclusive, R!Release, R!Conflict
  <2>3. CASE UNCHANGED BoundSessions
    BY <1>2, <2>3 DEF R!Exclusive, R!Conflict
  <2> QED
    BY <1>2, <2>1, <2>2, <2>3 DEF R!Next
<1> QED
  BY <1>1, <1>2, Refinement, PTL DEF ImplementsRegistry, R!Spec

-----------------------------------------------------------------------------
(* Who is bound: the identity the Account server certified is the one that  *)
(* is bound, and stays it.                                                  *)

\* OnWorldAuthTicketConsumeResponse up to TryReconnectWorldSession: a session is
\* bound only for a character of its own account, whichever of the enters of
\* several connections binds it and however often a reconnect moves it.
BoundAsCertified ==
    \A s \in Sid : authed[s] # None => <<authed[s].account, authed[s].char>> \in Owns

CertifiedInv ==
    /\ BoundAsCertified
    /\ \A f \in flow : f.char # None => <<f.account, f.char>> \in Owns

\* A request in progress is one from before, perhaps with the character the
\* ticket certifies, or that of a packet, for the latest connection of its slot.
LEMMA RequestsFrom ==
    ASSUME TypeOK, [Next]_vars, NEW g \in flow'
    PROVE  \/ \E f \in flow : /\ g.key = f.key /\ g.account = f.account
                              /\ g.char = f.char \/ <<g.account, g.char>> \in Owns
           \/ g.char = None /\ g.key \in Key /\ g.key.serial = latest[g.key.sid]
<1>1. CASE g \in flow
  BY <1>1
<1>2. ASSUME NEW f \in flow, EnterStep(f)
      PROVE  \E e \in flow : /\ g.key = e.key /\ g.account = e.account
                             /\ g.char = e.char \/ <<g.account, g.char>> \in Owns
  <2>0. f \in Request
    BY DEF TypeOK
  <2>1. ASSUME NEW step, Advance(f, step)
        PROVE  g \in flow \/ (g.key = f.key /\ g.account = f.account /\ g.char = f.char)
    BY <2>0, <2>1 DEF Advance, Request
  <2>2. ASSUME NEW c \in Char, <<f.account, c>> \in Owns,
               flow' = (flow \ {f}) \cup {[f EXCEPT !.char = c, !.step = "Snapshot"]}
        PROVE  g \in flow \/ (g.key = f.key /\ g.account = f.account /\ <<g.account, g.char>> \in Owns)
    BY <2>0, <2>2 DEF Request
  <2>3. CASE Drop(f)
    BY <2>3 DEF Drop
  <2> QED
    BY <1>2, <2>1, <2>2, <2>3 DEF EnterStep, OnWorldAuthTicketConsumeResponse, LoadSnapshot,
       TryBeginEnterWorldSession, BindSession, AssignMapInstance, OnZoneMapAssignResponse,
       OnZonePlayerEnterAck
<1>3. ASSUME NEW i \in 1 .. Len(events), RequestConsumeWorldAuthTicket(i)
      PROVE  g \in flow \/ (g.char = None /\ g.key \in Key /\ g.key.serial = latest[g.key.sid])
  <2>1. Packet(i, "Enter") /\ events[i].kind = "Packet"
    BY <1>3 DEF RequestConsumeWorldAuthTicket, Packet
  <2>2. \/ flow' = flow
        \/ /\ latest[events[i].key.sid] # 0
           /\ flow' = flow \cup {[id |-> nextRequest, key |-> Sender(i),
                                  account |-> events[i].msg.account,
                                  char |-> None, step |-> "Consume"]}
    BY <1>3 DEF RequestConsumeWorldAuthTicket, requests
  <2>3. g \in flow \/ (latest[events[i].key.sid] # 0 /\ g.char = None /\ g.key = Sender(i))
    BY <2>2
  <2> QED
    BY <2>1, <2>3, PacketFields
<1>4. CASE flow' \subseteq flow
  BY <1>1, <1>4
<1>5. ASSUME NEW r, Shard(r)
      PROVE  \/ flow' \subseteq flow
             \/ \E i \in 1 .. Len(events) : RequestConsumeWorldAuthTicket(i)
  <2>1. PICK i \in 1 .. Len(events) :
          \/ HandleConnected(i) \/ HandleDisconnected(i) \/ BeginPacket(i)
          \/ RequestConsumeWorldAuthTicket(i) \/ LogoutWorld(i) \/ TryReconnectWorldSession(i)
    BY <1>5 DEF Shard
  <2> QED
    BY <2>1 DEF HandleConnected, HandleDisconnected, BeginPacket, LogoutWorld,
                TryReconnectWorldSession, AbortEnterWorldFlow, requests
<1>6. CASE RunStrand
  BY <1>4, <1>6 DEF RunStrand, ProcessDuplicateWorldSessionKick, CloseOnStrand,
                    ProcessWorldSessionClosed, AbortEnterWorldFlow, requests
<1>7. CASE \/ \E s \in Sid : Accept(s)
           \/ \E k \in Key : SocketClose(k) \/ DelayedCloseFires(k)
           \/ \E k \in Key, m \in Message : PostPacket(k, m)
           \/ UNCHANGED vars
  BY <1>4, <1>7 DEF Accept, SocketClose, PostPacket, DelayedCloseFires, vars, requests
<1> QED
  BY <1>2, <1>3, <1>4, <1>5, <1>6, <1>7 DEF Next

\* What a step does to the bound sessions: nothing, a bind, an unbind of the
\* connection whose enter is undone or whose close the strand has reached, or a
\* reconnect.
LEMMA BoundStep ==
    ASSUME TypeOK, [Next]_vars
    PROVE  \/ UNCHANGED authed
           \/ \E f \in flow : BindSession(f)
           \/ \E f \in flow : EnterStep(f) /\ UnbindAuthenticatedWorldSession(f.key)
           \/ /\ RunStrand /\ Head(strand).kind = "Closed"
              /\ UnbindAuthenticatedWorldSession(Head(strand).key)
           \/ \E i \in 1 .. Len(events), k \in Key, t \in Token :
                 /\ TryReconnectWorldSession(i) /\ k = Sender(i) /\ k.serial = latest[k.sid]
                 /\ tokenKey[t] # None /\ ReconnectMoves(k, t)
<1>1. ASSUME NEW f \in flow, EnterStep(f), ~BindSession(f)
      PROVE  UNCHANGED authed \/ UnbindAuthenticatedWorldSession(f.key)
  <2>1. RollbackBoundEnterWorld(f.key, f.char)
          => UNCHANGED authed \/ UnbindAuthenticatedWorldSession(f.key)
    BY DEF RollbackBoundEnterWorld, registry
  <2> QED
    BY <1>1, <2>1 DEF EnterStep, OnWorldAuthTicketConsumeResponse, LoadSnapshot,
       TryBeginEnterWorldSession, AssignMapInstance, OnZoneMapAssignResponse,
       OnZonePlayerEnterAck, registry
<1>2. ASSUME RunStrand
      PROVE  \/ UNCHANGED authed
             \/ Head(strand).kind = "Closed" /\ UnbindAuthenticatedWorldSession(Head(strand).key)
  BY <1>2 DEF RunStrand, ProcessDuplicateWorldSessionKick, CloseOnStrand,
              ProcessWorldSessionClosed, registry
<1>3. ASSUME NEW i \in 1 .. Len(events), TryReconnectWorldSession(i)
      PROVE  \/ UNCHANGED authed
             \/ \E k \in Key, t \in Token :
                   /\ k = Sender(i) /\ k.serial = latest[k.sid]
                   /\ tokenKey[t] # None /\ ReconnectMoves(k, t)
  <2>1. \A t \in Token : Forgets(t) => UNCHANGED authed
    BY DEF Forgets
  <2>2. UNCHANGED registry => UNCHANGED authed
    BY DEF registry
  <2> QED
    BY <1>3, <2>1, <2>2, ReconnectCases
<1>4. CASE \/ \E s \in Sid : Accept(s)
           \/ \E k \in Key : SocketClose(k) \/ DelayedCloseFires(k)
           \/ \E k \in Key, m \in Message : PostPacket(k, m)
           \/ UNCHANGED vars
  BY <1>4 DEF Accept, SocketClose, PostPacket, DelayedCloseFires, vars, registry
<1>5. ASSUME NEW r, Shard(r)
      PROVE  UNCHANGED authed \/ \E i \in 1 .. Len(events) : TryReconnectWorldSession(i)
  <2>1. PICK i \in 1 .. Len(events) :
          \/ HandleConnected(i) \/ HandleDisconnected(i) \/ BeginPacket(i)
          \/ RequestConsumeWorldAuthTicket(i) \/ LogoutWorld(i) \/ TryReconnectWorldSession(i)
    BY <1>5 DEF Shard
  <2> QED
    BY <2>1, QuietCases DEF HandleDisconnected, registry
<1> QED
  BY <1>1, <1>2, <1>3, <1>4, <1>5 DEF Next

\* What a bind leaves at each slot.
LEMMA BindSlots ==
    ASSUME TypeOK, NEW k \in Key, NEW a, NEW c, BindAuthenticatedWorldSessionForLogin(k, a, c)
    PROVE  \/ UNCHANGED authed
           \/ /\ authed'[k.sid].account = a /\ authed'[k.sid].char = c
              /\ authed'[k.sid].serial = k.serial
              /\ \A s \in Sid \ {k.sid} :
                   /\ authed'[s] \in {authed[s], None}
                   /\ authed'[s] # authed[s] => s \in OldCharSids(k.sid, c) \cup OldAccountSids(k.sid, a)
<1> DEFINE E == OldCharSids(k.sid, c) \cup OldAccountSids(k.sid, a) \cup {k.sid}
<1>1. \/ UNCHANGED authed
      \/ \E t \in Token : authed' = [s \in Sid |->
               IF s = k.sid
               THEN [account |-> a, char |-> c, serial |-> k.serial, token |-> t]
               ELSE IF s \in E THEN None ELSE authed[s]]
  BY Zenon DEF BindAuthenticatedWorldSessionForLogin, registry
<1>2. k.sid \in Sid
  BY DEF Key
<1> QED
  BY <1>1, <1>2

\* What a reconnect leaves at each slot.
LEMMA ReconnectSlots ==
    ASSUME TypeOK, NEW k \in Key, NEW t \in Token, tokenKey[t] # None, ReconnectMoves(k, t)
    PROVE  LET p == tokenKey[t] IN
           /\ p \in Key /\ BoundAt(p)
           /\ authed'[k.sid] = [authed[p.sid] EXCEPT !.serial = k.serial]
           /\ authed'[k.sid].serial = k.serial
           /\ authed'[k.sid].account = authed[p.sid].account
           /\ authed'[k.sid].char = authed[p.sid].char
           /\ \A s \in Sid \ {k.sid} : authed'[s] = IF s = p.sid THEN None ELSE authed[s]
<1> DEFINE p == tokenKey[t]
<1>1. p \in Key /\ p.sid \in Sid /\ k.sid \in Sid
  BY DEF TypeOK, Key
<1>2. BoundAt(p) /\ authed' = [[authed EXCEPT ![p.sid] = None]
                                  EXCEPT ![k.sid] = [authed[p.sid] EXCEPT !.serial = k.serial]]
  BY DEF ReconnectMoves
<1>3. authed[p.sid] \in Session
  BY <1>1, <1>2 DEF BoundAt, TypeOK
<1> HIDE DEF p
<1>4. authed'[k.sid] = [authed[p.sid] EXCEPT !.serial = k.serial]
      /\ \A s \in Sid \ {k.sid} : authed'[s] = IF s = p.sid THEN None ELSE authed[s]
  BY <1>1, <1>2 DEF TypeOK
<1>5. /\ authed'[k.sid].serial = k.serial
      /\ authed'[k.sid].account = authed[p.sid].account
      /\ authed'[k.sid].char = authed[p.sid].char
  BY <1>3, <1>4 DEF Session
<1> QED
  BY <1>1, <1>2, <1>4, <1>5 DEF p

LEMMA CertifiedStep == TypeOK /\ CertifiedInv /\ [Next]_vars => CertifiedInv'
<1> SUFFICES ASSUME TypeOK, CertifiedInv, [Next]_vars PROVE CertifiedInv'
  OBVIOUS
<1>1. ASSUME NEW g \in flow', g.char # None PROVE <<g.account, g.char>> \in Owns
  <2>1. PICK f \in flow : /\ g.account = f.account
                          /\ g.char = f.char \/ <<g.account, g.char>> \in Owns
    BY <1>1, RequestsFrom
  <2> QED
    BY <1>1, <2>1 DEF CertifiedInv
<1>2. ASSUME UNCHANGED authed PROVE BoundAsCertified'
  BY <1>2 DEF CertifiedInv, BoundAsCertified
<1>3. ASSUME NEW k \in Key, UnbindAuthenticatedWorldSession(k) PROVE BoundAsCertified'
  BY <1>3 DEF UnbindAuthenticatedWorldSession, CertifiedInv, BoundAsCertified, TypeOK
<1>4. ASSUME NEW f \in flow, BindSession(f) PROVE BoundAsCertified'
  <2>1. f.key \in Key /\ f.char # None /\ BindAuthenticatedWorldSessionForLogin(f.key, f.account, f.char)
    BY <1>4 DEF BindSession, TypeOK, Request
  <2>2. <<f.account, f.char>> \in Owns
    BY <2>1 DEF CertifiedInv
  <2>3. CASE UNCHANGED authed
    BY <2>3 DEF CertifiedInv, BoundAsCertified
  <2>4. CASE ~UNCHANGED authed
    <3>1. authed'[f.key.sid].account = f.account /\ authed'[f.key.sid].char = f.char
          /\ \A s \in Sid \ {f.key.sid} : authed'[s] \in {authed[s], None}
      BY <2>1, <2>4, BindSlots
    <3> QED
      BY <2>2, <3>1 DEF CertifiedInv, BoundAsCertified
  <2> QED
    BY <2>3, <2>4
<1>5. ASSUME NEW k \in Key, NEW t \in Token, tokenKey[t] # None, ReconnectMoves(k, t)
      PROVE  BoundAsCertified'
  <2> DEFINE p == tokenKey[t]
  <2>1. /\ p \in Key /\ BoundAt(p)
        /\ authed'[k.sid].account = authed[p.sid].account
        /\ authed'[k.sid].char = authed[p.sid].char
        /\ \A s \in Sid \ {k.sid} : authed'[s] = IF s = p.sid THEN None ELSE authed[s]
    BY <1>5, ReconnectSlots
  <2> HIDE DEF p
  <2>2. p.sid \in Sid /\ <<authed[p.sid].account, authed[p.sid].char>> \in Owns
    BY <2>1 DEF CertifiedInv, BoundAsCertified, BoundAt, Key
  <2> QED
    BY <2>1, <2>2 DEF CertifiedInv, BoundAsCertified
<1>6. \A f \in flow : f.key \in Key
  BY DEF TypeOK, Request
<1>7. RunStrand => Head(strand).key \in Key
  <2>1. RunStrand => Head(strand) \in Task
    BY DEF RunStrand, TypeOK
  <2> QED
    BY <2>1 DEF Task
<1>8. BoundAsCertified'
  BY <1>2, <1>3, <1>4, <1>5, <1>6, <1>7, BoundStep
<1> QED
  BY <1>1, <1>8 DEF CertifiedInv

\* No session is ever bound to a character that the Account server did not
\* certify for its account.
THEOREM Certification == Spec => []BoundAsCertified
<1>1. Init => CertifiedInv
  BY DEF Init, CertifiedInv, BoundAsCertified
<1>2. CertifiedInv => BoundAsCertified
  BY DEF CertifiedInv
<1> QED
  BY <1>1, <1>2, CertifiedStep, TypeCorrect, PTL DEF Spec
-----------------------------------------------------------------------------
(* What a newer login does to the older sessions.                           *)

\* The tasks or callbacks of a queue.
Elems(q) == {q[i] : i \in 1 .. Len(q)}

LEMMA ElemsType ==
    ASSUME NEW S, NEW q \in Seq(S)
    PROVE  Elems(q) \subseteq S
BY DEF Elems

LEMMA ElemsAppend ==
    ASSUME NEW S, NEW q \in Seq(S), NEW x \in S
    PROVE  Elems(Append(q, x)) \subseteq Elems(q) \cup {x}
BY AppendProperties DEF Elems

LEMMA ElemsTail ==
    ASSUME NEW S, NEW q \in Seq(S), q # <<>>
    PROVE  Elems(Tail(q)) \subseteq Elems(q) /\ Head(q) \in Elems(q)
<1>1. Len(q) \in Nat \ {0} /\ Len(Tail(q)) = Len(q) - 1 /\ Head(q) = q[1]
      /\ \A i \in 1 .. Len(Tail(q)) : Tail(q)[i] = q[i + 1]
  BY HeadTailProperties, EmptySeq
<1> QED
  BY <1>1 DEF Elems

LEMMA ElemsConcat ==
    ASSUME NEW S, NEW q \in Seq(S), NEW r \in Seq(S)
    PROVE  Elems(q \o r) = Elems(q) \cup Elems(r)
<1>1. /\ Len(q) \in Nat /\ Len(r) \in Nat /\ Len(q \o r) = Len(q) + Len(r)
      /\ \A i \in 1 .. Len(q) + Len(r) :
            (q \o r)[i] = IF i <= Len(q) THEN q[i] ELSE r[i - Len(q)]
  BY ConcatProperties
<1>2. ASSUME NEW i \in 1 .. Len(q \o r) PROVE (q \o r)[i] \in Elems(q) \cup Elems(r)
  <2>1. CASE i <= Len(q)
    BY <1>1, <2>1 DEF Elems
  <2>2. CASE ~(i <= Len(q))
    <3>1. i - Len(q) \in 1 .. Len(r) /\ (q \o r)[i] = r[i - Len(q)]
      BY <1>1, <2>2
    <3> QED
      BY <3>1 DEF Elems
  <2> QED
    BY <2>1, <2>2
<1>3. ASSUME NEW i \in 1 .. Len(q) PROVE q[i] \in Elems(q \o r)
  <2>1. i \in 1 .. Len(q \o r) /\ (q \o r)[i] = q[i]
    BY <1>1
  <2> QED
    BY <2>1 DEF Elems
<1>4. ASSUME NEW i \in 1 .. Len(r) PROVE r[i] \in Elems(q \o r)
  <2>1. Len(q) + i \in 1 .. Len(q \o r) /\ (q \o r)[Len(q) + i] = r[i]
    BY <1>1
  <2> QED
    BY <2>1 DEF Elems
<1> QED
  BY <1>2, <1>3, <1>4 DEF Elems

LEMMA ElemsConsumed ==
    ASSUME NEW S, NEW q \in Seq(S), NEW i \in 1 .. Len(q)
    PROVE  Elems(SubSeq(q, 1, i - 1) \o SubSeq(q, i + 1, Len(q))) \subseteq Elems(q)
<1> DEFINE a == SubSeq(q, 1, i - 1)
           b == SubSeq(q, i + 1, Len(q))
<1>1. a \in Seq(S) /\ b \in Seq(S)
  BY SubSeqProperties
<1>2. Len(a) = i - 1 /\ \A j \in 1 .. i - 1 : a[j] = q[j]
  BY SubSeqProperties
<1>3. Len(b) = Len(q) - i /\ \A j \in 1 .. Len(q) - i : b[j] = q[i + j]
  BY SubSeqProperties
<1>4. Elems(a) \subseteq Elems(q)
  BY <1>2 DEF Elems
<1>5. Elems(b) \subseteq Elems(q)
  BY <1>3 DEF Elems
<1> HIDE DEF a, b
<1>6. Elems(a \o b) = Elems(a) \cup Elems(b)
  BY <1>1, ElemsConcat
<1> QED
  BY <1>4, <1>5, <1>6 DEF a, b

\* The sessions a bind finds through the character's and the account's index:
\* one each, and every one of them is kicked.
LEMMA KicksAll ==
    ASSUME TypeOK, NEW s \in Sid, NEW a \in Account, NEW c \in Char,
           NEW t \in OldCharSids(s, c) \cup OldAccountSids(s, a)
    PROVE  Kick(t) \in Elems(KickTasks(OldCharSids(s, c), OldAccountSids(s, a)))
<1> DEFINE C == OldCharSids(s, c)
           A == OldAccountSids(s, a)
           one(E) == IF E = {} THEN <<>> ELSE <<Kick(CHOOSE u \in E : TRUE)>>
<1>1. \A u \in C \cup A : u \in Sid /\ authed[u] # None /\ SessionKey(u).sid = u
  BY BoundSessionType DEF OldCharSids, OldAccountSids
<1>2. \A u, v \in C : u = v
  BY <1>1 DEF OldCharSids
<1>3. \A u, v \in A : u = v
  BY <1>1 DEF OldAccountSids
<1>4. \A u \in C \cup A : Kick(u) \in Task
  BY <1>1, BoundSessionType DEF Kick, Task, Reason
<1>5. KickTasks(C, A) = one(C) \o one(A \ C)
  BY DEF KickTasks
<1> HIDE DEF C, A
<1>6. one(C) \in Seq(Task) /\ one(A \ C) \in Seq(Task)
  <2>1. C # {} => Kick(CHOOSE u \in C : TRUE) \in Task
    BY <1>4
  <2>2. A \ C # {} => Kick(CHOOSE u \in A \ C : TRUE) \in Task
    BY <1>4
  <2> QED
    BY <2>1, <2>2
<1>7. ASSUME NEW E, \A u, v \in E : u = v, t \in E PROVE Kick(t) \in Elems(one(E))
  <2>1. (CHOOSE u \in E : TRUE) = t
    BY <1>7
  <2>2. one(E) = <<Kick(t)>>
    BY <1>7, <2>1
  <2>3. Kick(t) \in Elems(<<Kick(t)>>)
    BY DEF Elems
  <2> QED
    BY <2>2, <2>3, Zenon
<1> HIDE DEF one
<1>8. Elems(one(C) \o one(A \ C)) = Elems(one(C)) \cup Elems(one(A \ C))
  BY <1>6, ElemsConcat
<1>9. t \in C \/ t \in A \ C
  BY DEF C, A
<1>10. Kick(t) \in Elems(one(C)) \cup Elems(one(A \ C))
  BY <1>2, <1>3, <1>7, <1>9
<1> QED
  BY <1>5, <1>8, <1>10 DEF C, A

\* BindAuthenticatedWorldSessionForLogin: the session that a newer login takes
\* from another slot, for its character or for its account, is kicked.
EvictionKicks ==
    [][\A f \in flow, k \in Key :
         BindSession(f) /\ BoundAt(k) /\ k.sid # f.key.sid /\ ~BoundAt(k)' => KickQueued(k)']_vars

\* A newer login never ends a session of another slot without the kick that
\* tells and closes its connection.
THEOREM EvictionsKick == Spec => EvictionKicks
<1> SUFFICES ASSUME TypeOK
             PROVE  \A f \in flow, k \in Key :
                       BindSession(f) /\ BoundAt(k) /\ k.sid # f.key.sid /\ ~BoundAt(k)'
                         => KickQueued(k)'
  BY TypeCorrect, PTL DEF EvictionKicks
<1> SUFFICES ASSUME NEW f \in flow, NEW k \in Key,
                    BindSession(f), BoundAt(k), k.sid # f.key.sid, ~BoundAt(k)'
             PROVE  KickQueued(k)'
  OBVIOUS
<1> DEFINE C == OldCharSids(f.key.sid, f.char)
           A == OldAccountSids(f.key.sid, f.account)
<1>1. /\ f.key \in Key /\ f.key.sid \in Sid /\ f.account \in Account /\ f.char \in Char
      /\ k.sid \in Sid /\ BindAuthenticatedWorldSessionForLogin(f.key, f.account, f.char)
  <2>1. f \in Request /\ f.step = "Begun" /\ f.char # None
    BY DEF BindSession, TypeOK
  <2> QED
    BY <2>1 DEF Request, Key, BindSession
<1>2. authed'[k.sid] # authed[k.sid]
  BY DEF BoundAt
<1>3. k.sid \in C \cup A
  BY <1>1, <1>2, BindSlots
<1>4. strand' = strand \o KickTasks(C, A)
  BY <1>1, <1>2, Zenon DEF BindAuthenticatedWorldSessionForLogin, registry
<1>5. strand \in Seq(Task) /\ KickTasks(C, A) \in Seq(Task)
  BY <1>1, KickTasksType DEF TypeOK
<1>6. Kick(k.sid) \in Elems(KickTasks(C, A))
  BY <1>1, <1>3, KicksAll
<1> HIDE DEF C, A
<1>7. Kick(k.sid) \in Elems(strand')
  BY <1>4, <1>5, <1>6, ElemsConcat
<1>8. Kick(k.sid).kind = "Kick" /\ Kick(k.sid).key = k
  BY DEF Kick, SessionKey, KeyOf, BoundAt, Key
<1> QED
  BY <1>7, <1>8 DEF Elems, KickQueued
-----------------------------------------------------------------------------
(* Connections that are gone, and connections that are being closed.        *)

\* A connection that was accepted, and one that is not up any more.
Known(k) == k.serial <= serial[k.sid]
Gone(k)  == Known(k) /\ ~Live(k)

\* A kicked connection: its delayed close is armed, or it is being closed.
Doomed(k) == delayed[k] = "Kick" \/ k \in closing

\* ProcessDuplicateWorldSessionKickOnIo_ finds its delayed close reserved or armed
\* already, or arms it; the send of the kick may fail, its timer may fire before or
\* after a reconnect.  A connection in stage Closing that is still up has its close
\* armed or under way all the same.
ClosingIsDoomed == \A k \in Key : stage[k] = "Closing" /\ Live(k) => Doomed(k)

\* What is remembered of a connection is of one that was accepted, and the closes
\* that are queued or wait for the reconnect grace are of ones that are gone.
PastInv ==
    /\ \A s \in Sid : latest[s] <= serial[s]
    /\ \A f \in flow : Known(f.key)
    /\ \A s \in Sid : authed[s] # None => authed[s].serial <= serial[s]
    /\ \A e \in Elems(events) : Known(e.key) /\ (e.kind = "Disconnect" => Gone(e.key))
    /\ \A x \in Elems(strand) : Known(x.key) /\ (x.kind = "Closed" => Gone(x.key))
    /\ \A k \in Key : /\ stage[k] # "None" => Known(k)
                      /\ delayed[k] # "None" => Known(k)
                      /\ delayed[k] \in {"Reserved", "Grace"} => Gone(k)
    /\ ClosingIsDoomed

\* A connection that was accepted stays so, and one that is gone never comes back.
LEMMA LineMoves ==
    ASSUME TypeOK, [Next]_vars, NEW k \in Key
    PROVE  /\ Known(k) => Known(k)'
           /\ Gone(k) => Gone(k)'
           /\ Live(k)' => Live(k) \/ ~Known(k)
<1>0. k.sid \in Sid /\ k.serial \in Nat /\ serial[k.sid] \in Nat
  BY BoundAssumption DEF TypeOK, Key, Serial
<1>1. CASE UNCHANGED <<serial, open>>
  BY <1>1 DEF Known, Gone, Live
<1>2. ASSUME NEW s \in Sid, Accept(s)
      PROVE  /\ Known(k) => Known(k)'
             /\ Gone(k) => Gone(k)'
             /\ Live(k)' => Live(k) \/ ~Known(k)
  <2>1. ~open[s] /\ serial' = [serial EXCEPT ![s] = @ + 1] /\ open' = [open EXCEPT ![s] = TRUE]
    BY <1>2 DEF Accept
  <2>2. CASE k.sid = s
    <3>1. serial'[k.sid] = serial[k.sid] + 1
      BY <2>1, <2>2 DEF TypeOK
    <3> QED
      BY <1>0, <2>1, <2>2, <3>1 DEF Known, Gone, Live
  <2>3. CASE k.sid # s
    <3>1. serial'[k.sid] = serial[k.sid] /\ open'[k.sid] = open[k.sid]
      BY <1>0, <2>1, <2>3 DEF TypeOK
    <3> QED
      BY <3>1 DEF Known, Gone, Live
  <2> QED
    BY <2>2, <2>3
<1>3. ASSUME NEW j \in Key, SocketClose(j)
      PROVE  /\ Known(k) => Known(k)'
             /\ Gone(k) => Gone(k)'
             /\ Live(k)' => Live(k) \/ ~Known(k)
  <2>1. serial' = serial /\ open' = [open EXCEPT ![j.sid] = FALSE]
    BY <1>3 DEF SocketClose
  <2>2. open'[k.sid] => open[k.sid]
    BY <1>0, <2>1 DEF TypeOK
  <2> QED
    BY <2>1, <2>2 DEF Known, Gone, Live
<1>4. CASE \E r \in Char \cup {None} : Shard(r)
  <2>1. PICK i \in 1 .. Len(events) :
          \/ HandleConnected(i) \/ HandleDisconnected(i) \/ BeginPacket(i)
          \/ RequestConsumeWorldAuthTicket(i) \/ LogoutWorld(i) \/ TryReconnectWorldSession(i)
    BY <1>4 DEF Shard
  <2> QED
    BY <1>1, <2>1, QuietCases, ReconnectCases DEF HandleDisconnected
<1>5. CASE \E f \in flow : EnterStep(f)
  BY <1>1, <1>5 DEF EnterStep, OnWorldAuthTicketConsumeResponse, LoadSnapshot,
     TryBeginEnterWorldSession, BindSession, AssignMapInstance, OnZoneMapAssignResponse,
     OnZonePlayerEnterAck, transport
<1>6. CASE \/ \E j \in Key, m \in Message : PostPacket(j, m)
           \/ \E j \in Key : DelayedCloseFires(j)
  BY <1>1, <1>6 DEF PostPacket, DelayedCloseFires
<1>7. CASE RunStrand \/ UNCHANGED vars
  BY <1>1, <1>7 DEF RunStrand, ProcessDuplicateWorldSessionKick, CloseOnStrand,
                    ProcessWorldSessionClosed, vars, transport
<1> QED
  BY <1>2, <1>3, <1>4, <1>5, <1>6, <1>7 DEF Next

\* The requests and the bound sessions are of accepted connections.
LEMMA PastSessions ==
    ASSUME TypeOK, PastInv, [Next]_vars
    PROVE  /\ \A f \in flow' : Known(f.key)'
           /\ \A s \in Sid : authed'[s] # None => authed'[s].serial <= serial'[s]
<1>0. \A k \in Key : /\ k.sid \in Sid /\ k.serial \in Serial
                     /\ k.serial = latest[k.sid] => Known(k)
  BY DEF Key, Known, PastInv
<1>1. \A f \in flow : f.key \in Key /\ Known(f.key)
  BY DEF TypeOK, Request, PastInv
<1>2. \A g \in flow' : Known(g.key)'
  <2> SUFFICES ASSUME NEW g \in flow' PROVE Known(g.key)'
    OBVIOUS
  <2>1. g.key \in Key /\ Known(g.key)
    <3>1. \/ \E f \in flow : g.key = f.key
          \/ g.key \in Key /\ g.key.serial = latest[g.key.sid]
      BY RequestsFrom
    <3> QED
      BY <1>0, <1>1, <3>1
  <2> QED
    BY <2>1, LineMoves
<1>3. ASSUME NEW s \in Sid, NEW n \in Serial, n <= serial[s]
      PROVE  n <= serial'[s]
  <2> DEFINE k == [sid |-> s, serial |-> n]
  <2>1. k \in Key /\ k.sid = s /\ k.serial = n
    BY DEF Key
  <2> HIDE DEF k
  <2> QED
    BY <1>3, <2>1, LineMoves DEF Known
<1>4. \A s \in Sid : authed[s] # None => authed[s].serial \in Serial /\ authed[s].serial <= serial[s]
  BY DEF PastInv, TypeOK, Session
<1>5. ASSUME NEW s \in Sid, authed'[s] # None,
             authed'[s] = authed[s] \/ \E k \in Key : k.sid = s /\ Known(k) /\ authed'[s].serial = k.serial
      PROVE  authed'[s].serial <= serial'[s]
  BY <1>0, <1>3, <1>4, <1>5 DEF Known
<1>6. CASE \A s \in Sid : authed'[s] \in {authed[s], None}
  BY <1>2, <1>5, <1>6
<1>7. ASSUME NEW f \in flow, BindSession(f), NEW s \in Sid, authed'[s] # None
      PROVE  authed'[s].serial <= serial'[s]
  <2>1. f.key \in Key /\ BindAuthenticatedWorldSessionForLogin(f.key, f.account, f.char)
    BY <1>1, <1>7 DEF BindSession
  <2> QED
    BY <1>1, <1>5, <1>7, <2>1, BindSlots
<1>8. ASSUME NEW k \in Key, NEW t \in Token, k.serial = latest[k.sid], tokenKey[t] # None,
             ReconnectMoves(k, t), NEW s \in Sid, authed'[s] # None
      PROVE  authed'[s].serial <= serial'[s]
  <2>1. Known(k)
    BY <1>0, <1>8
  <2>2. authed'[k.sid].serial = k.serial
        /\ \A u \in Sid \ {k.sid} : authed'[u] \in {authed[u], None}
    BY <1>8, ReconnectSlots
  <2> QED
    BY <1>5, <1>8, <2>1, <2>2
<1>9. ASSUME NEW k, UnbindAuthenticatedWorldSession(k)
      PROVE  \A s \in Sid : authed'[s] \in {authed[s], None}
  BY <1>9 DEF UnbindAuthenticatedWorldSession, TypeOK
<1> QED
  BY <1>2, <1>6, <1>7, <1>8, <1>9, BoundStep

\* The callbacks that are posted are of accepted connections, and the disconnects
\* among them of connections that are gone.
LEMMA PastEvents ==
    ASSUME TypeOK, PastInv, [Next]_vars, NEW e \in Elems(events')
    PROVE  Known(e.key)' /\ (e.kind = "Disconnect" => Gone(e.key)')
<1>0. events \in Seq(Event) /\ \A x \in Elems(events) : x.key \in Key
  <2>1. events \in Seq(Event) /\ Elems(events) \subseteq Event
    BY ElemsType DEF TypeOK
  <2> QED
    BY <2>1 DEF Event
<1>1. CASE Elems(events') \subseteq Elems(events)
  BY <1>0, <1>1, LineMoves DEF PastInv
<1>2. ASSUME NEW s \in Sid, Accept(s) PROVE Known(e.key)' /\ (e.kind = "Disconnect" => Gone(e.key)')
  <2> DEFINE x == [kind |-> "Connect", key |-> KeyOf(s, serial[s] + 1), route |-> FindCharIdBySession(s)]
  <2>1. serial[s] + 1 \in Serial /\ serial'[s] = serial[s] + 1
    <3>1. serial[s] \in 0 .. MaxSerial /\ serial[s] < MaxSerial /\ MaxSerial \in Nat
          /\ serial' = [serial EXCEPT ![s] = serial[s] + 1]
      BY <1>2, BoundAssumption DEF Accept, TypeOK
    <3>2. serial'[s] = serial[s] + 1
      BY <3>1 DEF TypeOK
    <3> QED
      BY <3>1, <3>2 DEF Serial
  <2>2. KeyOf(s, serial[s] + 1) \in Key /\ KeyOf(s, serial[s] + 1).sid = s
        /\ KeyOf(s, serial[s] + 1).serial = serial[s] + 1
    BY <2>1 DEF KeyOf, Key
  <2>3. FindCharIdBySession(s) \in Char \cup {None}
    BY DEF FindCharIdBySession, TypeOK, Session
  <2>4. x \in Event /\ x.kind = "Connect" /\ x.key = KeyOf(s, serial[s] + 1)
    BY <2>2, <2>3 DEF Event
  <2>5. events' = Append(events, x)
    BY <1>2, <2>2 DEF Accept, Post
  <2> HIDE DEF x
  <2>6. e \in Elems(events) \/ e = x
    BY <1>0, <2>4, <2>5, ElemsAppend
  <2>7. CASE e \in Elems(events)
    BY <1>0, <2>7, LineMoves DEF PastInv
  <2>8. CASE e = x
    <3>1. e.key.serial = serial'[e.key.sid] /\ serial'[e.key.sid] \in Nat
      BY <2>1, <2>2, <2>4, <2>8 DEF Serial
    <3> QED
      BY <2>4, <2>8, <3>1 DEF Known
  <2> QED
    BY <2>6, <2>7, <2>8
<1>3. ASSUME NEW k \in Key, SocketClose(k) PROVE Known(e.key)' /\ (e.kind = "Disconnect" => Gone(e.key)')
  <2> DEFINE x == [kind |-> "Disconnect", key |-> k, route |-> FindCharIdBySession(k.sid)]
  <2>1. k.sid \in Sid /\ Live(k) /\ k.serial \in Nat
    BY <1>3 DEF SocketClose, Key, Serial
  <2>2. FindCharIdBySession(k.sid) \in Char \cup {None}
    BY <2>1 DEF FindCharIdBySession, TypeOK, Session
  <2>3. x \in Event /\ x.key = k
    BY <2>2 DEF Event
  <2>4. events' = Append(events, x) /\ serial' = serial /\ open' = [open EXCEPT ![k.sid] = FALSE]
    BY <1>3 DEF SocketClose, Post
  <2> HIDE DEF x
  <2>5. Gone(k)'
    BY <2>1, <2>4 DEF Gone, Known, Live, TypeOK
  <2>6. e \in Elems(events) \/ e = x
    BY <1>0, <2>3, <2>4, ElemsAppend
  <2>7. CASE e \in Elems(events)
    BY <1>0, <2>7, LineMoves DEF PastInv
  <2> QED
    BY <2>3, <2>5, <2>6, <2>7 DEF Gone
<1>4. ASSUME NEW r, Shard(r) PROVE Known(e.key)' /\ (e.kind = "Disconnect" => Gone(e.key)')
  <2>1. PICK i \in 1 .. Len(events) : Consumed(i) \/ BeginPacket(i)
    BY <1>4 DEF Shard, HandleConnected, HandleDisconnected, RequestConsumeWorldAuthTicket,
                LogoutWorld, TryReconnectWorldSession, Packet
  <2>2. CASE Consumed(i)
    BY <1>0, <1>1, <2>2, ElemsConsumed DEF Consumed
  <2>3. CASE BeginPacket(i)
    <3>1. events' = [events EXCEPT ![i] = [events[i] EXCEPT !.begun = TRUE]]
          /\ events[i] \in Event /\ events[i].kind = "Packet"
      BY <2>3, EventFields DEF BeginPacket
    <3>2. PICK j \in 1 .. Len(events) : e = events'[j]
      BY <1>0, <3>1 DEF Elems
    <3>3. e.key = events[j].key /\ e.kind = events[j].kind
      BY <1>0, <3>1, <3>2 DEF Event
    <3>4. events[j] \in Elems(events)
      BY DEF Elems
    <3>5. PICK x \in Elems(events) : e.key = x.key /\ e.kind = x.kind
      BY <3>3, <3>4
    <3> QED
      BY <1>0, <3>5, LineMoves DEF PastInv
  <2> QED
    BY <2>1, <2>2, <2>3
<1>8. ASSUME NEW k \in Key, NEW m \in Message, PostPacket(k, m)
      PROVE  Known(e.key)' /\ (e.kind = "Disconnect" => Gone(e.key)')
  <2> DEFINE x == [kind |-> "Packet", key |-> k, route |-> FindCharIdBySession(k.sid),
                   msg |-> m, begun |-> FALSE]
  <2>1. k.sid \in Sid /\ Live(k) /\ k.serial \in Nat
    BY <1>8 DEF PostPacket, Key, Serial
  <2>2. FindCharIdBySession(k.sid) \in Char \cup {None}
    BY <2>1 DEF FindCharIdBySession, TypeOK, Session
  <2>3. x \in Event /\ x.key = k /\ x.kind = "Packet"
    BY <2>2 DEF Event
  <2>4. events' = Append(events, x)
    BY <1>8 DEF PostPacket
  <2> HIDE DEF x
  <2>5. Known(k)'
    BY <2>1, LineMoves DEF Known, Live
  <2>6. e \in Elems(events) \/ e = x
    BY <1>0, <2>3, <2>4, ElemsAppend
  <2>7. CASE e \in Elems(events)
    BY <1>0, <2>7, LineMoves DEF PastInv
  <2> QED
    BY <2>3, <2>5, <2>6, <2>7
<1>5. CASE UNCHANGED events
  BY <1>1, <1>5
<1>6. CASE \E f \in flow : EnterStep(f)
  BY <1>5, <1>6 DEF EnterStep, OnWorldAuthTicketConsumeResponse, LoadSnapshot,
     TryBeginEnterWorldSession, BindSession, AssignMapInstance, OnZoneMapAssignResponse,
     OnZonePlayerEnterAck, transport
<1>7. CASE \/ \E j \in Key : DelayedCloseFires(j)
           \/ RunStrand \/ UNCHANGED vars
  BY <1>5, <1>7 DEF DelayedCloseFires, RunStrand, ProcessDuplicateWorldSessionKick,
                    CloseOnStrand, ProcessWorldSessionClosed, vars, transport
<1> QED
  BY <1>2, <1>3, <1>4, <1>6, <1>7, <1>8 DEF Next

\* The latest serial a slot is known by is one it has given out.
LEMMA PastLatest ==
    ASSUME TypeOK, PastInv, [Next]_vars, NEW s \in Sid
    PROVE  latest'[s] <= serial'[s]
<1>0. latest[s] \in Nat /\ serial[s] \in Nat /\ latest[s] <= serial[s]
  BY DEF TypeOK, PastInv
<1>1. serial[s] <= serial'[s] /\ serial'[s] \in Nat
  <2>1. serial'[s] \in Nat
    BY TypeStep DEF TypeOK
  <2>2. CASE serial[s] = 0
    BY <2>1, <2>2
  <2>3. CASE serial[s] # 0
    <3> DEFINE k == [sid |-> s, serial |-> serial[s]]
    <3>0. serial[s] \in Serial
      BY <1>0, <2>3 DEF TypeOK, Serial
    <3>1. k \in Key /\ k.sid = s /\ k.serial = serial[s]
      BY <3>0 DEF Key
    <3> HIDE DEF k
    <3>2. PICK j \in Key : j.sid = s /\ j.serial = serial[s]
      BY <3>1
    <3> QED
      BY <1>0, <2>1, <3>2, LineMoves DEF Known
  <2> QED
    BY <2>2, <2>3
<1>2. CASE latest'[s] = latest[s]
  BY <1>0, <1>1, <1>2
<1>3. ASSUME NEW i \in 1 .. Len(events), HandleConnected(i) \/ BeginPacket(i)
      PROVE  latest'[s] <= serial'[s]
  <2>1. latest' = [latest EXCEPT ![events[i].key.sid] = events[i].key.serial] /\ serial' = serial
    BY <1>3 DEF HandleConnected, BeginPacket
  <2>2. events[i].key.serial <= serial[events[i].key.sid]
    <3>1. events[i] \in Elems(events)
      BY DEF Elems
    <3> QED
      BY <3>1 DEF PastInv, Known
  <2> QED
    BY <1>0, <2>1, <2>2 DEF TypeOK
<1>4. ASSUME NEW i \in 1 .. Len(events), HandleDisconnected(i)
      PROVE  latest'[s] <= serial'[s]
  <2>1. latest'[s] \in {latest[s], 0} /\ serial' = serial
    BY <1>4 DEF HandleDisconnected, TypeOK
  <2> QED
    BY <1>0, <2>1
<1>5. ASSUME NEW r, Shard(r)
      PROVE  latest'[s] <= serial'[s]
  <2>1. PICK i \in 1 .. Len(events) :
          \/ HandleConnected(i) \/ HandleDisconnected(i) \/ BeginPacket(i)
          \/ RequestConsumeWorldAuthTicket(i) \/ LogoutWorld(i) \/ TryReconnectWorldSession(i)
    BY <1>5 DEF Shard
  <2>2. \/ HandleConnected(i) \/ HandleDisconnected(i) \/ BeginPacket(i)
        \/ latest' = latest
    BY <2>1 DEF RequestConsumeWorldAuthTicket, LogoutWorld, TryReconnectWorldSession, Packet
  <2> QED
    BY <1>2, <1>3, <1>4, <2>2
<1>6. CASE \E f \in flow : EnterStep(f)
  BY <1>2, <1>6 DEF EnterStep, OnWorldAuthTicketConsumeResponse, LoadSnapshot,
     TryBeginEnterWorldSession, BindSession, AssignMapInstance, OnZoneMapAssignResponse,
     OnZonePlayerEnterAck, transport
<1>7. CASE \/ \E u \in Sid : Accept(u)
           \/ \E j \in Key : SocketClose(j) \/ DelayedCloseFires(j)
           \/ \E j \in Key, m \in Message : PostPacket(j, m)
           \/ RunStrand \/ UNCHANGED vars
  BY <1>2, <1>7 DEF Accept, SocketClose, PostPacket, DelayedCloseFires, RunStrand,
     ProcessDuplicateWorldSessionKick, CloseOnStrand, ProcessWorldSessionClosed, vars, transport
<1> QED
  BY <1>5, <1>6, <1>7 DEF Next

\* A bind kicks only sessions that are bound.
LEMMA KicksBound ==
    ASSUME TypeOK, NEW s \in Sid, NEW a \in Account, NEW c \in Char,
           NEW x \in Elems(KickTasks(OldCharSids(s, c), OldAccountSids(s, a)))
    PROVE  \E u \in Sid : authed[u] # None /\ x = Kick(u)
<1> DEFINE C == OldCharSids(s, c)
           A == OldAccountSids(s, a)
           one(E) == IF E = {} THEN <<>> ELSE <<Kick(CHOOSE t \in E : TRUE)>>
<1>1. \A u \in C \cup A : u \in Sid /\ authed[u] # None /\ Kick(u) \in Task
  BY BoundSessionType DEF OldCharSids, OldAccountSids, Kick, Task, Reason
<1>2. KickTasks(C, A) = one(C) \o one(A \ C)
  BY DEF KickTasks
<1> HIDE DEF C, A
<1>3. ASSUME NEW E \in SUBSET (C \cup A)
      PROVE  one(E) \in Seq(Task) /\ \A y \in Elems(one(E)) : \E u \in E : y = Kick(u)
  <2>1. CASE E = {}
    BY <2>1 DEF Elems
  <2>2. CASE E # {}
    <3>1. PICK u \in E : one(E) = <<Kick(u)>>
      BY <2>2
    <3>2. Elems(<<Kick(u)>>) = {Kick(u)}
      BY DEF Elems
    <3>3. <<Kick(u)>> \in Seq(Task)
      BY <1>1
    <3> HIDE DEF one
    <3> QED
      BY <3>1, <3>2, <3>3, Zenon
  <2> QED
    BY <2>1, <2>2
<1> HIDE DEF one
<1>4. Elems(one(C) \o one(A \ C)) = Elems(one(C)) \cup Elems(one(A \ C))
  BY <1>3, ElemsConcat
<1>5. x \in Elems(one(C)) \cup Elems(one(A \ C))
  BY <1>2, <1>4 DEF C, A
<1>6. PICK u \in C \cup A : x = Kick(u)
  BY <1>3, <1>5
<1> QED
  BY <1>1, <1>6

\* The tasks of the strand are of accepted connections, and the closes among them
\* of connections that are gone.
LEMMA PastStrand ==
    ASSUME TypeOK, PastInv, [Next]_vars, NEW x \in Elems(strand')
    PROVE  Known(x.key)' /\ (x.kind = "Closed" => Gone(x.key)')
<1>0. strand \in Seq(Task) /\ \A y \in Elems(strand) : y.key \in Key
  <2>1. strand \in Seq(Task) /\ Elems(strand) \subseteq Task
    BY ElemsType DEF TypeOK
  <2> QED
    BY <2>1 DEF Task
<1>1. CASE x \in Elems(strand)
  BY <1>0, <1>1, LineMoves DEF PastInv
<1>2. ASSUME NEW f \in flow, BindSession(f) PROVE Known(x.key)' /\ (x.kind = "Closed" => Gone(x.key)')
  <2> DEFINE q == KickTasks(OldCharSids(f.key.sid, f.char), OldAccountSids(f.key.sid, f.account))
  <2>1. /\ f.key.sid \in Sid /\ f.account \in Account /\ f.char \in Char
        /\ BindAuthenticatedWorldSessionForLogin(f.key, f.account, f.char)
    <3>1. f \in Request /\ f.step = "Begun" /\ f.char # None
      BY <1>2 DEF BindSession, TypeOK
    <3> QED
      BY <1>2, <3>1 DEF Request, Key, BindSession
  <2>2. strand' = strand \/ strand' = strand \o q
    BY <2>1, Zenon DEF BindAuthenticatedWorldSessionForLogin
  <2>3. q \in Seq(Task)
    BY <2>1, KickTasksType
  <2>4. ASSUME x \in Elems(q) PROVE Known(x.key)' /\ x.kind # "Closed"
    <3>1. PICK u \in Sid : authed[u] # None /\ x = Kick(u)
      BY <2>1, <2>4, KicksBound
    <3>2. x.kind = "Kick" /\ x.key \in Key /\ x.key.sid = u /\ x.key.serial = authed[u].serial
      BY <3>1, BoundSessionType DEF Kick
    <3>3. Known(x.key)
      BY <3>1, <3>2 DEF Known, PastInv
    <3> QED
      BY <3>2, <3>3, LineMoves
  <2> HIDE DEF q
  <2>5. Elems(strand \o q) = Elems(strand) \cup Elems(q)
    BY <1>0, <2>3, ElemsConcat
  <2>6. x \in Elems(strand) \/ x \in Elems(q)
    BY <2>2, <2>5
  <2> QED
    BY <1>1, <2>4, <2>6
<1>3. ASSUME NEW i \in 1 .. Len(events), HandleDisconnected(i)
      PROVE  Known(x.key)' /\ (x.kind = "Closed" => Gone(x.key)')
  <2> DEFINE k == events[i].key
             y == [kind |-> "Closed", key |-> k, reason |-> reason[k]]
  <2>0. events[i] \in Elems(events)
    BY DEF Elems
  <2>1. events[i] \in Event /\ events[i] \in Elems(events) /\ events[i].kind = "Disconnect"
    BY <1>3, <2>0 DEF TypeOK, HandleDisconnected
  <2>2. k \in Key /\ Gone(k)
    BY <2>1 DEF Event, PastInv
  <2>3. y \in Task /\ y.key = k
    BY <2>2 DEF Task, TypeOK
  <2>4. strand' = strand \/ strand' = Append(strand, y)
    BY <1>3 DEF HandleDisconnected
  <2> HIDE DEF k, y
  <2>5. Elems(Append(strand, y)) \subseteq Elems(strand) \cup {y}
    BY <1>0, <2>3, ElemsAppend
  <2>6. x \in Elems(strand) \/ x = y
    BY <2>4, <2>5
  <2>7. CASE x = y
    <3>1. x.key \in Key /\ Gone(x.key)
      BY <2>2, <2>3, <2>7
    <3> QED
      BY <3>1, LineMoves DEF Gone
  <2> QED
    BY <1>1, <2>6, <2>7
<1>4. CASE RunStrand
  BY <1>0, <1>1, <1>4, ElemsTail DEF RunStrand
<1>5. CASE UNCHANGED strand
  BY <1>1, <1>5
<1>6. CASE \E f \in flow : EnterStep(f)
  BY <1>2, <1>5, <1>6 DEF EnterStep, OnWorldAuthTicketConsumeResponse, LoadSnapshot,
     TryBeginEnterWorldSession, AssignMapInstance, OnZoneMapAssignResponse, OnZonePlayerEnterAck
<1>7. CASE \E r \in Char \cup {None} : Shard(r)
  <2>1. PICK i \in 1 .. Len(events) :
          \/ HandleConnected(i) \/ HandleDisconnected(i) \/ BeginPacket(i)
          \/ RequestConsumeWorldAuthTicket(i) \/ LogoutWorld(i) \/ TryReconnectWorldSession(i)
    BY <1>7 DEF Shard
  <2>2. HandleDisconnected(i) \/ UNCHANGED strand
    BY <2>1, QuietCases, ReconnectCases
  <2> QED
    BY <1>3, <1>5, <2>2
<1>8. CASE \/ \E s \in Sid : Accept(s)
           \/ \E j \in Key : SocketClose(j) \/ DelayedCloseFires(j)
           \/ \E j \in Key, m \in Message : PostPacket(j, m)
           \/ UNCHANGED vars
  BY <1>5, <1>8 DEF Accept, SocketClose, PostPacket, DelayedCloseFires, vars
<1> QED
  BY <1>4, <1>6, <1>7, <1>8 DEF Next

\* A step that starts no kick and no close on the strand, makes no connection's
\* stage Closing and arms no delayed close.
LEMMA PastFrame ==
    ASSUME TypeOK, PastInv, [Next]_vars, NEW k \in Key,
           stage'[k] # "None" => Known(k),
           stage'[k] = "Closing" => stage[k] = "Closing",
           delayed'[k] \in {delayed[k], "None"},
           Doomed(k) /\ stage'[k] = "Closing" /\ Live(k)' => Doomed(k)'
    PROVE  /\ stage'[k] # "None" => Known(k)'
           /\ delayed'[k] # "None" => Known(k)'
           /\ delayed'[k] \in {"Reserved", "Grace"} => Gone(k)'
           /\ stage'[k] = "Closing" /\ Live(k)' => Doomed(k)'
<1>1. /\ delayed[k] # "None" => Known(k)
      /\ delayed[k] \in {"Reserved", "Grace"} => Gone(k)
      /\ stage[k] # "None" => Known(k)
      /\ stage[k] = "Closing" /\ Live(k) => Doomed(k)
  BY DEF PastInv, ClosingIsDoomed
<1>2. /\ Known(k) => Known(k)'
      /\ Gone(k) => Gone(k)'
      /\ Live(k)' => Live(k) \/ ~Known(k)
  BY LineMoves
<1> QED
  BY <1>1, <1>2

\* The stages and delayed closes of an enter's steps.
LEMMA EnterStages ==
    ASSUME TypeOK, PastInv, NEW f \in flow, EnterStep(f), NEW k \in Key
    PROVE  /\ stage'[k] # "None" => Known(k)
           /\ stage'[k] = "Closing" => stage[k] = "Closing"
           /\ UNCHANGED <<delayed, closing>>
<1>1. f.key \in Key /\ Known(f.key)
  BY DEF TypeOK, Request, PastInv
<1>2. stage[k] # "None" => Known(k)
  BY DEF PastInv
<1>3. CASE UNCHANGED stage
  BY <1>2, <1>3 DEF EnterStep, OnWorldAuthTicketConsumeResponse, LoadSnapshot,
     TryBeginEnterWorldSession, BindSession, AssignMapInstance, OnZoneMapAssignResponse,
     OnZonePlayerEnterAck, transport
<1>4. UNCHANGED <<delayed, closing>>
  BY DEF EnterStep, OnWorldAuthTicketConsumeResponse, LoadSnapshot,
     TryBeginEnterWorldSession, BindSession, AssignMapInstance, OnZoneMapAssignResponse,
     OnZonePlayerEnterAck, transport
<1>5. \/ UNCHANGED stage
      \/ \E g \in {"None", "EnterPending", "InWorld"} : stage' = [stage EXCEPT ![f.key] = g]
  <2>1. RollbackBoundEnterWorld(f.key, f.char)
          => UNCHANGED stage \/ stage' = [stage EXCEPT ![f.key] = "None"]
    BY DEF RollbackBoundEnterWorld, UnbindAuthenticatedWorldSession, CancelPendingEnterWorldSession
  <2> QED
    BY <2>1 DEF EnterStep, OnWorldAuthTicketConsumeResponse, LoadSnapshot,
     TryBeginEnterWorldSession, BindSession, AssignMapInstance, OnZoneMapAssignResponse,
     OnZonePlayerEnterAck, PromoteEnterWorldSessionToInWorld, CancelPendingEnterWorldSession,
     enter
<1>6. ASSUME NEW g \in {"None", "EnterPending", "InWorld"}, stage' = [stage EXCEPT ![f.key] = g]
      PROVE  /\ stage'[k] # "None" => Known(k)
             /\ stage'[k] = "Closing" => stage[k] = "Closing"
  BY <1>1, <1>2, <1>6 DEF TypeOK
<1> QED
  BY <1>3, <1>4, <1>5, <1>6

\* The stages and delayed closes of what the strand runs.
LEMMA StrandStages ==
    ASSUME TypeOK, PastInv, RunStrand, NEW k \in Key
    PROVE  /\ UNCHANGED <<serial, open, closing>>
           /\ \/ stage'[k] \in {stage[k], "None"} /\ delayed'[k] \in {delayed[k], "None"}
              \/ stage'[k] \in {stage[k], "None"} /\ delayed'[k] = "Grace" /\ Gone(k)
              \/ /\ Known(k)
                 /\ Live(k) => delayed'[k] = "Kick"
                 /\ delayed'[k] = delayed[k] \/ Live(k) \/ Gone(k)
           /\ (delayed[k] # "None" /\ delayed'[k] = "None") => Gone(k)
<1> DEFINE x == Head(strand)
<1>1. x \in Task /\ x \in Elems(strand)
  BY ElemsTail DEF RunStrand, TypeOK
<1>2. x.key \in Key /\ Known(x.key) /\ (x.kind = "Closed" => Gone(x.key))
  BY <1>1 DEF Task, PastInv
<1>3. \/ x.kind = "Kick" /\ ProcessDuplicateWorldSessionKick(x.key)
      \/ x.kind = "Closed" /\ CloseOnStrand(x.key, x.reason)
  BY Zenon DEF RunStrand
<1>4. UNCHANGED <<serial, open, closing>>
  BY <1>3 DEF ProcessDuplicateWorldSessionKick, CloseOnStrand, ProcessWorldSessionClosed, transport
<1> HIDE DEF x
<1>5. stage \in [Key -> Stage] /\ delayed \in [Key -> Delayed]
      /\ (delayed[k] \in {"Reserved", "Grace"} => ~Live(k))
  BY DEF TypeOK, PastInv, Gone
<1>6. CASE x.kind = "Kick" /\ ProcessDuplicateWorldSessionKick(x.key)
  <2>1. /\ stage' = [stage EXCEPT ![x.key] = "Closing"]
        /\ delayed' = IF delayed[x.key] = "None"
                      THEN [delayed EXCEPT ![x.key] = IF Live(x.key) THEN "Kick" ELSE "Reserved"]
                      ELSE delayed
    BY <1>6 DEF ProcessDuplicateWorldSessionKick
  <2>2. CASE k # x.key
    BY <1>2, <1>4, <1>5, <2>1, <2>2
  <2>3. CASE k = x.key
    <3>1. delayed'[k] = IF delayed[k] = "None" THEN (IF Live(k) THEN "Kick" ELSE "Reserved")
                        ELSE delayed[k]
      BY <1>5, <2>1, <2>3
    <3>2. delayed[k] \in {"None", "Reserved", "Grace", "Kick"}
      BY <1>5 DEF Delayed
    <3> QED
      BY <1>2, <1>4, <1>5, <2>3, <3>1, <3>2 DEF Gone
  <2> QED
    BY <2>2, <2>3
<1>7. CASE x.kind = "Closed" /\ CloseOnStrand(x.key, x.reason)
  <2>1. Gone(x.key)
    BY <1>2, <1>7
  <2>2. CASE stage' = stage /\ delayed' = [delayed EXCEPT ![x.key] = "Grace"]
    BY <1>2, <1>4, <1>5, <2>1, <2>2
  <2>3. CASE (stage' = stage \/ stage' = [stage EXCEPT ![x.key] = "None"])
             /\ delayed' = [delayed EXCEPT ![x.key] = "None"]
    BY <1>2, <1>4, <1>5, <2>1, <2>3
  <2> QED
    BY <1>7, <2>2, <2>3 DEF CloseOnStrand, ProcessWorldSessionClosed,
       UnbindAuthenticatedWorldSession, enter
<1> QED
  BY <1>3, <1>6, <1>7

\* Stages and delayed closes are of accepted connections, the closes that wait for
\* a reconnect of ones that are gone, and a connection in stage Closing is doomed.
LEMMA PastStages ==
    ASSUME TypeOK, PastInv, [Next]_vars, NEW k \in Key
    PROVE  /\ stage'[k] # "None" => Known(k)'
           /\ delayed'[k] # "None" => Known(k)'
           /\ delayed'[k] \in {"Reserved", "Grace"} => Gone(k)'
           /\ stage'[k] = "Closing" /\ Live(k)' => Doomed(k)'
<1> DEFINE P == /\ stage'[k] # "None" => Known(k)'
                /\ delayed'[k] # "None" => Known(k)'
                /\ delayed'[k] \in {"Reserved", "Grace"} => Gone(k)'
                /\ stage'[k] = "Closing" /\ Live(k)' => Doomed(k)'
           Q == /\ stage'[k] # "None" => Known(k)
                /\ stage'[k] = "Closing" => stage[k] = "Closing"
                /\ delayed'[k] \in {delayed[k], "None"}
                /\ Doomed(k) /\ stage'[k] = "Closing" /\ Live(k)' => Doomed(k)'
<1>0. Q => P
  BY PastFrame
<1>1. stage[k] # "None" => Known(k)
  BY DEF PastInv
<1>2. CASE UNCHANGED <<stage, delayed, closing>>
  <2>1. Q
    BY <1>1, <1>2 DEF Doomed
  <2> QED
    BY <1>0, <2>1
<1>3. ASSUME NEW j \in Key, SocketClose(j) PROVE P
  <2>1. stage' = stage /\ delayed' = delayed /\ closing' = closing \ {j}
        /\ open' = [open EXCEPT ![j.sid] = FALSE]
    BY <1>3 DEF SocketClose, enter
  <2>2. k = j => ~Live(k)'
    BY <2>1 DEF Live, TypeOK, Key
  <2>3. Q
    BY <1>1, <2>1, <2>2 DEF Doomed
  <2> QED
    BY <1>0, <2>3
<1>4. ASSUME NEW i \in 1 .. Len(events), HandleDisconnected(i) PROVE P
  <2>1. events[i].key \in Key
    BY EventFields
  <2>2. /\ stage' = stage \/ stage' = [stage EXCEPT ![events[i].key] = "None"]
        /\ UNCHANGED <<delayed, closing>>
    BY <1>4 DEF HandleDisconnected, enter
  <2>3. stage'[k] \in {stage[k], "None"}
    BY <2>1, <2>2 DEF TypeOK
  <2>4. Q
    BY <1>1, <2>2, <2>3 DEF Doomed
  <2> QED
    BY <1>0, <2>4
<1>5. ASSUME NEW f \in flow, EnterStep(f) PROVE P
  <2>1. Q
    BY <1>5, EnterStages DEF Doomed
  <2> QED
    BY <1>0, <2>1
<1>6. ASSUME UNCHANGED <<stage, delayed>>, closing \subseteq closing' PROVE P
  <2>1. Q
    BY <1>1, <1>6 DEF Doomed
  <2> QED
    BY <1>0, <2>1
<1>7. ASSUME NEW j \in Key, NEW t \in Token, tokenKey[t] # None, ReconnectMoves(j, t),
             j.serial = latest[j.sid], closing' = closing
      PROVE  P
  <2> DEFINE p == tokenKey[t]
  <2>1. p \in Key /\ closing' = closing
    BY <1>7 DEF TypeOK
  <2>2. Known(j)
    BY <1>7 DEF Known, Key, PastInv
  <2>3. /\ stage' = [[stage EXCEPT ![p] = "None"] EXCEPT ![j] = "InWorld"]
        /\ delayed' = [delayed EXCEPT ![p] = "None"]
    BY <1>7, Zenon DEF ReconnectMoves
  <2> HIDE DEF p
  <2>4. stage'[k] = IF k = j THEN "InWorld" ELSE IF k = p THEN "None" ELSE stage[k]
    BY <2>1, <2>3 DEF TypeOK
  <2>5. delayed'[k] = IF k = p THEN "None" ELSE delayed[k]
    BY <2>1, <2>3 DEF TypeOK
  <2>6. Q
    BY <1>1, <2>1, <2>2, <2>4, <2>5 DEF Doomed
  <2> QED
    BY <1>0, <2>6
<1>8. CASE RunStrand
  <2>1. /\ Known(k) => Known(k)'
        /\ Gone(k) => Gone(k)'
    BY LineMoves
  <2>2. /\ UNCHANGED <<serial, open, closing>>
        /\ \/ stage'[k] \in {stage[k], "None"} /\ delayed'[k] \in {delayed[k], "None"}
           \/ stage'[k] \in {stage[k], "None"} /\ delayed'[k] = "Grace" /\ Gone(k)
           \/ /\ Known(k)
              /\ Live(k) => delayed'[k] = "Kick"
              /\ delayed'[k] = delayed[k] \/ Live(k) \/ Gone(k)
        /\ (delayed[k] # "None" /\ delayed'[k] = "None") => Gone(k)
    BY <1>8, StrandStages
  <2>3. Live(k)' = Live(k)
    BY <2>2 DEF Live
  <2>4. CASE stage'[k] \in {stage[k], "None"} /\ delayed'[k] \in {delayed[k], "None"}
    <3>1. Q
      BY <1>1, <2>2, <2>3, <2>4 DEF Doomed, Gone
    <3> QED
      BY <1>0, <3>1
  <2>5. CASE stage'[k] \in {stage[k], "None"} /\ delayed'[k] = "Grace" /\ Gone(k)
    BY <1>1, <2>1, <2>3, <2>5 DEF Gone
  <2>6. CASE /\ Known(k)
             /\ Live(k) => delayed'[k] = "Kick"
             /\ delayed'[k] = delayed[k] \/ Live(k) \/ Gone(k)
    <3>1. delayed'[k] \in {"Reserved", "Grace"} => Gone(k)
      BY <2>6 DEF PastInv
    <3> QED
      BY <1>1, <2>1, <2>3, <2>6, <3>1 DEF Doomed
  <2> QED
    BY <2>2, <2>4, <2>5, <2>6
<1>9. ASSUME NEW j \in Key, DelayedCloseFires(j) PROVE P
  <2>1. stage' = stage /\ delayed' = [delayed EXCEPT ![j] = "None"]
        /\ closing' = (IF Live(j) THEN closing \cup {j} ELSE closing)
        /\ UNCHANGED <<serial, open>>
    BY <1>9 DEF DelayedCloseFires, Close, enter
  <2>2. delayed'[k] = IF k = j THEN "None" ELSE delayed[k]
    BY <2>1 DEF TypeOK
  <2>3. Live(k)' = Live(k)
    BY <2>1 DEF Live
  <2>4. Q
    BY <1>1, <2>1, <2>2, <2>3 DEF Doomed
  <2> QED
    BY <1>0, <2>4
<1>10. CASE \/ \E s \in Sid : Accept(s)
            \/ \E j \in Key, m \in Message : PostPacket(j, m)
            \/ UNCHANGED vars
  BY <1>2, <1>10 DEF Accept, PostPacket, enter, vars, transport
<1>11. ASSUME NEW i \in 1 .. Len(events), TryReconnectWorldSession(i) PROVE P
  <2>1. closing' = closing
    BY <1>11, ReconnectCases
  <2>2. UNCHANGED <<registry, enter, reason, delayed>> => P
    BY <1>2, <2>1 DEF enter
  <2>3. \A t \in Token : Forgets(t) => P
    BY <1>2, <2>1 DEF Forgets, enter
  <2>4. \A j \in Key, t \in Token :
          tokenKey[t] # None /\ ReconnectMoves(j, t) /\ j.serial = latest[j.sid] => P
    BY <1>7, <2>1
  <2> HIDE DEF P
  <2> QED
    BY <1>11, <2>2, <2>3, <2>4, ReconnectCases
<1>12. ASSUME NEW r, Shard(r) PROVE P
  <2>1. PICK i \in 1 .. Len(events) :
          \/ HandleConnected(i) \/ HandleDisconnected(i) \/ BeginPacket(i)
          \/ RequestConsumeWorldAuthTicket(i) \/ LogoutWorld(i) \/ TryReconnectWorldSession(i)
    BY <1>12 DEF Shard
  <2>2. \/ HandleDisconnected(i) \/ TryReconnectWorldSession(i)
        \/ UNCHANGED <<stage, delayed>> /\ closing \subseteq closing'
    BY <2>1, QuietCases DEF enter
  <2> HIDE DEF P
  <2> QED
    BY <1>4, <1>6, <1>11, <2>2
<1> HIDE DEF Q
<1> QED
  BY <1>3, <1>5, <1>8, <1>9, <1>10, <1>12 DEF Next

LEMMA PastAlways == Spec => [](TypeOK /\ PastInv)
<1>1. Init => PastInv
  <2> SUFFICES ASSUME Init PROVE PastInv
    OBVIOUS
  <2>1. Elems(events) = {} /\ Elems(strand) = {}
    BY DEF Init, Elems
  <2> QED
    BY <2>1 DEF Init, PastInv, ClosingIsDoomed
<1>2. TypeOK /\ PastInv /\ [Next]_vars => PastInv'
  BY PastLatest, PastSessions, PastEvents, PastStrand, PastStages DEF PastInv, ClosingIsDoomed
<1> QED
  BY <1>1, <1>2, TypeCorrect, PTL DEF Spec

\* VictimIsClosed, the half that is a safety property: a connection whose kick
\* ProcessDuplicateWorldSessionKickOnIo_ has run and that is still up has its delayed
\* close armed or is being closed, whatever was reserved, armed or fired before.
THEOREM KickedIsClosing == Spec => []ClosingIsDoomed
<1>1. PastInv => ClosingIsDoomed
  BY DEF PastInv
<1> QED
  BY <1>1, PastAlways, PTL

\* A kicked connection that is up and whose session is not its own stays so until
\* it is closed: no reconnect of another connection, no bind, no timer of another
\* close and no late callback disarms its close.
DoomedUntilClosed ==
    [][\A k \in Key : Doomed(k) /\ Live(k) /\ ~BoundAt(k) => Doomed(k)' \/ ~Live(k)']_vars

\* Why a connection that is up loses its session: a newer login takes it, its own
\* enter is undone, or another connection reclaims it with its token.  In
\* particular no close that was queued or delayed for the connection's slot does.
LiveSessionKept ==
    [][\A k \in Key :
         Live(k) /\ BoundAt(k) /\ ~BoundAt(k)' =>
            \/ \E f \in flow : BindSession(f) \/ (f.key = k /\ EnterStep(f))
            \/ \E i \in 1 .. Len(events) : Sender(i) # k /\ TryReconnectWorldSession(i)]_vars

\* No step disarms the close of a kicked connection.
LEMMA DoomedStep ==
    ASSUME TypeOK, PastInv, [Next]_vars, NEW k \in Key, Doomed(k), Live(k), ~BoundAt(k)
    PROVE  Doomed(k)' \/ ~Live(k)'
<1>1. CASE UNCHANGED delayed /\ closing \subseteq closing'
  BY <1>1 DEF Doomed
<1>2. ASSUME NEW j \in Key, SocketClose(j) PROVE Doomed(k)' \/ ~Live(k)'
  <2>1. delayed' = delayed /\ closing' = closing \ {j} /\ open' = [open EXCEPT ![j.sid] = FALSE]
    BY <1>2 DEF SocketClose
  <2>2. k = j => ~Live(k)'
    BY <2>1 DEF Live, TypeOK, Key
  <2> QED
    BY <2>1, <2>2 DEF Doomed
<1>3. ASSUME NEW i \in 1 .. Len(events), TryReconnectWorldSession(i) PROVE Doomed(k)'
  <2>1. closing' = closing
    BY <1>3, ReconnectCases
  <2>2. ASSUME NEW j \in Key, NEW t \in Token, tokenKey[t] # None, ReconnectMoves(j, t)
        PROVE  delayed'[k] = delayed[k]
    BY <2>2 DEF ReconnectMoves, TypeOK
  <2>3. ASSUME NEW t \in Token, Forgets(t) PROVE delayed'[k] = delayed[k]
    BY <2>3 DEF Forgets
  <2>4. delayed'[k] = delayed[k]
    BY <1>3, <2>2, <2>3, ReconnectCases
  <2> QED
    BY <2>1, <2>4 DEF Doomed
<1>4. ASSUME NEW j \in Key, DelayedCloseFires(j) PROVE Doomed(k)'
  <2>1. delayed' = [delayed EXCEPT ![j] = "None"]
        /\ closing' = (IF Live(j) THEN closing \cup {j} ELSE closing)
    BY <1>4 DEF DelayedCloseFires, Close
  <2>2. delayed'[k] = IF k = j THEN "None" ELSE delayed[k]
    BY <2>1 DEF TypeOK
  <2> QED
    BY <2>1, <2>2 DEF Doomed
<1>5. CASE RunStrand
  <2>1. /\ closing' = closing
        /\ \/ delayed'[k] \in {delayed[k], "None"}
           \/ delayed'[k] = "Grace" /\ Gone(k)
           \/ Live(k) => delayed'[k] = "Kick"
        /\ (delayed[k] # "None" /\ delayed'[k] = "None") => Gone(k)
    BY <1>5, StrandStages
  <2> QED
    BY <2>1 DEF Doomed, Gone
<1>6. ASSUME NEW f \in flow, EnterStep(f) PROVE Doomed(k)'
  <2>1. delayed' = delayed /\ closing' = closing
    BY <1>6, EnterStages
  <2> QED
    BY <2>1 DEF Doomed
<1>7. CASE \/ \E s \in Sid : Accept(s)
           \/ \E j \in Key, m \in Message : PostPacket(j, m)
           \/ UNCHANGED vars
  BY <1>1, <1>7 DEF Accept, PostPacket, vars, transport
<1>8. ASSUME NEW r, Shard(r) PROVE Doomed(k)' \/ ~Live(k)'
  <2>1. PICK i \in 1 .. Len(events) :
          \/ HandleConnected(i) \/ HandleDisconnected(i) \/ BeginPacket(i)
          \/ RequestConsumeWorldAuthTicket(i) \/ LogoutWorld(i) \/ TryReconnectWorldSession(i)
    BY <1>8 DEF Shard
  <2>2. TryReconnectWorldSession(i) \/ (UNCHANGED delayed /\ closing \subseteq closing')
    BY <2>1, QuietCases DEF HandleDisconnected
  <2> QED
    BY <1>1, <1>3, <2>2
<1> QED
  BY <1>2, <1>4, <1>5, <1>6, <1>7, <1>8 DEF Next

\* The close of an evicted connection is never disarmed while the connection is up
\* and somebody else has its session.
THEOREM KickStands == Spec => DoomedUntilClosed
<1>1. TypeOK /\ PastInv /\ [Next]_vars
        => \A k \in Key : Doomed(k) /\ Live(k) /\ ~BoundAt(k) => Doomed(k)' \/ ~Live(k)'
  BY DoomedStep
<1> QED
  BY <1>1, PastAlways, PTL DEF DoomedUntilClosed, Spec

\* A connection that is up loses its session only to a newer login, to the undoing
\* of its own enter, or to a reconnect of another connection.
THEOREM LiveSessionsKept == Spec => LiveSessionKept
<1> SUFFICES ASSUME TypeOK, PastInv, [Next]_vars
             PROVE  \A k \in Key :
                      Live(k) /\ BoundAt(k) /\ ~BoundAt(k)' =>
                         \/ \E f \in flow : BindSession(f) \/ (f.key = k /\ EnterStep(f))
                         \/ \E i \in 1 .. Len(events) : Sender(i) # k /\ TryReconnectWorldSession(i)
  BY PastAlways, PTL DEF LiveSessionKept, Spec
<1> DEFINE Took(k) == \/ \E f \in flow : BindSession(f) \/ (f.key = k /\ EnterStep(f))
                      \/ \E i \in 1 .. Len(events) : Sender(i) # k /\ TryReconnectWorldSession(i)
<1> SUFFICES ASSUME NEW k \in Key, Live(k), BoundAt(k), ~BoundAt(k)'
             PROVE  Took(k)
  OBVIOUS
<1>0. k.sid \in Sid /\ authed[k.sid] # None /\ authed[k.sid].serial = k.serial
  BY DEF Key, BoundAt
<1>1. ~UNCHANGED authed
  BY DEF BoundAt
<1>2. ASSUME NEW j \in Key, UnbindAuthenticatedWorldSession(j) PROVE j = k
  <2>1. BoundAt(j) /\ authed' = [authed EXCEPT ![j.sid] = None]
    BY <1>2 DEF UnbindAuthenticatedWorldSession
  <2>2. j.sid = k.sid
    BY <1>0, <2>1 DEF BoundAt, TypeOK
  <2>3. j.serial = k.serial
    BY <1>0, <2>1, <2>2 DEF BoundAt
  <2> QED
    BY <2>2, <2>3 DEF Key
<1>3. ASSUME NEW f \in flow, EnterStep(f), UnbindAuthenticatedWorldSession(f.key) PROVE Took(k)
  <2>1. f.key \in Key
    BY DEF TypeOK, Request
  <2> QED
    BY <1>2, <1>3, <2>1
<1>4. ASSUME RunStrand, Head(strand).kind = "Closed",
             UnbindAuthenticatedWorldSession(Head(strand).key)
      PROVE  FALSE
  <2>1. Head(strand) \in Task /\ Head(strand) \in Elems(strand)
    BY <1>4, ElemsTail DEF RunStrand, TypeOK
  <2>2. Head(strand).key \in Key /\ Gone(Head(strand).key)
    BY <1>4, <2>1 DEF Task, PastInv
  <2> QED
    BY <1>2, <1>4, <2>2 DEF Gone
<1>5. ASSUME NEW j \in Key, NEW t \in Token, tokenKey[t] # None, ReconnectMoves(j, t)
      PROVE  j # k
  <2>1. authed'[j.sid].serial = j.serial /\ authed'[j.sid] = [authed[tokenKey[t].sid] EXCEPT !.serial = j.serial]
    BY <1>5, ReconnectSlots
  <2>2. authed'[j.sid] \in Session
    <3>1. tokenKey[t] \in Key /\ BoundAt(tokenKey[t])
      BY <1>5, ReconnectSlots
    <3>2. authed[tokenKey[t].sid] \in Session
      BY <3>1 DEF BoundAt, TypeOK, Key
    <3> QED
      BY <2>1, <3>2 DEF Session, Key
  <2>3. authed'[j.sid] # None
    BY <2>2, NoneAssumption
  <2> QED
    BY <2>1, <2>3 DEF BoundAt
<1> QED
  BY <1>1, <1>3, <1>4, <1>5, BoundStep
=============================================================================
