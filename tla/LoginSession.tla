---------------------------- MODULE LoginSession ----------------------------
(***************************************************************************)
(* The login server: the login sessions of its client connections, their   *)
(* reverse indexes, the requests it has forwarded to the account server    *)
(* and the identities it keeps for players who left for a world server     *)
(* before the account server reported that they had entered.               *)
(*                                                                         *)
(* Handlers of the client line run on one strand, those of the account     *)
(* line on another, the expiry of login requests on the main loop.  A      *)
(* handler that takes a request out and then changes the sessions does the *)
(* first under the requests' mutex and the second under the sessions';     *)
(* nobody else touches the request in between, so the two are one step.    *)
(***************************************************************************)
EXTENDS Naturals

CONSTANTS
    Sid,        \* slots of the client line's TcpServer
    Account,
    Char,
    OwnerOf,    \* the account of each character
    None,
    MaxSerial,  \* bound: connections accepted on each slot
    MaxRequest  \* bound: requests forwarded to the account server

ASSUME OwnerAssumption == OwnerOf \in [Char -> Account]
ASSUME BoundAssumption == MaxSerial \in [Sid -> Nat] /\ MaxRequest \in Nat

Serial   == Nat \ {0}
Request  == 1 .. MaxRequest
Login    == Request  \* login sessions and world tokens are fresh ones that the account
Token    == Request  \* server makes: each is named by the request it was made for
Kind     == {"Login", "WorldList", "WorldSelect", "CharacterList", "CharacterSelect"}
Ref      == [sid : Sid, serial : Serial]
Session  == [serial : Serial, account : Account, login : Login, world : BOOLEAN,
             char : Char \cup {None}, token : Token \cup {None}]
Identity == [account : Account, char : Char, login : Login, token : Token]
Departed == [login : Login, token : Token]
Forward  == [kind : Kind, sid : Sid, serial : Serial, account : Account, login : Login \cup {None}]

ASSUME NoneAssumption ==
    None \notin Char \cup Nat \cup Ref \cup Session \cup Forward

VARIABLES
    serial,      \* serial of the last connection of a slot
    conn,        \* serial of the open connection of a slot, 0 when it has none
    kicked,      \* slots whose connection CloseDuplicateLoginSessions_ is closing
    ready,       \* account_ready_
    sessions,    \* login_sessions_
    byAccount,   \* account_session_index_
    byChar,      \* char_session_index_
    byLogin,     \* login_session_index_
    byToken,     \* world_token_index_
    detached,    \* detached_world_enter_by_token_
    leftWith,    \* detached_world_enter_token_by_login_session_
    next,        \* next_login_request_id_
    pending,     \* the five pending request maps
    awaited,     \* requests the account server has yet to answer on this connection
    issued,      \* the identities the account server has issued tokens to
    entered      \* tokens whose enter notice has arrived

line     == <<serial, conn, kicked>>
indexes  == <<byAccount, byChar, byLogin, byToken>>
left     == <<detached, leftWith>>
requests == <<next, pending, awaited>>
account  == <<issued, entered>>
vars     == <<line, ready, sessions, indexes, left, requests, account>>

TypeOK ==
    /\ serial \in [Sid -> Nat]
    /\ conn \in [Sid -> Nat]
    /\ kicked \subseteq Sid
    /\ ready \in BOOLEAN
    /\ sessions \in [Sid -> Session \cup {None}]
    /\ byAccount \in [Account -> Ref \cup {None}]
    /\ byChar \in [Char -> Ref \cup {None}]
    /\ byLogin \in [Login -> Ref \cup {None}]
    /\ byToken \in [Token -> Ref \cup {None}]
    /\ detached \subseteq Identity
    /\ leftWith \subseteq Departed
    /\ next \in Nat
    /\ pending \in [Request -> Forward \cup {None}]
    /\ awaited \subseteq Request
    /\ issued \subseteq Identity
    /\ entered \subseteq Token

Init ==
    /\ serial = [s \in Sid |-> 0]
    /\ conn = [s \in Sid |-> 0]
    /\ kicked = {}
    /\ ready = FALSE
    /\ sessions = [s \in Sid |-> None]
    /\ byAccount = [a \in Account |-> None]
    /\ byChar = [c \in Char |-> None]
    /\ byLogin = [l \in Login |-> None]
    /\ byToken = [t \in Token |-> None]
    /\ detached = {}
    /\ leftWith = {}
    /\ next = 1
    /\ pending = [r \in Request |-> None]
    /\ awaited = {}
    /\ issued = {}
    /\ entered = {}

-----------------------------------------------------------------------------
(* The tables                                                              *)

(* A reference that forgets which connection of the slot it is for.        *)
RefSidOnly(s, n) == [sid |-> s, serial |-> 0]

(* SessionRef *)
RefOf(s, n) == [sid |-> s, serial |-> n]

(* The keys that are still those of a session: same slot and same serial.  *)
Current(keys) == {k \in keys : sessions[k.sid] # None /\ sessions[k.sid].serial = k.serial}

(* An index without the entries that sessions being dropped have in it:    *)
(* own gives what each of them is indexed under.                           *)
Without(index, own) ==
    [x \in DOMAIN index |->
        IF index[x] \in DOMAIN own /\ own[index[x]] = x THEN None ELSE index[x]]

IsValidAuthIdentity(e) == e.char # None /\ e.token # None

(* What is kept for the enter notice of the sessions being dropped.        *)
Leaving(keys) ==
    {[account |-> sessions[k.sid].account, char |-> sessions[k.sid].char,
      login |-> sessions[k.sid].login, token |-> sessions[k.sid].token] :
        k \in {k \in keys : IsValidAuthIdentity(sessions[k.sid])}}

DetachedWith(new) == {d \in detached : \A e \in new : e.token # d.token} \cup new

LeftWithAlso(new) ==
    {d \in leftWith : \A e \in new : e.login # d.login} \cup
    {[login |-> e.login, token |-> e.token] : e \in new}

SessionsWithout(keys) == [s \in Sid |-> IF \E k \in keys : k.sid = s THEN None ELSE sessions[s]]

(* RemoveLoginSession_NoLock_ for the keys that are still current.         *)
RemoveLoginSessions(keys) ==
    LET gone == Current(keys) IN
    /\ sessions' = SessionsWithout(gone)
    /\ byAccount' = Without(byAccount, [k \in gone |-> sessions[k.sid].account])
    /\ byChar' = Without(byChar, [k \in gone |-> sessions[k.sid].char])
    /\ byLogin' = Without(byLogin, [k \in gone |-> sessions[k.sid].login])
    /\ byToken' = Without(byToken, [k \in gone |-> sessions[k.sid].token])
    /\ detached' = DetachedWith(Leaving(gone))
    /\ leftWith' = LeftWithAlso(Leaving(gone))

-----------------------------------------------------------------------------
(* The client line                                                         *)

Connect(s) ==
    /\ conn[s] = 0 /\ serial[s] < MaxSerial[s]
    /\ serial' = [serial EXCEPT ![s] = @ + 1]
    /\ conn' = [conn EXCEPT ![s] = serial[s] + 1]
    /\ UNCHANGED <<kicked, ready, sessions, indexes, left, requests, account>>

(* The client leaves, or the close of a duplicate session arrives.  The    *)
(* callback runs before the slot is free again.                            *)
OnLineClosed(s) ==
    /\ conn[s] # 0
    /\ conn' = [conn EXCEPT ![s] = 0]
    /\ kicked' = kicked \ {s}
    /\ RemoveLoginSessions({RefOf(s, conn[s])})
    /\ UNCHANGED <<serial, ready, requests, account>>

(* A request is kept under a fresh id and sent to the account server; one  *)
(* that cannot be sent is taken back and answered at once.                 *)
Issue(request) ==
    /\ ready /\ next \in Request
    /\ pending' = [pending EXCEPT ![next] = request]
    /\ awaited' = awaited \cup {next}
    /\ next' = next + 1
    /\ UNCHANGED <<line, ready, sessions, indexes, left, account>>

IssueLoginRequest(s, a) ==
    /\ conn[s] # 0
    /\ Issue([kind |-> "Login", sid |-> s, serial |-> conn[s], account |-> a, login |-> None])

LoggedIn(s) == conn[s] # 0 /\ sessions[s] # None /\ sessions[s].serial = conn[s]

FromSession(kind, s) ==
    [kind |-> kind, sid |-> s, serial |-> conn[s],
     account |-> sessions[s].account, login |-> sessions[s].login]

IssueWorldListRequest(s)   == LoggedIn(s) /\ Issue(FromSession("WorldList", s))
IssueWorldSelectRequest(s) == LoggedIn(s) /\ Issue(FromSession("WorldSelect", s))

IssueCharacterListRequest(s) ==
    LoggedIn(s) /\ sessions[s].world /\ Issue(FromSession("CharacterList", s))

IssueCharacterSelectRequest(s) ==
    LoggedIn(s) /\ sessions[s].world /\ Issue(FromSession("CharacterSelect", s))

-----------------------------------------------------------------------------
(* The account line                                                        *)

OnAccountRegistered ==
    /\ ~ready
    /\ ready' = TRUE
    /\ UNCHANGED <<line, sessions, indexes, left, requests, account>>

(* What the account server has not answered is lost; the requests stay.    *)
OnAccountDisconnected ==
    /\ ready
    /\ ready' = FALSE
    /\ awaited' = {}
    /\ UNCHANGED <<line, sessions, indexes, left, next, pending, account>>

Asks(r, kinds) == pending[r] # None /\ pending[r].kind \in kinds

Selections == {"WorldSelect", "CharacterSelect"}

(* The answer to request r arrives.  Selections are answered in the order  *)
(* they were sent; authentication and the lists go through other threads.  *)
Answered(r) ==
    /\ r \in awaited
    /\ Asks(r, Selections) => \A q \in awaited : Asks(q, Selections) => q >= r
    /\ awaited' = awaited \ {r}
    /\ pending' = [pending EXCEPT ![r] = None]
    /\ next' = next

(* An answer that changes no session and is passed on to the client.       *)
PassedOn(r) ==
    /\ Answered(r)
    /\ UNCHANGED <<line, ready, sessions, indexes, left, account>>

OnWorldListResult(r)     == Asks(r, {"WorldList"}) /\ PassedOn(r)
OnCharacterListResult(r) == Asks(r, {"CharacterList"}) /\ PassedOn(r)

(* A refusal, a result whose session is gone, or the answer to a login     *)
(* request that has expired, which is dropped.                             *)
OnRefused(r) == ~Asks(r, {"WorldList", "CharacterList"}) /\ PassedOn(r)

(* Only the session of the same connection is replaced.                    *)
ReplacedOwnOnly(s, n, a) == {RefOf(s, n)}

(* The sessions a new login of account a on slot s replaces: the one of    *)
(* the same connection and the one the account's index names.              *)
Replaced(s, n, a) == {RefOf(s, n)} \cup ({byAccount[a]} \ {None})

(* CompleteLoginRequest_ for an accepted request: it does not look whether *)
(* the connection is still there.  The other session's connection is       *)
(* closed.                                                                 *)
OnAccountAuthResult(r) ==
    LET q    == pending[r]
        ref  == RefOf(q.sid, q.serial)
        gone == Current(Replaced(q.sid, q.serial, q.account))
        lost == Leaving(gone)
    IN
    /\ Asks(r, {"Login"}) /\ Answered(r)
    /\ sessions' = [SessionsWithout(gone) EXCEPT ![q.sid] =
                       [serial |-> q.serial, account |-> q.account, login |-> r, world |-> FALSE,
                        char |-> None, token |-> None]]
    /\ byAccount' = [Without(byAccount, [k \in gone |-> sessions[k.sid].account]) EXCEPT ![q.account] = ref]
    /\ byChar' = Without(byChar, [k \in gone |-> sessions[k.sid].char])
    /\ byLogin' = [Without(byLogin, [k \in gone |-> sessions[k.sid].login]) EXCEPT ![r] = ref]
    /\ byToken' = Without(byToken, [k \in gone |-> sessions[k.sid].token])
    /\ detached' = DetachedWith(lost)
    /\ leftWith' = {d \in LeftWithAlso(lost) : d.login # r}
    /\ kicked' = kicked \cup {k.sid : k \in {k \in gone \ {ref} : conn[k.sid] = k.serial}}
    /\ UNCHANGED <<serial, conn, ready, issued, entered>>

(* The session a result is for.  A world result also compares the account. *)
Target(q) == sessions[q.sid] # None /\ sessions[q.sid].serial = q.serial

(* The token goes, its index entry stays.                                  *)
OnWorldSelectResult(r) ==
    LET q == pending[r] IN
    /\ Asks(r, {"WorldSelect"}) /\ Answered(r)
    /\ Target(q) /\ sessions[q.sid].account = q.account
    /\ sessions' = [sessions EXCEPT ![q.sid].world = TRUE, ![q.sid].token = None]
    /\ UNCHANGED <<line, ready, indexes, left, account>>

(* An index in which the session of ref moves from its old entry to x.     *)
Moved(index, old, ref, x) ==
    [y \in DOMAIN index |-> IF y = x THEN ref ELSE IF y = old /\ index[y] = ref THEN None ELSE index[y]]

(* The account server issues a token to the identity of the request; the   *)
(* session is compared by serial only.                                     *)
OnCharacterSelectResult(r, c) ==
    LET q   == pending[r]
        e   == sessions[q.sid]
        ref == RefOf(q.sid, q.serial)
    IN
    /\ Asks(r, {"CharacterSelect"}) /\ Answered(r)
    /\ OwnerOf[c] = q.account
    /\ issued' = issued \cup {[account |-> q.account, char |-> c, login |-> q.login, token |-> r]}
    /\ IF Target(q)
         THEN /\ sessions' = [sessions EXCEPT ![q.sid].char = c, ![q.sid].token = r]
              /\ byChar' = Moved(byChar, e.char, ref, c)
              /\ byToken' = Moved(byToken, e.token, ref, r)
         ELSE UNCHANGED <<sessions, byChar, byToken>>
    /\ UNCHANGED <<line, ready, byAccount, byLogin, left, entered>>

-----------------------------------------------------------------------------
(* The enter notice of the world server, relayed by the account server     *)

(* The key an enter notice resolves to: by token, or else by login session.*)
Resolved(i) == IF byToken[i.token] # None THEN byToken[i.token] ELSE byLogin[i.login]

HoldsExactly(k, i) ==
    /\ k # None /\ Current({k}) # {}
    /\ sessions[k.sid].account = i.account /\ sessions[k.sid].char = i.char
    /\ sessions[k.sid].login = i.login /\ sessions[k.sid].token = i.token

(* The entry of the token, or else the one the login session left with.    *)
HeldDetached(i) ==
    \E d \in detached :
      \/ d.token = i.token /\ d.account = i.account /\ d.char = i.char /\ d.login = i.login
      \/ /\ [login |-> i.login, token |-> d.token] \in leftWith
         /\ d.account = i.account /\ d.char = i.char /\ d.token = i.token

(* The erasure comes before the session is dropped.                        *)
EraseDetachedFirst(i, kept, departed) ==
    /\ detached' = {d \in detached : d.token # i.token} \cup (kept \ detached)
    /\ leftWith' = {d \in leftWith : d.login # i.login} \cup (departed \ leftWith)

(* Only the table by token is cleaned.                                     *)
EraseDetachedToken(i, kept, departed) ==
    /\ detached' = {d \in kept : d.token # i.token}
    /\ leftWith' = departed

(* EraseDetachedWorldEnterState_NoLock_ *)
EraseDetached(i, kept, departed) ==
    /\ detached' = {d \in kept : d.token # i.token}
    /\ leftWith' = {d \in departed : d.login # i.login}

OnWorldEnterSuccessNotify(i) ==
    LET k    == Resolved(i)
        gone == {k}
    IN
    /\ ready /\ i.token \notin entered
    /\ entered' = entered \cup {i.token}
    /\ \/ /\ HoldsExactly(k, i)
          /\ sessions' = SessionsWithout(gone)
          /\ byAccount' = Without(byAccount, [h \in gone |-> sessions[h.sid].account])
          /\ byChar' = Without(byChar, [h \in gone |-> sessions[h.sid].char])
          /\ byLogin' = Without(byLogin, [h \in gone |-> sessions[h.sid].login])
          /\ byToken' = Without(byToken, [h \in gone |-> sessions[h.sid].token])
          /\ EraseDetached(i, DetachedWith(Leaving(gone)), LeftWithAlso(Leaving(gone)))
       \/ /\ ~HoldsExactly(k, i) /\ HeldDetached(i)
          /\ EraseDetached(i, detached, leftWith)
          /\ UNCHANGED <<sessions, indexes>>
       \/ /\ ~HoldsExactly(k, i) /\ ~HeldDetached(i)
          /\ UNCHANGED <<sessions, indexes, left>>
    /\ UNCHANGED <<line, ready, requests, issued>>

-----------------------------------------------------------------------------
(* The main loop                                                           *)

PendingLogin(r) == Asks(r, {"Login"})

(* Nothing expires while the account server is away.                       *)
ExpiredReady(r) == {q \in Request : q <= r /\ PendingLogin(q) /\ ready}

(* The login requests that are as old as request r and older are refused.  *)
Expired(r) == {q \in Request : q <= r /\ PendingLogin(q)}

ExpirePendingLoginRequests(r) ==
    /\ Expired(r) # {}
    /\ pending' = [q \in Request |-> IF q \in Expired(r) THEN None ELSE pending[q]]
    /\ UNCHANGED <<line, ready, sessions, indexes, left, next, awaited, account>>

-----------------------------------------------------------------------------
(* A packet of the client on slot s.                                       *)
ClientPacket(s) ==
    \/ \E a \in Account : IssueLoginRequest(s, a)
    \/ IssueWorldListRequest(s)
    \/ IssueWorldSelectRequest(s)
    \/ IssueCharacterListRequest(s)
    \/ IssueCharacterSelectRequest(s)

(* A packet of the account server.                                         *)
AccountPacket ==
    \/ OnAccountRegistered
    \/ \E r \in Request :
         \/ OnAccountAuthResult(r) \/ OnRefused(r)
         \/ OnWorldListResult(r) \/ OnWorldSelectResult(r)
         \/ OnCharacterListResult(r)
         \/ \E c \in Char : OnCharacterSelectResult(r, c)
    \/ \E i \in issued : OnWorldEnterSuccessNotify(i)

Next ==
    \/ \E s \in Sid : Connect(s) \/ OnLineClosed(s) \/ ClientPacket(s)
    \/ AccountPacket
    \/ OnAccountDisconnected
    \/ \E r \in Request : ExpirePendingLoginRequests(r)

Spec == Init /\ [][Next]_vars

(* The main loop ticks forever.                                            *)
FairSpec == Spec /\ WF_vars(\E r \in Request : ExpirePendingLoginRequests(r))

-----------------------------------------------------------------------------
(* Properties                                                              *)

(* However logins, closes, slot reuse and late answers interleave, every   *)
(* login session is the one its account, its login session and its token   *)
(* resolve to: so an account has one session, and a duplicate login finds  *)
(* it (CollectDuplicateSessions_NoLock_ looks nowhere else).               *)
SessionsIndexed ==
    \A s \in Sid : sessions[s] # None =>
        /\ byAccount[sessions[s].account] = RefOf(s, sessions[s].serial)
        /\ byLogin[sessions[s].login] = RefOf(s, sessions[s].serial)
        /\ sessions[s].token # None => byToken[sessions[s].token] = RefOf(s, sessions[s].serial)

(* Once the world server has reported that the holder of a token entered,  *)
(* neither a session nor a detached entry of the identity the token was    *)
(* issued to is left: a close that came before the notice, or a login that *)
(* comes after it, does not bring it back.                                 *)
EnteredIsForgotten ==
    \A i \in issued : i.token \in entered =>
        /\ i \notin detached
        /\ \A s \in Sid : sessions[s] # None =>
             ~(sessions[s].token = i.token /\ sessions[s].login = i.login)

(* The two detached tables describe the same identities, and a token is    *)
(* held by one session or one detached entry, never by two.                *)
TokenHeldOnce ==
    /\ leftWith = {[login |-> d.login, token |-> d.token] : d \in detached}
    /\ \A d, e \in detached : (d.token = e.token \/ d.login = e.login) => d = e
    /\ \A d \in detached, s \in Sid : sessions[s] # None => sessions[s].token # d.token

(* A login request is answered, by the account server or by the timeout,   *)
(* even when the account server is gone for good.                          *)
LoginAnswered == \A r \in Request : PendingLogin(r) ~> ~PendingLogin(r)

(* docs/server_session_policy.md: a stale sid with mismatched serial is    *)
(* ignored.  No session of a slot is replaced by one of an older           *)
(* connection of that slot.                                                *)
StaleSerialIgnored ==
    [][\A s \in Sid : sessions[s] # None /\ sessions'[s] # None =>
          sessions'[s].serial >= sessions[s].serial]_vars
=============================================================================
