------------------------ MODULE LoginSession_proofs ------------------------
(***************************************************************************)
(* For every number of slots, accounts, characters and requests: the login *)
(* server's tables stay consistent, and a player who has entered a world   *)
(* is forgotten for good.                                                  *)
(***************************************************************************)
EXTENDS LoginSession, TLAPS

(* A login session or a token that is in use was answered: no request can be   *)
(* answered with it again.                                                     *)
Spent(r) == r < next /\ pending[r] = None

SpentNames ==
    /\ \A s \in Sid : sessions[s] # None =>
         /\ Spent(sessions[s].login)
         /\ sessions[s].token # None => Spent(sessions[s].token)
    /\ \A q \in Request : pending[q] # None =>
         /\ q < next
         /\ pending[q].login # None => Spent(pending[q].login)
         /\ pending[q].kind # "Login" => pending[q].login # None
    /\ \A i \in issued \cup detached : Spent(i.login) /\ Spent(i.token)
    /\ \A t \in entered : Spent(t)

(* Whatever carries the login session of a session carries its account, and    *)
(* what was issued its token was issued it for its character.                  *)
Agreeing ==
    /\ \A s \in Sid : sessions[s] # None =>
         /\ \A q \in Request : pending[q] # None /\ pending[q].login = sessions[s].login =>
              pending[q].account = sessions[s].account
         /\ \A i \in issued :
              /\ i.login = sessions[s].login => i.account = sessions[s].account
              /\ i.token = sessions[s].token => i.char = sessions[s].char
    /\ \A i, j \in issued : i.token = j.token => i = j

(* SessionsIndexed of any tables. *)
Indexed(S, A, L, T) ==
    \A s \in Sid : S[s] # None =>
        /\ A[S[s].account] = RefOf(s, S[s].serial)
        /\ L[S[s].login] = RefOf(s, S[s].serial)
        /\ S[s].token # None => T[S[s].token] = RefOf(s, S[s].serial)

(* TokenHeldOnce of any tables, and the same of the login sessions. *)
Separate(S, D, W) ==
    /\ W = {[login |-> d.login, token |-> d.token] : d \in D}
    /\ \A d, e \in D : (d.token = e.token \/ d.login = e.login) => d = e
    /\ \A d \in D, s \in Sid : S[s] # None => S[s].token # d.token /\ S[s].login # d.login

Inv ==
    /\ TypeOK
    /\ Indexed(sessions, byAccount, byLogin, byToken)
    /\ Separate(sessions, detached, leftWith)
    /\ EnteredIsForgotten
    /\ SpentNames
    /\ Agreeing

-----------------------------------------------------------------------------
(* Types and names                                                         *)

LEMMA NoneIsNothing ==
    /\ None \notin Ref /\ None \notin Session /\ None \notin Forward /\ None \notin Char
    /\ None \notin Request /\ None \notin Nat
<1>1. Request \subseteq Nat
  BY BoundAssumption DEF Request
<1> QED
  BY <1>1, NoneAssumption

LEMMA RequestIsNat == Request \subseteq Nat /\ Login = Request /\ Token = Request /\ MaxRequest \in Nat
  BY BoundAssumption DEF Request, Login, Token

(* What is known of a session by its type. *)
LEMMA SessionFields ==
    ASSUME TypeOK, NEW s \in Sid, sessions[s] # None
    PROVE  /\ sessions[s] \in Session
           /\ sessions[s].serial \in Serial /\ sessions[s].account \in Account
           /\ sessions[s].login \in Request /\ sessions[s].token \in Request \cup {None}
           /\ sessions[s].char \in Char \cup {None}
<1>1. sessions[s] \in Session
  BY DEF TypeOK
<1> QED
  BY <1>1, RequestIsNat DEF Session

LEMMA ForwardFields ==
    ASSUME TypeOK, NEW q \in Request, pending[q] # None
    PROVE  /\ pending[q] \in Forward
           /\ pending[q].sid \in Sid /\ pending[q].serial \in Serial
           /\ pending[q].account \in Account /\ pending[q].login \in Request \cup {None}
           /\ pending[q].kind \in Kind
<1>1. pending[q] \in Forward
  BY DEF TypeOK
<1> QED
  BY <1>1, RequestIsNat DEF Forward

LEMMA RefFields ==
    ASSUME NEW s \in Sid, NEW n \in Serial
    PROVE  RefOf(s, n) \in Ref /\ RefOf(s, n).sid = s /\ RefOf(s, n).serial = n /\ RefOf(s, n) # None
<1>1. RefOf(s, n) \in Ref /\ RefOf(s, n).sid = s /\ RefOf(s, n).serial = n
  BY DEF RefOf, Ref
<1> QED
  BY <1>1, NoneIsNothing

(* A session that is indexed is told apart by its login session and by its *)
(* token.                                                                  *)
LEMMA NamesOfOne ==
    ASSUME TypeOK, Indexed(sessions, byAccount, byLogin, byToken),
           NEW s \in Sid, NEW u \in Sid, sessions[s] # None, sessions[u] # None,
           \/ sessions[s].account = sessions[u].account
           \/ sessions[s].login = sessions[u].login
           \/ sessions[s].token # None /\ sessions[s].token = sessions[u].token
    PROVE  s = u
<1>1. RefOf(s, sessions[s].serial) = RefOf(u, sessions[u].serial)
  BY DEF Indexed
<1>2. sessions[s].serial \in Serial /\ sessions[u].serial \in Serial
  BY SessionFields
<1> QED
  BY <1>1, <1>2, RefFields

-----------------------------------------------------------------------------
(* The sessions that are dropped                                           *)

(* Keys that are those of sessions. *)
Keys(gone) ==
    /\ gone \subseteq Ref
    /\ \A k \in gone : sessions[k.sid] # None /\ sessions[k.sid].serial = k.serial

IdentityOf(s) ==
    [account |-> sessions[s].account, char |-> sessions[s].char,
     login |-> sessions[s].login, token |-> sessions[s].token]

LEMMA KeysOf ==
    ASSUME TypeOK, NEW gone, Keys(gone), NEW k \in gone
    PROVE  /\ k.sid \in Sid /\ k.serial \in Serial /\ k = RefOf(k.sid, k.serial)
           /\ sessions[k.sid] # None /\ sessions[k.sid].serial = k.serial
           /\ SessionsWithout(gone)[k.sid] = None
<1>1. k \in Ref
  BY DEF Keys
<1>2. k.sid \in Sid /\ k.serial \in Serial /\ k = RefOf(k.sid, k.serial)
  BY <1>1 DEF Ref, RefOf
<1> QED
  BY <1>2 DEF Keys, SessionsWithout

LEMMA KeysCurrent ==
    ASSUME TypeOK, NEW keys \in SUBSET Ref
    PROVE  Keys(Current(keys))
  BY DEF Keys, Current

LEMMA Stays ==
    ASSUME TypeOK, NEW gone, Keys(gone), NEW s \in Sid, SessionsWithout(gone)[s] # None
    PROVE  /\ SessionsWithout(gone)[s] = sessions[s] /\ sessions[s] # None
           /\ RefOf(s, sessions[s].serial) \notin gone
<1>1. ~(\E k \in gone : k.sid = s) /\ SessionsWithout(gone)[s] = sessions[s]
  BY DEF SessionsWithout
<1>2. sessions[s].serial \in Serial
  BY <1>1, SessionFields
<1>3. RefOf(s, sessions[s].serial).sid = s
  BY <1>2, RefFields
<1> QED
  BY <1>1, <1>3

LEMMA WithoutType ==
    ASSUME NEW X, NEW index \in [X -> Ref \cup {None}], NEW own
    PROVE  Without(index, own) \in [X -> Ref \cup {None}]
  BY DEF Without

LEMMA SessionsWithoutType ==
    ASSUME TypeOK, NEW gone
    PROVE  SessionsWithout(gone) \in [Sid -> Session \cup {None}]
  BY DEF SessionsWithout, TypeOK

LEMMA DroppedIndexed ==
    ASSUME TypeOK, Indexed(sessions, byAccount, byLogin, byToken), NEW gone, Keys(gone)
    PROVE  Indexed(SessionsWithout(gone),
                   Without(byAccount, [k \in gone |-> sessions[k.sid].account]),
                   Without(byLogin, [k \in gone |-> sessions[k.sid].login]),
                   Without(byToken, [k \in gone |-> sessions[k.sid].token]))
<1> SUFFICES ASSUME NEW s \in Sid, SessionsWithout(gone)[s] # None
             PROVE  LET e == sessions[s]
                        ref == RefOf(s, e.serial)
                    IN  /\ Without(byAccount, [k \in gone |-> sessions[k.sid].account])[e.account] = ref
                        /\ Without(byLogin, [k \in gone |-> sessions[k.sid].login])[e.login] = ref
                        /\ e.token # None =>
                             Without(byToken, [k \in gone |-> sessions[k.sid].token])[e.token] = ref
  <2>1. \A s \in Sid : SessionsWithout(gone)[s] # None => SessionsWithout(gone)[s] = sessions[s]
    BY Stays
  <2> QED
    BY <2>1, Zenon DEF Indexed
<1> DEFINE e == sessions[s]
           ref == RefOf(s, e.serial)
<1>1. sessions[s] # None /\ ref \notin gone
  BY Stays
<1>2. /\ byAccount[e.account] = ref /\ byLogin[e.login] = ref
      /\ e.token # None => byToken[e.token] = ref
  BY <1>1 DEF Indexed
<1>3. /\ e.account \in Account /\ e.login \in Login
      /\ e.token # None => e.token \in Token
  BY <1>1, SessionFields, RequestIsNat
<1>4. /\ byAccount \in [Account -> Ref \cup {None}] /\ byLogin \in [Login -> Ref \cup {None}]
      /\ byToken \in [Token -> Ref \cup {None}]
  BY DEF TypeOK
<1> HIDE DEF e, ref
<1>5. Without(byAccount, [k \in gone |-> sessions[k.sid].account])[e.account] = ref
  BY <1>1, <1>2, <1>3, <1>4 DEF Without
<1>6. Without(byLogin, [k \in gone |-> sessions[k.sid].login])[e.login] = ref
  BY <1>1, <1>2, <1>3, <1>4 DEF Without
<1>7. e.token # None => Without(byToken, [k \in gone |-> sessions[k.sid].token])[e.token] = ref
  BY <1>1, <1>2, <1>3, <1>4 DEF Without
<1> QED
  BY <1>5, <1>6, <1>7 DEF e, ref

LEMMA LeavingAre ==
    ASSUME TypeOK, NEW gone, Keys(gone), NEW i \in Leaving(gone)
    PROVE  \E s \in Sid : /\ sessions[s] # None /\ SessionsWithout(gone)[s] = None
                          /\ i = IdentityOf(s) /\ i \in Identity
                          /\ sessions[s].token # None
<1>1. PICK k \in gone : IsValidAuthIdentity(sessions[k.sid]) /\ i = IdentityOf(k.sid)
  BY DEF Leaving, IdentityOf
<1>2. k.sid \in Sid /\ sessions[k.sid] # None /\ SessionsWithout(gone)[k.sid] = None
  BY KeysOf
<1>3. sessions[k.sid].token # None /\ sessions[k.sid].char # None
  BY <1>1 DEF IsValidAuthIdentity
<1>4. IdentityOf(k.sid) \in Identity
  BY <1>2, <1>3, SessionFields, RequestIsNat DEF IdentityOf, Identity
<1> QED
  BY <1>1, <1>2, <1>3, <1>4

LEMMA IdentityFields ==
    ASSUME NEW s
    PROVE  /\ IdentityOf(s).login = sessions[s].login /\ IdentityOf(s).token = sessions[s].token
           /\ IdentityOf(s).account = sessions[s].account /\ IdentityOf(s).char = sessions[s].char
  BY DEF IdentityOf

(* Nothing has to make way for them in the detached tables. *)
LEMMA DetachedGrows ==
    ASSUME TypeOK, Separate(sessions, detached, leftWith), NEW gone, Keys(gone)
    PROVE  /\ DetachedWith(Leaving(gone)) = detached \cup Leaving(gone)
           /\ LeftWithAlso(Leaving(gone))
                = leftWith \cup {[login |-> i.login, token |-> i.token] : i \in Leaving(gone)}
<1>1. ASSUME NEW d \in detached, NEW i \in Leaving(gone)
      PROVE  i.token # d.token /\ i.login # d.login
  <2>1. PICK s \in Sid : sessions[s] # None /\ i = IdentityOf(s)
    BY LeavingAre
  <2> QED
    BY <2>1, IdentityFields DEF Separate
<1>2. ASSUME NEW w \in leftWith, NEW i \in Leaving(gone)
      PROVE  i.login # w.login
  <2>1. PICK d \in detached : w = [login |-> d.login, token |-> d.token]
    BY DEF Separate
  <2> QED
    BY <1>1, <2>1
<1> QED
  BY <1>1, <1>2 DEF DetachedWith, LeftWithAlso

LEMMA DroppedSeparate ==
    ASSUME TypeOK, Indexed(sessions, byAccount, byLogin, byToken),
           Separate(sessions, detached, leftWith), NEW gone, Keys(gone)
    PROVE  Separate(SessionsWithout(gone), DetachedWith(Leaving(gone)), LeftWithAlso(Leaving(gone)))
<1> DEFINE D == detached \cup Leaving(gone)
           W == leftWith \cup {[login |-> i.login, token |-> i.token] : i \in Leaving(gone)}
           S == SessionsWithout(gone)
<1>1. \A i \in Leaving(gone) :
        \E s \in Sid : sessions[s] # None /\ S[s] = None /\ i = IdentityOf(s) /\ sessions[s].token # None
  BY LeavingAre
<1>2. \A s \in Sid : S[s] # None => S[s] = sessions[s] /\ sessions[s] # None
  BY Stays
<1>3. W = {[login |-> d.login, token |-> d.token] : d \in D}
  BY DEF Separate
<1>4. ASSUME NEW d \in D, NEW i \in D, d.token = i.token \/ d.login = i.login PROVE d = i
  <2>1. ASSUME NEW x \in detached, NEW y \in Leaving(gone)
        PROVE  x.token # y.token /\ x.login # y.login
    BY <1>1, IdentityFields DEF Separate
  <2>2. CASE d \in Leaving(gone) /\ i \in Leaving(gone)
    <3>1. PICK s \in Sid : sessions[s] # None /\ d = IdentityOf(s) /\ sessions[s].token # None
      BY <1>1, <2>2
    <3>2. PICK u \in Sid : sessions[u] # None /\ i = IdentityOf(u)
      BY <1>1, <2>2
    <3>3. s = u
      BY <1>4, <3>1, <3>2, IdentityFields, NamesOfOne
    <3> QED
      BY <3>1, <3>2, <3>3
  <2>3. CASE d \in detached /\ i \in detached
    BY <1>4, <2>3 DEF Separate
  <2> QED
    BY <1>4, <2>1, <2>2, <2>3
<1>5. ASSUME NEW d \in D, NEW u \in Sid, S[u] # None
      PROVE  S[u].token # d.token /\ S[u].login # d.login
  <2>1. CASE d \in detached
    BY <1>2, <1>5, <2>1 DEF Separate
  <2>2. CASE d \in Leaving(gone)
    <3>1. PICK s \in Sid : /\ sessions[s] # None /\ S[s] = None /\ d = IdentityOf(s)
                           /\ sessions[s].token # None
      BY <1>1, <2>2
    <3>2. s # u /\ S[u] = sessions[u] /\ sessions[u] # None
      BY <1>2, <1>5, <3>1
    <3> QED
      BY <3>1, <3>2, IdentityFields, NamesOfOne
  <2> QED
    BY <2>1, <2>2
<1> HIDE DEF D, W, S
<1>6. Separate(S, D, W)
  BY <1>3, <1>4, <1>5 DEF Separate
<1> QED
  BY <1>6, DetachedGrows DEF D, W, S

-----------------------------------------------------------------------------
(* Steps that drop sessions or requests                                    *)

LEMMA SpentStays ==
    ASSUME TypeOK, next' \in Nat, next' >= next,
           \A q \in Request : Spent(q) => pending'[q] = None
    PROVE  \A q \in Request : Spent(q) => Spent(q)'
<1>1. next \in Nat /\ Request \subseteq Nat
  BY RequestIsNat DEF TypeOK
<1> QED
  BY <1>1 DEF Spent

(* Requests are answered or expire, and nothing else happens. *)
LEMMA RequestsDropped ==
    ASSUME Inv, UNCHANGED <<sessions, indexes, left, issued, entered, next>>,
           \A q \in Request : pending'[q] \in {pending[q], None}
    PROVE  /\ Indexed(sessions, byAccount, byLogin, byToken)'
           /\ Separate(sessions, detached, leftWith)'
           /\ EnteredIsForgotten' /\ SpentNames' /\ Agreeing'
<1>1. UNCHANGED <<sessions, byAccount, byLogin, byToken, detached, leftWith, issued, entered, next>>
  BY DEF indexes, left
<1>2. \A q \in Request : Spent(q) => Spent(q)'
  BY <1>1 DEF Spent
<1>3. Indexed(sessions, byAccount, byLogin, byToken)' /\ Separate(sessions, detached, leftWith)'
  BY <1>1 DEF Inv, Indexed, Separate
<1>4. EnteredIsForgotten'
  BY <1>1 DEF Inv, EnteredIsForgotten
<1>5. TypeOK /\ SpentNames /\ Agreeing
  BY DEF Inv
<1>6. \A s \in Sid : sessions[s] # None =>
        /\ sessions[s].login \in Request
        /\ sessions[s].token # None => sessions[s].token \in Request
  BY <1>5, SessionFields
<1>7. \A i \in issued \cup detached : i.login \in Request /\ i.token \in Request
  BY <1>5, RequestIsNat DEF TypeOK, Identity
<1>8. \A t \in entered : t \in Request
  BY <1>5, RequestIsNat DEF TypeOK
<1>9. \A q \in Request : pending'[q] # None => pending'[q] = pending[q] /\ pending[q] # None
  OBVIOUS
<1>10. \A q \in Request : pending[q] # None => pending[q].login \in Request \cup {None}
  BY <1>5, ForwardFields
<1>11. SpentNames'
  <2>1. \A s \in Sid : sessions'[s] # None =>
          /\ Spent(sessions[s].login)'
          /\ sessions'[s].token # None => Spent(sessions[s].token)'
    BY <1>1, <1>2, <1>5, <1>6 DEF SpentNames
  <2>2. ASSUME NEW q \in Request, pending'[q] # None
        PROVE  /\ q < next'
               /\ pending'[q].login # None => Spent(pending[q].login)'
               /\ pending'[q].kind # "Login" => pending'[q].login # None
    BY <1>1, <1>2, <1>5, <1>9, <1>10, <2>2 DEF SpentNames
  <2>3. \A i \in issued' \cup detached' : Spent(i.login)' /\ Spent(i.token)'
    BY <1>1, <1>2, <1>5, <1>7 DEF SpentNames
  <2>4. \A t \in entered' : Spent(t)'
    BY <1>1, <1>2, <1>5, <1>8 DEF SpentNames
  <2> QED
    BY <2>1, <2>2, <2>3, <2>4 DEF SpentNames
<1>12. Agreeing'
  BY <1>1, <1>5, <1>9 DEF Agreeing
<1> QED
  BY <1>3, <1>4, <1>11, <1>12

(* Sessions are dropped, and some of them kept as detached. *)
LEMMA SessionsDropped ==
    ASSUME Inv, NEW gone, Keys(gone), sessions' = SessionsWithout(gone),
           UNCHANGED <<next, pending, issued>>,
           detached' \subseteq detached \cup Leaving(gone),
           entered' \subseteq entered \cup {i.token : i \in issued}
    PROVE  SpentNames' /\ Agreeing'
<1>1. TypeOK /\ SpentNames /\ Agreeing
  BY DEF Inv
<1>2. \A r : Spent(r)' <=> Spent(r)
  BY DEF Spent
<1>3. \A s \in Sid : sessions'[s] # None => sessions'[s] = sessions[s] /\ sessions[s] # None
  BY <1>1, Stays
<1>4. \A i \in Leaving(gone) : Spent(i.login) /\ Spent(i.token)
  BY <1>1, LeavingAre, IdentityFields DEF SpentNames
<1>5. SpentNames'
  <2>1. \A s \in Sid : sessions'[s] # None =>
          /\ Spent(sessions'[s].login)
          /\ sessions'[s].token # None => Spent(sessions'[s].token)
    BY <1>1, <1>3 DEF SpentNames
  <2>2. \A i \in issued' \cup detached' : Spent(i.login) /\ Spent(i.token)
    BY <1>1, <1>4 DEF SpentNames
  <2>3. \A t \in entered' : Spent(t)
    BY <1>1 DEF SpentNames
  <2>4. \A q \in Request : pending'[q] # None =>
         /\ q < next'
         /\ pending'[q].login # None => Spent(pending'[q].login)
         /\ pending'[q].kind # "Login" => pending'[q].login # None
    BY <1>1 DEF SpentNames
  <2> QED
    BY <1>2, <2>1, <2>2, <2>3, <2>4 DEF SpentNames
<1>6. Agreeing'
  BY <1>1, <1>3 DEF Agreeing
<1> QED
  BY <1>5, <1>6

LEMMA NothingDropped ==
    ASSUME TypeOK
    PROVE  Keys({}) /\ SessionsWithout({}) = sessions /\ Leaving({}) = {}
  BY DEF Keys, SessionsWithout, Leaving, TypeOK

LEMMA LeavingType ==
    ASSUME TypeOK, NEW gone, Keys(gone)
    PROVE  /\ Leaving(gone) \subseteq Identity
           /\ {[login |-> i.login, token |-> i.token] : i \in Leaving(gone)} \subseteq Departed
<1>1. Leaving(gone) \subseteq Identity
  BY LeavingAre
<1> QED
  BY <1>1 DEF Identity, Departed

(* The tables after a drop have their types. *)
LEMMA DroppedType ==
    ASSUME TypeOK, Separate(sessions, detached, leftWith), NEW gone, Keys(gone)
    PROVE  /\ SessionsWithout(gone) \in [Sid -> Session \cup {None}]
           /\ Without(byAccount, [k \in gone |-> sessions[k.sid].account]) \in [Account -> Ref \cup {None}]
           /\ Without(byChar, [k \in gone |-> sessions[k.sid].char]) \in [Char -> Ref \cup {None}]
           /\ Without(byLogin, [k \in gone |-> sessions[k.sid].login]) \in [Login -> Ref \cup {None}]
           /\ Without(byToken, [k \in gone |-> sessions[k.sid].token]) \in [Token -> Ref \cup {None}]
           /\ DetachedWith(Leaving(gone)) \subseteq Identity
           /\ LeftWithAlso(Leaving(gone)) \subseteq Departed
<1>1. /\ byAccount \in [Account -> Ref \cup {None}] /\ byChar \in [Char -> Ref \cup {None}]
      /\ byLogin \in [Login -> Ref \cup {None}] /\ byToken \in [Token -> Ref \cup {None}]
      /\ detached \subseteq Identity /\ leftWith \subseteq Departed
  BY DEF TypeOK
<1>2. /\ DetachedWith(Leaving(gone)) \subseteq Identity
      /\ LeftWithAlso(Leaving(gone)) \subseteq Departed
  BY <1>1, LeavingType, DetachedGrows
<1> QED
  BY <1>1, <1>2, WithoutType, SessionsWithoutType

-----------------------------------------------------------------------------
(* The client line                                                         *)

LEMMA LineClosedKeeps ==
    ASSUME Inv, NEW s \in Sid, OnLineClosed(s)
    PROVE  Inv'
<1> DEFINE keys == {RefOf(s, conn[s])}
           gone == Current(keys)
<1>0. TypeOK /\ Indexed(sessions, byAccount, byLogin, byToken) /\ Separate(sessions, detached, leftWith)
  BY DEF Inv
<1>1. conn[s] \in Serial
  BY <1>0 DEF OnLineClosed, TypeOK, Serial
<1>2. Keys(gone)
  BY <1>0, <1>1, RefFields, KeysCurrent
<1>3. /\ sessions' = SessionsWithout(gone)
      /\ byAccount' = Without(byAccount, [k \in gone |-> sessions[k.sid].account])
      /\ byChar' = Without(byChar, [k \in gone |-> sessions[k.sid].char])
      /\ byLogin' = Without(byLogin, [k \in gone |-> sessions[k.sid].login])
      /\ byToken' = Without(byToken, [k \in gone |-> sessions[k.sid].token])
      /\ detached' = DetachedWith(Leaving(gone))
      /\ leftWith' = LeftWithAlso(Leaving(gone))
  BY DEF OnLineClosed, RemoveLoginSessions
<1>4. /\ UNCHANGED <<serial, ready, next, pending, awaited, issued, entered>>
      /\ conn' = [conn EXCEPT ![s] = 0] /\ kicked' = kicked \ {s}
  BY DEF OnLineClosed, requests, account
<1> HIDE DEF gone
<1>5. TypeOK'
  <2>1. conn' \in [Sid -> Nat] /\ kicked' \subseteq Sid
    BY <1>0, <1>4 DEF TypeOK
  <2> QED
    BY <1>0, <1>2, <1>3, <1>4, <2>1, DroppedType DEF TypeOK
<1>6. Indexed(sessions, byAccount, byLogin, byToken)'
  <2>1. Indexed(sessions', byAccount', byLogin', byToken')
    BY <1>0, <1>2, <1>3, DroppedIndexed
  <2> QED
    BY <2>1 DEF Indexed
<1>7. Separate(sessions, detached, leftWith)'
  <2>1. Separate(sessions', detached', leftWith')
    BY <1>0, <1>2, <1>3, DroppedSeparate
  <2> QED
    BY <2>1 DEF Separate
<1>8. detached' = detached \cup Leaving(gone)
  BY <1>0, <1>2, <1>3, DetachedGrows
<1>9. SpentNames' /\ Agreeing'
  BY <1>2, <1>3, <1>4, <1>8, SessionsDropped
<1>10. EnteredIsForgotten'
  <2> SUFFICES ASSUME NEW i \in issued, i.token \in entered
               PROVE  /\ i \notin detached'
                      /\ \A u \in Sid : sessions'[u] # None =>
                           ~(sessions'[u].token = i.token /\ sessions'[u].login = i.login)
    BY <1>4 DEF EnteredIsForgotten
  <2>1. /\ i \notin detached
        /\ \A u \in Sid : sessions[u] # None =>
             ~(sessions[u].token = i.token /\ sessions[u].login = i.login)
    BY DEF Inv, EnteredIsForgotten
  <2>2. i \notin Leaving(gone)
    BY <1>0, <1>2, <2>1, LeavingAre, IdentityFields
  <2>3. \A u \in Sid : sessions'[u] # None => sessions'[u] = sessions[u] /\ sessions[u] # None
    BY <1>0, <1>2, <1>3, Stays
  <2> QED
    BY <1>8, <2>1, <2>2, <2>3
<1> QED
  BY <1>5, <1>6, <1>7, <1>9, <1>10 DEF Inv

(* What is forwarded: nothing yet, or the names of a session. *)
LEMMA IssueKeeps ==
    ASSUME Inv, NEW q \in Forward, Issue(q),
           \/ q.kind = "Login" /\ q.login = None
           \/ \E s \in Sid : /\ sessions[s] # None
                             /\ q.login = sessions[s].login /\ q.account = sessions[s].account
    PROVE  Inv'
<1>0. TypeOK /\ SpentNames /\ Agreeing /\ Indexed(sessions, byAccount, byLogin, byToken)
  BY DEF Inv
<1>1. /\ next \in Request /\ pending' = [pending EXCEPT ![next] = q] /\ next' = next + 1
      /\ awaited' = awaited \cup {next}
      /\ UNCHANGED <<serial, conn, kicked, ready, sessions, byAccount, byChar, byLogin, byToken,
                     detached, leftWith, issued, entered>>
  BY DEF Issue, line, indexes, left, account
<1>2. next \in Nat /\ Request \subseteq Nat
  BY <1>0, RequestIsNat DEF TypeOK
<1>3. /\ pending' \in [Request -> Forward \cup {None}] /\ pending'[next] = q
      /\ \A p \in Request : p # next => pending'[p] = pending[p]
  BY <1>0, <1>1 DEF TypeOK
<1>4. TypeOK'
  <2>1. next' \in Nat /\ awaited' \subseteq Request
    BY <1>0, <1>1, <1>2 DEF TypeOK
  <2> QED
    BY <1>0, <1>1, <1>3, <2>1 DEF TypeOK
<1>5. Indexed(sessions, byAccount, byLogin, byToken)' /\ Separate(sessions, detached, leftWith)'
      /\ EnteredIsForgotten'
  BY <1>1 DEF Inv, Indexed, Separate, EnteredIsForgotten
<1>6. \A r \in Request : Spent(r) => Spent(r)' /\ r # next
  BY <1>1, <1>2, <1>3 DEF Spent
<1>7. \A s \in Sid : sessions[s] # None =>
        /\ sessions[s].login \in Request
        /\ sessions[s].token # None => sessions[s].token \in Request
  BY <1>0, SessionFields
<1>8. q.login # None => Spent(q.login) /\ q.login \in Request
  BY <1>0, <1>7 DEF SpentNames
<1>9. q.kind # "Login" => q.login # None
  BY <1>7, NoneIsNothing
<1>10. SpentNames'
  <2>1. \A s \in Sid : sessions'[s] # None =>
          /\ Spent(sessions[s].login)'
          /\ sessions'[s].token # None => Spent(sessions[s].token)'
    BY <1>0, <1>1, <1>6, <1>7 DEF SpentNames
  <2>2. ASSUME NEW p \in Request, pending'[p] # None
        PROVE  /\ p < next'
               /\ pending'[p].login # None => Spent(pending[p].login)'
               /\ pending'[p].kind # "Login" => pending'[p].login # None
    <3>1. CASE p = next
      BY <1>1, <1>2, <1>3, <1>6, <1>8, <1>9, <3>1 DEF Spent
    <3>2. CASE p # next
      <4>1. pending'[p] = pending[p] /\ pending[p] # None
        BY <1>3, <2>2, <3>2
      <4>2. pending[p].login \in Request \cup {None}
        BY <1>0, <4>1, ForwardFields
      <4>3. p < next /\ p < next'
        BY <1>0, <1>1, <1>2, <4>1 DEF SpentNames
      <4>4. pending[p].login # None => Spent(pending[p].login)
        BY <1>0, <4>1 DEF SpentNames
      <4>5. pending[p].login # None =>
              pending[p].login < next' /\ pending'[pending[p].login] = None
        BY <1>6, <4>2, <4>4 DEF Spent
      <4> QED
        BY <1>0, <4>1, <4>3, <4>5 DEF Spent, SpentNames
    <3> QED
      BY <3>1, <3>2
  <2>3. \A i \in issued' \cup detached' : Spent(i.login)' /\ Spent(i.token)'
    <3>1. \A i \in issued \cup detached : i.login \in Request /\ i.token \in Request
      BY <1>0, RequestIsNat DEF TypeOK, Identity
    <3> QED
      BY <1>0, <1>1, <1>6, <3>1 DEF SpentNames
  <2>4. \A t \in entered' : Spent(t)'
    <3>1. entered \subseteq Request
      BY <1>0, RequestIsNat DEF TypeOK
    <3> QED
      BY <1>0, <1>1, <1>6, <3>1 DEF SpentNames
  <2> QED
    BY <2>1, <2>2, <2>3, <2>4 DEF SpentNames
<1>11. Agreeing'
  <2>1. ASSUME NEW s \in Sid, sessions[s] # None, q.login = sessions[s].login
        PROVE  q.account = sessions[s].account
    <3>1. q.login # None
      BY <1>7, <2>1, NoneIsNothing
    <3>2. PICK u \in Sid : /\ sessions[u] # None
                           /\ q.login = sessions[u].login /\ q.account = sessions[u].account
      BY <3>1
    <3>3. s = u
      BY <1>0, <2>1, <3>2, NamesOfOne
    <3> QED
      BY <3>2, <3>3
  <2>2. ASSUME NEW s \in Sid, sessions[s] # None, NEW p \in Request, pending'[p] # None,
               pending'[p].login = sessions[s].login
        PROVE  pending'[p].account = sessions[s].account
    BY <1>0, <1>3, <2>1, <2>2 DEF Agreeing
  <2> QED
    BY <1>0, <1>1, <2>2 DEF Agreeing
<1> QED
  BY <1>4, <1>5, <1>10, <1>11 DEF Inv

LEMMA PacketKeeps ==
    ASSUME Inv, NEW s \in Sid, ClientPacket(s)
    PROVE  Inv'
<1>0. TypeOK
  BY DEF Inv
<1>1. ASSUME NEW a \in Account, IssueLoginRequest(s, a) PROVE Inv'
  <2> DEFINE q == [kind |-> "Login", sid |-> s, serial |-> conn[s], account |-> a, login |-> None]
  <2>1. q \in Forward /\ Issue(q) /\ q.kind = "Login" /\ q.login = None
    BY <1>0, <1>1 DEF IssueLoginRequest, Forward, Kind, TypeOK, Serial
  <2> HIDE DEF q
  <2> QED
    BY <2>1, IssueKeeps
<1>2. ASSUME NEW kind \in Kind, LoggedIn(s), Issue(FromSession(kind, s)) PROVE Inv'
  <2> DEFINE q == FromSession(kind, s)
  <2>1. sessions[s] # None /\ conn[s] \in Serial
    BY <1>0, <1>2 DEF LoggedIn, TypeOK, Serial
  <2>2. /\ q \in Forward
        /\ q.login = sessions[s].login /\ q.account = sessions[s].account
    BY <1>0, <2>1, SessionFields, RequestIsNat DEF FromSession, Forward
  <2> HIDE DEF q
  <2> QED
    BY <1>2, <2>1, <2>2, IssueKeeps DEF q
<1> QED
  BY <1>1, <1>2
  DEF ClientPacket, IssueWorldListRequest, IssueWorldSelectRequest, IssueCharacterListRequest,
      IssueCharacterSelectRequest, Kind

-----------------------------------------------------------------------------
(* The account line                                                        *)

(* The answer takes request r out; whatever was spent stays spent, and r is.*)
LEMMA AnswerSpends ==
    ASSUME Inv, NEW r \in Request, Answered(r), pending[r] # None
    PROVE  /\ next' = next /\ awaited' \subseteq Request
           /\ pending' \in [Request -> Forward \cup {None}] /\ pending'[r] = None
           /\ \A p \in Request : pending'[p] # None => p # r /\ pending'[p] = pending[p]
           /\ \A p \in Request : Spent(p) => Spent(p)' /\ p # r
           /\ Spent(r)'
<1>0. TypeOK /\ SpentNames
  BY DEF Inv
<1>1. /\ pending' = [pending EXCEPT ![r] = None] /\ next' = next /\ awaited' = awaited \ {r}
  BY DEF Answered
<1>2. r < next
  BY <1>0 DEF SpentNames
<1>3. /\ pending' \in [Request -> Forward \cup {None}] /\ pending'[r] = None
      /\ \A p \in Request : p # r => pending'[p] = pending[p]
  BY <1>0, <1>1 DEF TypeOK
<1> QED
  BY <1>0, <1>1, <1>2, <1>3 DEF Spent, TypeOK

LEMMA PassedOnKeeps ==
    ASSUME Inv, NEW r \in Request, PassedOn(r)
    PROVE  Inv'
<1>0. TypeOK
  BY DEF Inv
<1>1. /\ pending' = [pending EXCEPT ![r] = None] /\ next' = next /\ awaited' = awaited \ {r}
      /\ UNCHANGED <<serial, conn, kicked, ready, sessions, indexes, left, issued, entered>>
  BY DEF PassedOn, Answered, line, account
<1>2. \A q \in Request : pending'[q] \in {pending[q], None}
  BY <1>0, <1>1 DEF TypeOK
<1>3. TypeOK'
  BY <1>0, <1>1 DEF TypeOK, indexes, left
<1>4. /\ Indexed(sessions, byAccount, byLogin, byToken)' /\ Separate(sessions, detached, leftWith)'
      /\ EnteredIsForgotten' /\ SpentNames' /\ Agreeing'
  BY <1>1, <1>2, RequestsDropped
<1> QED
  BY <1>3, <1>4 DEF Inv

LEMMA ExpiryKeeps ==
    ASSUME Inv, NEW r \in Request, ExpirePendingLoginRequests(r)
    PROVE  Inv'
<1>0. TypeOK
  BY DEF Inv
<1>1. /\ pending' = [q \in Request |-> IF q \in Expired(r) THEN None ELSE pending[q]]
      /\ UNCHANGED <<serial, conn, kicked, ready, sessions, indexes, left, next, awaited, issued, entered>>
  BY DEF ExpirePendingLoginRequests, line, account
<1>2. \A q \in Request : pending'[q] \in {pending[q], None}
  BY <1>0, <1>1 DEF TypeOK
<1>3. pending' \in [Request -> Forward \cup {None}]
  BY <1>0, <1>1 DEF TypeOK
<1>4. TypeOK'
  BY <1>0, <1>1, <1>3 DEF TypeOK, indexes, left
<1>5. /\ Indexed(sessions, byAccount, byLogin, byToken)' /\ Separate(sessions, detached, leftWith)'
      /\ EnteredIsForgotten' /\ SpentNames' /\ Agreeing'
  BY <1>1, <1>2, RequestsDropped
<1> QED
  BY <1>4, <1>5 DEF Inv

(* The names in a state, typed: what the steps below read them as. *)
LEMMA NamesTyped ==
    ASSUME TypeOK
    PROVE  /\ \A i \in issued \cup detached :
                /\ i.login \in Request /\ i.token \in Request
                /\ i.login # None /\ i.token # None
           /\ entered \subseteq Request
<1>1. \A i \in issued \cup detached : i.login \in Request /\ i.token \in Request
  BY RequestIsNat DEF TypeOK, Identity
<1>2. entered \subseteq Request
  BY RequestIsNat DEF TypeOK
<1> QED
  BY <1>1, <1>2, NoneIsNothing

LEMMA AuthKeeps ==
    ASSUME Inv, NEW r \in Request, OnAccountAuthResult(r)
    PROVE  Inv'
<1> DEFINE q == pending[r]
           ref == RefOf(q.sid, q.serial)
           keys == Replaced(q.sid, q.serial, q.account)
           gone == Current(keys)
           lost == Leaving(gone)
           S == SessionsWithout(gone)
           A == Without(byAccount, [k \in gone |-> sessions[k.sid].account])
           L == Without(byLogin, [k \in gone |-> sessions[k.sid].login])
           T == Without(byToken, [k \in gone |-> sessions[k.sid].token])
           D == DetachedWith(lost)
           W == LeftWithAlso(lost)
           new == [serial |-> q.serial, account |-> q.account, login |-> r, world |-> FALSE,
                   char |-> None, token |-> None]
<1>0. /\ TypeOK /\ Indexed(sessions, byAccount, byLogin, byToken) /\ Separate(sessions, detached, leftWith)
      /\ SpentNames /\ Agreeing /\ EnteredIsForgotten
  BY DEF Inv
<1>1. q # None /\ Answered(r)
  BY DEF OnAccountAuthResult, Asks
<1>2. q.sid \in Sid /\ q.serial \in Serial /\ q.account \in Account
  BY <1>0, <1>1, ForwardFields
<1>3. ref \in Ref /\ ref.sid = q.sid /\ ref.serial = q.serial /\ byAccount[q.account] \in Ref \cup {None}
  BY <1>0, <1>2, RefFields DEF TypeOK
<1>4. keys \subseteq Ref
  BY <1>3 DEF Replaced
<1>5. Keys(gone)
  BY <1>0, <1>4, KeysCurrent
<1>6. /\ sessions' = [S EXCEPT ![q.sid] = new]
      /\ byAccount' = [A EXCEPT ![q.account] = ref]
      /\ byChar' = Without(byChar, [k \in gone |-> sessions[k.sid].char])
      /\ byLogin' = [L EXCEPT ![r] = ref]
      /\ byToken' = T
      /\ detached' = D
      /\ leftWith' = {d \in W : d.login # r}
      /\ kicked' = kicked \cup {k.sid : k \in {k \in gone \ {ref} : conn[k.sid] = k.serial}}
      /\ UNCHANGED <<serial, conn, ready, issued, entered>>
  BY DEF OnAccountAuthResult
<1>7. /\ next' = next /\ awaited' \subseteq Request
      /\ pending' \in [Request -> Forward \cup {None}] /\ pending'[r] = None
      /\ \A p \in Request : pending'[p] # None => p # r /\ pending'[p] = pending[p]
      /\ \A p \in Request : Spent(p) => Spent(p)' /\ p # r
      /\ Spent(r)'
  BY <1>1, AnswerSpends
<1>8. new \in Session /\ new.login = r /\ new.token = None /\ new.account = q.account
      /\ new.serial = q.serial /\ new.char = None
  BY <1>2, RequestIsNat DEF Session
<1>9. new # None
  BY <1>8, NoneIsNothing
<1>10. ASSUME NEW s \in Sid, S[s] # None
       PROVE  S[s] = sessions[s] /\ sessions[s] # None /\ RefOf(s, sessions[s].serial) \notin gone
  BY <1>0, <1>5, <1>10, Stays
<1>11. /\ S \in [Sid -> Session \cup {None}]
       /\ A \in [Account -> Ref \cup {None}]
       /\ Without(byChar, [k \in gone |-> sessions[k.sid].char]) \in [Char -> Ref \cup {None}]
       /\ L \in [Login -> Ref \cup {None}] /\ T \in [Token -> Ref \cup {None}]
       /\ D \subseteq Identity /\ W \subseteq Departed
  BY <1>0, <1>5, DroppedType
<1>12. Indexed(S, A, L, T) /\ Separate(S, D, W)
  BY <1>0, <1>5, DroppedIndexed, DroppedSeparate
<1>13. D = detached \cup lost
  BY <1>0, <1>5, DetachedGrows
<1>14. ASSUME NEW s \in Sid, S[s] # None PROVE S[s].account # q.account
  <2>1. S[s] = sessions[s] /\ sessions[s] # None /\ RefOf(s, sessions[s].serial) \notin gone
    BY <1>10, <1>14
  <2>2. ASSUME sessions[s].account = q.account PROVE FALSE
    <3>1. byAccount[q.account] = RefOf(s, sessions[s].serial)
      BY <1>0, <2>1, <2>2 DEF Indexed
    <3>2. sessions[s].serial \in Serial
      BY <1>0, <2>1, SessionFields
    <3>3. /\ RefOf(s, sessions[s].serial) # None
          /\ RefOf(s, sessions[s].serial).sid = s
          /\ RefOf(s, sessions[s].serial).serial = sessions[s].serial
      BY <3>2, RefFields
    <3>4. RefOf(s, sessions[s].serial) \in keys
      BY <3>1, <3>3 DEF Replaced
    <3> QED
      BY <2>1, <3>3, <3>4 DEF Current
  <2> QED
    BY <2>1, <2>2
<1>15. \A i \in D : Spent(i.login) /\ Spent(i.token) /\ i.login \in Request /\ i.token \in Request
  <2>1. \A i \in lost : Spent(i.login) /\ Spent(i.token)
    BY <1>0, <1>5, LeavingAre, IdentityFields DEF SpentNames
  <2>2. \A i \in lost : i.login \in Request /\ i.token \in Request
    BY <1>11, <1>13, RequestIsNat DEF Identity
  <2> QED
    BY <1>0, <1>13, <2>1, <2>2, NamesTyped DEF SpentNames
<1>16. \A k \in gone : k.sid \in Sid
  BY <1>0, <1>5, KeysOf
<1>17. /\ \A i \in lost : \E s \in Sid : /\ sessions[s] # None /\ i = IdentityOf(s)
  BY <1>0, <1>5, LeavingAre
<1> HIDE DEF gone, S, A, L, T, D, W, ref, new, lost
<1>18. /\ sessions' \in [Sid -> Session \cup {None}] /\ sessions'[q.sid] = new
       /\ \A s \in Sid : s # q.sid => sessions'[s] = S[s]
  BY <1>2, <1>6, <1>8, <1>11
<1>19. TypeOK'
  <2>1. /\ byAccount' \in [Account -> Ref \cup {None}]
        /\ byLogin' \in [Login -> Ref \cup {None}]
    BY <1>3, <1>6, <1>11
  <2>2. kicked' \subseteq Sid /\ leftWith' \subseteq Departed
    BY <1>0, <1>6, <1>11, <1>16 DEF TypeOK
  <2> QED
    BY <1>0, <1>6, <1>7, <1>11, <1>18, <2>1, <2>2 DEF TypeOK
<1>20. \A s \in Sid : s # q.sid /\ sessions'[s] # None =>
          sessions'[s] = S[s] /\ sessions'[s] = sessions[s] /\ sessions[s] # None
  BY <1>10, <1>18
<1>21. ASSUME NEW s \in Sid, sessions[s] # None
       PROVE  /\ Spent(sessions[s].login) /\ sessions[s].login \in Request /\ sessions[s].login # r
              /\ sessions[s].token # None => Spent(sessions[s].token) /\ sessions[s].token \in Request
  BY <1>0, <1>7, <1>21, SessionFields DEF SpentNames
<1>22. Indexed(sessions, byAccount, byLogin, byToken)'
  <2> SUFFICES ASSUME NEW s \in Sid, sessions'[s] # None
               PROVE  /\ byAccount'[sessions'[s].account] = RefOf(s, sessions'[s].serial)
                      /\ byLogin'[sessions'[s].login] = RefOf(s, sessions'[s].serial)
                      /\ sessions'[s].token # None =>
                           byToken'[sessions'[s].token] = RefOf(s, sessions'[s].serial)
    BY DEF Indexed
  <2>1. CASE s = q.sid
    BY <1>2, <1>6, <1>8, <1>11, <1>18, <2>1, RequestIsNat DEF ref
  <2>2. CASE s # q.sid
    <3>1. sessions'[s] = S[s] /\ S[s] = sessions[s] /\ sessions[s] # None
      BY <1>20, <2>2
    <3>2. S[s].account # q.account /\ S[s].login # r
      BY <1>14, <1>21, <3>1
    <3>3. S[s].account \in Account /\ S[s].login \in Login
      BY <1>0, <3>1, SessionFields, RequestIsNat
    <3>4. byAccount'[S[s].account] = A[S[s].account] /\ byLogin'[S[s].login] = L[S[s].login]
      BY <1>6, <1>11, <3>2, <3>3
    <3> QED
      BY <1>6, <1>12, <3>1, <3>4 DEF Indexed
  <2> QED
    BY <2>1, <2>2
<1>23. Separate(sessions, detached, leftWith)'
  <2>1. leftWith' = {[login |-> d.login, token |-> d.token] : d \in D}
    <3>1. W = {[login |-> d.login, token |-> d.token] : d \in D}
      BY <1>12 DEF Separate
    <3>2. \A d \in D : d.login # r
      BY <1>7, <1>15
    <3>3. \A w \in W : w.login # r
      BY <3>1, <3>2
    <3> QED
      BY <1>6, <3>1, <3>3
  <2>2. \A d, e \in D : (d.token = e.token \/ d.login = e.login) => d = e
    BY <1>12 DEF Separate
  <2>3. ASSUME NEW d \in D, NEW s \in Sid, sessions'[s] # None
        PROVE  sessions'[s].token # d.token /\ sessions'[s].login # d.login
    <3>1. CASE s = q.sid
      <4>1. d.login # r /\ d.token # None
        BY <1>7, <1>15, NoneIsNothing
      <4> QED
        BY <1>8, <1>18, <3>1, <4>1
    <3>2. CASE s # q.sid
      BY <1>12, <1>18, <2>3, <3>2 DEF Separate
    <3> QED
      BY <3>1, <3>2
  <2> QED
    BY <1>6, <2>1, <2>2, <2>3 DEF Separate
<1>24. SpentNames'
  <2>1. ASSUME NEW s \in Sid, sessions'[s] # None
        PROVE  /\ Spent(sessions[s].login)'
               /\ sessions'[s].token # None => Spent(sessions[s].token)'
    <3>1. CASE s = q.sid
      BY <1>7, <1>8, <1>18, <3>1 DEF Spent
    <3>2. CASE s # q.sid
      BY <1>7, <1>20, <1>21, <2>1, <3>2 DEF Spent
    <3> QED
      BY <3>1, <3>2
  <2>2. ASSUME NEW p \in Request, pending'[p] # None
        PROVE  /\ p < next'
               /\ pending'[p].login # None => Spent(pending[p].login)'
               /\ pending'[p].kind # "Login" => pending'[p].login # None
    <3>1. pending'[p] = pending[p] /\ pending[p] # None
      BY <1>7, <2>2
    <3>2. pending[p].login \in Request \cup {None}
      BY <1>0, <3>1, ForwardFields
    <3> QED
      BY <1>0, <1>7, <3>1, <3>2 DEF SpentNames, Spent
  <2>3. \A i \in issued' \cup detached' : Spent(i.login)' /\ Spent(i.token)'
    BY <1>0, <1>6, <1>7, <1>15, NamesTyped DEF SpentNames
  <2>4. \A t \in entered' : Spent(t)'
    BY <1>0, <1>6, <1>7, NamesTyped DEF SpentNames
  <2> QED
    BY <2>1, <2>2, <2>3, <2>4 DEF SpentNames
<1>25. Agreeing'
  <2>1. ASSUME NEW s \in Sid, sessions'[s] # None
        PROVE  /\ \A p \in Request : pending'[p] # None /\ pending'[p].login = sessions'[s].login =>
                    pending'[p].account = sessions'[s].account
               /\ \A i \in issued :
                    /\ i.login = sessions'[s].login => i.account = sessions'[s].account
                    /\ i.token = sessions'[s].token => i.char = sessions'[s].char
    <3>1. CASE s = q.sid
      <4>1. sessions'[s].login = r /\ sessions'[s].token = None
        BY <1>8, <1>18, <3>1
      <4>2. \A i \in issued : i.login # r /\ i.token # None
        BY <1>0, <1>7, NamesTyped DEF SpentNames
      <4>3. ASSUME NEW p \in Request, pending'[p] # None PROVE pending'[p].login # r
        <5>1. pending'[p] = pending[p] /\ pending[p] # None
          BY <1>7, <4>3
        <5>2. pending[p].login \in Request \cup {None}
          BY <1>0, <5>1, ForwardFields
        <5> QED
          BY <1>0, <1>7, <5>1, <5>2, NoneIsNothing DEF SpentNames
      <4> QED
        BY <4>1, <4>2, <4>3
    <3>2. CASE s # q.sid
      BY <1>0, <1>7, <1>20, <2>1, <3>2 DEF Agreeing
    <3> QED
      BY <3>1, <3>2
  <2> QED
    BY <1>0, <1>6, <2>1 DEF Agreeing
<1>26. EnteredIsForgotten'
  <2> SUFFICES ASSUME NEW i \in issued, i.token \in entered
               PROVE  /\ i \notin detached'
                      /\ \A u \in Sid : sessions'[u] # None =>
                           ~(sessions'[u].token = i.token /\ sessions'[u].login = i.login)
    BY <1>6 DEF EnteredIsForgotten
  <2>1. /\ i \notin detached
        /\ \A u \in Sid : sessions[u] # None =>
             ~(sessions[u].token = i.token /\ sessions[u].login = i.login)
    BY <1>0 DEF EnteredIsForgotten
  <2>2. i \notin lost
    BY <1>17, <2>1, IdentityFields
  <2>3. i.token # None
    BY <1>0, NamesTyped
  <2> QED
    BY <1>6, <1>8, <1>13, <1>18, <1>20, <2>1, <2>2, <2>3
<1> QED
  BY <1>19, <1>22, <1>23, <1>24, <1>25, <1>26 DEF Inv

(* The answer to a selection: sessions keep their names but for the token, *)
(* which goes or is the new one, issued to identity i.                     *)
LEMMA SelectionKeeps ==
    ASSUME Inv, NEW r \in Request, Answered(r), pending[r] # None, pending[r].login # None,
           NEW i, i.token = r, i.login = pending[r].login, i.account = pending[r].account,
           issued' = issued \/ issued' = issued \cup {i},
           UNCHANGED <<byAccount, byLogin, detached, leftWith, entered>>,
           \A s \in Sid : sessions'[s] # None =>
             /\ sessions[s] # None
             /\ sessions'[s].serial = sessions[s].serial
             /\ sessions'[s].account = sessions[s].account
             /\ sessions'[s].login = sessions[s].login
             /\ \/ sessions'[s].token = sessions[s].token /\ sessions'[s].char = sessions[s].char
                \/ sessions'[s].token = None
                \/ sessions'[s].token = r /\ sessions'[s].char = i.char
             /\ sessions'[s].token # None => byToken'[sessions'[s].token] = RefOf(s, sessions[s].serial)
    PROVE  /\ Indexed(sessions, byAccount, byLogin, byToken)'
           /\ Separate(sessions, detached, leftWith)'
           /\ EnteredIsForgotten' /\ SpentNames' /\ Agreeing'
<1>0. /\ TypeOK /\ Indexed(sessions, byAccount, byLogin, byToken) /\ Separate(sessions, detached, leftWith)
      /\ SpentNames /\ Agreeing /\ EnteredIsForgotten
  BY DEF Inv
<1>1. /\ next' = next /\ pending'[r] = None
      /\ \A p \in Request : pending'[p] # None => p # r /\ pending'[p] = pending[p]
      /\ \A p \in Request : Spent(p) => Spent(p)' /\ p # r
      /\ Spent(r)'
  BY AnswerSpends
<1>2. ASSUME NEW s \in Sid, sessions[s] # None
      PROVE  /\ Spent(sessions[s].login) /\ sessions[s].login \in Request
             /\ sessions[s].token # None => Spent(sessions[s].token) /\ sessions[s].token \in Request
             /\ sessions[s].token # r
  BY <1>0, <1>1, <1>2, SessionFields, NoneIsNothing DEF SpentNames
<1>3. Spent(i.login) /\ i.login \in Request
  BY <1>0, ForwardFields DEF SpentNames
<1>4. \A j \in issued \cup detached :
        /\ Spent(j.login) /\ Spent(j.token) /\ j.login \in Request /\ j.token \in Request
        /\ j.token # r /\ j.token # None
  BY <1>0, <1>1, NamesTyped DEF SpentNames
<1>5. \A t \in entered : Spent(t) /\ t \in Request /\ t # r
  BY <1>0, <1>1, NamesTyped DEF SpentNames
<1>6. Indexed(sessions, byAccount, byLogin, byToken)'
  BY <1>0 DEF Indexed
<1>7. Separate(sessions, detached, leftWith)'
  <2>1. ASSUME NEW d \in detached, NEW s \in Sid, sessions'[s] # None
        PROVE  sessions'[s].token # d.token /\ sessions'[s].login # d.login
    BY <1>0, <1>4, <2>1 DEF Separate
  <2> QED
    BY <1>0, <2>1 DEF Separate
<1>8. EnteredIsForgotten'
  <2> SUFFICES ASSUME NEW j \in issued', j.token \in entered
               PROVE  /\ j \notin detached
                      /\ \A s \in Sid : sessions'[s] # None =>
                           ~(sessions'[s].token = j.token /\ sessions'[s].login = j.login)
    BY DEF EnteredIsForgotten
  <2>1. j \in issued /\ j.token # r /\ j.token # None
    BY <1>4, <1>5
  <2> QED
    BY <1>0, <2>1 DEF EnteredIsForgotten
<1>9. SpentNames'
  <2>1. ASSUME NEW s \in Sid, sessions'[s] # None
        PROVE  /\ Spent(sessions[s].login)'
               /\ sessions'[s].token # None => Spent(sessions[s].token)'
    BY <1>1, <1>2, <2>1 DEF Spent
  <2>2. ASSUME NEW p \in Request, pending'[p] # None
        PROVE  /\ p < next'
               /\ pending'[p].login # None => Spent(pending[p].login)'
               /\ pending'[p].kind # "Login" => pending'[p].login # None
    <3>1. pending'[p] = pending[p] /\ pending[p] # None
      BY <1>1, <2>2
    <3>2. pending[p].login \in Request \cup {None}
      BY <1>0, <3>1, ForwardFields
    <3> QED
      BY <1>0, <1>1, <3>1, <3>2 DEF SpentNames, Spent
  <2>3. \A j \in issued' \cup detached' : Spent(j.login)' /\ Spent(j.token)'
    BY <1>1, <1>3, <1>4
  <2>4. \A t \in entered' : Spent(t)'
    BY <1>1, <1>5
  <2> QED
    BY <2>1, <2>2, <2>3, <2>4 DEF SpentNames
<1>10. Agreeing'
  <2>1. ASSUME NEW s \in Sid, sessions'[s] # None, NEW p \in Request, pending'[p] # None,
               pending'[p].login = sessions'[s].login
        PROVE  pending'[p].account = sessions'[s].account
    BY <1>0, <1>1, <2>1 DEF Agreeing
  <2>2. ASSUME NEW s \in Sid, sessions'[s] # None, NEW j \in issued', j.login = sessions'[s].login
        PROVE  j.account = sessions'[s].account
    BY <1>0, <2>2 DEF Agreeing
  <2>3. ASSUME NEW s \in Sid, sessions'[s] # None, NEW j \in issued', j.token = sessions'[s].token
        PROVE  j.char = sessions'[s].char
    <3>1. CASE j \in issued
      BY <1>0, <1>4, <2>3, <3>1 DEF Agreeing
    <3>2. CASE j = i
      BY <1>2, <2>3, <3>2, NoneIsNothing
    <3> QED
      BY <3>1, <3>2
  <2>4. \A j, h \in issued' : j.token = h.token => j = h
    BY <1>0, <1>4 DEF Agreeing
  <2> QED
    BY <2>1, <2>2, <2>3, <2>4 DEF Agreeing
<1> QED
  BY <1>6, <1>7, <1>8, <1>9, <1>10

LEMMA WorldSelectKeeps ==
    ASSUME Inv, NEW r \in Request, OnWorldSelectResult(r)
    PROVE  Inv'
<1> DEFINE q == pending[r]
           e == sessions[q.sid]
           new == [e EXCEPT !.world = TRUE, !.token = None]
           i == [account |-> q.account, char |-> None, login |-> q.login, token |-> r]
<1>0. TypeOK /\ SpentNames /\ Indexed(sessions, byAccount, byLogin, byToken)
  BY DEF Inv
<1>1. q # None /\ q.kind = "WorldSelect" /\ Answered(r) /\ e # None
  BY DEF OnWorldSelectResult, Asks, Target
<1>2. q.sid \in Sid /\ q.login # None
  BY <1>0, <1>1, ForwardFields DEF SpentNames
<1>3. e \in Session
  BY <1>0, <1>1, <1>2, SessionFields
<1>4. /\ new \in Session /\ new.serial = e.serial /\ new.account = e.account /\ new.login = e.login
      /\ new.token = None
  BY <1>3 DEF Session
<1>5. /\ sessions' = [sessions EXCEPT ![q.sid] = new]
      /\ UNCHANGED <<serial, conn, kicked, ready, byAccount, byChar, byLogin, byToken,
                     detached, leftWith, issued, entered>>
  BY <1>0, <1>2, <1>3 DEF OnWorldSelectResult, line, indexes, left, account, TypeOK, Session
<1>6. /\ next' = next /\ awaited' \subseteq Request
      /\ pending' \in [Request -> Forward \cup {None}]
  BY <1>1, AnswerSpends
<1> HIDE DEF new
<1>7. /\ sessions' \in [Sid -> Session \cup {None}] /\ sessions'[q.sid] = new
      /\ \A s \in Sid : s # q.sid => sessions'[s] = sessions[s]
  BY <1>0, <1>2, <1>4, <1>5 DEF TypeOK
<1>8. TypeOK'
  BY <1>0, <1>5, <1>6, <1>7 DEF TypeOK
<1>9. \A s \in Sid : sessions'[s] # None =>
             /\ sessions[s] # None
             /\ sessions'[s].serial = sessions[s].serial
             /\ sessions'[s].account = sessions[s].account
             /\ sessions'[s].login = sessions[s].login
             /\ \/ sessions'[s].token = sessions[s].token /\ sessions'[s].char = sessions[s].char
                \/ sessions'[s].token = None
                \/ sessions'[s].token = r /\ sessions'[s].char = i.char
             /\ sessions'[s].token # None => byToken'[sessions'[s].token] = RefOf(s, sessions[s].serial)
  BY <1>0, <1>1, <1>4, <1>5, <1>7 DEF Indexed
<1>10. i.token = r /\ i.login = q.login /\ i.account = q.account
  OBVIOUS
<1>12. issued' = issued /\ UNCHANGED <<byAccount, byLogin, detached, leftWith, entered>>
  BY <1>5
<1> HIDE DEF i, e
<1>11. /\ Indexed(sessions, byAccount, byLogin, byToken)'
       /\ Separate(sessions, detached, leftWith)'
       /\ EnteredIsForgotten' /\ SpentNames' /\ Agreeing'
  BY <1>1, <1>2, <1>9, <1>10, <1>12, SelectionKeeps
<1> QED
  BY <1>8, <1>11 DEF Inv

LEMMA CharacterSelectKeeps ==
    ASSUME Inv, NEW r \in Request, NEW c \in Char, OnCharacterSelectResult(r, c)
    PROVE  Inv'
<1> DEFINE q == pending[r]
           e == sessions[q.sid]
           ref == RefOf(q.sid, q.serial)
           new == [e EXCEPT !.char = c, !.token = r]
           i == [account |-> q.account, char |-> c, login |-> q.login, token |-> r]
<1>0. TypeOK /\ SpentNames /\ Indexed(sessions, byAccount, byLogin, byToken)
  BY DEF Inv
<1>1. q # None /\ q.kind = "CharacterSelect" /\ Answered(r)
  BY DEF OnCharacterSelectResult, Asks
<1>2. /\ q.sid \in Sid /\ q.serial \in Serial /\ q.login # None /\ q.login \in Request
      /\ q.account \in Account
  BY <1>0, <1>1, ForwardFields DEF SpentNames
<1>3. ref \in Ref
  BY <1>2, RefFields
<1>4. /\ issued' = issued \cup {i}
      /\ UNCHANGED <<serial, conn, kicked, ready, byAccount, byLogin, detached, leftWith, entered>>
  BY DEF OnCharacterSelectResult, line, left
<1>5. /\ next' = next /\ awaited' \subseteq Request
      /\ pending' \in [Request -> Forward \cup {None}]
      /\ \A p \in Request : Spent(p) => p # r
  BY <1>1, AnswerSpends
<1>6. i \in Identity /\ i.token = r /\ i.login = q.login /\ i.account = q.account /\ i.char = c
  BY <1>2, RequestIsNat DEF Identity
<1> HIDE DEF i
<1> DEFINE F(s) == sessions'[s] # None =>
             /\ sessions[s] # None
             /\ sessions'[s].serial = sessions[s].serial
             /\ sessions'[s].account = sessions[s].account
             /\ sessions'[s].login = sessions[s].login
             /\ \/ sessions'[s].token = sessions[s].token /\ sessions'[s].char = sessions[s].char
                \/ sessions'[s].token = None
                \/ sessions'[s].token = r /\ sessions'[s].char = i.char
             /\ sessions'[s].token # None => byToken'[sessions'[s].token] = RefOf(s, sessions[s].serial)
<1>7. /\ sessions' \in [Sid -> Session \cup {None}]
      /\ byChar' \in [Char -> Ref \cup {None}] /\ byToken' \in [Token -> Ref \cup {None}]
      /\ \A s \in Sid : F(s)
  <2>1. CASE ~Target(q)
    <3>1. UNCHANGED <<sessions, byChar, byToken>>
      BY <2>1 DEF OnCharacterSelectResult
    <3> QED
      BY <1>0, <3>1 DEF TypeOK, Indexed
  <2>2. CASE Target(q)
    <3>1. /\ sessions' = [sessions EXCEPT ![q.sid].char = c, ![q.sid].token = r]
          /\ byChar' = Moved(byChar, e.char, ref, c)
          /\ byToken' = Moved(byToken, e.token, ref, r)
      BY <2>2 DEF OnCharacterSelectResult
    <3>2. e # None /\ e.serial = q.serial /\ e \in Session
      BY <1>0, <1>2, <2>2, SessionFields DEF Target
    <3>3. /\ new \in Session /\ new.serial = e.serial /\ new.account = e.account
          /\ new.login = e.login /\ new.token = r /\ new.char = c
      BY <3>2, RequestIsNat DEF Session
    <3>4. sessions' = [sessions EXCEPT ![q.sid] = new]
      BY <1>0, <1>2, <3>1, <3>2 DEF TypeOK, Session
    <3> HIDE DEF new, ref
    <3>5. /\ sessions' \in [Sid -> Session \cup {None}] /\ sessions'[q.sid] = new
          /\ \A s \in Sid : s # q.sid => sessions'[s] = sessions[s]
      BY <1>0, <1>2, <3>3, <3>4 DEF TypeOK
    <3>6. byChar' \in [Char -> Ref \cup {None}] /\ byToken' \in [Token -> Ref \cup {None}]
      BY <1>0, <1>3, <3>1 DEF Moved, TypeOK
    <3>7. byToken \in [Token -> Ref \cup {None}] /\ r \in Token
      BY <1>0, RequestIsNat DEF TypeOK
    <3>8. byToken'[r] = RefOf(q.sid, e.serial)
      BY <3>1, <3>2, <3>7 DEF Moved, ref
    <3>9. ASSUME NEW s \in Sid, s # q.sid, sessions[s] # None, sessions[s].token # None
          PROVE  byToken'[sessions[s].token] = RefOf(s, sessions[s].serial)
      <4>1. byToken[sessions[s].token] = RefOf(s, sessions[s].serial)
        BY <1>0, <3>9 DEF Indexed
      <4>2. /\ sessions[s].token \in Request /\ sessions[s].token # r /\ sessions[s].token \in Token
            /\ sessions[s].serial \in Serial
        BY <1>0, <1>5, <3>9, SessionFields, RequestIsNat DEF SpentNames
      <4>3. RefOf(s, sessions[s].serial) # ref
        BY <1>2, <3>9, <4>2, RefFields DEF ref
      <4> QED
        BY <3>1, <3>7, <4>1, <4>2, <4>3 DEF Moved
    <3>10. \A s \in Sid : F(s)
      <4> SUFFICES ASSUME NEW s \in Sid, sessions'[s] # None PROVE F(s)
        OBVIOUS
      <4>1. CASE s = q.sid
        BY <1>6, <3>2, <3>3, <3>5, <3>8, <4>1
      <4>2. CASE s # q.sid
        BY <3>5, <3>9, <4>2
      <4> QED
        BY <4>1, <4>2
    <3> QED
      BY <3>5, <3>6, <3>10
  <2> QED
    BY <2>1, <2>2
<1>8. TypeOK'
  <2>1. issued' \subseteq Identity
    BY <1>0, <1>4, <1>6 DEF TypeOK
  <2> QED
    BY <1>0, <1>4, <1>5, <1>7, <2>1 DEF TypeOK
<1>9. /\ Indexed(sessions, byAccount, byLogin, byToken)'
      /\ Separate(sessions, detached, leftWith)'
      /\ EnteredIsForgotten' /\ SpentNames' /\ Agreeing'
  BY <1>1, <1>2, <1>4, <1>6, <1>7, SelectionKeeps
<1> QED
  BY <1>8, <1>9 DEF Inv

-----------------------------------------------------------------------------
(* The enter notice                                                        *)

(* One entry holds both the token and the login session: the two tables    *)
(* lose the same entry.                                                    *)
LEMMA ErasedSeparate ==
    ASSUME NEW S, NEW D, NEW W, Separate(S, D, W), NEW i,
           \E d \in D : d.token = i.token /\ d.login = i.login
    PROVE  Separate(S, {d \in D : d.token # i.token}, {w \in W : w.login # i.login})
<1>1. PICK d \in D : d.token = i.token /\ d.login = i.login
  OBVIOUS
<1>2. \A e \in D : e.token = i.token <=> e.login = i.login
  BY <1>1 DEF Separate
<1>3. {w \in W : w.login # i.login}
        = {[login |-> e.login, token |-> e.token] : e \in {e \in D : e.token # i.token}}
  BY <1>2 DEF Separate
<1> QED
  BY <1>3 DEF Separate

LEMMA NoticeKeeps ==
    ASSUME Inv, NEW i \in issued, OnWorldEnterSuccessNotify(i)
    PROVE  Inv'
<1> DEFINE k == Resolved(i)
           gone == {k}
<1>0. /\ TypeOK /\ Indexed(sessions, byAccount, byLogin, byToken) /\ Separate(sessions, detached, leftWith)
      /\ SpentNames /\ Agreeing /\ EnteredIsForgotten
  BY DEF Inv
<1>1. /\ entered' = entered \cup {i.token}
      /\ UNCHANGED <<serial, conn, kicked, ready, next, pending, awaited, issued>>
  BY DEF OnWorldEnterSuccessNotify, line, requests
<1>2. i.token \in Request /\ i.login \in Request /\ i.token # None /\ i \in Identity
  BY <1>0, NamesTyped DEF TypeOK
<1>3. entered' \subseteq Token
  BY <1>0, <1>1, <1>2, RequestIsNat DEF TypeOK
<1>4. k \in Ref \cup {None}
  BY <1>0, <1>2, RequestIsNat DEF Resolved, TypeOK
<1>5. entered' \subseteq entered \cup {j.token : j \in issued}
  BY <1>1
(* A session with the names of i is the one the notice resolves to. *)
<1>6. ASSUME NEW s \in Sid, sessions[s] # None,
             sessions[s].token = i.token, sessions[s].login = i.login
      PROVE  HoldsExactly(k, i) /\ k = RefOf(s, sessions[s].serial)
  <2>1. byToken[i.token] = RefOf(s, sessions[s].serial) /\ sessions[s].serial \in Serial
    BY <1>0, <1>2, <1>6, SessionFields DEF Indexed
  <2>2. /\ RefOf(s, sessions[s].serial) # None /\ RefOf(s, sessions[s].serial).sid = s
        /\ RefOf(s, sessions[s].serial).serial = sessions[s].serial
    BY <2>1, RefFields
  <2>3. k = RefOf(s, sessions[s].serial)
    BY <2>1, <2>2 DEF Resolved
  <2>4. i.account = sessions[s].account /\ i.char = sessions[s].char
    BY <1>0, <1>6 DEF Agreeing
  <2>5. Current({k}) # {}
    BY <1>6, <2>2, <2>3 DEF Current
  <2> HIDE DEF k
  <2> QED
    BY <1>6, <2>2, <2>3, <2>4, <2>5 DEF HoldsExactly
(* Afterwards neither a detached entry nor a session of i is left. *)
<1>7. ASSUME i \notin detached',
             \A s \in Sid : sessions'[s] # None =>
               /\ sessions'[s] = sessions[s] /\ sessions[s] # None
               /\ ~(sessions[s].token = i.token /\ sessions[s].login = i.login),
             \A d \in detached' : d \in detached \/ d.token = i.token
      PROVE  EnteredIsForgotten'
  <2> SUFFICES ASSUME NEW j \in issued, j.token \in entered'
               PROVE  /\ j \notin detached'
                      /\ \A s \in Sid : sessions'[s] # None =>
                           ~(sessions'[s].token = j.token /\ sessions'[s].login = j.login)
    BY <1>1 DEF EnteredIsForgotten
  <2>1. CASE j.token = i.token
    <3>1. j = i
      BY <1>0, <2>1 DEF Agreeing
    <3> QED
      BY <1>7, <3>1
  <2>2. CASE j.token # i.token
    <3>1. j.token \in entered
      BY <1>1, <2>2
    <3> QED
      BY <1>0, <1>7, <2>2, <3>1 DEF EnteredIsForgotten
  <2> QED
    BY <2>1, <2>2
<1>8. CASE /\ HoldsExactly(k, i)
           /\ sessions' = SessionsWithout(gone)
           /\ byAccount' = Without(byAccount, [h \in gone |-> sessions[h.sid].account])
           /\ byChar' = Without(byChar, [h \in gone |-> sessions[h.sid].char])
           /\ byLogin' = Without(byLogin, [h \in gone |-> sessions[h.sid].login])
           /\ byToken' = Without(byToken, [h \in gone |-> sessions[h.sid].token])
           /\ EraseDetached(i, DetachedWith(Leaving(gone)), LeftWithAlso(Leaving(gone)))
  <2> DEFINE D == DetachedWith(Leaving(gone))
             W == LeftWithAlso(Leaving(gone))
             S == SessionsWithout(gone)
  <2>1. /\ k \in Ref /\ sessions[k.sid] # None /\ sessions[k.sid].serial = k.serial
        /\ sessions[k.sid].account = i.account /\ sessions[k.sid].char = i.char
        /\ sessions[k.sid].login = i.login /\ sessions[k.sid].token = i.token
    BY <1>4, <1>8 DEF HoldsExactly, Current
  <2>2. Keys(gone) /\ k \in gone
    BY <2>1 DEF Keys
  <2>3. i = IdentityOf(k.sid)
    BY <1>2, <2>1 DEF IdentityOf, Identity
  <2>4. Leaving(gone) = {i}
    <3>1. IsValidAuthIdentity(sessions[k.sid])
      <4> i.char # None
        BY <1>2, NoneIsNothing DEF Identity
      <4> QED
        BY <1>2, <2>1 DEF IsValidAuthIdentity
    <3>2. Leaving(gone) = {IdentityOf(k.sid)}
      BY <3>1 DEF Leaving, IdentityOf
    <3> QED
      BY <2>3, <3>2
  <2>5. D = detached \cup {i}
    BY <1>0, <2>2, <2>4, DetachedGrows
  <2>6. detached' = {d \in D : d.token # i.token} /\ leftWith' = {w \in W : w.login # i.login}
    BY <1>8 DEF EraseDetached
  <2>7. /\ S \in [Sid -> Session \cup {None}]
        /\ byAccount' \in [Account -> Ref \cup {None}] /\ byChar' \in [Char -> Ref \cup {None}]
        /\ byLogin' \in [Login -> Ref \cup {None}] /\ byToken' \in [Token -> Ref \cup {None}]
        /\ D \subseteq Identity /\ W \subseteq Departed
    BY <1>0, <1>8, <2>2, DroppedType
  <2>8. Separate(S, D, W)
    BY <1>0, <2>2, DroppedSeparate
  <2>9. Indexed(sessions', byAccount', byLogin', byToken')
    BY <1>0, <1>8, <2>2, DroppedIndexed
  <2>10. \A s \in Sid : S[s] # None => S[s] = sessions[s] /\ sessions[s] # None /\ s # k.sid
    BY <1>0, <2>2, Stays, KeysOf
  <2>11. sessions' = S
    BY <1>8
  <2>12. Leaving(gone) \subseteq D
    BY <2>4, <2>5
  <2> HIDE DEF D, W, S, gone, k
  <2>13. TypeOK'
    <3>1. detached' \subseteq Identity /\ leftWith' \subseteq Departed
      BY <2>6, <2>7
    <3> QED
      BY <1>0, <1>1, <1>3, <2>7, <2>11, <3>1 DEF TypeOK
  <2>14. Separate(sessions, detached, leftWith)'
    <3>1. Separate(sessions', detached', leftWith')
      BY <2>5, <2>6, <2>8, <2>11, ErasedSeparate
    <3> QED
      BY <3>1 DEF Separate
  <2>15. Indexed(sessions, byAccount, byLogin, byToken)'
    BY <2>9 DEF Indexed
  <2>16. SpentNames' /\ Agreeing'
    <3>1. detached' \subseteq detached \cup Leaving(gone)
      BY <2>4, <2>5, <2>6
    <3> QED
      BY <1>1, <1>5, <1>8, <2>2, <3>1, SessionsDropped
  <2>17. EnteredIsForgotten'
    <3>1. i \notin detached' /\ \A d \in detached' : d \in detached
      BY <2>5, <2>6
    <3>2. \A s \in Sid : sessions'[s] # None =>
               /\ sessions'[s] = sessions[s] /\ sessions[s] # None
               /\ ~(sessions[s].token = i.token /\ sessions[s].login = i.login)
      <4> SUFFICES ASSUME NEW s \in Sid, sessions'[s] # None,
                          sessions[s].token = i.token, sessions[s].login = i.login
                   PROVE  FALSE
        BY <2>10, <2>11
      <4>1. sessions[s] # None /\ s # k.sid
        BY <2>10, <2>11
      <4>2. k.sid \in Sid
        BY <2>1 DEF Ref
      <4> QED
        BY <1>0, <2>1, <4>1, <4>2, NamesOfOne
    <3> QED
      BY <1>7, <3>1, <3>2
  <2> QED
    BY <2>13, <2>14, <2>15, <2>16, <2>17 DEF Inv
(* Otherwise no session has the names of i. *)
<1>9. ASSUME ~HoldsExactly(k, i), UNCHANGED <<sessions, indexes>>,
             \/ HeldDetached(i) /\ EraseDetached(i, detached, leftWith)
             \/ ~HeldDetached(i) /\ UNCHANGED left
      PROVE  Inv'
  <2>1. UNCHANGED <<sessions, byAccount, byChar, byLogin, byToken>>
    BY <1>9 DEF indexes
  <2>2. \A s \in Sid : sessions[s] # None =>
          ~(sessions[s].token = i.token /\ sessions[s].login = i.login)
    BY <1>6, <1>9
  <2>3. /\ detached' \subseteq detached /\ leftWith' \subseteq leftWith /\ i \notin detached'
        /\ Separate(sessions, detached', leftWith')
    <3>1. CASE HeldDetached(i) /\ EraseDetached(i, detached, leftWith)
      <4>1. /\ detached' = {d \in detached : d.token # i.token}
            /\ leftWith' = {w \in leftWith : w.login # i.login}
        BY <3>1 DEF EraseDetached
      <4>2. \E d \in detached : d.token = i.token /\ d.login = i.login
        <5>1. PICK d \in detached :
                \/ d.token = i.token /\ d.login = i.login
                \/ [login |-> i.login, token |-> d.token] \in leftWith /\ d.token = i.token
          BY <3>1 DEF HeldDetached
        <5>2. CASE [login |-> i.login, token |-> d.token] \in leftWith /\ d.token = i.token
          <6>1. PICK e \in detached :
                  [login |-> i.login, token |-> d.token] = [login |-> e.login, token |-> e.token]
            BY <1>0, <5>2 DEF Separate
          <6>2. e.login = i.login /\ e.token = d.token
            BY <6>1
          <6> QED
            BY <5>2, <6>2
        <5> QED
          BY <5>1, <5>2
      <4>3. Separate(sessions, detached', leftWith')
        BY <1>0, <4>1, <4>2, ErasedSeparate
      <4> QED
        BY <4>1, <4>3
    <3>2. CASE ~HeldDetached(i) /\ UNCHANGED left
      <4>1. UNCHANGED <<detached, leftWith>>
        BY <3>2 DEF left
      <4>2. i \notin detached
        BY <3>2 DEF HeldDetached
      <4> QED
        BY <1>0, <4>1, <4>2
    <3> QED
      BY <1>9, <3>1, <3>2
  <2>4. TypeOK'
    <3>1. detached' \subseteq Identity /\ leftWith' \subseteq Departed
      BY <1>0, <2>3 DEF TypeOK
    <3> QED
      BY <1>0, <1>1, <1>3, <2>1, <3>1 DEF TypeOK
  <2>5. Indexed(sessions, byAccount, byLogin, byToken)' /\ Separate(sessions, detached, leftWith)'
    BY <1>0, <2>1, <2>3 DEF Indexed, Separate
  <2>6. SpentNames' /\ Agreeing'
    BY <1>0, <1>1, <1>5, <2>1, <2>3, NothingDropped, SessionsDropped
  <2>7. EnteredIsForgotten'
    BY <1>7, <2>1, <2>2, <2>3
  <2> QED
    BY <2>4, <2>5, <2>6, <2>7 DEF Inv
<1> QED
  <2>1. \/ /\ HoldsExactly(k, i)
           /\ sessions' = SessionsWithout(gone)
           /\ byAccount' = Without(byAccount, [h \in gone |-> sessions[h.sid].account])
           /\ byChar' = Without(byChar, [h \in gone |-> sessions[h.sid].char])
           /\ byLogin' = Without(byLogin, [h \in gone |-> sessions[h.sid].login])
           /\ byToken' = Without(byToken, [h \in gone |-> sessions[h.sid].token])
           /\ EraseDetached(i, DetachedWith(Leaving(gone)), LeftWithAlso(Leaving(gone)))
        \/ /\ ~HoldsExactly(k, i) /\ HeldDetached(i)
           /\ EraseDetached(i, detached, leftWith)
           /\ UNCHANGED <<sessions, indexes>>
        \/ /\ ~HoldsExactly(k, i) /\ ~HeldDetached(i)
           /\ UNCHANGED <<sessions, indexes, left>>
    BY Zenon DEF OnWorldEnterSuccessNotify
  <2> HIDE DEF k, gone
  <2> QED
    BY <1>8, <1>9, <2>1

-----------------------------------------------------------------------------
(* Every step                                                              *)

LEMMA InvInit == Init => Inv
<1> SUFFICES ASSUME Init PROVE Inv
  OBVIOUS
<1>1. TypeOK
  BY DEF Init, TypeOK
<1>2. \A s \in Sid : sessions[s] = None
  BY DEF Init
<1>3. Indexed(sessions, byAccount, byLogin, byToken) /\ Separate(sessions, detached, leftWith)
  BY <1>2 DEF Init, Indexed, Separate
<1>4. EnteredIsForgotten
  BY DEF Init, EnteredIsForgotten
<1>5. SpentNames
  BY <1>2 DEF Init, SpentNames
<1>6. Agreeing
  BY <1>2 DEF Init, Agreeing
<1> QED
  BY <1>1, <1>3, <1>4, <1>5, <1>6 DEF Inv

(* A step that changes none of the tables. *)
LEMMA TablesKept ==
    ASSUME Inv, TypeOK', UNCHANGED <<sessions, indexes, left, next, pending, issued, entered>>
    PROVE  Inv'
  BY RequestsDropped DEF Inv

LEMMA InvNext == Inv /\ [Next]_vars => Inv'
<1> SUFFICES ASSUME Inv, [Next]_vars PROVE Inv'
  OBVIOUS
<1>0. TypeOK
  BY DEF Inv
<1>1. ASSUME NEW s \in Sid, Connect(s) PROVE Inv'
  <2>1. /\ UNCHANGED <<kicked, ready, sessions, indexes, left, requests, account>>
        /\ serial' \in [Sid -> Nat] /\ conn' \in [Sid -> Nat]
    BY <1>0, <1>1 DEF Connect, TypeOK
  <2>2. TypeOK'
    BY <1>0, <2>1 DEF TypeOK, indexes, left, requests, account
  <2> QED
    BY <2>1, <2>2, TablesKept DEF requests, account
<1>2. CASE OnAccountRegistered \/ OnAccountDisconnected
  <2>1. /\ UNCHANGED <<line, sessions, indexes, left, next, pending, account>>
        /\ ready' \in BOOLEAN /\ awaited' \subseteq Request
    BY <1>0, <1>2 DEF OnAccountRegistered, OnAccountDisconnected, requests, TypeOK
  <2>2. TypeOK'
    BY <1>0, <2>1 DEF TypeOK, line, indexes, left, account
  <2> QED
    BY <2>1, <2>2, TablesKept DEF account
<1>3. CASE UNCHANGED vars
  <2>1. UNCHANGED <<line, ready, sessions, indexes, left, requests, account>>
    BY <1>3 DEF vars
  <2>2. TypeOK'
    BY <1>0, <2>1 DEF TypeOK, line, indexes, left, requests, account
  <2> QED
    BY <2>1, <2>2, TablesKept DEF requests, account
<1>4. ASSUME NEW r \in Request,
             OnRefused(r) \/ OnWorldListResult(r) \/ OnCharacterListResult(r)
      PROVE  Inv'
  BY <1>4, PassedOnKeeps DEF OnRefused, OnWorldListResult, OnCharacterListResult
<1>5. CASE AccountPacket
  BY <1>2, <1>4, <1>5, AuthKeeps, WorldSelectKeeps, CharacterSelectKeeps, NoticeKeeps DEF AccountPacket
<1> QED
  BY <1>1, <1>2, <1>3, <1>5, LineClosedKeeps, PacketKeeps, ExpiryKeeps DEF Next

LEMMA InvAlways == Spec => []Inv
  BY InvInit, InvNext, PTL DEF Spec

(* Every table of the login server keeps its type through every handler.   *)
THEOREM TypeCorrect == Spec => []TypeOK
<1>1. Inv => TypeOK
  BY DEF Inv
<1> QED
  BY <1>1, InvAlways, PTL

(* Every login session is the one its account, login session and token     *)
(* resolve to, whatever CompleteLoginRequest_ overwrites, so a duplicate   *)
(* login always finds the session it replaces.                             *)
THEOREM SessionsIndexedAlways == Spec => []SessionsIndexed
<1>1. Inv => SessionsIndexed
  BY DEF Inv, Indexed, SessionsIndexed
<1> QED
  BY <1>1, InvAlways, PTL

(* Once the enter notice of a token has come, no session and no detached   *)
(* entry of its holder is left or comes back: the holder is found by token *)
(* or was detached before, and its names are never given out again.        *)
THEOREM EnteredForgottenAlways == Spec => []EnteredIsForgotten
<1>1. Inv => EnteredIsForgotten
  BY DEF Inv
<1> QED
  BY <1>1, InvAlways, PTL

(* The tables of the detached identities by token and by login session     *)
(* agree, and a token is held by one session or one detached entry.        *)
THEOREM TokenHeldOnceAlways == Spec => []TokenHeldOnce
<1>1. Inv => TokenHeldOnce
  BY DEF Inv, Separate, TokenHeldOnce
<1> QED
  BY <1>1, InvAlways, PTL

(* CompleteLoginRequest_ and the packets that follow it: two slots never    *)
(* hold one account, one login session or one token.                        *)
OneLogin ==
    \A s, u \in Sid :
        /\ sessions[s] # None /\ sessions[u] # None
        /\ \/ sessions[s].account = sessions[u].account
           \/ sessions[s].login = sessions[u].login
           \/ sessions[s].token # None /\ sessions[s].token = sessions[u].token
        => s = u

(* An account is logged in at one slot of the login server at a time, and   *)
(* no other slot has its login session or its ticket, whatever logins,      *)
(* closes and late answers interleave.                                      *)
THEOREM OneLoginAlways == Spec => []OneLogin
<1>1. Inv => OneLogin
  BY NamesOfOne DEF Inv, OneLogin
<1> QED
  BY <1>1, InvAlways, PTL
=============================================================================
