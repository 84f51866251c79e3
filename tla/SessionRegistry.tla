--------------------------- MODULE SessionRegistry ---------------------------
(***************************************************************************)
(* What the World server promises about authenticated sessions: a session  *)
(* is a claim of one connection to an account and one of its characters;   *)
(* the newest claim wins: no session it conflicts with survives the step,  *)
(* and no session appears that nobody claimed.                             *)
(***************************************************************************)
CONSTANTS Account, Char, Key

VARIABLE sessions

Claim == [account : Account, char : Char, key : Key]

\* Two claims one server cannot honour together: the same account, the same
\* character, or the same slot.
Conflict(x, y) ==
    x.account = y.account \/ x.char = y.char \/ x.key.sid = y.key.sid

Init == sessions = {}

Take(r) == /\ r \in sessions'
           /\ \A x \in sessions' \ {r} : x \in sessions /\ ~Conflict(x, r)

Release(r) == sessions' = sessions \ {r}

Next == \/ \E r \in Claim : Take(r)
        \/ \E r \in sessions : Release(r)

Spec == Init /\ [][Next]_sessions

Exclusive == \A x, y \in sessions : Conflict(x, y) => x = y
=============================================================================
