--------------------------- MODULE MCLoginSession ---------------------------
(* Instances of LoginSession for TLC.                                      *)
EXTENDS LoginSession, TLC

CONSTANTS s1, s2, c1, a1

(* One account with one character: every duplicate login is of that one.   *)
OneOwner == c1 :> a1
(* One slot is used again, the other one is not.                            *)
SlotLimit == s1 :> 2 @@ s2 :> 1
=============================================================================
