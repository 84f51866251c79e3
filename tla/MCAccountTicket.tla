--------------------------- MODULE MCAccountTicket ---------------------------
(* An instance of AccountTicket for TLC. *)
EXTENDS AccountTicket, TLC

CONSTANTS a1, l1, s1, s2, w1, w2

\* One login session: what it competes with are world servers and timeouts.
OneSession == l1 :> a1
=============================================================================
