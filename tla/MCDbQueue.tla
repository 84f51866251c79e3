----------------------------- MODULE MCDbQueue -----------------------------
(* Model checking of the database queue.                                       *)
EXTENDS DbQueue

CONSTANTS c1, c2

\* Requests alternate between the shards.
Alternating == [j \in Job |-> (j % Shards) + 1]
=============================================================================
