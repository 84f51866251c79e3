--------------------------- MODULE TicketAuthority ---------------------------
(***************************************************************************)
(* What the account server promises about world tickets: a ticket is       *)
(* issued once, to one claim; it is granted at most once, and only to that *)
(* claim; the login server is told of the enter at most once, and only of  *)
(* a granted one; a ticket that is done never comes back.                  *)
(***************************************************************************)
EXTENDS Naturals, Sequences

CONSTANTS Token, Claim, None

VARIABLES phase, holder, grants, notices

vars == <<phase, holder, grants, notices>>

Init == /\ phase = [t \in Token |-> "Unissued"]
        /\ holder = [t \in Token |-> None]
        /\ grants = [t \in Token |-> <<>>]
        /\ notices = [t \in Token |-> 0]

Issue(t, c) == /\ phase[t] = "Unissued"
               /\ phase' = [phase EXCEPT ![t] = "Issued"]
               /\ holder' = [holder EXCEPT ![t] = c]
               /\ UNCHANGED <<grants, notices>>

Grant(t) == /\ phase[t] = "Issued"
            /\ grants[t] = <<>>
            /\ phase' = [phase EXCEPT ![t] = "Granted"]
            /\ grants' = [grants EXCEPT ![t] = <<holder[t]>>]
            /\ UNCHANGED <<holder, notices>>

\* The enter is reported; the ticket may have ended in the meantime.
Notice(t) == /\ grants[t] # <<>>
             /\ notices[t] = 0
             /\ phase' = [phase EXCEPT ![t] = "Done"]
             /\ notices' = [notices EXCEPT ![t] = 1]
             /\ holder' = [holder EXCEPT ![t] = None]
             /\ UNCHANGED grants

\* Tickets end unused: they expire, or their world server leaves.
Void(T) == /\ \A t \in T : phase[t] \in {"Issued", "Granted"}
           /\ phase' = [t \in Token |-> IF t \in T THEN "Done" ELSE phase[t]]
           /\ holder' = [t \in Token |-> IF t \in T THEN None ELSE holder[t]]
           /\ UNCHANGED <<grants, notices>>

Next == \/ \E t \in Token : Grant(t) \/ Notice(t) \/ \E c \in Claim : Issue(t, c)
        \/ \E T \in SUBSET Token : Void(T)

Spec == Init /\ [][Next]_vars
=============================================================================
