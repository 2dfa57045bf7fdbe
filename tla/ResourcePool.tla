----------------------------- MODULE ResourcePool -----------------------------
(***************************************************************************)
(* What a connection pool promises the threads that share it: a connection *)
(* is with one thread, or free, or gone, and from a thread it goes nowhere *)
(* but by that thread's own doing.                                         *)
(***************************************************************************)
CONSTANTS User, Resource, Free, Gone

VARIABLE owner

Init == owner = [r \in Resource |-> Gone]

Pass(S, from, to) ==
    LET old == owner
    IN  /\ \A r \in S : old[r] = from
        /\ owner' = [r \in Resource |-> IF r \in S THEN to ELSE old[r]]

Take(u, r) == Pass({r}, Free, u)
Make(u, r) == Pass({r}, Gone, u)
Give(u, r) == Pass({r}, u, Free)
Drop(u, S) == Pass(S, u, Gone)
Close(S)   == Pass(S, Free, Gone)

(* The resources a step moves. *)
Moved ==
    LET old == owner
        new == owner'
    IN  {r \in Resource : old[r] # new[r]}

Next ==
    LET S == Moved
    IN  \/ Close(S)
        \/ \E u \in User : Drop(u, S) \/ \E r \in S : Take(u, r) \/ Make(u, r) \/ Give(u, r)

Spec == Init /\ [][Next]_owner
=============================================================================
