----------------------------- MODULE MCForkedPool -----------------------------
(* Instances of ForkedPool for TLC. *)
EXTENDS ForkedPool

CONSTANTS t1, p1

(* The thread that forked was holding a connection. *)
OneHeld  == [t \in Thread |-> IF t = t1 THEN p1 ELSE None]
=============================================================================
