--------------------------- MODULE MCClusterPipeline ---------------------------
(* Instances of ClusterPipeline for TLC: slot 1 has the keys a and b, slot *)
(* 2 the key c; A and B are masters, R is the replica of A.                *)
EXTENDS ClusterPipeline

CONSTANTS A, B, R, a, b, c

SlotOfKey == [k \in Key |-> IF k = c THEN 2 ELSE 1]
Masters   == [s \in Slot |-> IF s = 1 THEN A ELSE B]
Resharded == [s \in Slot |-> IF s = 1 THEN B ELSE None]
Steady    == [s \in Slot |-> None]
Rows      == [s \in Slot |-> IF s = 1 THEN {R} ELSE {}]

(* A table that is right, and one that is of when R was slot 1's master. *)
Fresh  == {Masters}
Former == Fresh \cup {[s \in Slot |-> IF s = 1 THEN R ELSE B]}

(* The keys of the queued commands; two of slot 1 together are an EVAL's.  *)
Mixed   == <<{a}, {c}, {b}, {a}>>
Evals   == <<{a}, {c}, {a, b}>>
TwoOfA  == <<{a}, {a}>>
TwoOf1  == <<{a}, {b}>>
=============================================================================
