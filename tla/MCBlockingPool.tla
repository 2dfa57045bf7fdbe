---------------------------- MODULE MCBlockingPool ----------------------------
(* Instances of BlockingPool for TLC. *)
EXTENDS BlockingPool, TLC

CONSTANTS n1, n2, n3, n4

(* Each node a server of its own. *)
OwnName == [n \in Node |-> CASE n = n1 -> "a" [] n = n2 -> "b" [] n = n3 -> "c" [] OTHER -> "d"]

(* Two dictionaries of one server, as before and after a failover. *)
SameName == [n \in Node |-> "a"]

Symmetry == Permutations(Thread)

(* Objects that nothing refers to do not tell states apart. *)
View == <<[q \in Live |-> items[q]], byNode, group, connections,
          [c \in UsedConns \ {None} |-> nodeOf[c]], run, resets>>
=============================================================================
