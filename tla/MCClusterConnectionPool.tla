----------------------- MODULE MCClusterConnectionPool -----------------------
(* Instances of ClusterConnectionPool for TLC. *)
EXTENDS ClusterConnectionPool, TLC

(* Threads, nodes and connections are interchangeable. *)
Symmetry == Permutations(Thread) \cup Permutations(Node) \cup Permutations(Conn)

(* What an idle thread last called for tells no states apart. *)
View == <<dicts, connected, pc, conn, tmp,
          [t \in Thread |-> IF pc[t] = "idle" THEN None ELSE <<kind[t], node[t]>>]>>
=============================================================================
