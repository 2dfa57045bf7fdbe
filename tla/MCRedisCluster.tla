--------------------------- MODULE MCRedisCluster ---------------------------
(* Instances of RedisCluster for TLC. *)
EXTENDS RedisCluster, TLC

CONSTANTS n1, n2, n3, s1, s2

(* One slot on a master with a replica; a third node owns nothing. *)
OneShard == s1 :> [master |-> n1, replicas |-> {n2}]

(* Two masters, one of which has the replica. *)
TwoShards == OneShard @@ (s2 :> [master |-> n3, replicas |-> {}])

(* Two masters without replicas. *)
BareShards == s1 :> [master |-> n1, replicas |-> {}] @@ s2 :> [master |-> n2, replicas |-> {}]
=============================================================================
