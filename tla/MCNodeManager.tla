---------------------------- MODULE MCNodeManager ----------------------------
(* Instances of NodeManager for TLC. *)
EXTENDS NodeManager

CONSTANTS h1, h2, p1, p2

A == <<h1, p1>>
B == <<h2, p1>>
C == <<h1, p2>>

R(s, a, replicas) == [slots |-> s, host |-> a[1], port |-> a[2], replicas |-> replicas]
Self(s, a) == [slots |-> s, host |-> Unnamed, port |-> a[2], replicas |-> {}]

Whole    == <<R({1, 2}, A, {B}), R({3}, C, {})>>
Part     == <<R({1, 2}, A, {B})>>
Only     == <<Self({1, 2, 3}, B)>>
Shifted  == <<R({2}, B, {A}), R({3}, B, {A})>>
Opposite == <<R({1, 2}, B, {A}), R({3}, B, {A})>>
Turned   == <<R({1, 2}, B, {A}), R({3}, C, {})>>

(* Nodes that know all, a part, something else or nothing. *)
Mixed   == [a \in Addr |-> {Whole, Part, Shifted, Opposite, <<>>}]

(* Each knows all or a part, or is at odds with another. *)
Varied  == [a \in Addr |-> CASE a = A -> {Whole, Shifted} [] a = B -> {Part, Only}
                             [] a = C -> {Opposite} [] OTHER -> {Part}]

(* After a failover. *)
Failing == [a \in Addr |-> {Whole, Turned}]

(* The first master is another node, the second the one that answers. *)
Alone   == [a \in Addr |-> IF a = A THEN {<<R({1, 2}, B, {}), Self({3}, A)>>} ELSE {Part}]

(* What the first rule makes of B the second would change again. *)
TwoRules == <<[from_host |-> h2, to_host |-> h2, from_port |-> p1, to_port |-> p2],
              [from_host |-> h2, to_host |-> h1]>>

Seeds == {A, B}
Seed  == {A}
Outside == {B}     \* the rules give it another address
None == <<>>
=============================================================================
