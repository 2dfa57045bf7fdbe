-------------------------- MODULE MCCommandsOnNodes --------------------------
(* Instances of CommandsOnNodes for TLC. *)
EXTENDS CommandsOnNodes

CONSTANTS a, b, c, i, j

E(n, server_type) == [name |-> n, server_type |-> server_type]

AtFirst  == <<E(a, "master"), E(b, "master"), E(c, "slave")>>
Rebuilt  == {AtFirst, <<E(b, "master"), E(c, "slave")>>, <<E(c, "master"), E(a, "master"), E(b, "slave")>>}

(* Two items on one node, one of them on another, none on the third. *)
Items    == (a :> {i, j}) @@ (b :> {i}) @@ (c :> {})
TwoPages == (i :> 1) @@ (j :> 2)
=============================================================================
