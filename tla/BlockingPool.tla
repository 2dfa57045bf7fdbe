----------------------------- MODULE BlockingPool -----------------------------
(***************************************************************************)
(* ClusterBlockingConnectionPool of rediscluster/connection.py: threads    *)
(* take connections off LIFO queues, which are locked, through code which  *)
(* is not.  One queue serves all nodes, or each node name has its own      *)
(* (max_connections_per_node), made by a defaultdict on first use.         *)
(*                                                                         *)
(* A queue starts full of None, each a permission to make a connection.  A *)
(* thread that looks for a connection to its node takes off what it finds, *)
(* keeps the connections to other nodes in a local list and puts them back *)
(* when it has what it wants.  A step is one operation on a queue, or on   *)
(* the pool's attributes.                                                  *)
(***************************************************************************)
EXTENDS Integers, Sequences, FiniteSets, SequencesExt

CONSTANTS
    Thread,
    Node,            \* node dictionaries; those of one server may differ
    Name,            \* the name in each of them
    Conn,            \* connection objects
    Queue,           \* queue objects
    None,
    MaxConnections,  \* max_connections
    PerNode,         \* max_connections_per_node
    Timeout,         \* FALSE: timeout=None, block forever
    MaxResets        \* how often a command is answered CLUSTERDOWN (bound)

ASSUME BlockingPoolAssumption ==
    /\ None \notin Conn \cup Queue \cup Node
    /\ Queue # {}
    /\ DOMAIN Name = Node
    /\ MaxConnections \in Nat \ {0}
    /\ {PerNode, Timeout} \subseteq BOOLEAN
    /\ MaxResets \in Nat

VARIABLES
    items,        \* what each queue object holds, the top last
    byNode,       \* _pool_by_node
    group,        \* _group_pool
    connections,  \* _connections
    nodeOf,       \* connection.node
    run,          \* each thread's locals
    resets        \* how often the pool has been reset

vars == <<items, byNode, group, connections, nodeOf, run, resets>>

Full == [i \in 1 .. MaxConnections |-> None]
Idle == [pc |-> "idle", node |-> None, pool |-> None, others |-> <<>>, conn |-> None]

Init ==
    /\ group = CHOOSE q \in Queue : TRUE
    /\ items = [q \in Queue |-> IF q = group THEN Full ELSE <<>>]
    /\ byNode = <<>>
    /\ connections = {}
    /\ nodeOf = [c \in Conn |-> None]
    /\ run = [t \in Thread |-> Idle]
    /\ resets = 0

(* A thread goes on with its locals r. *)
Locals(t, r) == run' = [run EXCEPT ![t] = r]

Goto(t, label) == Locals(t, [run[t] EXCEPT !.pc = label])

(* Objects that nothing refers to can be allocated again: which of them is *)
(* allocated makes no difference.                                          *)
UsedQueues == {run[t].pool : t \in Thread} \cup Range(byNode) \cup {group}
Has(t) == {run[t].conn} \cup Range(run[t].others)
Placed == (UNION {Range(items[q]) : q \in UsedQueues \ {None}}) \cup UNION {Has(t) : t \in Thread}
UsedConns == connections \cup Placed

FreeQueues == Queue \ UsedQueues     \* where a step allocates, that these
FreeConns  == Conn \ UsedConns       \* are not empty bounds an instance
FreshQueue == CHOOSE q \in FreeQueues : TRUE
FreshConn  == CHOOSE c \in FreeConns : TRUE

-----------------------------------------------------------------------------
(* _get_pool, for get_connection_by_node and for release.                  *)

Call(t, n) ==
    /\ run[t].pc = "idle"
    /\ Locals(t, [Idle EXCEPT !.pc = "get_pool", !.node = n])
    /\ UNCHANGED <<items, byNode, group, connections, nodeOf, resets>>

(* The same node for both: a connection is released with the node it was   *)
(* made for, which is the node it was taken for.                           *)
Key(t) == Name[run[t].node]

Using(t, q) ==
    Locals(t, [run[t] EXCEPT !.pool = q, !.pc = IF run[t].conn = None THEN "get" ELSE "put"])

GetPool(t) ==
    /\ run[t].pc = "get_pool"
    /\ PerNode => Key(t) \in DOMAIN byNode
    /\ Using(t, IF PerNode THEN byNode[Key(t)] ELSE group)
    /\ UNCHANGED <<items, byNode, group, connections, nodeOf, resets>>

(* The factory fills a queue; only then does the defaultdict get it.       *)
MissingPool(t) ==
    /\ run[t].pc = "get_pool"
    /\ PerNode /\ Key(t) \notin DOMAIN byNode
    /\ FreeQueues # {}
    /\ items' = [items EXCEPT ![FreshQueue] = Full]
    /\ Locals(t, [run[t] EXCEPT !.pool = FreshQueue, !.pc = "add_pool"])
    /\ UNCHANGED <<byNode, group, connections, nodeOf, resets>>

AddPool(t) ==
    /\ run[t].pc = "add_pool"
    /\ byNode' = [k \in DOMAIN byNode \cup {Key(t)} |->
                    IF k = Key(t) THEN run[t].pool ELSE byNode[k]]
    /\ Using(t, run[t].pool)
    /\ UNCHANGED <<items, group, connections, nodeOf, resets>>

-----------------------------------------------------------------------------
(* get_connection_by_node.                                                 *)

Queued(t) == items[run[t].pool]
Getting(t) == run[t].pc = "get" /\ Queued(t) # <<>>
TopMatches(t) ==
    Last(Queued(t)) \in {None} \cup {c \in Conn : nodeOf[c] = run[t].node}

(* Seeded bug: a connection is looked at but left on the queue. *)
PopPeeks(t) ==
    items' = IF Last(Queued(t)) = None THEN [items EXCEPT ![run[t].pool] = Front(@)] ELSE items

Pop(t) == items' = [items EXCEPT ![run[t].pool] = Front(@)]

Get(t) ==
    /\ Getting(t) /\ TopMatches(t)
    /\ Pop(t)
    /\ Locals(t, [run[t] EXCEPT !.conn = Last(Queued(t)), !.pc = "put_back"])
    /\ UNCHANGED <<byNode, group, connections, nodeOf, resets>>

(* Seeded bug: a connection to another node is put back on top at once. *)
GetOtherPutsBack(t) == Getting(t) /\ ~TopMatches(t) /\ UNCHANGED vars

GetOther(t) ==
    /\ Getting(t) /\ ~TopMatches(t)
    /\ Pop(t)
    /\ Locals(t, [run[t] EXCEPT !.others = Append(@, Last(Queued(t)))])
    /\ UNCHANGED <<byNode, group, connections, nodeOf, resets>>

(* Empty: the timeout has passed with nothing on the queue. *)
TimedOut(t) == Timeout /\ run[t].pc = "get" /\ Queued(t) = <<>>

AllAreOthers(t) == Len(run[t].others) = MaxConnections
Victim(t) == Last(run[t].others)

(* Seeded bug: the victim stays in _connections. *)
EvictForgets(t) ==
    /\ TimedOut(t) /\ AllAreOthers(t)
    /\ Victim(t) \in connections
    /\ Locals(t, [run[t] EXCEPT !.others = Front(@), !.pc = "put_back"])
    /\ UNCHANGED <<items, byNode, group, connections, nodeOf, resets>>

(* Seeded bug: the list of the others is emptied, not popped. *)
EvictDropsOthers(t) ==
    /\ TimedOut(t) /\ AllAreOthers(t)
    /\ Victim(t) \in connections
    /\ connections' = connections \ {Victim(t)}
    /\ Locals(t, [run[t] EXCEPT !.others = <<>>, !.pc = "put_back"])
    /\ UNCHANGED <<items, byNode, group, nodeOf, resets>>

(* All the connections there are go to other nodes: the last one taken off *)
(* is given up for a new one.                                              *)
Evict(t) ==
    /\ TimedOut(t) /\ AllAreOthers(t)
    /\ Victim(t) \in connections
    /\ connections' = connections \ {Victim(t)}
    /\ Locals(t, [run[t] EXCEPT !.others = Front(@), !.pc = "put_back"])
    /\ UNCHANGED <<items, byNode, group, nodeOf, resets>>

(* A ConnectionError; or the ValueError of _connections.remove when a      *)
(* reset has replaced the list.  Neither puts the others back.             *)
NoConnection(t) ==
    /\ TimedOut(t)
    /\ AllAreOthers(t) => Victim(t) \notin connections
    /\ Locals(t, Idle)
    /\ UNCHANGED <<items, byNode, group, connections, nodeOf, resets>>

PuttingBack(t) == run[t].pc = "put_back" /\ run[t].others # <<>>

IsFull(t) == Len(Queued(t)) = MaxConnections
Push(t, c) == items' = [items EXCEPT ![run[t].pool] = Append(@, c)]

(* The others go back in the order they were taken off. *)
PutBack(t) ==
    /\ PuttingBack(t) /\ ~IsFull(t)
    /\ Push(t, Head(run[t].others))
    /\ Locals(t, [run[t] EXCEPT !.others = Tail(@)])
    /\ UNCHANGED <<byNode, group, connections, nodeOf, resets>>

(* The queue is full: those that are left are disconnected, up to one that *)
(* a reset has made _connections forget, which is a ValueError.            *)
Forgotten(t) == {i \in DOMAIN run[t].others : run[t].others[i] \notin connections}
Known(t) == {run[t].others[i] : i \in {k \in DOMAIN run[t].others :
                                          \A f \in Forgotten(t) : k < f}}

PutBackFull(t) ==
    /\ PuttingBack(t) /\ IsFull(t)
    /\ connections' = connections \ Known(t)
    /\ Locals(t, IF Forgotten(t) = {} THEN [run[t] EXCEPT !.others = <<>>] ELSE Idle)
    /\ UNCHANGED <<items, byNode, group, nodeOf, resets>>

Reuse(t) ==
    /\ run[t].pc = "put_back" /\ run[t].others = <<>> /\ run[t].conn # None
    /\ Locals(t, [run[t] EXCEPT !.pc = "held", !.pool = None])
    /\ UNCHANGED <<items, byNode, group, connections, nodeOf, resets>>

MakeConnection(t) ==
    /\ run[t].pc = "put_back" /\ run[t].others = <<>> /\ run[t].conn = None
    /\ FreeConns # {}
    /\ connections' = connections \cup {FreshConn}
    /\ nodeOf' = [nodeOf EXCEPT ![FreshConn] = run[t].node]
    /\ Locals(t, [run[t] EXCEPT !.conn = FreshConn, !.pc = "held", !.pool = None])
    /\ UNCHANGED <<items, byNode, group, resets>>

-----------------------------------------------------------------------------
(* The caller is done with the connection and releases it; a full queue,   *)
(* which is of after a reset, makes release drop it.                       *)

Release(t) ==
    /\ run[t].pc = "held"
    /\ Goto(t, "get_pool")
    /\ UNCHANGED <<items, byNode, group, connections, nodeOf, resets>>

Put(t) ==
    /\ run[t].pc = "put" /\ ~IsFull(t)
    /\ Push(t, run[t].conn)
    /\ Locals(t, Idle)
    /\ UNCHANGED <<byNode, group, connections, nodeOf, resets>>

PutFull(t) ==
    /\ run[t].pc = "put" /\ IsFull(t)
    /\ Locals(t, Idle)
    /\ UNCHANGED <<items, byNode, group, connections, nodeOf, resets>>

(* CLUSTERDOWN: the caller resets the pool, attribute by attribute, and    *)
(* forgets its connection.                                                 *)
ResetPools(t) ==
    /\ run[t].pc = "held" /\ resets < MaxResets
    /\ FreeQueues # {}
    /\ resets' = resets + 1
    /\ byNode' = <<>>
    /\ group' = FreshQueue
    /\ items' = [items EXCEPT ![FreshQueue] = Full]
    /\ Goto(t, "reset")
    /\ UNCHANGED <<connections, nodeOf>>

ResetConnections(t) ==
    /\ run[t].pc = "reset"
    /\ connections' = {}
    /\ Locals(t, Idle)
    /\ UNCHANGED <<items, byNode, group, nodeOf, resets>>

Run(t) ==
    \/ GetPool(t) \/ MissingPool(t) \/ AddPool(t)
    \/ Get(t) \/ GetOther(t) \/ Evict(t) \/ NoConnection(t)
    \/ PutBack(t) \/ PutBackFull(t) \/ Reuse(t) \/ MakeConnection(t)
    \/ Release(t) \/ Put(t) \/ PutFull(t)
    \/ ResetPools(t) \/ ResetConnections(t)

Next == \E t \in Thread : Run(t) \/ \E n \in Node : Call(t, n)

Spec == Init /\ [][Next]_vars
FairSpec == Spec /\ \A t \in Thread : WF_vars(Run(t))

-----------------------------------------------------------------------------
(* Where the connection c is: positions of queues in use, others, hands.   *)

Live == UsedQueues \ {None}
Positions(seq, c) == {i \in DOMAIN seq : seq[i] = c}
OnQueue(c)  == UNION {{"queue"} \X {q} \X Positions(items[q], c) : q \in Live}
SetAside(c) == UNION {{"aside"} \X {t} \X Positions(run[t].others, c) : t \in Thread}
InHand(c)   == {"hand"} \X {t \in Thread : run[t].conn = c} \X {0}
Places(c)   == OnQueue(c) \cup SetAside(c) \cup InHand(c)

(* Every queue holds connections and permissions up to max_connections,    *)
(* and a thread's locals are what its place in the code allows: it has a   *)
(* queue where it uses one and puts nothing back while it holds on.        *)
TypeOK ==
    /\ items \in [Queue -> Seq(Conn \cup {None})]
    /\ \A q \in Queue : Len(items[q]) <= MaxConnections
    /\ DOMAIN byNode \subseteq Range(Name) /\ Range(byNode) \subseteq Queue
    /\ group \in Queue
    /\ connections \subseteq Conn /\ resets \in 0 .. MaxResets
    /\ nodeOf \in [Conn -> Node \cup {None}]
    /\ \A t \in Thread :
          /\ run[t].pc \in {"idle", "get_pool", "add_pool", "get", "put_back", "held", "put", "reset"}
          /\ run[t].others \in Seq(Conn) /\ run[t].conn \in Conn \cup {None}
          /\ run[t].pc \in {"add_pool", "get", "put_back", "put"} => run[t].pool \in Queue
          /\ run[t].others # <<>> => run[t].pc \in {"get", "put_back"}
          /\ run[t].conn # None => nodeOf[run[t].conn] = run[t].node

(* The pool is "safe" to share between threads: a connection is in one     *)
(* place at a time, so no two threads send on it, through concurrent       *)
(* searches, evictions, resets and releases to a queue of after a reset.   *)
Exclusive == \A c \in Conn : \A one, other \in Places(c) : one = other

(* The pool keeps the promise of a ResourcePool: what a thread has set aside *)
(* is with that thread, and what is on a queue that a reset, or another    *)
(* thread, has replaced is gone.                                           *)
Current == Range(byNode) \cup {group}
Owner ==
    [c \in Conn |->
        IF \E t \in Thread : c \in Has(t) THEN CHOOSE t \in Thread : c \in Has(t)
        ELSE IF \E q \in Current : c \in Range(items[q]) THEN "free" ELSE "gone"]

Promise == INSTANCE ResourcePool WITH
    User <- Thread, Resource <- Conn, Free <- "free", Gone <- "gone", owner <- Owner

ImplementsPool == Promise!Spec

(* max_connections: until a reset forgets some, no more connections than   *)
(* that are open; per node name, if each has its own queue.                *)
OpenTo(k) == {c \in connections : Name[nodeOf[c]] = k}
OpenBound ==
    resets = 0 =>
    /\ PerNode \/ Cardinality(connections) <= MaxConnections
    /\ \A k \in Range(Name) : Cardinality(OpenTo(k)) <= MaxConnections

(* "Put all the connections belonging to other nodes back": a connection   *)
(* the pool keeps count of is on a queue or some thread will put it there. *)
NothingLost == \A c \in connections : Places(c) # {}

(* As long as nobody resets the pool, connections and their places go      *)
(* missing in one way only, the timeout of a thread that has set them      *)
(* aside: not by an eviction, a put-back, a release or a race of searches. *)
Missing == connections \ Placed
OnlyTimeoutsLose ==
    [][resets' = 0 =>
          \A c \in Missing' \ Missing :
              \E t \in Thread : NoConnection(t) /\ c \in Range(run[t].others)]_vars

(* A client waits "when all of connections are in use": one that waits at  *)
(* an empty queue waits for something that another thread has.             *)
WaitsForAnother ==
    \A t \in Thread :
        run[t].pc = "get" /\ Queued(t) = <<>> =>
            \E u \in Thread \ {t} : run[u].pc # "idle"

(* With a timeout every call for a connection returns or raises, and so    *)
(* does every release.                                                     *)
Terminates ==
    \A t \in Thread : /\ run[t].pc = "get_pool" ~> run[t].pc \in {"held", "idle"}
                      /\ run[t].pc = "put" ~> run[t].pc = "idle"
=============================================================================
