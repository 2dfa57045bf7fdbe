------------------------ MODULE ClusterConnectionPool ------------------------
(***************************************************************************)
(* The connection pool of rediscluster/connection.py as the threads of one *)
(* process use it: get_connection_by_node and get_connection to take a     *)
(* connection, release to give it back, disconnect and reset when a reply  *)
(* says CLUSTERDOWN.                                                       *)
(*                                                                         *)
(* The pool holds no lock, so the unit of interleaving is what the         *)
(* interpreter runs without giving way to another thread: one statement on *)
(* one shared dictionary, list or set.  The augmented assignment of        *)
(* make_connection is two steps, its read and its write, and reset is one  *)
(* step per attribute it replaces.  Coarser than that: a statement of      *)
(* get_connection_by_node or release that looks up a node's list or set    *)
(* and then pops, adds, removes or appends is one step (Pop, Track,        *)
(* ReleaseRemove, ReleaseAppend).  In the code a reset between the two     *)
(* leaves it with a list or set that nothing refers to any more.           *)
(***************************************************************************)
EXTENDS Integers, Sequences, FiniteSets, SequencesExt

CONSTANTS
    Thread,          \* threads that share the client
    Node,            \* cluster nodes, by the name that keys the dictionaries
    Conn,            \* connection objects; a collected one may be allocated again
    None,            \* no connection
    Discarded,       \* what an interrupted += holds: its dictionary was replaced
    MaxConnections,  \* max_connections
    PerNode,         \* max_connections_per_node
    Kind             \* the callers a run exercises, a subset of AllKinds

(***************************************************************************)
(* Who calls the pool: _execute_command of a keyed command, the node loop  *)
(* of _execute_command_on_nodes, a pubsub connection, a scan_iter page.    *)
(***************************************************************************)
AllKinds == {"keyed", "nodes", "pubsub", "scan"}

ASSUME PoolAssumption ==
    /\ None \notin Conn
    /\ Discarded \notin Int
    /\ MaxConnections \in Nat \ {0}
    /\ PerNode \in BOOLEAN
    /\ Kind \subseteq AllKinds

VARIABLES
    created,    \* _created_connections_per_node
    available,  \* _available_connections
    inUse,      \* _in_use_connections
    connected,  \* connections whose socket is open
    pc,         \* the statement each thread runs next
    kind,       \* the caller it runs it for
    node,       \* the node argument of its call
    conn,       \* its local variable `connection`
    tmp         \* the value its += read

dicts  == <<created, available, inUse>>
locals == <<pc, kind, node, conn, tmp>>
vars   == <<dicts, connected, locals>>

(* Python's d.get(n, default) and d[n] = v on a dictionary keyed by nodes. *)
Get(d, n, default) == IF n \in DOMAIN d THEN d[n] ELSE default
Put(d, n, v) == [m \in DOMAIN d \cup {n} |-> IF m = n THEN v ELSE d[m]]
Empty == [n \in {} |-> None]

List(n)    == Get(available, n, <<>>)
Tracked(n) == Get(inUse, n, {})
Listed     == UNION {Range(available[n]) : n \in DOMAIN available}
Held       == {conn[t] : t \in Thread} \ {None}
Recorded   == UNION {inUse[n] : n \in DOMAIN inUse}

(* The pid, the lock and the kwargs never change within one process. *)
Init ==
    /\ created = Empty
    /\ available = Empty
    /\ inUse = Empty
    /\ connected = {}
    /\ pc   = [t \in Thread |-> "idle"]
    /\ kind \in [Thread -> Kind]
    /\ node \in [Thread -> Node]
    /\ conn = [t \in Thread |-> None]
    /\ tmp  = [t \in Thread |-> Discarded]

Goto(t, label) == pc' = [pc EXCEPT ![t] = label]

-----------------------------------------------------------------------------
(* Taking a connection: get_connection_by_node and get_connection.         *)

Call(t, k, n) ==
    /\ pc[t] = "idle"
    /\ Goto(t, "pop")
    /\ kind' = [kind EXCEPT ![t] = k]
    /\ node' = [node EXCEPT ![t] = n]
    /\ UNCHANGED <<dicts, connected, conn, tmp>>

(* The label of the statement that records the connection as in use. *)
Recording(t) == IF kind[t] = "pubsub" THEN "check" ELSE "track"

(* Seeded bug: the connection is read off the list and left on it. *)
PopPeeks(t) ==
    /\ pc[t] = "pop"
    /\ List(node[t]) # <<>>
    /\ conn' = [conn EXCEPT ![t] = Last(List(node[t]))]
    /\ Goto(t, Recording(t))
    /\ UNCHANGED <<dicts, connected, kind, node, tmp>>

Pop(t) ==
    /\ pc[t] = "pop"
    /\ List(node[t]) # <<>>
    /\ conn' = [conn EXCEPT ![t] = Last(List(node[t]))]
    /\ available' = Put(available, node[t], Front(List(node[t])))
    /\ Goto(t, Recording(t))
    /\ UNCHANGED <<created, inUse, connected, kind, node, tmp>>

(* Seeded bug: a connection is made although one is available. *)
PopNeverReuses(t) ==
    /\ pc[t] = "pop"
    /\ Goto(t, "count")
    /\ UNCHANGED <<dicts, connected, kind, node, conn, tmp>>

PopEmpty(t) ==
    /\ pc[t] = "pop"
    /\ List(node[t]) = <<>>
    /\ Goto(t, "count")
    /\ UNCHANGED <<dicts, connected, kind, node, conn, tmp>>

(* The sum of the counters is the number of the units they count. *)
Units == UNION {{n} \X (1 .. created[n]) : n \in DOMAIN created}

CountAll(n) == IF PerNode THEN Get(created, n, 0) ELSE Cardinality(Units)

(* Seeded bug: the limit is compared with > instead of >=. *)
CheckLimitOffByOne(t) ==
    /\ pc[t] = "count"
    /\ CountAll(node[t]) <= MaxConnections
    /\ Goto(t, "setdefault")
    /\ UNCHANGED <<dicts, connected, kind, node, conn, tmp>>

(* make_connection: the check, then the increment, then the object. *)
CheckLimit(t) ==
    /\ pc[t] = "count"
    /\ CountAll(node[t]) < MaxConnections
    /\ Goto(t, "setdefault")
    /\ UNCHANGED <<dicts, connected, kind, node, conn, tmp>>

TooManyConnections(t) ==
    /\ pc[t] = "count"
    /\ CountAll(node[t]) >= MaxConnections
    /\ Goto(t, "idle")
    /\ UNCHANGED <<dicts, connected, kind, node, conn, tmp>>

SetDefault(t) ==
    /\ pc[t] = "setdefault"
    /\ created' = Put(created, node[t], Get(created, node[t], 0))
    /\ Goto(t, "load")
    /\ UNCHANGED <<available, inUse, connected, kind, node, conn, tmp>>

(* Seeded bug: the count is read as one too many. *)
LoadOffByOne(t) ==
    /\ pc[t] = "load"
    /\ node[t] \in DOMAIN created
    /\ tmp' = [tmp EXCEPT ![t] = created[node[t]] + 1]
    /\ Goto(t, "store")
    /\ UNCHANGED <<dicts, connected, kind, node, conn>>

Load(t) ==
    /\ pc[t] = "load"
    /\ node[t] \in DOMAIN created
    /\ tmp' = [tmp EXCEPT ![t] = created[node[t]]]
    /\ Goto(t, "store")
    /\ UNCHANGED <<dicts, connected, kind, node, conn>>

(* reset replaced the dictionary after setdefault: KeyError, nothing taken. *)
LoadKeyError(t) ==
    /\ pc[t] = "load"
    /\ node[t] \notin DOMAIN created
    /\ Goto(t, "idle")
    /\ UNCHANGED <<dicts, connected, kind, node, conn, tmp>>

(* A new object is one nothing refers to any more. *)
Store(t) ==
    /\ pc[t] = "store"
    /\ created' = IF tmp[t] = Discarded THEN created
                  ELSE Put(created, node[t], tmp[t] + 1)
    /\ \E c \in Conn \ (Listed \cup Held \cup Recorded) :
          /\ conn' = [conn EXCEPT ![t] = c]
          /\ connected' = connected \ {c}
    /\ tmp' = [tmp EXCEPT ![t] = Discarded]
    /\ Goto(t, Recording(t))
    /\ UNCHANGED <<available, inUse, kind, node>>

(* get_connection tests for the node's set, then creates it, then adds. *)
CheckSet(t) ==
    /\ pc[t] = "check"
    /\ Goto(t, IF node[t] \in DOMAIN inUse THEN "track" ELSE "assign")
    /\ UNCHANGED <<dicts, connected, kind, node, conn, tmp>>

AssignSet(t) ==
    /\ pc[t] = "assign"
    /\ inUse' = Put(inUse, node[t], {})
    /\ Goto(t, "track")
    /\ UNCHANGED <<created, available, connected, kind, node, conn, tmp>>

Track(t) ==
    /\ pc[t] = "track"
    /\ kind[t] = "pubsub" => node[t] \in DOMAIN inUse
    /\ inUse' = Put(inUse, node[t], Tracked(node[t]) \cup {conn[t]})
    /\ Goto(t, "held")
    /\ UNCHANGED <<created, available, connected, kind, node, conn, tmp>>

(* The set went away with a reset: KeyError before the try, nobody releases. *)
TrackKeyError(t) ==
    /\ pc[t] = "track"
    /\ kind[t] = "pubsub" /\ node[t] \notin DOMAIN inUse
    /\ conn' = [conn EXCEPT ![t] = None]
    /\ Goto(t, "idle")
    /\ UNCHANGED <<dicts, connected, kind, node, tmp>>

Acquire(t) ==
    \/ \E k \in Kind, n \in Node : Call(t, k, n)
    \/ Pop(t) \/ PopEmpty(t)
    \/ CheckLimit(t) \/ TooManyConnections(t)
    \/ SetDefault(t) \/ Load(t) \/ LoadKeyError(t) \/ Store(t)
    \/ CheckSet(t) \/ AssignSet(t) \/ Track(t) \/ TrackKeyError(t)

-----------------------------------------------------------------------------
(* Using a connection, and the ways a use ends.                            *)

Send(t) ==
    /\ pc[t] = "held"
    /\ connected' = connected \cup {conn[t]}
    /\ Goto(t, "sent")
    /\ UNCHANGED <<dicts, kind, node, conn, tmp>>

(* An answer, of any kind the caller releases after. *)
Reply(t) ==
    /\ pc[t] = "sent"
    /\ conn[t] \in connected
    /\ Goto(t, "remove")
    /\ UNCHANGED <<dicts, connected, kind, node, conn, tmp>>

(* A connection error, a timeout, or a socket another thread has closed. *)
Failure(t) ==
    /\ pc[t] = "sent"
    /\ kind[t] # "scan"
    /\ connected' = connected \ {conn[t]}
    /\ Goto(t, "remove")
    /\ UNCHANGED <<dicts, kind, node, conn, tmp>>

(* scan_iter has no handler: the exception leaves without a release. *)
ScanFailure(t) ==
    /\ pc[t] = "sent"
    /\ kind[t] = "scan"
    /\ connected' = connected \ {conn[t]}
    /\ conn' = [conn EXCEPT ![t] = None]
    /\ Goto(t, "idle")
    /\ UNCHANGED <<dicts, kind, node, tmp>>

(* Seeded bug: release does not look at the in-use set. *)
ReleaseRemoveNothing(t) ==
    /\ pc[t] = "remove"
    /\ Goto(t, "append")
    /\ UNCHANGED <<dicts, connected, kind, node, conn, tmp>>

(* release: out of the in-use set of the connection's node, if it is there. *)
ReleaseRemove(t) ==
    /\ pc[t] = "remove"
    /\ inUse' = IF node[t] \in DOMAIN inUse
                THEN [inUse EXCEPT ![node[t]] = @ \ {conn[t]}] ELSE inUse
    /\ Goto(t, "append")
    /\ UNCHANGED <<created, available, connected, kind, node, conn, tmp>>

(* ... and onto the end of the available list, whether it was there or not. *)
ReleaseAppend(t) ==
    /\ pc[t] = "append"
    /\ available' = Put(available, node[t], Append(List(node[t]), conn[t]))
    /\ conn' = [conn EXCEPT ![t] = None]
    /\ Goto(t, "idle")
    /\ UNCHANGED <<created, inUse, connected, kind, node, tmp>>

Use(t) ==
    \/ Send(t) \/ Reply(t) \/ Failure(t) \/ ScanFailure(t)
    \/ ReleaseRemove(t) \/ ReleaseAppend(t)

-----------------------------------------------------------------------------
(* CLUSTERDOWN: disconnect every connection, then replace the dictionaries. *)

CallsReset(t) == pc[t] = "sent" /\ kind[t] \in {"keyed", "nodes"} /\ conn[t] \in connected

DisconnectAll(t) ==
    /\ CallsReset(t)
    /\ connected' = connected \ (Listed \cup Recorded)
    /\ Goto(t, "reset_created")
    /\ UNCHANGED <<dicts, kind, node, conn, tmp>>

(* A thread about to change the size of what disconnect iterates over. *)
MutatesInUse(u) ==
    \/ pc[u] = "track" /\ conn[u] \notin Tracked(node[u])
    \/ pc[u] = "assign"
    \/ pc[u] = "remove" /\ conn[u] \in Tracked(node[u])
    \/ pc[u] = "append" /\ node[u] \notin DOMAIN available

(* "changed size during iteration": the RuntimeError replaces the           *)
(* ClusterDownError, reset is not reached and the finally clause releases. *)
DisconnectInterrupted(t) ==
    /\ CallsReset(t)
    /\ \E u \in Thread \ {t} : MutatesInUse(u)
    /\ \E closed \in SUBSET (Listed \cup Recorded) : connected' = connected \ closed
    /\ Goto(t, "remove")
    /\ UNCHANGED <<dicts, kind, node, conn, tmp>>

ResetCreated(t) ==
    /\ pc[t] = "reset_created"
    /\ created' = Empty
    /\ tmp' = [u \in Thread |-> Discarded]
    /\ Goto(t, "reset_available")
    /\ UNCHANGED <<available, inUse, connected, kind, node, conn>>

ResetAvailable(t) ==
    /\ pc[t] = "reset_available"
    /\ available' = Empty
    /\ Goto(t, "reset_inuse")
    /\ UNCHANGED <<created, inUse, connected, kind, node, conn, tmp>>

(* Seeded bug: connection = None is missing from the CLUSTERDOWN handler. *)
ResetInUseKeeps(t) ==
    /\ pc[t] = "reset_inuse"
    /\ inUse' = Empty
    /\ Goto(t, IF kind[t] = "nodes" THEN "remove" ELSE "idle")
    /\ UNCHANGED <<created, available, connected, kind, node, conn, tmp>>

(* _execute_command then forgets its connection, _execute_command_on_nodes *)
(* leaves it to its finally clause, which releases it.                     *)
ResetInUse(t) ==
    /\ pc[t] = "reset_inuse"
    /\ inUse' = Empty
    /\ conn' = [conn EXCEPT ![t] = IF kind[t] = "nodes" THEN @ ELSE None]
    /\ Goto(t, IF kind[t] = "nodes" THEN "remove" ELSE "idle")
    /\ UNCHANGED <<created, available, connected, kind, node, tmp>>

ClusterDown(t) ==
    \/ DisconnectAll(t) \/ DisconnectInterrupted(t)
    \/ ResetCreated(t) \/ ResetAvailable(t) \/ ResetInUse(t)

Next == \E t \in Thread : Acquire(t) \/ Use(t) \/ ClusterDown(t)

Spec == Init /\ [][Next]_vars

-----------------------------------------------------------------------------
Label == {"idle", "pop", "count", "setdefault", "load", "store", "check", "assign",
          "track", "held", "sent", "remove", "append",
          "reset_created", "reset_available", "reset_inuse"}

(* The labels at which a thread's local variable refers to a connection. *)
Holding == {"check", "assign", "track", "held", "sent", "remove", "append",
            "reset_created", "reset_available", "reset_inuse"}

(* The dictionaries map nodes to counts, lists and sets of connections, and *)
(* a thread's `connection` is bound exactly while a call of it holds one.  *)
TypeOK ==
    /\ DOMAIN created \subseteq Node /\ \A n \in DOMAIN created : created[n] \in Nat
    /\ DOMAIN available \subseteq Node
    /\ \A n \in DOMAIN available : available[n] \in Seq(Conn)
    /\ DOMAIN inUse \subseteq Node /\ \A n \in DOMAIN inUse : inUse[n] \subseteq Conn
    /\ connected \subseteq Conn
    /\ pc \in [Thread -> Label]
    /\ kind \in [Thread -> Kind]
    /\ node \in [Thread -> Node]
    /\ conn \in [Thread -> Conn \cup {None}]
    /\ tmp \in [Thread -> Nat \cup {Discarded}]
    /\ \A t \in Thread : conn[t] # None <=> pc[t] \in Holding

(* A connection serves one thread at a time, whatever reset interleaves: no *)
(* two threads hold it, none holds one that is available, and no list or   *)
(* pair of lists has it twice.                                             *)
Exclusive ==
    /\ \A t, u \in Thread : conn[t] = conn[u] /\ conn[t] # None => t = u
    /\ \A n \in DOMAIN available : \A i \in DOMAIN available[n] : available[n][i] \notin Held
    /\ \A m, n \in DOMAIN available :
          \A i \in DOMAIN available[m], j \in DOMAIN available[n] :
              available[m][i] = available[n][j] => m = n /\ i = j

(* What is recorded as in use for a node is held by a thread for that node: *)
(* no finished call leaves a connection behind in _in_use_connections.     *)
NothingLeaks ==
    \A n \in DOMAIN inUse : \A c \in inUse[n] :
        \E t \in Thread : conn[t] = c /\ node[t] = n

(* release has taken the connection out of every set before it appends it. *)
AppendUntracked ==
    \A t \in Thread : pc[t] = "append" => \A n \in DOMAIN inUse : conn[t] \notin inUse[n]

(* The pool keeps the promise of a ResourcePool: threads take connections   *)
(* from it, make, give back and drop them, and a reset closes what is free. *)
Owner ==
    LET holder == [c \in Held |-> CHOOSE t \in Thread : conn[t] = c]
        listed == Listed
    IN  [c \in Conn |-> IF c \in DOMAIN holder THEN holder[c]
                        ELSE IF c \in listed THEN "free" ELSE "gone"]

Promise == INSTANCE ResourcePool WITH
    User <- Thread, Resource <- Conn, Free <- "free", Gone <- "gone", owner <- Owner

ImplementsPool == Promise!Spec

(* The connections of a node that the program still has a reference to. *)
Live(n) ==
    LET held == {conn[t] : t \in {u \in Thread : node[u] = n}} \ {None}
    IN  Range(List(n)) \cup Tracked(n) \cup held

(* However the calls and the resets interleave, and although the counter is *)
(* not locked, a node never has more connections than there are threads.   *)
PerNodeBound == \A n \in Node : Cardinality(Live(n)) <= Cardinality(Thread)

Open(n) == Live(n) \cap connected

(* max_connections is the maximum number of connections open at one time.  *)
OpenBound ==
    IF PerNode THEN \A n \in Node : Cardinality(Open(n)) <= MaxConnections
    ELSE Cardinality(UNION {Open(n) : n \in Node}) <= MaxConnections

Resetting == \E t \in Thread : pc[t] \in {"reset_created", "reset_available", "reset_inuse"}

(* Outside of a reset the counter of a node is the number of its connections, *)
(* through any mix of reuse, failures and CLUSTERDOWN.                     *)
CounterExact ==
    ~Resetting => \A n \in Node : Get(created, n, 0) = Cardinality(Live(n))

(* A thread that closes connections of others goes on to reset the pool.   *)
ClosesOthersOnlyToReset ==
    [][\A t \in Thread :
          pc[t] = "sent" /\ pc'[t] = "remove" => connected \ connected' \subseteq {conn[t]}]_vars

(* The disconnect of the CLUSTERDOWN handler leaves no socket open.        *)
DownDisconnectsAll ==
    [][\A t \in Thread :
          pc[t] = "sent" /\ pc'[t] = "reset_created"
             => \A n \in Node : (Open(n))' = {}]_vars
=============================================================================
