# Verification of redis-py-cluster

TLA+ models of the client library in `src/rediscluster/`, TLC configurations
that check them on small instances, and TLAPS proofs of what matters most for
every instance. Paths below are relative to `src/rediscluster/` unless they
say otherwise; `PROJECT.json` maps each definition to its lines.

The library turns commands into exchanges with the right node of a Redis
cluster. It keeps a copy of the cluster's slot table, a pool of connections per
node, and loops over redirections, timeouts and connection errors. A client
object, its pool and its table are shared by the threads of a process, with no
lock in the default pool, the table or the client. Most of what is checked here
is therefore about two things: what threads do to each other, and what a
cluster in motion does to a long sequence of attempts.

## Inventory

| Component | State | Operations |
|---|---|---|
| `ClusterConnectionPool` (connection.py) | `_created_connections_per_node`, `_available_connections`, `_in_use_connections`, `pid` | `get_connection_by_node`, `get_connection` (pubsub), `make_connection`, `release`, `disconnect`, `reset`, `_checkpid` |
| `ClusterBlockingConnectionPool` (connection.py) | `_pool_by_node`, `_group_pool` (LIFO queues), `_connections` | the same, over queues that are locked |
| `ClusterReadOnlyConnectionPool`, `ClusterWithReadReplicasConnectionPool` | none of their own | choice of node |
| `RedisCluster` (client.py) | `refresh_table_asap`; the locals of `_execute_command` | `execute_command`, `_execute_command`, `_execute_command_on_nodes`, `scan_iter`, multi-key and administration commands |
| `NodeManager` (nodemanager.py) | `slots`, `nodes`, `startup_nodes`, `reinitialize_counter` | `initialize`, `set_node`, `increment_reinitialize_counter`, `populate_startup_nodes`, lookups, `keyslot` |
| `ClusterPipeline`, `NodeCommands` (pipeline.py) | the command stack, results, one batch and one connection per node | `execute`, `send_cluster_commands`, `_send_cluster_commands`, `write`, `read` |
| `ClusterPubSub` (pubsub.py) | its connection | `execute_command` |
| connections, exceptions, utils, crc | none | parsing, merging of replies, slot hash |

Interactions: `RedisCluster` asks the pool for nodes and connections, the pool
asks the `NodeManager` for the slot table; `MOVED` patches the table,
`CLUSTERDOWN` disconnects and resets the pool and sets `refresh_table_asap`,
which the next call, of any thread, turns into `initialize`. A pipeline uses
the pool itself for the batch and `RedisCluster.execute_command` for retries.

What is hard, and what makes each component correct:

* **Default pool.** No lock: check-then-act on the limit, `+=` on a shared
  counter, a reset in several statements while others hold connections, an
  iteration over sets that others change. *A connection serves one thread at a
  time; nothing stays recorded as in use; the limit holds; a reset disconnects
  what it forgets.*
* **Blocking pool.** A search takes the connections of other nodes off the queue
  and puts them back; in between others find it empty; timeouts, evictions, a
  `defaultdict` whose factory is not atomic. *Exclusive use, the limit, no
  connection lost, nobody waits for himself, every call ends.*
* **Command loop.** Flags of three kinds of redirection survive from attempt to
  attempt; `refresh_table_asap` is shared; the table is replaced in two
  assignments and patched by others. *Redirections are followed, a retry uses
  newer knowledge, ASKING is not wasted, every call ends, no exception of the
  interpreter.*
* **Node manager.** Answers of nodes that disagree are merged slot by slot, over
  lists that are changed during the iteration and rows that the remap rules rewrite. *A new
  table is published whole or not at all, no slot mixes two rows, it covers what is required.*
* **Commands on several nodes.** A generator over a dictionary that other threads
  change; a resend to a node that may have executed the command; retries of the
  whole round. *What returns has the answer of every node, merged as the command
  means it; executions are bounded.*
* **Commands on several keys.** Sequences of single requests, with other clients, a
  lost reply or a failure between any two. *Undisturbed they do what Redis' own
  command does; a rename never loses its value; moves neither lose nor double.*
* **Forks.** A child inherits the pool, its connections and its lock; the thread that
  notices first resets the pool while others use it, and replaces the lock it
  holds. *One reset, no connection of the parent put back, nobody waits for ever.*
* **Pipeline.** Requests of one pipeline are in flight on several connections;
  some are executed, some redirected, some unknown; retries come later. *Each
  command gets its own reply, none twice, in the order of its key, and no
  connection goes back to the pool with a reply on it.*

## Modules

| Module | Models | Uses |
|---|---|---|
| `ClusterConnectionPool` | the default pool, threads interleaved statement by statement | implements `ResourcePool` |
| `RedisCluster` | the loop of a keyed command, with the parts of `NodeManager` it shares with other threads, against a changing cluster | |
| `NodeManager` | `initialize`, answer by answer, row by row and slot by slot | |
| `BlockingPool` | the blocking pool, queue operation by queue operation | implements `ResourcePool` |
| `ResourcePool` | what a pool promises: who owns each connection | |
| `CommandsOnNodes` | `determine_node`, `_execute_command_on_nodes`, merging, `scan_iter`, with other threads changing the table of nodes | |
| `KeySlot` | `keyslot` and `crc16`, and the slot as servers have it | |
| `MultiKey` | the commands made of several requests, clients interleaved request by request | the slots of keys as constants, from `KeySlot` in `MCMultiKey` |
| `ForkedPool` | the default pool in a forked child: `_checkpid`, `reset`, take and release | |
| `ClusterPipeline` | a pipeline's execution, with servers, the wire and key migration | |
| `*_proofs` | theorems and proofs | extend their module and TLAPS |
| `MC*` | values of constants, symmetry and views for TLC | extend their module |

The components are joined by abstraction and not by one product, which TLC could
not explore: `RedisCluster` leaves out the pool (only *Too many connections*
remains, `Raised`), `ClusterConnectionPool` leaves out which node a caller wants
(`\E n`), `ClusterPipeline` takes a single retry by its outcomes and the
refreshes of other threads as a replacement of the table (`RefreshTable`);
`CommandsOnNodes` leaves the pool to the kind `nodes` of `ClusterConnectionPool`, and
`MultiKey` takes what `RedisCluster` does with one request by its outcomes: executed
once, executed and sent again, or raised. What slot a key has is a constant of `MultiKey`, for
clients (`SlotOf`) and for servers (`ServerSlot`); `MCMultiKey` takes both from `KeySlot`.

Definitions called *Seeded bug* are mutations: each is put in the place of the
definition it varies to see that the property it belongs to notices. They are
never part of `Next`.

### ClusterConnectionPool

`created`, `available` and `inUse` are the three dictionaries, with the nodes
that are keys as their domains; a thread's `pc` names the statement it runs next
and `kind` the caller it runs for: a keyed command, the loop of
`_execute_command_on_nodes`, a pubsub connection, a page of `scan_iter`.
The interpreter gives way between two operations on shared objects, so each is
one action: `Pop`, `CheckLimit`, `SetDefault`, `Load` and `Store` for the two
halves of `+=`, `Track`, `ReleaseRemove`, `ReleaseAppend`, `ResetCreated` and so
on. Four of them are coarser: `Pop` (`dict.get` and `list.pop`, 364), `Track` (`setdefault` and
`add`, 368), `ReleaseRemove` (`get`, `in` and `remove`, 291-294) and `ReleaseAppend` (`setdefault` and
`append`, 299) look up a list or set and use it in one step. A reset between the two would leave
the thread with a list or set that nothing refers to any more. If `reset` replaces the dictionary between the halves of a `+=` the write
goes to a dictionary nobody reads: `tmp` becomes `Discarded`. A connection object
nothing refers to can be allocated again, so `Conn` needs no more values than can
be referred to at once. `disconnect` is one step, except that it may be
interrupted (`DisconnectInterrupted`) when another thread is about to change the
size of what it iterates over.

### ResourcePool

Every connection is with a thread, free or gone; a thread takes a free one, makes one,
gives its own back or drops it, and what is free may be closed. That is an interface
both pools have to keep although neither has a lock around its steps. `Owner` is the
refinement mapping of each. In `ClusterConnectionPool` a connection is its thread's
from `Pop` to `ReleaseAppend`, free while it is in a list. In `BlockingPool` it is its
thread's as well while it is set aside, and free on a queue that the pool still refers to;
a queue that a reset or the race of two factories replaced takes its connections along.

### CommandsOnNodes

`nodes` is the dictionary of nodes with its order, `call` the one command in
execution. Other threads change the dictionary between the refresh (`Initialize`) and the first
`next()` of the generator (`Begin`), too. `iter` is the generator: where it is, the size the dictionary had (a
different one is Python's `RuntimeError`, `ChangedSize`), and whether it goes over the
client's own dictionary (`live`) or over one that `initialize` has since replaced. A
node answers, breaks before or after executing (`Broken`, followed by the one resend), fails
or says CLUSTERDOWN; from a resend a CLUSTERDOWN bypasses the handler that
refreshes. `NODES_FLAGS` and `RESULT_CALLBACKS` have one command for each combination of nodes
and way to merge; replies are sets of items, given by `Data`. `scan_iter` visits the
masters it saw when it was called, a page at a time, with a cursor for each.

### KeySlot and MultiKey

`keyslot` is the tag rule and the table-driven CRC over bytes, `HashSlot` the servers' rule, bit
by bit. In `MCMultiKey` an assumption compares them on every key of up to four of the
characters `a`, `b`, `{`, `}`, another has the examples of `tests/test_cluster_node_manager.py`.
In `MultiKey` a client's method is the sequence of the requests it sends,
computed from the replies so far (`Requests`), with its early returns (`LeavesEarly`). The
client decides by its slots whether a rename can be left to the server; the servers refuse
RENAME and PFMERGE by theirs. `Callable` are the calls that get as far as a request, `Held` is
what a key may hold. `Native` is what Redis' own command would do in one step, and
`AloneIsAtomic` that a method nobody disturbs answers and leaves just that, its temporary keys
included. The methods for which it is not so, or not in every case, are those that `Ordinary` leaves out, each for
what its keys held: `mget` and `msetnx` of a key that is no string, `msetnx` of one that is
`''`; `renamenx` of a missing source to a key that exists (False, where Redis answers with an
error); a move to a key that is no list or no set, where the element is lost after it has
been taken, and `rpoplpush` of `''`; `sinter` and `sinterstore` with a key that is no set (Redis
may stop at a missing one before it sees that); `sunionstore` of nothing; `pfmerge` of a
missing source, or with a dest that is `''`. `AlwaysAtomic` in `MCMultiKey` is the property without that condition.
`MovesKeepElements` is for loads of moves only, of lists without `''` or of sets that do not
share an element (`MovesInLists`, `MovesInSets`): an element counts at its places in lists and sets and, between
two requests, in the hands of a client.
`Native` is what the command of Redis would do in one step; it is used by a property only.
A string is a set of atoms, so that PFMERGE can be a union.

### ForkedPool

`Init` is the child after a fork: the parent's connections listed, one held by the
thread that forked. Threads run `_checkpid` statement by statement: the two tests of the
pid, the lock they found and the lock that is current, which differ once `reset` has replaced it,
`disconnect`, and the attributes one after the other, the pid first.

### RedisCluster

`shard`, `importing` and `up` are the cluster: the layout, slots in migration,
nodes that answer; `ClusterChange` is what operators and servers do, at most
`MaxChanges` times. `slots`, `nodes`, `startup` and `counter` are the node
manager's, `refresh` the flag, `call[t]` the locals of a thread. `Pick*` is the
choice of node at the head of the loop, in the order of the code's tests;
`Exchange` has an action for each handler. A node answers what its state allows:
`Executed`, `MovedReply`, `AskReply`, `TryAgainReply`, `ClusterDownReply`; a
connection error or a timeout may come at any time, before the command has been
executed or after (`Broken`). `initialize` is `Fetch`, `SwapSlots`, `SwapNodes`, or `FetchFails`: it can be interleaved
with everything. `Fetch` reads the present layout or any older one (`layouts`), because a startup
node may not have heard of a change; so may a reinitialize that comes between a MOVED and its
correction. Commands are answered by the present layout. `nodes` is the set of addresses in the
dictionary: whether one is a master there is what the last row that names it says
(nodemanager.py:260, 270), and no keyed command reads it. The counter is kept modulo `reinitialize_steps`.
`execs`, `lost`, `told` (the node a MOVED named) and `stale` record what has happened, for properties.

### NodeManager

`run` holds the locals of `initialize`: the nodes left to ask, the rows left to
parse, `tmp_slots`, `nodes_cache`, and the host of the variable `node`, which the
inner loop rebinds. A node answers any of `Answers`, is out of reach, is down or
fails. `ParseRow` takes a row's master, `ParseNewSlot` and `ParseKnownSlot` go through its slots in
ascending order, `EndRow` calls `populate_startup_nodes`; a manager that follows the cluster
iterates over the list this appends to, until it is replaced by a new list (`StillLeft`).
`remap_internal_node_object` changes the row it is given, and the replicas are read from the row
again for each new slot: `ParseNewSlot` leaves them remapped in `run.row`, and rules that chain
remap them further at the next one. When a call is over its locals are forgotten (`Over`), but for what the
properties speak of: the tables before, the answers heard, and whether full coverage was needed.

### BlockingPool

`items` is the content of each queue object, `byNode` and `group` refer to
queues, `run[t]` has the thread's locals: its queue, the connections it has set
aside, the one it has. Node dictionaries and node names are different things here
(`Name`): connections match by dictionary, queues go by name.

### ClusterPipeline

`owner` and `moved` are the servers' slots and the keys that have migrated; `log`
is the order in which commands were executed. `wire[n]` is the connection of the
pipeline to a node, with requests and replies in flight; when it closes, a prefix of
its requests is still executed (`late`), with nobody to read the replies. `pipe` has
the locals of `execute` with `result`. Commands with several keys of a slot
(EVAL) are answered TRYAGAIN in mid-migration.

## Runs

Runs that pass:

| Run | Instance | Shows |
|---|---|---|
| `MCPool_threads` | 2 threads, 2 nodes, limit 2, keyed, node-loop and pubsub callers | types, exclusive use, nothing leaks, connections per node bounded by the threads; implements `ResourcePool` |
| `MCPool_sequential` | 1 thread, 3 nodes, one limit for all, `scan_iter` with its leak | the limit holds, the counters are exact |
| `MCCluster_call` | 1 thread, 3 nodes, 2 slots, TTL 3, 3 changes, a table that need not cover all | types, nothing between ASKING and the command, MOVED corrects the table whatever older layout is read in between, retries after CLUSTERDOWN are fresh, ASK to a node of the slot table is followed, every call ends |
| `MCOnNodes_changes` | 3 nodes, 9 commands and SCAN, 2 attempts, 2 changes by other threads | a result has the answer of every node and is merged right, executions are bounded, every call ends |
| `MCMulti_clients` | 2 clients, 3 keys in 2 slots, six loads of commands, 1 fault | commands are atomic when undisturbed, a rename keeps its value, moves keep elements |
| `MCFork_threads` | 3 threads, one holding a connection at the fork | one reset, inherited connections only in the reset and never back, no thread waits for ever |
| `MCNodes_answers` | 4 addresses, 3 slots, up to 3 answers per node, 2 remap rules, that chain, a following manager | a table all or nothing, consistent, covering, of unmixed rows; `initialize` ends |
| `MCBlocking_group` | 2 threads, 3 nodes, one queue of 2 for all, a timeout, one reset | the limit until a reset, only timeouts lose connections, every call ends; implements `ResourcePool` |
| `MCBlocking_per_node` | 3 threads, 2 dictionaries of one node, a queue of 1 | exclusive use, with two threads making one queue |
| `MCPipeline_orders` | 4 commands, a slot in migration, no faults | order per key, at most once |
| `MCPipeline_faults` | 3 commands, one an EVAL of two keys, 2 faults, replicas, a second thread | no stale reply, own reply, execute ends |

A run that fails, where the code and its comments differ (`findings` in
`PROJECT.json` has the quotations):

| Run | What happens |
|---|---|
| `MCCluster_hard_force` | the forced reinitialize does not happen unless the counter is a multiple of `reinitialize_steps` |

### Further configurations

The directory has more configurations than the runs of `PROJECT.json`; each is
checked with `tlc -config X.cfg M`, with the module that has the prefix of its
name (`MCPool` is `MCClusterConnectionPool`, `MCOnNodes` is `MCCommandsOnNodes`,
`MCMulti` is `MCMultiKey`).
`MCPool_per_node` passes (the limit and the counters with `max_connections_per_node`).
The others fail and show how the code comes to differ from what it says of itself, or why
a property above is stated for one thread. Where a configuration names several properties that fail, `tlc -continue` shows violations of
each. Those with `TypeOK` stop at another property first: the type invariants of the modules
whose runs above list none (`NodeManager`, `BlockingPool`, `CommandsOnNodes`, `MultiKey`,
`ClusterPipeline`) are checked on all states by a run's configuration with
`INVARIANT TypeOK` in the place of its properties, and hold in each of them.
`MCBlocking_per_node` with `INVARIANT OpenBound` fails: two queues are made for one node.
`MCNodes_answers` with `INVARIANT RemappedOnce` fails: replicas of a row's later slots are remapped again
(nodemanager.py:262-268, 323-325), where `docs/client.rst` speaks of one rule for a node.
`MCCluster_stale_moved` with `PROPERTY AskIsFollowed`, three nodes, a table that need not cover
all and three changes fails: between the two assignments of another thread's `initialize` (307, 308)
`slots` names a node that `nodes` does not have yet.
`MCMulti_edges` does not check for deadlock: `pfmerge` leaves its temporary keys, and
the names for new ones run out.

| Configuration | Property | What happens |
|---|---|---|
| `MCPool_race` | `OpenBound` | two threads pass the check of `max_connections` together |
| `MCPool_on_nodes` | `OpenBound` | a connection is released into the pool that has just been reset, uncounted (client.py:751) |
| `MCPool_disconnect` | `ClosesOthersOnlyToReset`, `DownDisconnectsAll` | `disconnect` fails in mid-iteration and the pool is not reset; a connection that is being taken escapes it |
| `MCFork_sockets` | `OwnSockets` | a second thread takes a connection of the parent while the first one resets (connection.py:189-192) |
| `MCOnNodes_down` | `DownRefreshes` | CLUSTERDOWN in answer to the resend: the next attempt has the old table (client.py:743) |
| `MCMulti_edges` | `AlwaysAtomic` | `sunionstore` of nothing deletes dest, then raises (client.py:1314); `rpoplpush` drops an element `''`, `msetnx` overwrites one (1197, 1052); `pfmerge` of a key that does not exist raises and leaves temporary keys (1356); and the other calls that `Ordinary` leaves out, but for `sinter`, on which Redis may agree |
| `MCCluster_down_race` | `RetryAfterDownIsFresh` | another thread clears `refresh_table_asap`; the retry has the old table |
| `MCCluster_uncovered` | `RetryUncoveredIsFresh` | after `SlotNotCoveredError` nothing refreshes the table (client.py:638) |
| `MCCluster_ask_new_node` | `NoInternalError` | ASK to an unknown node: `KeyError`, then `AttributeError` (client.py:598, 713) |
| `MCCluster_moved_random` | `MovedIsFollowed` | a MOVED is overridden by `try_random_node` of an earlier timeout |
| `MCCluster_stale_moved` | `MovedCorrectsTable` | another thread's `initialize` undoes a MOVED |
| `MCNodes_disagree` | `AnswersAgree` | nodes that disagree are accepted, up to five slots; `FewDisagreements`, the limit itself, holds |
| `MCNodes_unnamed` | `UnnamedIsTheAnswerer` | the host '' becomes the host of the row before (nodemanager.py:254) |
| `MCNodes_follow` | `FollowsItsNodes`, `StartupNodesUnique` | a following manager does not try its current nodes; `startup_nodes` has a node twice |
| `MCBlocking_lost` | `NothingLost` | connections set aside are lost on a timeout (connection.py:518-523) |
| `MCBlocking_waits` | `WaitsForAnother` | a thread waits for ever for what it has itself (connection.py:508) |
| `MCPipeline_resend` | `AtMostOnce`, `ResendIsFresh`, `DoneIsDone` | after CLUSTERDOWN executed commands are executed again (pipeline.py:163-171), with nothing reset; results that were read are overwritten by a connection error (470) |
| `MCPipeline_refresh_race` | `KeyOrder` | commands of a key are reordered by a refresh |
| `MCPipeline_leak` | `NothingHeld` | connections leak if a later command cannot be routed |

A property that passes in a run and fails in another configuration is met by
different instances: the limit holds for one thread and fails for two; a MOVED
corrects the table for one thread, not if another initializes.

### Bounds, and why they are enough

* Two threads show every pairwise race of the pools and the loop; three are used
  where two dictionaries of one name meet. A limit of 1 or 2 is reached at once.
* TTL 3 for 16, 2 connection errors for 5, `reinitialize_steps` 2 for 25:
  every comparison the code makes (`< 5`, `ttl < TTL / 2`, `ttl == 1`, `% steps`) has
  both outcomes in each position.
* `MaxChanges` 1 to 3 changes of the cluster: one to start a migration, one to
  finish it, one to go wrong afterwards. `MaxResets` 1: the blocking pool forgets its
  connections once while others hold some. `MaxDisagreements` 1 for 5 is passed by one
  answer's three slots.
* Three nodes for a command on several: one that stays, one that leaves the table, one
  that is a replica and may become a master; two changes by others, to add one
  and replace the dictionary; 2 attempts for 3.
* Two clients of `MultiKey` show every pairwise interference; three keys give a chain of
  moves and a pair in one slot. `MaxFaults` 1, because the properties about faults speak
  of one method. Each load groups commands that meet on the same kind of value; six more have the
  calls at the edges: keys of another kind or given twice, missing ones, the string `''`.
* Three threads of a child: one that resets, one that waits for the old lock, one
  that finds the new one.
* Four commands over two slots, two of them for one key; two faults: one to break
  a connection, one to break what follows.

### Fairness

`RedisCluster` and `BlockingPool` assume weak fairness of each thread's own steps:
the operating system schedules threads. Nothing is assumed of servers, so
termination of a call rests on the code's counters (a connection error or a
timeout is always possible instead of a reply). In `BlockingPool` it rests on the
timeout, which fires when the queue is empty. `NodeManager` assumes the caller's
steps. `ClusterPipeline` also assumes that each server goes on answering on an open
connection, because without `socket_timeout` the code waits without limit.
`CommandsOnNodes` is fair to the steps of the call, of which a broken connection is one, and
not to other threads; its termination rests on the attempts, on the single resend
and on the dictionary, which only grows before it is replaced. `ForkedPool` is weakly fair
to each thread; a lock is released within a few steps of its holder, and nobody has to
wait for the same lock twice. `MultiKey` has safety properties only: what a
method does after a reply is counted out, and a client may stop anywhere.

## Proofs

All theorems are for any sets of threads, nodes, slots and connections, and any
limits, from the named assumptions on constants that TLC evaluates in every run. A
theorem that needs more than those says so in an ASSUME of its own, named below: that a set that
is counted is finite, or a condition that TLC or the attempt at the proof has shown to be needed.

* **ClusterConnectionPool_proofs.** `PoolTypes` is inductive as it stands: `TypeOK`
  says that `conn[t]` is bound exactly at the labels where a call holds a connection.
  `PoolExclusive`: with `TypeOK`, `Exclusive` is inductive; a new connection is outside
  everything held or listed, `Pop` takes the one occurrence, `ReleaseAppend` lists what
  nobody else holds. `PoolNothingLeaks` needs `AppendUntracked`: once `release` has
  passed its removal, no set has the connection, so that dropping the local variable
  leaves nothing behind; it assumes that no caller is `scan_iter`.
  `PoolImplementsPool`: under `TypeOK` and `Exclusive` the owner of a connection is a
  function of who holds it and whether it is listed (`OwnerOf`), a step that changes both for
  one connection is a `Pass` of it (`OwnerMovesOne`, `PassMoves`), and there is one lemma for
  each kind of step: `PopTakes`, `StoreMakes`, `AppendGives`, `DropsOrNothing`, `ResetCloses`.
  `PoolPerNodeBound`: the connections of a node and the threads that are about to make one for
  it are together no more than the threads (`RoomForAll`). It is a thread's finding the list
  empty that makes it so: then all connections are in the hands of other threads, because nothing leaks
  (`RoomFound`). Threads are finite in number, and no caller is `scan_iter`.
  `PoolCounterExact` and `PoolOpenBound` assume one thread (`OneThread`), which finds
  what it has found before (`Sequential`), and no commands for several nodes: `MCPool_race` and
  `MCPool_on_nodes` refute the limit without them. `Tallied` relates counters, connections and
  the limit, except during a reset, where the counters are gone before the connections are. The
  sum over the nodes, `sum(...values())` in the code, is in the model the number of the units counted
  (`Units`), since the provers cannot reason about a fold.
* **BlockingPool_proofs.** `BlockingTypes`: a thread has exactly the locals its statement uses.
  `BlockingExclusive`: a connection has one *place*, a thread's hands, a position of a
  set-aside list or of a queue (`Apart`); every step moves it between two of them.
  `BlockingImplementsPool` takes the owner from the place, as above; the factory of the
  `defaultdict` and `reset` make queues that nothing else refers to, which is the third part of
  the invariant (`NewPool`). `BlockingOpenBound` and `BlockingOnlyTimeoutsLose` assume that the
  pool has one queue for all nodes (`~PerNode`). The first one counts what may still come to
  `_connections`: connections, slots of the queue without one, and slots that a thread has taken
  out and owes, together at most `max_connections`, until `disconnect` and `reset` (`Within`,
  `AllKnown`, `OneQueue`). With a queue per node both are false: two threads make two queues.
* **ForkedPool_proofs.** The inductive invariant adds to `TypeOK` that each lock admits one
  thread (`Mutex`) and that one thread at a time is on its way from the second test of the
  pid to the end of the reset (`OneResets`), which has to speak of the old lock: after
  `ResetLock` two threads may be inside, each with a lock of its own, but the later one finds
  the pid set. `PoolResetOnce`, `NoneInherited` and `InheritedInResetOnly` follow.
* **CommandsOnNodes_proofs.** The inductive invariant is about positions and not about sets of
  nodes: what was wanted when the attempt began keeps its place in the dictionary, which
  another thread's MOVED extends at its end or changes in place (`SetNodeGrows`) and `initialize`
  replaces as a whole, so that `OtherInitialize` leaves the loop where it was (`InvOther`). `Ahead`
  says that a wanted node is still to come, is being asked, or has answered; `Unused` how often
  the attempt may still have a node execute the command, 2 for one not reached, 1 between
  a broken connection and its resend, which rests on the names being unique.
  `NodesAllAnswer` and `NodesExecuteTwice` follow. `NodesResultIsOfAll` adds what the replies are made
  into: a result is `Merged` from those of `res` (`Given`), which include the wanted ones, and a SCAN
  has the items of the pages it has read (`Reading`); the rest is monotony of cardinalities
  (`HavingGrows`, `HavingAll`), for a finite set of nodes. `NodesTypes` is the type invariant.
* **RedisCluster_proofs.** `ClusterTypesInvariant` by one lemma per group of
  actions. `ClusterAskingReachesCommand` strengthens the property to say at which labels
  `asking`, `asked` and `replica` can be set. `ClusterMovedCorrectsTable`,
  `ClusterRetryAfterDownIsFresh` and `ClusterAskIsFollowed` assume a client used by one thread
  (`OneThread`), with a cluster that changes at any moment and layouts of any age; `MCCluster_stale_moved`
  and `MCCluster_down_race` refute them for two threads. `MovedCorrectsTable` needs no more of the
  layout than that it may be any: from the MOVED to the correction the node it named is in `moved`, and the
  correction comes last (`ToldOK`). The other invariants relate the tables to the place in
  `initialize`: between its two assignments `slots` is what has been parsed
  and `nodes` is the old one, and whenever a node is chosen, whatever `slots` names is in `nodes`
  (`KnownOK`, `Attempting`), which gives `AskIsFollowed`; a call that has seen CLUSTERDOWN has the flag
  set or is on its way through the refresh (`FreshOK`).
* **NodeManager_proofs.** `InitializeAllOrNothing`: `before` is what the tables are until
  `SwapSlots`, after which nothing can raise. `PublishedTableCovers`: `CheckCoverage` lets
  pass only what covers, and only `SwapSlots` writes `slots`. `NodeManagerTypes`,
  `PublishedSlotsAreOfNodes` and `PublishedRowsAreNotMixed` are about the table while it is built: its
  nodes have gone into `nodes_cache` in the same step, and there is a choice of rows, one for each slot
  (`TableKnown`), of which the row in hand is one with its replicas as the row had them or as the last slot
  taken from it left them (`LeftOf`). A new slot extends the choice, a known one leaves it.
* **ClusterPipeline_proofs.** The invariant compares each connection with what `execute` still has
  to read from it: replies and then requests are, in order, the rest of the batch, or the
  connection is closed or has nothing (`Due`, `Matches`, `Wires`). It holds whichever write or
  read fails, and `PipelineNoStaleReplies` is its case at the release. `Answered` carries each
  reply from the execution it comes from to the position of its command, over attempts and retries:
  `PipelineOwnReply`. Both hold without any assumption on faults.
  `PipelineAtMostOnce` assumes `NoRepeats`: no connection fails, and CLUSTERDOWN does not
  occur unless errors are returned and not raised. With either of them the code sends executed commands again
  (`MCPipeline_resend`), as it has no way to know. Then what has been executed has its answer or
  that is on its way (`Executed`), and only what was redirected is retried (`ToRetry`).
  `PipelineKeyOrder` assumes `OneWay`, which is `NoRepeats` and: no reads from replicas; no other thread that refreshes
  the table in mid-execution (`MCPipeline_refresh_race`); no table that names the importing node before the slot has its
  new owner, or commands before and after the migration of a key would go to two nodes at
  once; and for two commands of a slot that share a key, the later one has all the keys
  of the earlier one: the earlier one may be refused for another of its keys
  while the later one is executed. `MCPipeline_orders` is an instance of it. The argument is that the commands of a slot are in one
  batch (`BySlot`), that a node which has refused a key refuses it for the rest of the attempt (`Left`), and
  that retries go in the order of the commands (`InOrder`), the first of which
  exists by well-founded induction (`FirstOne`).

* **MultiKey_proofs.** For any keys, slots, values, calls and numbers of faults, with finitely many clients and
  keys. `Types` needs the type of every reply that a method has
  received, and that a reply on which its later requests depend is the one their form expects
  (`TypeInv`): RESTORE has something to restore, LPUSH has one element. `RenamesKeepTheValue` says
  for each number of replies where the value of a rename is (`Kept`): at src until the last request
  deletes it, at dst from the RESTORE on, and the dump that is restored is of src as it was; a
  request that is sent again finds what it has made itself. `MovesAreSafe` counts: the places of an
  element in lists and sets and the clients that have it in hand are finite sets, and what is added to the one
  is taken from the other (`Balanced`). That an element is in no set when it is put into one follows from the
  count, which was at most 1, and that no list is given `''` from a count of 0.
  `AloneAsNative` is `AloneIsAtomic` for all sixteen commands, any number of keys, repeated keys, a
  `dst` among the sources, and any values. A request is refused, answered and executed by the keys
  of its call alone (`Local`, `NextIsWithin`), so that a method can be followed on the values of
  these keys whatever the other clients do to others. The invariant (`AtomInv`) is that `before` is
  what the keys were and that, while nobody disturbs an `Ordinary` call, they are as far as its
  replies say (`Progress`): one predicate for each kind of method (`ReadSome`, `MsetSome`,
  `DeletedSome`, `RenamedSome`, `MovedSome`, `StoredSome`, `PfmergeSome`), each with a lemma for
  one more request or the early return (`...Goes`) and one for the last reply (`...End`). `delete` of a
  repeated key counts it once because only its first DEL finds it (a bijection between the replies 1
  and the keys that existed); a store reads all sources before its DEL, so `dst` may be one of them;
  `pfmerge` needs that its temporary keys are new, distinct and not of the call, which its guard and
  `Callable` say. Without `Ordinary` it is false: `MCMulti_edges` refutes `AlwaysAtomic`.

The attempt at `PipelineOwnReply` showed that two arms of the model's `Answer` overlapped,
so that `CASE` could choose the wrong one; the arms are disjoint now.

Only model-checked: liveness (`Terminates` in each module; the prover has no ENABLED). The
comparisons of `keyslot` with the servers' hash are over all short keys: its operators are bitwise,
which keeps the provers away, and for all keys it would need induction over data.

## Not modelled

* Administration commands (`cluster_*`): each sends one command. That they pass `node_id=`, which
  `determine_node` ignores, is a matter of one call and not of states.
* Parsing of replies (`parse_cluster_slots`, `parse_cluster_nodes`), options of
  connections, the checks of `host_port_remap`, logging. Hosts are addresses: for one that is a name
  or `''` `_ips_equal` raises, and the exception leaves `initialize` (nodemanager.py:342-348).
* In a pipeline, exceptions of `pack_commands` (a `DataError`, pipeline.py:444-448) and of response callbacks that
  are no `RedisError` (466-474): they leave `execute` at once, with its connections.
* In `ForkedPool`, the RuntimeError that `disconnect` may end with (`ClusterConnectionPool` has it).
* `_checkpid` of the blocking pool, which is the default pool's; its `release` has no
  test of a connection's pid.
* `by_node_context`, and choices of nodes in `ClusterReadOnlyConnectionPool`, which nothing calls.
* `rename` with `replace=True`, which makes no difference after the DEL.
* The pool's checks of a pubsub connection (`can_read`) and the automatic reconnect:
  their only effect on the pool is the `release` of the handler, which `Use` has.

## Plan

1. Done: all components with state of their own; the refinement of `ResourcePool`
   by both pools; proofs of every module.
2. An abstract table (published whole, patched by MOVED), implemented by `NodeManager` and, with
   one thread, by `RedisCluster`; concurrent calls of `initialize`.
