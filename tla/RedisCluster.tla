---------------------------- MODULE RedisCluster ----------------------------
(***************************************************************************)
(* A keyed command of rediscluster/client.py: execute_command and          *)
(* _execute_command, for threads that share one client, against a cluster  *)
(* that reshards, fails over and loses nodes meanwhile.                    *)
(*                                                                         *)
(* A step is a stretch of a thread between two accesses to state another   *)
(* thread can change, or one exchange with a server.  The connection pool  *)
(* is ClusterConnectionPool's subject and is left out here; of the node    *)
(* manager, initialize appears as what the loop sees of it: the layout of  *)
(* a startup node that answers, which may be behind, is read, then slots   *)
(* and nodes are replaced, one assignment each.  How rows and answers are  *)
(* put together is NodeManager's subject.  Only CLUSTER SLOTS is behind:   *)
(* a command is answered by the layout there is.  The reinitialize counter *)
(* is kept modulo reinitialize_steps, the only thing the code looks at.    *)
(***************************************************************************)
EXTENDS Integers, FiniteSets

CONSTANTS
    Thread, Node, Slot, None,
    Startup,              \* orig_startup_nodes
    Shard0,               \* the layout when the client is created
    RequestTTL,           \* RedisClusterRequestTTL, 16
    ConnErrorLimit,       \* connection errors before a reinitialize, 5
    DownRetryAttempts,    \* cluster_down_retry_attempts
    ReinitializeSteps,    \* reinitialize_steps
    ReadFromReplicas,     \* read_from_replicas and its pool class
    FullCoverage,         \* cluster-require-full-coverage, not skipped
    MaxChanges            \* bound on what happens to the cluster

(* A row of the layout: one master and its replicas. *)
Row == [master : Node, replicas : SUBSET Node]

(* The rows of the slots that are covered. *)
Layout == UNION {[D -> Row] : D \in SUBSET Slot}

ASSUME ClusterAssumption ==
    /\ None \notin Node
    /\ Startup \subseteq Node /\ Startup # {}
    /\ Shard0 \in Layout
    /\ None \notin Slot
    /\ RequestTTL \in Nat \ {0} /\ ConnErrorLimit \in Nat \ {0}
    /\ DownRetryAttempts \in Nat \ {0} /\ ReinitializeSteps \in Nat \ {0}
    /\ ReadFromReplicas \in BOOLEAN /\ FullCoverage \in BOOLEAN
    /\ MaxChanges \in Nat

VARIABLES
    shard, importing, up, changes,          \* the cluster
    layouts,                                \* what a node may say the layout is
    slots, nodes, startup, counter,         \* NodeManager
    refresh,                                \* refresh_table_asap
    call                                    \* what each thread is executing

cluster == <<shard, importing, up, changes, layouts>>
table   == <<slots, nodes, startup, counter>>
vars    == <<cluster, table, refresh, call>>

-----------------------------------------------------------------------------
(* The cluster: what a server answers, and how the layout changes.         *)

Replace(f, s, v) == [x \in DOMAIN f \cup {s} |-> IF x = s THEN v ELSE f[x]]

(* The nodes that the rows of a layout name.                               *)
NodesOf(layout) == UNION {{layout[s].master} \cup layout[s].replicas : s \in DOMAIN layout}

StartMigration(s, n) ==
    /\ s \in DOMAIN shard /\ importing[s] = None /\ n # shard[s].master
    /\ importing' = [importing EXCEPT ![s] = n]
    /\ UNCHANGED <<shard, up>>

FinishMigration(s) ==
    /\ s \in DOMAIN shard /\ importing[s] # None
    /\ shard' = [shard EXCEPT ![s] = [master |-> importing[s],
                                     replicas |-> @.replicas \ {importing[s]}]]
    /\ importing' = [importing EXCEPT ![s] = None]
    /\ UNCHANGED up

NodeStops(n) ==
    /\ n \in up
    /\ up' = up \ {n}
    /\ UNCHANGED <<shard, importing>>

Failover(s, n) ==
    /\ s \in DOMAIN shard /\ shard[s].master \notin up
    /\ n \in shard[s].replicas \cap up
    /\ shard' = [shard EXCEPT ![s] = [master |-> n, replicas |-> @.replicas \ {n}]]
    /\ importing' = [importing EXCEPT ![s] = None]
    /\ UNCHANGED up

NodeRestarts(n) ==
    /\ n \notin up
    /\ up' = up \cup {n}
    /\ UNCHANGED <<shard, importing>>

(* A slot that no node served is served again. *)
AssignSlot(s, n) ==
    /\ s \notin DOMAIN shard
    /\ shard' = Replace(shard, s, [master |-> n, replicas |-> {}])
    /\ UNCHANGED <<importing, up>>

(* A node that has not heard of a change still answers CLUSTER SLOTS with  *)
(* the layout of before.                                                   *)
ClusterChange ==
    /\ changes < MaxChanges
    /\ changes' = changes + 1
    /\ \/ \E s \in Slot, n \in Node :
             StartMigration(s, n) \/ Failover(s, n) \/ AssignSlot(s, n)
       \/ \E s \in Slot : FinishMigration(s)
       \/ \E n \in Node : NodeStops(n) \/ NodeRestarts(n)
    /\ layouts' = layouts \cup {shard'}
    /\ UNCHANGED <<table, refresh, call>>

(* What node n may answer to a command for slot s. *)
Owns(n, s)      == s \in DOMAIN shard /\ shard[s].master = n
Imports(n, s)   == s \in DOMAIN shard /\ importing[s] = n
ServesReads(n, s) == s \in DOMAIN shard /\ n \in shard[s].replicas

(* A pooled connection keeps the READONLY an earlier command sent on it.   *)
MayBeReadonly(c) == c.readonly \/ ReadFromReplicas

Serves(n, c)    == n \in up /\ \/ Owns(n, c.slot)
                               \/ (Imports(n, c.slot) /\ c.asked)
                               \/ (ServesReads(n, c.slot) /\ c.read /\ MayBeReadonly(c))
Redirects(n, c) == /\ n \in up /\ c.slot \in DOMAIN shard /\ ~Owns(n, c.slot)
                   /\ ~(Imports(n, c.slot) /\ c.asked)
                   /\ ~(ServesReads(n, c.slot) /\ c.read /\ c.readonly)
SendsAsk(n, c)  == n \in up /\ Owns(n, c.slot) /\ importing[c.slot] # None
TriesAgain(n, c) == n \in up /\ importing[c.slot] # None
                    /\ (Owns(n, c.slot) \/ (Imports(n, c.slot) /\ c.asked))
IsDown(n)       == n \in up /\ ~\A s \in Slot : s \in DOMAIN shard /\ shard[s].master \in up

-----------------------------------------------------------------------------
(* The client.  A call's record holds the locals of its frames: attempts   *)
(* left of execute_command, then those of _execute_command.  `parsed` is   *)
(* what initialize has parsed and `then` where it returns to; `node` is    *)
(* the node of the current connection, `asked` and `readonly` the flags    *)
(* the server keeps for it.  The fields from `result` on record what has   *)
(* happened, for the properties.                                           *)

Idle == [pc |-> "idle", slot |-> None, read |-> FALSE, tries |-> 0, ttl |-> 0,
         redirect |-> None, asking |-> FALSE, replica |-> FALSE, random |-> FALSE,
         errors |-> 0, node |-> None, asked |-> FALSE, readonly |-> FALSE,
         moved |-> None, parsed |-> <<>>, then |-> "none",
         result |-> "none", execs |-> 0, lost |-> 0, told |-> None, stale |-> "no"]

Continue(t, c) == call' = [call EXCEPT ![t] = c]

(* The caller gets a result or an exception: only the record of it is kept. *)
Return(t, c, result) ==
    Continue(t, [Idle EXCEPT !.result = result, !.execs = c.execs, !.lost = c.lost])

Init ==
    /\ shard = Shard0
    /\ importing = [s \in Slot |-> None]
    /\ up = Node
    /\ changes = 0
    /\ layouts = {Shard0}
    /\ slots = Shard0
    /\ nodes = NodesOf(Shard0)
    /\ startup = Startup
    /\ counter = 0
    /\ refresh = FALSE
    /\ call = [t \in Thread |-> Idle]

-----------------------------------------------------------------------------
(* execute_command and the head of _execute_command.                       *)

ExecuteCommand(t, s, read) ==
    /\ call[t].pc = "idle"
    /\ Continue(t, [Idle EXCEPT !.pc = "start", !.slot = s, !.read = read,
                                !.tries = DownRetryAttempts])
    /\ UNCHANGED <<cluster, table, refresh>>

Enter(c) == [c EXCEPT !.pc = "loop", !.ttl = RequestTTL, !.redirect = None, !.asking = FALSE,
                      !.replica = FALSE, !.random = FALSE, !.errors = 0]

StartDirectly(t) ==
    LET c == call[t] IN
    /\ c.pc = "start" /\ c.tries > 0 /\ ~refresh
    /\ Continue(t, [Enter(c) EXCEPT !.tries = c.tries - 1])
    /\ UNCHANGED <<cluster, table, refresh>>

StartRefresh(t) ==
    LET c == call[t] IN
    /\ c.pc = "start" /\ c.tries > 0 /\ refresh
    /\ Continue(t, [c EXCEPT !.pc = "fetch", !.then = "started", !.tries = c.tries - 1])
    /\ UNCHANGED <<cluster, table, refresh>>

Started(t) ==
    /\ call[t].pc = "started"
    /\ refresh' = FALSE
    /\ Continue(t, Enter(call[t]))
    /\ UNCHANGED <<cluster, table>>

GiveUpOnClusterDown(t) ==
    /\ call[t].pc = "start" /\ call[t].tries = 0
    /\ Return(t, call[t], "clusterdown")
    /\ UNCHANGED <<cluster, table, refresh>>

-----------------------------------------------------------------------------
(* NodeManager.initialize, as far as the loop can tell.                    *)

Covers(layout) == FullCoverage => DOMAIN layout = Slot

Fetch(t) ==
    /\ call[t].pc = "fetch"
    /\ Startup \cap up # {}
    /\ \E layout \in layouts :
          /\ Covers(layout)
          /\ Continue(t, [call[t] EXCEPT !.pc = "swap_slots", !.parsed = layout])
    /\ startup' = startup \cup nodes
    /\ UNCHANGED <<cluster, slots, nodes, counter, refresh>>

(* No startup node answers, or slots are missing: RedisClusterException.   *)
FetchFails(t) ==
    /\ call[t].pc = "fetch"
    /\ Startup \cap up = {} \/ \E layout \in layouts : ~Covers(layout)
    /\ startup' = IF Startup \cap up = {} THEN startup ELSE startup \cup nodes
    /\ Return(t, call[t], "error")
    /\ UNCHANGED <<cluster, slots, nodes, counter, refresh>>

SwapSlots(t) ==
    /\ call[t].pc = "swap_slots"
    /\ slots' = call[t].parsed
    /\ call' = [u \in Thread |-> [call[u] EXCEPT !.stale = "no",
                                  !.pc = IF u = t THEN "swap_nodes" ELSE @]]
    /\ UNCHANGED <<cluster, nodes, startup, counter, refresh>>

(* Seeded bug: the table of nodes is left as it was. *)
SwapSlotsOnly(t) ==
    /\ call[t].pc = "swap_nodes"
    /\ counter' = 0
    /\ Continue(t, [call[t] EXCEPT !.pc = call[t].then, !.parsed = <<>>, !.then = "none"])
    /\ UNCHANGED <<cluster, slots, nodes, startup, refresh>>

SwapNodes(t) ==
    /\ call[t].pc = "swap_nodes"
    /\ nodes' = NodesOf(call[t].parsed)
    /\ counter' = 0
    /\ Continue(t, [call[t] EXCEPT !.pc = call[t].then, !.parsed = <<>>, !.then = "none"])
    /\ UNCHANGED <<cluster, slots, startup, refresh>>

Initialize(t) == Fetch(t) \/ FetchFails(t) \/ SwapSlots(t) \/ SwapNodes(t)

(* The test that follows the increment of increment_reinitialize_counter.  *)
CheckCounter(t) ==
    LET c == call[t] IN
    /\ c.pc = "check"
    /\ Continue(t, IF counter = 0 THEN [c EXCEPT !.pc = "fetch"]
                   ELSE [c EXCEPT !.pc = c.then, !.then = "none"])
    /\ UNCHANGED <<cluster, table, refresh>>

Increment(n) == counter' = (counter + n) % ReinitializeSteps

-----------------------------------------------------------------------------
(* The loop: choosing a node.                                              *)

Attempt(c, n) ==
    [c EXCEPT !.ttl = @ - 1, !.node = n, !.asked = FALSE, !.readonly = FALSE,
              !.pc = IF c.asking THEN "asking" ELSE IF c.replica THEN "readonly" ELSE "send"]

Picking(t) == call[t].pc = "loop" /\ call[t].ttl > 0

PickAsk(t) ==
    LET c == call[t] IN
    /\ Picking(t) /\ c.asking
    /\ IF c.redirect \in nodes THEN Continue(t, Attempt(c, c.redirect))
       ELSE Return(t, c, "internal")
    /\ UNCHANGED <<cluster, table, refresh>>

PickRandom(t) ==
    LET c == call[t] IN
    /\ Picking(t) /\ ~c.asking /\ c.random
    /\ \E n \in startup : Continue(t, Attempt([c EXCEPT !.random = FALSE], n))
    /\ UNCHANGED <<cluster, table, refresh>>

UsesTable(t) == Picking(t) /\ ~call[t].asking /\ ~call[t].random

(* refresh_table_asap only selects the master here, and is used up by it.  *)
PickRefreshed(t) ==
    LET c == call[t] IN
    /\ UsesTable(t) /\ refresh
    /\ c.slot \in DOMAIN slots
    /\ refresh' = FALSE
    /\ Continue(t, Attempt(c, slots[c.slot].master))
    /\ UNCHANGED <<cluster, table>>

PickFromTable(t) ==
    LET c == call[t]
        row == slots[c.slot] IN
    /\ UsesTable(t) /\ ~refresh
    /\ c.slot \in DOMAIN slots
    /\ \/ Continue(t, Attempt([c EXCEPT !.replica = FALSE], row.master))
       \/ /\ ReadFromReplicas /\ c.read
          /\ \E n \in row.replicas : Continue(t, Attempt([c EXCEPT !.replica = TRUE], n))
    /\ UNCHANGED <<cluster, table, refresh>>

(* SlotNotCoveredError, but the pool with read replicas has no such check  *)
(* in get_node_by_slot: its KeyError ends in the handler of BaseException, *)
(* where connection is None.                                               *)
PickUncovered(t) ==
    LET c == call[t] IN
    /\ UsesTable(t)
    /\ c.slot \notin DOMAIN slots
    /\ IF ReadFromReplicas /\ ~refresh
       THEN Return(t, c, "internal") /\ UNCHANGED refresh
       ELSE /\ refresh' = TRUE
            /\ IF c.ttl = 2 THEN Return(t, c, "notcovered")
               ELSE Continue(t, [c EXCEPT !.ttl = @ - 1, !.stale = "uncovered"])
    /\ UNCHANGED <<cluster, table>>

Exhausted(t) ==
    /\ call[t].pc = "loop" /\ call[t].ttl = 0
    /\ Return(t, call[t], "ttl")
    /\ UNCHANGED <<cluster, table, refresh>>

Pick(t) == \/ PickAsk(t) \/ PickRandom(t) \/ PickRefreshed(t) \/ PickFromTable(t)
           \/ PickUncovered(t) \/ Exhausted(t)

-----------------------------------------------------------------------------
(* The exchange with the node, ASKING and READONLY first.                  *)

SendAsking(t) ==
    LET c == call[t] IN
    /\ c.pc = "asking" /\ c.node \in up
    /\ Continue(t, [c EXCEPT !.asking = FALSE, !.asked = TRUE,
                             !.pc = IF c.replica THEN "readonly" ELSE "send"])
    /\ UNCHANGED <<cluster, table, refresh>>

(* Seeded bug: is_read_replica stays set after READONLY. *)
SendReadonlyAgain(t) ==
    LET c == call[t] IN
    /\ c.pc = "readonly" /\ c.node \in up
    /\ Continue(t, [c EXCEPT !.asked = FALSE, !.readonly = TRUE, !.pc = "send"])
    /\ UNCHANGED <<cluster, table, refresh>>

(* The server's ASKING flag lasts for one command, READONLY included.      *)
SendReadonly(t) ==
    LET c == call[t] IN
    /\ c.pc = "readonly" /\ c.node \in up
    /\ Continue(t, [c EXCEPT !.replica = FALSE, !.asked = FALSE, !.readonly = TRUE,
                             !.pc = "send"])
    /\ UNCHANGED <<cluster, table, refresh>>

Answered(t) == call[t].pc = "send"

Executed(t) ==
    LET c == call[t] IN
    /\ Answered(t) /\ Serves(c.node, c)
    /\ Return(t, [c EXCEPT !.execs = @ + 1], "ok")
    /\ UNCHANGED <<cluster, table, refresh>>

(* The ways a connection breaks: before the command is executed or after.  *)
Broken(c) ==
    {c} \cup (IF c.pc = "send" /\ Serves(c.node, c)
              THEN {[c EXCEPT !.execs = @ + 1, !.lost = @ + 1]} ELSE {})

Connecting(t) == call[t].pc \in {"asking", "readonly", "send"}

(* BusyLoadingError, any other error, "Too many connections": to the caller. *)
Raised(t) ==
    /\ Connecting(t)
    /\ Return(t, call[t], "error")
    /\ UNCHANGED <<cluster, table, refresh>>

(* Seeded bug: the limit is compared with <= instead of <. *)
ConnectionErrorOnceMore(t) ==
    LET c == call[t] IN
    /\ Connecting(t)
    /\ c.errors + 1 <= ConnErrorLimit
    /\ \E b \in Broken(c) :
          Continue(t, [b EXCEPT !.pc = "loop", !.node = None, !.told = None,
                                !.errors = @ + 1])
    /\ UNCHANGED <<cluster, table, refresh>>

ConnectionError(t) ==
    LET c == call[t] IN
    /\ Connecting(t)
    /\ c.errors + 1 < ConnErrorLimit
    /\ \E b \in Broken(c) :
          Continue(t, [b EXCEPT !.pc = "loop", !.node = None, !.told = None,
                                !.errors = @ + 1])
    /\ UNCHANGED <<cluster, table, refresh>>

(* ... and the one after which a reinitialize is to be forced.             *)
ConnectionErrorLimit(t) ==
    LET c == call[t] IN
    /\ Connecting(t)
    /\ c.errors + 1 >= ConnErrorLimit
    /\ \E b \in Broken(c) :
          Continue(t, [b EXCEPT !.pc = "check", !.then = "loop", !.node = None, !.told = None,
                                !.errors = 0])
    /\ refresh' = TRUE
    /\ Increment(ReinitializeSteps)
    /\ UNCHANGED <<cluster, slots, nodes, startup>>

Late(c) == 2 * c.ttl < RequestTTL

TimeoutError(t) ==
    LET c == call[t] IN
    /\ Connecting(t)
    /\ \E b \in Broken(c) :
          Continue(t, [b EXCEPT !.pc = "loop", !.node = None, !.told = None,
                                !.random = IF Late(c) THEN @ ELSE TRUE])
    /\ UNCHANGED <<cluster, table, refresh>>

(* Seeded bug: the handler does not set refresh_table_asap. *)
ClusterDownUnnoticed(t) ==
    LET c == call[t] IN
    /\ Answered(t) /\ IsDown(c.node)
    /\ Continue(t, [c EXCEPT !.pc = "start", !.node = None, !.told = None, !.stale = "down"])
    /\ UNCHANGED <<cluster, table, refresh>>

ClusterDownReply(t) ==
    LET c == call[t] IN
    /\ Answered(t) /\ IsDown(c.node)
    /\ refresh' = TRUE
    /\ Continue(t, [c EXCEPT !.pc = "start", !.node = None, !.told = None, !.stale = "down"])
    /\ UNCHANGED <<cluster, table>>

(* Seeded bug: the slot is corrected first, and then the counter is        *)
(* increased, which may initialize.                                        *)
MovedReplyPatchesFirst(t) ==
    LET c == call[t]
        moved == shard[c.slot].master IN
    /\ Answered(t) /\ Redirects(c.node, c) /\ c.slot \in DOMAIN slots
    /\ refresh' = TRUE
    /\ nodes' = nodes \cup {moved}
    /\ slots' = [slots EXCEPT ![c.slot] = [@ EXCEPT !.master = moved]]
    /\ Increment(1)
    /\ Continue(t, [c EXCEPT !.pc = "check", !.then = "loop", !.told = moved])
    /\ UNCHANGED <<cluster, startup>>

MovedReply(t) ==
    LET c == call[t]
        moved == shard[c.slot].master IN
    /\ Answered(t) /\ Redirects(c.node, c)
    /\ refresh' = TRUE
    /\ Increment(1)
    /\ Continue(t, [c EXCEPT !.pc = "check", !.then = "patch", !.moved = moved, !.told = moved])
    /\ UNCHANGED <<cluster, slots, nodes, startup>>

(* set_node and the slot's first entry.  A slot the table does not have is *)
(* a KeyError out of the handler.                                          *)
PatchSlot(t) ==
    LET c == call[t] IN
    /\ c.pc = "patch"
    /\ nodes' = nodes \cup {c.moved}
    /\ IF c.slot \in DOMAIN slots
       THEN /\ slots' = [slots EXCEPT ![c.slot] = [@ EXCEPT !.master = c.moved]]
            /\ Continue(t, [c EXCEPT !.pc = "loop", !.node = None, !.moved = None])
       ELSE UNCHANGED slots /\ Return(t, c, "internal")
    /\ UNCHANGED <<cluster, startup, counter, refresh>>

TryAgainReply(t) ==
    LET c == call[t] IN
    /\ Answered(t) /\ TriesAgain(c.node, c)
    /\ Continue(t, [c EXCEPT !.pc = "loop", !.node = None, !.told = None])
    /\ UNCHANGED <<cluster, table, refresh>>

(* Seeded bug: following an ASK does not cost an attempt. *)
AskIsFree(t) ==
    LET c == call[t] IN
    /\ Answered(t) /\ SendsAsk(c.node, c)
    /\ Continue(t, [c EXCEPT !.pc = "loop", !.node = None, !.told = None, !.asking = TRUE,
                             !.redirect = importing[c.slot], !.ttl = RequestTTL])
    /\ UNCHANGED <<cluster, table, refresh>>

AskReply(t) ==
    LET c == call[t] IN
    /\ Answered(t) /\ SendsAsk(c.node, c)
    /\ Continue(t, [c EXCEPT !.pc = "loop", !.node = None, !.told = None, !.asking = TRUE,
                             !.redirect = importing[c.slot]])
    /\ UNCHANGED <<cluster, table, refresh>>

Exchange(t) ==
    \/ SendAsking(t) \/ SendReadonly(t) \/ Executed(t) \/ Raised(t)
    \/ ConnectionError(t) \/ ConnectionErrorLimit(t) \/ TimeoutError(t)
    \/ ClusterDownReply(t) \/ MovedReply(t) \/ PatchSlot(t)
    \/ TryAgainReply(t) \/ AskReply(t)

Run(t) ==
    \/ StartDirectly(t) \/ StartRefresh(t) \/ Started(t) \/ GiveUpOnClusterDown(t)
    \/ Initialize(t) \/ CheckCounter(t) \/ Pick(t) \/ Exchange(t)

Next ==
    \/ \E t \in Thread, s \in Slot, read \in BOOLEAN : ExecuteCommand(t, s, read)
    \/ \E t \in Thread : Run(t)
    \/ ClusterChange

Spec == Init /\ [][Next]_vars

(* Threads that are not descheduled for ever; the answers are not assumed fair. *)
FairSpec == Spec /\ \A t \in Thread : WF_vars(Run(t))

-----------------------------------------------------------------------------
Pc == {"idle", "start", "started", "fetch", "swap_slots", "swap_nodes", "loop",
       "asking", "readonly", "send", "check", "patch"}
Then == {"none", "started", "loop", "patch"}
Result == {"none", "ok", "error", "internal", "clusterdown", "notcovered", "ttl"}

(* The locals of a call have their types, and those its next statement     *)
(* reads are set.                                                          *)
CallOK(c) ==
    /\ DOMAIN c = DOMAIN Idle
    /\ c.pc \in Pc /\ c.then \in Then /\ c.result \in Result
    /\ c.tries \in 0 .. DownRetryAttempts
    /\ c.ttl \in 0 .. RequestTTL
    /\ c.errors \in 0 .. ConnErrorLimit - 1
    /\ c.read \in BOOLEAN /\ c.random \in BOOLEAN
    /\ c.asking \in BOOLEAN /\ c.asked \in BOOLEAN
    /\ c.replica \in BOOLEAN /\ c.readonly \in BOOLEAN
    /\ c.slot \in Slot \cup {None}
    /\ c.redirect \in Node \cup {None} /\ c.node \in Node \cup {None}
    /\ c.moved \in Node \cup {None} /\ c.told \in Node \cup {None}
    /\ c.parsed \in Layout
    /\ c.execs \in Nat /\ c.lost \in Nat
    /\ c.stale \in {"no", "down", "uncovered"}
    /\ c.pc # "idle" => c.slot \in Slot
    /\ c.pc \in {"asking", "readonly", "send"} => c.node \in Node
    /\ c.then # "none" <=> c.pc \in {"check", "fetch", "swap_slots", "swap_nodes"}
    /\ c.pc = "patch" \/ c.then = "patch" => c.moved \in Node
    /\ c.asking => c.redirect \in Node

(* The cluster and the client's tables have rows and nodes in them, and    *)
(* every thread's call is well formed.                                     *)
TypeOK ==
    /\ shard \in Layout /\ importing \in [Slot -> Node \cup {None}]
    /\ up \subseteq Node /\ changes \in 0 .. MaxChanges
    /\ shard \in layouts /\ layouts \subseteq Layout
    /\ slots \in Layout
    /\ nodes \subseteq Node /\ startup \subseteq Node /\ counter \in 0 .. ReinitializeSteps - 1
    /\ refresh \in BOOLEAN
    /\ DOMAIN call = Thread /\ \A t \in Thread : CallOK(call[t])

(* READONLY is never sent between ASKING and the command: it would use up  *)
(* the server's flag, and the importing node would redirect the command    *)
(* back to the node that sent it there.                                    *)
AskingReachesCommand ==
    \A t \in Thread : /\ ~(call[t].asking /\ call[t].replica)
                      /\ ~(call[t].asked /\ call[t].replica)

(* When a call goes on after a MOVED, the table has the slot at the node   *)
(* the MOVED named: a reinitialize in between that reads a layout of       *)
(* before the move does not undo it.                                       *)
MovedCorrectsTable ==
    \A t \in Thread : LET c == call[t] IN
        c.told # None /\ c.pc = "loop" =>
            c.slot \in DOMAIN slots /\ slots[c.slot].master = c.told

(* ... and the next attempt is sent to that node.                          *)
MovedIsFollowed ==
    \A t \in Thread : LET c == call[t] IN c.told # None /\ c.pc = "send" => c.node = c.told

(* After CLUSTERDOWN the command is tried again with a layout read since.  *)
RetryAfterDownIsFresh ==
    \A t \in Thread : call[t].pc = "loop" => call[t].stale # "down"

(* After a SlotNotCoveredError it is tried again with a layout read since. *)
RetryUncoveredIsFresh ==
    \A t \in Thread : call[t].pc = "loop" => call[t].stale # "uncovered"

(* The connection error that uses up the allowance does reinitialize.      *)
HardForceReinitializes ==
    \A t \in Thread : call[t].pc = "check" /\ call[t].then = "loop" => counter = 0

(* A redirect or an uncovered slot never surfaces as a KeyError or an      *)
(* AttributeError from inside the client.                                  *)
NoInternalError == \A t \in Thread : call[t].result # "internal"

(* An ASK to a node that the slot table names, as a master or a replica,   *)
(* is followed and does not end in a KeyError: what slots names is found   *)
(* in nodes, with tables that are replaced by newer and older ones and     *)
(* corrected by MOVED.                                                     *)
AskIsFollowed ==
    [][\A t \in Thread : LET c == call[t] IN
           /\ c.pc = "loop" /\ c.asking /\ c.redirect \in NodesOf(slots)
           /\ call'[t].pc = "idle"
           => call'[t].result # "internal"]_vars

(* Every call comes back to its caller, whatever the servers answer.       *)
Terminates == \A t \in Thread : call[t].pc # "idle" ~> call[t].pc = "idle"
=============================================================================
