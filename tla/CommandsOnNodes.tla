--------------------------- MODULE CommandsOnNodes ---------------------------
(***************************************************************************)
(* The commands that RedisCluster (rediscluster/client.py) sends to nodes  *)
(* and not to the owner of a key: determine_node takes the nodes from the  *)
(* command's flag, _execute_command_on_nodes sends it to one after the     *)
(* other, and _merge_result makes one result out of the replies.           *)
(*                                                                         *)
(* all_nodes and all_masters are generators over the dictionary of nodes,  *)
(* which other threads change while a command is on its way: a MOVED puts  *)
(* a node into it, initialize replaces it.                                 *)
(***************************************************************************)
EXTENDS Integers, Sequences, FiniteSets, SequencesExt, Functions

CONSTANTS
    Node,
    Item,              \* keys, channels or scripts
    Data,              \* the items of each node
    Pages, PageOf,     \* of the items, in a SCAN
    Command,           \* those that are called, of DOMAIN NODES_FLAGS
    Table0,            \* the nodes of the client at first, in order
    Layouts,           \* the tables that initialize may build
    DownRetryAttempts, \* cluster_down_retry_attempts
    RetryOnTimeout,    \* retry_on_timeout of the connections
    MaxChanges         \* of the nodes by other threads (bound)

NODES_FLAGS ==
    [KEYS |-> "all-nodes", PING |-> "all-nodes", NUMSUB |-> "all-nodes", NUMPAT |-> "all-nodes",
     FLUSHALL |-> "all-masters", SCRIPT_LOAD |-> "all-masters", SCRIPT_EXISTS |-> "all-masters",
     SCRIPT_DEBUG |-> "all-masters",
     RANDOMKEY |-> "random", GETKEYSINSLOT |-> "slot-id", BITOP |-> "blocked"]

(* A command without a callback of its own gets first_key.                 *)
RESULT_CALLBACKS ==
    [KEYS |-> "merge_result", PING |-> "dict", NUMSUB |-> "numsub", NUMPAT |-> "numpat",
     FLUSHALL |-> "dict", SCRIPT_LOAD |-> "any", SCRIPT_EXISTS |-> "all", SCRIPT_DEBUG |-> "first_key",
     RANDOMKEY |-> "first_key", GETKEYSINSLOT |-> "first_key", BITOP |-> "first_key"]

Entry == [name : Node, server_type : {"master", "slave"}]

(* The keys of a dictionary are unique. *)
Unique(table) == \A p, q \in DOMAIN table : table[p].name = table[q].name => p = q

ASSUME NodesAssumption ==
    /\ Data \in [Node -> SUBSET Item]
    /\ Pages \in Nat \ {0} /\ PageOf \in [Item -> 1 .. Pages]
    /\ Command \subseteq DOMAIN NODES_FLAGS
    /\ Table0 \in Seq(Entry) /\ Layouts \subseteq Seq(Entry)
    /\ \A table \in Layouts \cup {Table0} : Unique(table)
    /\ DownRetryAttempts \in Nat \ {0} /\ RetryOnTimeout \in BOOLEAN /\ MaxChanges \in Nat

VARIABLES
    nodes,     \* the dictionary, in order
    refresh,   \* refresh_table_asap
    changes,
    call

vars == <<nodes, refresh, changes, call>>

(* `iter` is what the for loop goes over: a list of one node, or the values *)
(* of a dictionary, the client's own one if `live`; `res` are the nodes    *)
(* that have answered and `cursors` those of a SCAN.  For the properties,  *)
(* `wanted` are the nodes that the command was for when the attempt began, *)
(* and `execs` counts executions, up to one more than there should be.     *)
NoIter == [live |-> FALSE, table |-> <<>>, pos |-> 0, size |-> 0]
Idle == [pc |-> "idle", cmd |-> "none", tries |-> 0, iter |-> NoIter, node |-> "none", res |-> {},
         cursors |-> <<>>, result |-> "none", value |-> {}, wanted |-> {}, execs |-> [n \in Node |-> 0]]

Init ==
    /\ nodes = Table0
    /\ refresh = FALSE
    /\ changes = 0
    /\ call = Idle

-----------------------------------------------------------------------------
(* The values of the dictionaries of replies, and the results made of them.*)

(* How many of the nodes have each item.                                   *)
Count(res) == [i \in Item |-> Cardinality({n \in res : i \in Data[n]})]

(* Seeded bug: SCRIPT EXISTS is true of a script that one master has.      *)
Somewhere(res)  == {i \in Item : Count(res)[i] > 0}
Everywhere(res) == {i \in Item : Count(res)[i] = Cardinality(res)}

Merged(cmd, res) ==
    LET callback == RESULT_CALLBACKS[cmd]
    IN  CASE callback = "dict" -> res
          [] callback = "merge_result" -> UNION {Data[n] : n \in res}
          [] callback = "numsub" -> Count(res)
          [] callback = "numpat" -> SumFunction(Count(res))
          [] callback = "all" -> Everywhere(res)
          [] callback \in {"any", "first_key"} -> Data[CHOOSE n \in res : TRUE]

(* first_key wants exactly one reply, pop at least one.                    *)
Mergeable(cmd, res) ==
    /\ RESULT_CALLBACKS[cmd] = "first_key" => Cardinality(res) = 1
    /\ RESULT_CALLBACKS[cmd] = "any" => res # {}

-----------------------------------------------------------------------------
(* execute_command and determine_node.                                     *)

Flag    == NODES_FLAGS[call.cmd]
Several == Flag \in {"all-nodes", "all-masters"}
Wanted(e) == Flag = "all-masters" => e.server_type = "master"
NamesWanted(table) == {e.name : e \in {x \in Range(table) : Wanted(x)}}

ExecuteCommand(cmd) ==
    /\ call.pc = "idle"
    /\ call' = [Idle EXCEPT !.pc = "start", !.cmd = cmd, !.tries = DownRetryAttempts]
    /\ UNCHANGED <<nodes, refresh, changes>>

Return(result, value) ==
    call' = [Idle EXCEPT !.cmd = call.cmd, !.result = result, !.value = value, !.res = call.res,
                         !.wanted = call.wanted, !.execs = call.execs]

Raise == Return("raised", {})

GiveUp ==
    /\ call.pc = "start" /\ call.tries = 0
    /\ Raise
    /\ UNCHANGED <<nodes, refresh, changes>>

(* Seeded bug: an attempt is not counted.                                  *)
TriesForever == call.tries
TriesLeft    == call.tries - 1

(* The table is initialized again first, when it has to be.                *)
Initialize ==
    /\ call.pc = "start" /\ call.tries > 0 /\ refresh
    /\ nodes' \in Layouts
    /\ refresh' = FALSE
    /\ UNCHANGED <<call, changes>>

InitializeFails ==
    /\ call.pc = "start" /\ call.tries > 0 /\ refresh
    /\ Raise
    /\ UNCHANGED <<nodes, refresh, changes>>

(* determine_node, and the start of the generator at its first next():     *)
(* until then nothing has looked at the dictionary.                        *)
Begin ==
    /\ call.pc = "start" /\ call.tries > 0 /\ ~refresh
    /\ UNCHANGED <<nodes, refresh, changes>>
    /\ \/ Flag = "blocked" /\ Raise
       \/ /\ Flag # "blocked"
          /\ \E e \in Range(nodes) :
                /\ Flag = "slot-id" => e.server_type = "master"
                /\ call' = [call EXCEPT
                       !.pc = "next", !.tries = TriesLeft, !.res = {},
                       !.iter = IF Several THEN [live |-> TRUE, table |-> <<>>, pos |-> 0, size |-> Len(nodes)]
                                ELSE [NoIter EXCEPT !.table = <<e>>, !.size = 1],
                       !.wanted = IF Several THEN NamesWanted(nodes) ELSE {e.name}]

-----------------------------------------------------------------------------
(* _execute_command_on_nodes.                                              *)

IterTable == IF call.iter.live THEN nodes ELSE call.iter.table

(* The generator goes on to the next entry, and sends if it is wanted.     *)
NextNode ==
    /\ call.pc = "next" /\ call.iter.size = Len(IterTable) /\ call.iter.pos < Len(IterTable)
    /\ LET e == IterTable[call.iter.pos + 1]
       IN  call' = [call EXCEPT !.iter.pos = @ + 1,
                                !.pc = IF Wanted(e) THEN "send" ELSE "next",
                                !.node = e.name]
    /\ UNCHANGED <<nodes, refresh, changes>>

(* RuntimeError: dictionary changed size during iteration.                 *)
ChangedSize ==
    /\ call.pc = "next" /\ call.iter.size # Len(IterTable)
    /\ Raise
    /\ UNCHANGED <<nodes, refresh, changes>>

_merge_result ==
    /\ call.pc = "next" /\ call.iter.size = Len(IterTable) /\ call.iter.pos = Len(IterTable)
    /\ IF Mergeable(call.cmd, call.res) THEN Return("ok", Merged(call.cmd, call.res)) ELSE Raise
    /\ UNCHANGED <<nodes, refresh, changes>>

(* Executions are counted up to this bound, which a call does not exceed.   *)
MaxExecs == 2 * DownRetryAttempts + Pages
Executed(n) == [call EXCEPT !.execs[n] = IF @ <= MaxExecs THEN @ + 1 ELSE @]

Answered ==
    /\ call.pc \in {"send", "resend"}
    /\ call' = [Executed(call.node) EXCEPT !.pc = "next", !.res = @ \cup {call.node}]
    /\ UNCHANGED <<nodes, refresh, changes>>

(* Seeded bugs: a node whose connection breaks is left out, or is sent the *)
(* command until it answers.                                               *)
LeftOut(timeout) ==
    /\ call.pc = "send"
    /\ timeout => RetryOnTimeout
    /\ call' = [call EXCEPT !.pc = "next"]
    /\ UNCHANGED <<nodes, refresh, changes>>
UntilAnswered(timeout) ==
    /\ call.pc \in {"send", "resend"}
    /\ timeout => RetryOnTimeout
    /\ call' \in {[call EXCEPT !.pc = "resend"], [Executed(call.node) EXCEPT !.pc = "resend"]}
    /\ UNCHANGED <<nodes, refresh, changes>>

(* The connection breaks or times out, the command executed or not.  It is *)
(* sent once more, after a timeout only if the connection is made for it.  *)
Broken(timeout) ==
    /\ call.pc = "send"
    /\ timeout => RetryOnTimeout
    /\ call' \in {[call EXCEPT !.pc = "resend"], [Executed(call.node) EXCEPT !.pc = "resend"]}
    /\ UNCHANGED <<nodes, refresh, changes>>

(* Every other error is raised, and any but CLUSTERDOWN of the second try. *)
Fails ==
    /\ call.pc \in {"send", "resend"}
    /\ Raise
    /\ UNCHANGED <<nodes, refresh, changes>>

(* execute_command tries again.  The handler that has the table refreshed  *)
(* is that of the first try: an error of the second one passes it by.      *)
ClusterDown ==
    /\ call.pc \in {"send", "resend"}
    /\ call' = [call EXCEPT !.pc = "start", !.iter = NoIter]
    /\ refresh' = (refresh \/ call.pc = "send")
    /\ UNCHANGED <<nodes, changes>>

-----------------------------------------------------------------------------
(* scan_iter: a page of every master in turn, until all cursors are 0.  A  *)
(* cursor here is the number of pages read; a page has the items of its    *)
(* number, so that a node has them all when Pages are read.                *)

ScanIter ==
    /\ call.pc = "idle"
    /\ LET masters == {e.name : e \in {x \in Range(nodes) : x.server_type = "master"}}
       IN  call' = [Idle EXCEPT !.pc = "scan", !.cmd = "SCAN", !.wanted = masters,
                                !.iter = [NoIter EXCEPT !.table = nodes, !.pos = Len(nodes)],
                                !.cursors = [n \in masters |-> 0]]
    /\ UNCHANGED <<nodes, refresh, changes>>

ScanDone == \A n \in DOMAIN call.cursors : call.cursors[n] = Pages

ScanRound ==
    /\ call.pc = "scan" /\ call.iter.pos = Len(call.iter.table)
    /\ IF ScanDone THEN Return("ok", call.value) ELSE call' = [call EXCEPT !.iter.pos = 0]
    /\ UNCHANGED <<nodes, refresh, changes>>

ScanNode   == call.iter.table[call.iter.pos + 1].name
PagesLeft  == ScanNode \in DOMAIN call.cursors /\ call.cursors[ScanNode] # Pages
ScanAtNode == call.pc = "scan" /\ call.iter.pos < Len(call.iter.table)

ScanPage ==
    /\ ScanAtNode /\ PagesLeft
    /\ call' = [Executed(ScanNode) EXCEPT
                    !.iter.pos = @ + 1, !.cursors[ScanNode] = @ + 1,
                    !.value = @ \cup {i \in Data[ScanNode] : PageOf[i] = call.cursors[ScanNode] + 1}]
    /\ UNCHANGED <<nodes, refresh, changes>>

ScanSkips ==
    /\ ScanAtNode /\ ~PagesLeft
    /\ call' = [call EXCEPT !.iter.pos = @ + 1]
    /\ UNCHANGED <<nodes, refresh, changes>>

ScanFails ==
    /\ ScanAtNode /\ PagesLeft
    /\ Raise
    /\ UNCHANGED <<nodes, refresh, changes>>

-----------------------------------------------------------------------------
(* Other threads.                                                          *)

(* set_node of a MOVED: a new entry comes last, a known one keeps its place.*)
set_node(n) ==
    LET e == [name |-> n, server_type |-> "master"]
        known == {i \in DOMAIN nodes : nodes[i].name = n}
    IN  nodes' = IF known = {} THEN Append(nodes, e)
                 ELSE [i \in DOMAIN nodes |-> IF i \in known THEN e ELSE nodes[i]]

OtherMoved ==
    /\ changes < MaxChanges /\ changes' = changes + 1
    /\ \E n \in Node : set_node(n)
    /\ UNCHANGED <<refresh, call>>

(* A generator keeps the dictionary that initialize replaces.              *)
OtherInitialize ==
    /\ changes < MaxChanges /\ changes' = changes + 1
    /\ nodes' \in Layouts
    /\ call' = IF call.iter.live THEN [call EXCEPT !.iter.live = FALSE, !.iter.table = nodes]
               ELSE call
    /\ UNCHANGED refresh

Step ==
    \/ GiveUp \/ Initialize \/ InitializeFails \/ Begin \/ NextNode \/ ChangedSize \/ _merge_result
    \/ Answered \/ Broken(TRUE) \/ Broken(FALSE) \/ Fails \/ ClusterDown
    \/ ScanRound \/ ScanPage \/ ScanSkips \/ ScanFails

Next ==
    \/ \E cmd \in Command : ExecuteCommand(cmd)
    \/ ScanIter \/ Step
    \/ OtherMoved \/ OtherInitialize

Spec == Init /\ [][Next]_vars /\ WF_vars(Step)

-----------------------------------------------------------------------------
(* Properties.                                                             *)

TypeOK ==
    /\ nodes \in Seq(Entry) /\ Unique(nodes)
    /\ refresh \in BOOLEAN /\ changes \in 0 .. MaxChanges
    /\ call.tries \in 0 .. DownRetryAttempts
    /\ call.res \subseteq Node /\ call.wanted \subseteq Node
    /\ call.iter.pos \in 0 .. Len(IterTable)

(* A command that returns has the answer of every node that it was for,    *)
(* whatever MOVED and initialize did to the dictionary meanwhile.          *)
EveryNodeAnswers ==
    call.result = "ok" => IF call.cmd = "SCAN" THEN \A n \in call.wanted : call.execs[n] = Pages
                          ELSE call.wanted \subseteq call.res

(* What is returned holds for all of these nodes: every key and channel,   *)
(* each subscription of each node, and of the scripts only those that all  *)
(* masters have; and it holds nothing that no node has.                    *)
ResultIsOfAllNodes ==
    LET Has(ns, i) == Cardinality({n \in ns : i \in Data[n]})
    IN  call.result = "ok" =>
          /\ call.cmd \in {"KEYS", "SCAN"} =>
                 \A i \in Item : /\ Has(call.wanted, i) > 0 => i \in call.value
                                 /\ i \in call.value => Has(Node, i) > 0
          /\ call.cmd = "NUMSUB" =>
                 \A i \in Item : call.value[i] \in Has(call.wanted, i) .. Has(Node, i)
          /\ call.cmd = "SCRIPT_EXISTS" =>
                 \A i \in call.value : Has(call.wanted, i) = Cardinality(call.wanted)

(* A node executes a command at most twice in an attempt, and a SCAN once  *)
(* for each of its pages.                                                  *)
ExecutionsAreBounded ==
    \A n \in Node : call.execs[n] <= IF call.cmd = "SCAN" THEN Pages
                                     ELSE 2 * (DownRetryAttempts - call.tries)

(* Every call returns or raises, as long as its thread goes on.            *)
Terminates == call.pc # "idle" ~> call.pc = "idle"

(* After a CLUSTERDOWN the table is refreshed before the next attempt, as  *)
(* execute_command assumes.                                                *)
DownRefreshes == [][call.pc \in {"send", "resend"} /\ call'.pc = "start" => refresh']_vars
=============================================================================
