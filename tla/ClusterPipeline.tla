---------------------------- MODULE ClusterPipeline ----------------------------
(***************************************************************************)
(* ClusterPipeline.execute of rediscluster/pipeline.py: the queued         *)
(* commands are grouped by node, each group is written on one connection,  *)
(* all the replies are read, and what was redirected or lost is sent again *)
(* one command at a time.  If the first error is a CLUSTERDOWN the whole   *)
(* of it is done again.  Meanwhile the servers execute requests and        *)
(* migrate slots, key by key, and other threads of the client may refresh  *)
(* the slot table.                                                         *)
(*                                                                         *)
(* Commands are their positions in the pipeline.  The execution of a       *)
(* single command by RedisCluster.execute_command is abstracted to its     *)
(* outcomes (module RedisCluster has its steps), and so is the pool.       *)
(* Commands can be packed and their replies parsed: the exceptions of      *)
(* pack_commands and of response callbacks, which pass write and read by   *)
(* and leave execute at once, are left out.                                *)
(***************************************************************************)
EXTENDS Integers, Sequences, FiniteSets, SequencesExt, FiniteSetsExt

CONSTANTS
    Node,
    Slot,
    Key,
    Keys,        \* the keys of each command, a sequence
    SlotOf,      \* the slot of each key
    Read,        \* commands in READ_COMMANDS
    Owner,       \* the master of each slot at first
    Tables,      \* the client's slot tables to start with
    Importer,    \* the node that each slot migrates to, or None
    Replicas,    \* the replicas in each slot's row
    None,
    ReadFromReplicas,
    OtherThreads,   \* whether other threads refresh the slot table
    Attempts,    \* cluster_down_retry_attempts
    RaiseOnError,   \* the values of raise_on_error that callers pass
    Fault,       \* which of "connection", "down", "error" and "route" happen
    MaxFaults    \* and how often (bound)

Cmd == DOMAIN Keys

ASSUME ClusterPipelineAssumption ==
    /\ Keys \in Seq((SUBSET Key) \ {{}}) /\ Keys # <<>>
    /\ SlotOf \in [Key -> Slot]
    /\ \A i \in Cmd : \A k, l \in Keys[i] : SlotOf[k] = SlotOf[l]
    /\ Read \subseteq Cmd
    /\ None \notin Node
    /\ Owner \in [Slot -> Node] /\ Tables \subseteq [Slot -> Node]
    /\ Importer \in [Slot -> Node \cup {None}]
    /\ Replicas \in [Slot -> SUBSET Node]
    /\ ReadFromReplicas \in BOOLEAN /\ OtherThreads \in BOOLEAN
    /\ RaiseOnError \subseteq BOOLEAN /\ RaiseOnError # {}
    /\ Attempts \in Nat \ {0} /\ MaxFaults \in Nat
    /\ Fault \subseteq {"connection", "down", "error", "route"}

VARIABLES
    owner, moved,   \* the master of each slot, and keys that have left theirs
    log,         \* commands in the order in which servers executed them
    table,       \* the master of each slot in the client's table
    wire,        \* the connection to each node: requests, replies, READONLY
    late,        \* requests that arrived on connections closed since
    held,        \* nodes whose connection is out of the pool
    pipe,        \* the locals of execute
    faults

servers == <<owner, moved, log>>
vars == <<servers, table, wire, late, held, pipe, faults>>

SlotOfCmd(i) == SlotOf[CHOOSE k \in Keys[i] : TRUE]

Closed == [requests |-> <<>>, replies |-> <<>>, readonly |-> FALSE]
NoBatch == [n \in Node |-> <<>>]

(* pc and a cursor: next is a command or a place in a batch, at a place in *)
(* nodes.  nodes is the dictionary of NodeCommands, in insertion order.    *)
Start(result, tries, raise) ==
    [pc |-> "route", next |-> 1, at |-> 1, nodes |-> <<>>, batch |-> NoBatch,
     attempt |-> {}, reset |-> FALSE, result |-> result, tries |-> tries, raise |-> raise]

Init ==
    /\ owner = Owner /\ moved = {} /\ log = <<>>
    /\ table \in Tables
    /\ wire = [n \in Node |-> Closed]
    /\ late = [n \in Node |-> <<>>]
    /\ held = {}
    /\ \E raise \in RaiseOnError :
          pipe = Start([i \in Cmd |-> [of |-> i, is |-> "none"]], 1, raise)
    /\ faults = 0

Fails(f) == f \in Fault /\ faults < MaxFaults /\ faults' = faults + 1

-----------------------------------------------------------------------------
(* The servers.                                                            *)

KeysOf(s) == {k \in Key : SlotOf[k] = s}

(* What a node answers to a request without ASKING.                        *)
Answer(n, i) ==
    LET s == SlotOfCmd(i)
        gone == Keys[i] \cap moved
    IN  CASE owner[s] = n /\ gone = {}                  -> "ok"
          [] owner[s] = n /\ gone = Keys[i]             -> "ask"
          [] owner[s] = n /\ gone \notin {{}, Keys[i]}  -> "tryagain"
          [] owner[s] # n -> IF wire[n].readonly /\ n \in Replicas[s] /\ i \in Read
                             THEN "ok" ELSE "moved"

(* The next request on the connection; while the cluster is down, or when  *)
(* a command is wrong, nothing is executed.                                *)
Serve(n) ==
    /\ wire[n].requests # <<>>
    /\ LET i == Head(wire[n].requests)
       IN  \E is \in {Answer(n, i)} \cup ({"down", "error"} \cap Fault) :
              /\ IF is = Answer(n, i) THEN UNCHANGED faults ELSE Fails(is)
              /\ log' = IF is = "ok" THEN Append(log, i) ELSE log
              /\ wire' = [wire EXCEPT ![n].requests = Tail(@),
                                      ![n].replies = Append(@, [of |-> i, is |-> is])]
    /\ UNCHANGED <<owner, moved, table, late, held, pipe>>

ServeLate(n) ==
    /\ late[n] # <<>>
    /\ late' = [late EXCEPT ![n] = Tail(@)]
    /\ log' = IF Answer(n, Head(late[n])) = "ok" THEN Append(log, Head(late[n])) ELSE log
    /\ UNCHANGED <<owner, moved, table, wire, held, pipe, faults>>

MigrateKey(k) ==
    /\ Importer[SlotOf[k]] \notin {None, owner[SlotOf[k]]}
    /\ moved' = moved \cup {k}
    /\ k \notin moved
    /\ UNCHANGED <<owner, log, table, wire, late, held, pipe, faults>>

FinishMigration(s) ==
    /\ Importer[s] \notin {None, owner[s]}
    /\ KeysOf(s) \subseteq moved
    /\ owner' = [owner EXCEPT ![s] = Importer[s]]
    /\ moved' = moved \ KeysOf(s)
    /\ UNCHANGED <<log, table, wire, late, held, pipe, faults>>

(* Another thread initializes the node manager. *)
RefreshTable ==
    /\ OtherThreads /\ table # owner
    /\ table' = owner
    /\ UNCHANGED <<servers, wire, late, held, pipe, faults>>

-----------------------------------------------------------------------------
(* Grouping.                                                               *)

Candidates(i) ==
    {table[SlotOfCmd(i)]} \cup
        (IF ReadFromReplicas /\ i \in Read THEN Replicas[SlotOfCmd(i)] ELSE {})

(* The first command for a node takes a connection from the pool, which    *)
(* may have been used with READONLY.                                       *)
Route ==
    /\ pipe.pc = "route"
    /\ \E n \in Candidates(pipe.next) :
          LET batched == [pipe EXCEPT !.batch[n] = Append(@, pipe.next),
                                      !.nodes = IF n \in Range(@) THEN @ ELSE Append(@, n)]
          IN  /\ pipe' = IF pipe.next < Len(Keys) THEN [batched EXCEPT !.next = @ + 1]
                         ELSE [batched EXCEPT !.pc = "write"]
              /\ held' = held \cup {n}
              /\ IF n \in Range(pipe.nodes) THEN UNCHANGED wire
                 ELSE \E ro \in {FALSE, ReadFromReplicas} :
                         wire' = [wire EXCEPT ![n].readonly = ro]
    /\ UNCHANGED <<servers, table, late, faults>>

(* No key, no node for the slot, or no connection for the node: execute    *)
(* raises, with the connections it has.                                    *)
RouteFails ==
    /\ pipe.pc = "route"
    /\ Fails("route")
    /\ pipe' = [pipe EXCEPT !.pc = "raised"]
    /\ UNCHANGED <<servers, table, wire, late, held>>

-----------------------------------------------------------------------------
(* NodeCommands.write and .read.                                           *)

Current == pipe.nodes[pipe.at]
Batch == pipe.batch[Current]
All(is) == [i \in Cmd |-> IF i \in Range(Batch) THEN [of |-> i, is |-> is] ELSE pipe.result[i]]
Unread == pipe.result[Batch[pipe.next]].is = "none"

(* On to the next node, or to the next phase. *)
NextNode(p, phase) ==
    IF p.at < Len(p.nodes) THEN [p EXCEPT !.at = @ + 1, !.next = 1]
    ELSE [p EXCEPT !.at = 1, !.next = 1, !.pc = phase]

(* Seeded bug: the commands are packed in the opposite order. *)
WriteReversed ==
    /\ pipe.pc = "write"
    /\ wire' = [wire EXCEPT ![Current].requests = @ \o Reverse(Batch)]
    /\ pipe' = NextNode([pipe EXCEPT !.result = All("none")], "read")
    /\ UNCHANGED <<servers, table, late, held, faults>>

Write ==
    /\ pipe.pc = "write"
    /\ wire' = [wire EXCEPT ![Current].requests = @ \o Batch]
    /\ pipe' = NextNode([pipe EXCEPT !.result = All("none")], "read")
    /\ UNCHANGED <<servers, table, late, held, faults>>

(* The connection closes: what has arrived of a is still executed, and     *)
(* nobody reads the replies.                                               *)
Close(a) ==
    /\ \E k \in 0 .. Len(a) : late' = [late EXCEPT ![Current] = @ \o SubSeq(a, 1, k)]
    /\ wire' = [wire EXCEPT ![Current] = Closed]

WriteFails ==
    /\ pipe.pc = "write"
    /\ Fails("connection")
    /\ Close(wire[Current].requests \o Batch)
    /\ pipe' = NextNode([pipe EXCEPT !.result = All("lost")], "read")
    /\ UNCHANGED <<servers, table, held>>

NextRead(p) == IF p.next < Len(Batch) THEN [p EXCEPT !.next = @ + 1]
               ELSE NextNode(p, "release")

(* Seeded bug: reading stops at the first error. *)
ReadReplyStops ==
    /\ pipe.pc = "read" /\ Unread
    /\ wire[Current].replies # <<>>
    /\ wire' = [wire EXCEPT ![Current].replies = Tail(@)]
    /\ LET reply == Head(wire[Current].replies)
           read == [pipe EXCEPT !.result[Batch[pipe.next]] = reply]
       IN  pipe' = IF reply.is = "ok" THEN NextRead(read) ELSE NextNode(read, "release")
    /\ UNCHANGED <<servers, table, late, held, faults>>

ReadReply ==
    /\ pipe.pc = "read" /\ Unread
    /\ wire[Current].replies # <<>>
    /\ wire' = [wire EXCEPT ![Current].replies = Tail(@)]
    /\ pipe' = NextRead([pipe EXCEPT !.result[Batch[pipe.next]] = Head(wire[Current].replies)])
    /\ UNCHANGED <<servers, table, late, held, faults>>

(* Seeded bug: the loop does not get past a command that has a result. *)
ReadNothingStays ==
    /\ pipe.pc = "read" /\ ~Unread
    /\ UNCHANGED vars

ReadNothing ==
    /\ pipe.pc = "read" /\ ~Unread
    /\ pipe' = NextRead(pipe)
    /\ UNCHANGED <<servers, table, wire, late, held, faults>>

(* The error replaces every result of the node, those it has read too.     *)
ReadFails ==
    /\ pipe.pc = "read" /\ Unread
    /\ Fails("connection")
    /\ Close(wire[Current].requests)
    /\ pipe' = NextNode([pipe EXCEPT !.result = All("lost")], "release")
    /\ UNCHANGED <<servers, table, held>>

-----------------------------------------------------------------------------
(* The commands that are sent again, one at a time.                        *)

ERRORS_ALLOW_RETRY == {"lost", "moved", "ask", "tryagain"}

(* Seeded bug: if anything has failed, everything is sent again. *)
ReleaseRetriesAll ==
    /\ pipe.pc = "release"
    /\ held' = held \ Range(pipe.nodes)
    /\ LET again == \E i \in Cmd : pipe.result[i].is \in ERRORS_ALLOW_RETRY
       IN  pipe' = [pipe EXCEPT !.attempt = IF again THEN Cmd ELSE {},
                                !.pc = IF again THEN "count" ELSE "finish"]
    /\ UNCHANGED <<servers, table, wire, late, faults>>

Release ==
    /\ pipe.pc = "release"
    /\ held' = held \ Range(pipe.nodes)
    /\ LET again == {i \in Cmd : pipe.result[i].is \in ERRORS_ALLOW_RETRY}
       IN  pipe' = [pipe EXCEPT !.attempt = again,
                                !.pc = IF again = {} THEN "finish" ELSE "count"]
    /\ UNCHANGED <<servers, table, wire, late, faults>>

(* increment_reinitialize_counter, which may initialize.                   *)
CountRetries ==
    /\ pipe.pc = "count"
    /\ table' \in {table, owner}
    /\ pipe' = [pipe EXCEPT !.pc = "retry"]
    /\ UNCHANGED <<servers, wire, late, held, faults>>

CountFails ==
    /\ pipe.pc = "count"
    /\ Fails("connection")
    /\ pipe' = [pipe EXCEPT !.pc = "raised"]
    /\ UNCHANGED <<servers, table, wire, late, held>>

(* Seeded bug: the failed commands are sorted the other way. *)
RetriedLast == Max(pipe.attempt)

Retried == Min(pipe.attempt)
Retrying == pipe.pc = "retry"

After(p) == [p EXCEPT !.attempt = @ \ {Retried},
                      !.pc = IF pipe.attempt = {Retried} THEN "finish" ELSE "retry"]

RetryOk ==
    /\ Retrying
    /\ log' = Append(log, Retried)
    /\ table' \in {table, [table EXCEPT ![SlotOfCmd(Retried)] = owner[SlotOfCmd(Retried)]]}
    /\ pipe' = After([pipe EXCEPT !.result[Retried] = [of |-> Retried, is |-> "ok"]])
    /\ UNCHANGED <<owner, moved, wire, late, held, faults>>

(* Executed, but the answer was lost and execute_command sends it again.   *)
RetryRepeats ==
    /\ Retrying
    /\ Fails("connection")
    /\ log' = Append(log, Retried)
    /\ UNCHANGED <<owner, moved, table, wire, late, held, pipe>>

(* Out of attempts; for CLUSTERDOWN, with the pool reset each time.        *)
RetryFails ==
    /\ Retrying
    /\ \E is \in {"down", "error"} :
          /\ Fails(is)
          /\ pipe' = After([pipe EXCEPT !.result[Retried] = [of |-> Retried, is |-> is],
                                        !.reset = @ \/ is = "down"])
    /\ UNCHANGED <<servers, table, wire, late, held>>

(* Not a RedisError: a KeyError or an AttributeError. *)
RetryEscapes ==
    /\ Retrying
    /\ Fails("error")
    /\ pipe' = [pipe EXCEPT !.pc = "raised"]
    /\ UNCHANGED <<servers, table, wire, late, held>>

-----------------------------------------------------------------------------
(* The end of an attempt.                                                  *)

Wrong == {i \in Cmd : pipe.result[i].is # "ok"}
IsDown == pipe.raise /\ Wrong # {} /\ pipe.result[Min(Wrong)].is = "down"

Return ==
    /\ pipe.pc = "finish" /\ ~IsDown
    /\ pipe' = [pipe EXCEPT !.pc = IF pipe.raise /\ Wrong # {} THEN "raised" ELSE "returned"]
    /\ UNCHANGED <<servers, table, wire, late, held, faults>>

Resend ==
    /\ pipe.pc = "finish" /\ IsDown /\ pipe.tries < Attempts
    /\ pipe' = Start(pipe.result, pipe.tries + 1, pipe.raise)
    /\ UNCHANGED <<servers, table, wire, late, held, faults>>

GiveUp ==
    /\ pipe.pc = "finish" /\ IsDown /\ pipe.tries = Attempts
    /\ pipe' = [pipe EXCEPT !.pc = "raised"]
    /\ UNCHANGED <<servers, table, wire, late, held, faults>>

(* Nothing is left to do. *)
Done ==
    /\ pipe.pc \in {"returned", "raised"}
    /\ \A n \in Node : late[n] = <<>> /\ wire[n].requests = <<>>
    /\ UNCHANGED vars

Execute ==
    \/ Route \/ RouteFails \/ Write \/ WriteFails
    \/ ReadReply \/ ReadNothing \/ ReadFails \/ Release
    \/ CountRetries \/ CountFails \/ RetryOk \/ RetryRepeats \/ RetryFails \/ RetryEscapes
    \/ Return \/ Resend \/ GiveUp

Next ==
    \/ Execute \/ Done \/ RefreshTable
    \/ \E n \in Node : Serve(n) \/ ServeLate(n)
    \/ \E k \in Key : MigrateKey(k)
    \/ \E s \in Slot : FinishMigration(s)

Spec == Init /\ [][Next]_vars

(* The client's thread runs and servers answer: a socket has no timeout    *)
(* unless it is asked for.                                                 *)
FairSpec == Spec /\ WF_vars(Execute) /\ \A n \in Node : WF_vars(Serve(n))

-----------------------------------------------------------------------------
TypeOK ==
    /\ owner \in [Slot -> Node] /\ moved \subseteq Key /\ log \in Seq(Cmd)
    /\ table \in [Slot -> Node]
    /\ held \subseteq Node
    /\ \A n \in Node : /\ wire[n].requests \in Seq(Cmd) /\ late[n] \in Seq(Cmd)
                       /\ wire[n].readonly \in BOOLEAN
    /\ pipe.pc \in {"route", "write", "read", "release", "count", "retry", "finish",
                    "returned", "raised"}
    /\ pipe.pc \in {"write", "read"} => pipe.at \in DOMAIN pipe.nodes
    /\ pipe.pc = "read" => pipe.next \in DOMAIN Batch
    /\ pipe.pc \in {"count", "retry"} <=> pipe.attempt # {} /\ pipe.pc # "raised"
    /\ \A i \in Cmd : pipe.result[i].is \in {"none", "ok", "error", "down"} \cup ERRORS_ALLOW_RETRY
    /\ faults \in 0 .. MaxFaults

(* "It is really dangerous to release connections back into the pool if    *)
(* for some reason the socket has data still left in it": a connection in  *)
(* the pool owes no reply, whichever reads and writes failed.              *)
NoStaleReplies ==
    \A n \in Node \ held : wire[n].requests = <<>> /\ wire[n].replies = <<>>

(* Each result is that of the command at its position, and one that is not *)
(* an exception comes from an execution of it.                             *)
OwnReply ==
    \A i \in Cmd : /\ pipe.result[i].of = i
                   /\ pipe.result[i].is = "ok" => i \in Range(log)

(* The connections an execute takes are in the pool again when it ends.    *)
NothingHeld == pipe.pc \in {"returned", "raised"} => held = {}

(* "If we have to run through it again, we only retry the commands that    *)
(* failed": no command is executed twice.                                  *)
AtMostOnce == \A p, q \in DOMAIN log : log[p] = log[q] => p = q

(* "We're all done with that command, YAY!": the response of a command is  *)
(* kept when there is one.                                                 *)
DoneIsDone == [][\A i \in Cmd : pipe.result[i].is = "ok" => pipe'.result[i].is = "ok"]_vars

(* "For each slot/key the order is valid": commands of one key are executed *)
(* in the order in which they were queued.                                 *)
KeyOrder ==
    \A p, q \in DOMAIN log :
        p < q /\ Keys[log[p]] \cap Keys[log[q]] # {} => log[p] <= log[q]

(* Before the pipeline is sent again for a CLUSTERDOWN "connection_pool    *)
(* was disconnected", "was reseted" and the table is to be refreshed.      *)
ResendIsFresh == [][pipe.pc = "finish" /\ pipe'.pc = "route" => pipe.reset]_vars

(* execute returns or raises. *)
Terminates == <>(pipe.pc \in {"returned", "raised"})
=============================================================================
