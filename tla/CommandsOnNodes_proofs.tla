------------------------ MODULE CommandsOnNodes_proofs ------------------------
(***************************************************************************)
(* For any nodes, any tables that other threads put in the place of the    *)
(* client's, and any number of attempts: what returns has the answer of    *)
(* every node and is merged from them, and no node executes a command more *)
(* often than twice in an attempt.                                         *)
(***************************************************************************)
EXTENDS CommandsOnNodes, FiniteSetTheorems, TLAPS

Label  == {"idle", "start", "next", "send", "resend", "scan"}
Trying == {"next", "send", "resend"}

(* The fields of the call and of its iterator. *)
Shape ==
    /\ call = [pc |-> call.pc, cmd |-> call.cmd, tries |-> call.tries, iter |-> call.iter,
               node |-> call.node, res |-> call.res, cursors |-> call.cursors,
               result |-> call.result, value |-> call.value, wanted |-> call.wanted,
               execs |-> call.execs]
    /\ call.iter = [live |-> call.iter.live, table |-> call.iter.table,
                    pos |-> call.iter.pos, size |-> call.iter.size]

Types ==
    /\ Shape
    /\ nodes \in Seq(Entry) /\ Unique(nodes)
    /\ call.pc \in Label /\ call.tries \in 0 .. DownRetryAttempts
    /\ call.iter.live \in BOOLEAN /\ call.iter.table \in Seq(Entry) /\ Unique(call.iter.table)
    /\ call.iter.pos \in 0 .. Len(IterTable)
    /\ call.execs \in [Node -> Nat]
    /\ call.pc \in {"start"} \cup Trying => call.cmd \in Command
    /\ call.pc \in {"idle", "start", "scan"} => ~call.iter.live
    /\ call.pc # "idle" => call.result = "none"

(* How often the attempt may still have the node n execute the command.    *)
Reached(n) == \E p \in 1 .. call.iter.pos : IterTable[p].name = n
Unused(n) ==
    IF ~Reached(n) THEN 2
    ELSE IF n # call.node \/ call.pc = "next" THEN 0
    ELSE IF call.pc = "send" THEN 2 ELSE 1

(* A wanted node keeps its place in what the loop goes over, and its       *)
(* answer is there when the loop has passed it.                            *)
Ahead(n) ==
    \E p \in DOMAIN IterTable :
        /\ IterTable[p].name = n /\ Wanted(IterTable[p])
        /\ p <= call.iter.pos => n \in call.res \/ (n = call.node /\ call.pc # "next")

Attempt ==
    call.pc \in Trying =>
        /\ call.tries < DownRetryAttempts
        /\ call.pc # "next" => call.iter.pos > 0 /\ IterTable[call.iter.pos].name = call.node
        /\ \A n \in call.wanted : Ahead(n)
        /\ \A n \in Node : call.execs[n] + Unused(n) <= 2 * (DownRetryAttempts - call.tries)

Scanning ==
    call.pc = "scan" =>
        /\ call.cmd = "SCAN"
        /\ call.wanted \subseteq Node /\ call.cursors \in [call.wanted -> 0 .. Pages]
        /\ \A n \in Node : call.execs[n] = IF n \in call.wanted THEN call.cursors[n] ELSE 0

Between == call.pc \in {"idle", "start"} => ExecutionsAreBounded

IInv == Types /\ Attempt /\ Scanning /\ Between /\ EveryNodeAnswers

-----------------------------------------------------------------------------
(* A node that a MOVED adds comes last, and one that it turns into a       *)
(* master stays where it is.                                               *)
Grows(old, new) ==
    /\ Len(old) <= Len(new)
    /\ \A p \in DOMAIN old : /\ new[p].name = old[p].name
                             /\ old[p].server_type = "master" => new[p].server_type = "master"

LEMMA SetNodeGrows ==
    ASSUME nodes \in Seq(Entry), Unique(nodes), NEW n \in Node, set_node(n)
    PROVE  nodes' \in Seq(Entry) /\ Unique(nodes') /\ Grows(nodes, nodes')
<1> DEFINE e == [name |-> n, server_type |-> "master"]
<1> DEFINE known == {p \in DOMAIN nodes : nodes[p].name = n}
<1>1. e \in Entry /\ e.name = n /\ e.server_type = "master"
  BY DEF Entry
<1>2. nodes' = IF known = {} THEN Append(nodes, e)
               ELSE [p \in DOMAIN nodes |-> IF p \in known THEN e ELSE nodes[p]]
  BY DEF set_node
<1>3. CASE known = {}
  BY <1>1, <1>2, <1>3 DEF Unique, Grows
<1>4. CASE known # {}
  <2>0. DOMAIN nodes = 1 .. Len(nodes)
    OBVIOUS
  <2>1. nodes' = [p \in 1 .. Len(nodes) |-> IF p \in known THEN e ELSE nodes[p]]
    BY <1>2, <1>4, <2>0, Zenon
  <2>2. nodes' \in Seq(Entry) /\ Len(nodes') = Len(nodes)
    BY <2>1, <1>1
  <2>3. \A p \in 1 .. Len(nodes) : nodes'[p].name = nodes[p].name
    BY <2>1, <1>1
  <2> QED
    BY <2>1, <2>2, <2>3, <1>1 DEF Unique, Grows
<1> QED
  BY <1>3, <1>4

LEMMA InvInit == Init => IInv
<1> SUFFICES ASSUME Init PROVE IInv
  OBVIOUS
<1>1. /\ Shape /\ call.pc = "idle" /\ call.cmd = "none" /\ call.tries = 0 /\ call.result = "none"
      /\ ~call.iter.live /\ call.iter.live \in BOOLEAN /\ call.iter.table = <<>> /\ call.iter.pos = 0
      /\ call.execs = [n \in Node |-> 0]
  BY DEF Init, Idle, NoIter, Shape
<1>2. Types
  BY <1>1, NodesAssumption DEF Init, Types, Label, Trying, IterTable, Unique
<1> QED
  BY <1>1, <1>2, NodesAssumption
     DEF IInv, Attempt, Scanning, Between, EveryNodeAnswers, ExecutionsAreBounded, Trying

-----------------------------------------------------------------------------
(* Where a call ends.                                                      *)

LEMMA NotScan == \A cmd \in Command : cmd # "SCAN"
<1>1. DOMAIN NODES_FLAGS = {"KEYS", "PING", "NUMSUB", "NUMPAT", "FLUSHALL", "SCRIPT_LOAD",
                            "SCRIPT_EXISTS", "SCRIPT_DEBUG", "RANDOMKEY", "GETKEYSINSLOT", "BITOP"}
  BY DEF NODES_FLAGS
<1> QED
  BY <1>1, NodesAssumption

LEMMA Bounded ==
    ASSUME IInv
    PROVE  ExecutionsAreBounded
<1> SUFFICES ASSUME NEW n \in Node
             PROVE  call.execs[n] <= IF call.cmd = "SCAN" THEN Pages
                                     ELSE 2 * (DownRetryAttempts - call.tries)
  BY DEF ExecutionsAreBounded
<1>1. CASE call.pc \in {"idle", "start"}
  BY <1>1 DEF IInv, Between, ExecutionsAreBounded
<1>2. CASE call.pc \in Trying
  <2>1. call.cmd # "SCAN"
    BY <1>2, NotScan DEF IInv, Types
  <2>2. call.execs[n] \in Nat /\ Unused(n) \in Nat
    BY DEF IInv, Types, Unused
  <2> QED
    BY <1>2, <2>1, <2>2, NodesAssumption DEF IInv, Attempt, Types
<1>3. CASE call.pc = "scan"
  BY <1>3, NodesAssumption DEF IInv, Scanning
<1> QED
  BY <1>1, <1>2, <1>3 DEF IInv, Types, Label, Trying

LEMMA Ends ==
    ASSUME IInv, NEW result, NEW value, Return(result, value),
           nodes' \in Seq(Entry), Unique(nodes'),
           result = "ok" => IF call.cmd = "SCAN" THEN \A n \in call.wanted : call.execs[n] = Pages
                            ELSE call.wanted \subseteq call.res
    PROVE  IInv'
<1>1. /\ Shape' /\ call'.pc = "idle" /\ call'.cmd = call.cmd /\ call'.tries = 0 /\ call'.iter = NoIter
      /\ call'.result = result /\ call'.execs = call.execs /\ call'.wanted = call.wanted
      /\ call'.res = call.res
  BY DEF Return, Idle, Shape, NoIter
<1>2. Types'
  BY <1>1, NodesAssumption DEF IInv, Types, Label, Trying, IterTable, Unique, NoIter
<1>3. ExecutionsAreBounded'
  <2> SUFFICES ASSUME NEW n \in Node
               PROVE  call.execs[n] <= IF call.cmd = "SCAN" THEN Pages
                                       ELSE 2 * (DownRetryAttempts - 0)
    BY <1>1 DEF ExecutionsAreBounded
  <2>1. call.execs[n] \in Nat /\ call.tries \in Nat
    BY DEF IInv, Types
  <2> QED
    BY <2>1, Bounded, NodesAssumption DEF ExecutionsAreBounded
<1>4. EveryNodeAnswers'
  BY <1>1 DEF EveryNodeAnswers
<1> QED
  BY <1>1, <1>2, <1>3, <1>4 DEF IInv, Attempt, Scanning, Between, Trying

LEMMA Raises ==
    ASSUME IInv, Raise, nodes' \in Seq(Entry), Unique(nodes')
    PROVE  IInv'
BY Ends DEF Raise

LEMMA SameTable ==
    ASSUME IInv, nodes' = nodes
    PROVE  nodes' \in Seq(Entry) /\ Unique(nodes')
BY DEF IInv, Types

-----------------------------------------------------------------------------
(* The beginning of a call and of an attempt.                              *)

LEMMA InvExecuteCommand ==
    ASSUME IInv, NEW cmd \in Command, ExecuteCommand(cmd)
    PROVE  IInv'
<1>1. /\ Shape' /\ call'.pc = "start" /\ call'.cmd = cmd /\ call'.tries = DownRetryAttempts
      /\ call'.iter = NoIter /\ call'.result = "none" /\ call'.execs = [n \in Node |-> 0]
      /\ nodes' = nodes
  BY DEF ExecuteCommand, Idle, Shape, NoIter
<1>2. Types'
  BY <1>1, NodesAssumption DEF IInv, Types, Label, Trying, IterTable, Unique, NoIter
<1>3. ExecutionsAreBounded'
  BY <1>1, NotScan, NodesAssumption DEF ExecutionsAreBounded
<1> QED
  BY <1>1, <1>2, <1>3 DEF IInv, Attempt, Scanning, Between, Trying, EveryNodeAnswers

LEMMA TablesAreFine == \A table \in Layouts \cup {Table0} : table \in Seq(Entry) /\ Unique(table)
BY NodesAssumption

(* Before the generator starts, any table will do.                         *)
LEMMA InvInitialize ==
    ASSUME IInv, Initialize
    PROVE  IInv'
<1>1. nodes' \in Seq(Entry) /\ Unique(nodes')
  BY TablesAreFine DEF Initialize
<1>2. call' = call /\ call.pc = "start"
  BY DEF Initialize
<1>3. IterTable' = IterTable
  BY <1>2 DEF IterTable, IInv, Types
<1>4. Shape'
  BY <1>2 DEF IInv, Types, Shape
<1>5. Types'
  BY <1>1, <1>2, <1>3, <1>4 DEF IInv, Types, Unique
<1> QED
  BY <1>2, <1>5 DEF IInv, Attempt, Trying, Scanning, Between, EveryNodeAnswers, ExecutionsAreBounded

LEMMA InvBegin ==
    ASSUME IInv, Begin
    PROVE  IInv'
<1>1. nodes' \in Seq(Entry) /\ Unique(nodes')
  BY DEF Begin, IInv, Types, Unique
<1>2. CASE Raise
  BY <1>1, <1>2, Raises
<1>3. ASSUME ~Raise PROVE IInv'
  <2> PICK e \in Range(nodes) :
         call' = [call EXCEPT
             !.pc = "next", !.tries = TriesLeft, !.res = {},
             !.iter = IF Several THEN [live |-> TRUE, table |-> <<>>, pos |-> 0, size |-> Len(nodes)]
                      ELSE [NoIter EXCEPT !.table = <<e>>, !.size = 1],
             !.wanted = IF Several THEN NamesWanted(nodes) ELSE {e.name}]
    BY <1>3 DEF Begin
  <2> DEFINE it == IF Several THEN [live |-> TRUE, table |-> <<>>, pos |-> 0, size |-> Len(nodes)]
                   ELSE [NoIter EXCEPT !.table = <<e>>, !.size = 1]
             w == IF Several THEN NamesWanted(nodes) ELSE {e.name}
  <2>0. call' = [call EXCEPT !.pc = "next", !.tries = TriesLeft, !.res = {}, !.iter = it, !.wanted = w]
    OBVIOUS
  <2>a. /\ it = [live |-> it.live, table |-> it.table, pos |-> it.pos, size |-> it.size]
        /\ Several => it.live = TRUE /\ it.table = <<>>
        /\ ~Several => it.live = FALSE /\ it.table = <<e>>
        /\ it.pos = 0
    <3>1. CASE Several
      BY <3>1
    <3>2. CASE ~Several
      BY <3>2 DEF NoIter
    <3> QED
      BY <3>1, <3>2
  <2>b. /\ Several => w = NamesWanted(nodes)
        /\ ~Several => w = {e.name}
    OBVIOUS
  <2> HIDE DEF it, w
  <2>1. /\ Shape' /\ call'.pc = "next" /\ call'.tries = call.tries - 1 /\ call'.cmd = call.cmd
        /\ call'.iter = it /\ call'.wanted = w /\ call'.result = "none" /\ call'.execs = call.execs
    BY <2>0, <2>a DEF Begin, IInv, Types, Shape, TriesLeft
  <2>2. e \in Entry
    BY DEF IInv, Types, Range
  <2>3. IterTable' = (IF Several THEN nodes' ELSE <<e>>) /\ call'.iter.pos = 0
    BY <2>1, <2>a DEF IterTable
  <2>4. Unique(<<e>>) /\ <<e>> \in Seq(Entry) /\ Unique(<<>>) /\ <<>> \in Seq(Entry)
    BY <2>2 DEF Unique
  <2>5. Types'
    <3>1. call'.iter.live \in BOOLEAN
      BY <2>1, <2>a, Zenon
    <3>2. call'.iter.table \in Seq(Entry) /\ Unique(call'.iter.table)
      BY <2>1, <2>a, <2>4
    <3>3. call'.iter.pos \in 0 .. Len(IterTable')
      BY <1>1, <2>3, <2>4
    <3>4. call'.tries \in 0 .. DownRetryAttempts
      <4>1. call.tries > 0
        BY DEF Begin
      <4> QED
        BY <2>1, <4>1, NodesAssumption DEF IInv, Types
    <3> QED
      BY <1>1, <2>1, <3>1, <3>2, <3>3, <3>4 DEF Begin, IInv, Types, Label, Trying
  <2>6. ASSUME NEW n \in call'.wanted PROVE Ahead(n)'
    <3>0. \A x : Wanted(x)' <=> Wanted(x)
      BY <2>1 DEF Wanted, Flag
    <3>1. \E p \in DOMAIN IterTable' : IterTable'[p].name = n /\ Wanted(IterTable[p])'
      <4>1. CASE Several
        <5>1. PICK x \in Range(nodes) : Wanted(x) /\ x.name = n
          BY <2>1, <2>b, <2>6, <3>0, <4>1 DEF NamesWanted
        <5>2. PICK p \in DOMAIN nodes' : nodes'[p] = x
          BY DEF Begin, Range
        <5>3. IterTable' = nodes'
          BY <2>3, <4>1
        <5>4. Wanted(IterTable[p])'
          BY <5>1, <5>2, <5>3, <3>0
        <5> QED
          BY <5>1, <5>2, <5>3, <5>4
      <4>2. CASE ~Several
        <5>1. Wanted(e)'
          BY <2>1, <4>2 DEF Wanted, Flag, Several
        <5> QED
          <6>1. IterTable' = <<e>> /\ n = e.name
            BY <2>1, <2>b, <2>3, <2>6, <4>2
          <6>2. Wanted(IterTable[1])'
            BY <5>1, <6>1
          <6> QED
            BY <6>1, <6>2
      <4> QED
        BY <4>1, <4>2
    <3> QED
      <4>1. PICK p \in DOMAIN IterTable' : IterTable'[p].name = n /\ Wanted(IterTable[p])'
        BY <3>1
      <4>2. ~(p <= call'.iter.pos)
        BY <1>1, <2>3, <2>4
      <4> QED
        BY <4>1, <4>2 DEF Ahead
  <2>7. ASSUME NEW n \in Node
        PROVE  call'.execs[n] + Unused(n)' <= 2 * (DownRetryAttempts - call'.tries)
    <3>1. Unused(n)' = 2
      BY <2>3 DEF Unused, Reached
    <3>2. call.cmd # "SCAN" /\ call.execs[n] \in Nat /\ call.tries \in Nat
      <4>1. call.cmd \in Command
        BY DEF Begin, IInv, Types
      <4> QED
        BY <4>1, NotScan DEF IInv, Types
    <3>3. call.execs[n] <= 2 * (DownRetryAttempts - call.tries)
      BY <3>2, Bounded DEF ExecutionsAreBounded
    <3> QED
      BY <2>1, <3>1, <3>2, <3>3, NodesAssumption
  <2>8. Attempt'
    <3>1. call'.tries < DownRetryAttempts
      BY <2>1, NodesAssumption DEF IInv, Types
    <3> QED
      BY <2>1, <2>6, <2>7, <3>1 DEF Attempt
  <2> QED
    BY <2>1, <2>5, <2>8 DEF IInv, Scanning, Between, EveryNodeAnswers
<1> QED
  BY <1>2, <1>3

-----------------------------------------------------------------------------
(* The loop over the nodes.                                                *)

LEMMA IterTableType ==
    ASSUME IInv
    PROVE  IterTable \in Seq(Entry) /\ Unique(IterTable)
BY DEF IInv, Types, IterTable

LEMMA InvNextNode ==
    ASSUME IInv, NextNode
    PROVE  IInv'
<1> DEFINE q == call.iter.pos + 1
           e == IterTable[q]
<1>1. /\ call.pc = "next" /\ q \in DOMAIN IterTable /\ e \in Entry
      /\ nodes' = nodes /\ call.iter.pos \in Nat
      /\ call' = [call EXCEPT !.iter.pos = @ + 1, !.pc = IF Wanted(e) THEN "send" ELSE "next",
                              !.node = e.name]
  BY IterTableType DEF NextNode, IInv, Types
<1> HIDE DEF e
<1>2. /\ Shape' /\ call'.pc = (IF Wanted(e) THEN "send" ELSE "next") /\ call'.cmd = call.cmd
      /\ call'.tries = call.tries /\ call'.iter.live = call.iter.live
      /\ call'.iter.table = call.iter.table /\ call'.iter.pos = q /\ call'.node = e.name
      /\ call'.res = call.res /\ call'.result = call.result /\ call'.wanted = call.wanted
      /\ call'.execs = call.execs
  BY <1>1 DEF IInv, Types, Shape
<1>3. IterTable' = IterTable /\ \A x : Wanted(x)' <=> Wanted(x)
  BY <1>1, <1>2 DEF IterTable, Wanted, Flag
<1>4. Types'
  BY <1>1, <1>2, <1>3 DEF IInv, Types, Label, Trying
<1>5. ASSUME NEW n \in call.wanted PROVE Ahead(n)'
  <2>1. PICK p \in DOMAIN IterTable :
           /\ IterTable[p].name = n /\ Wanted(IterTable[p])
           /\ p <= call.iter.pos => n \in call.res
    BY <1>1, <1>5 DEF IInv, Attempt, Trying, Ahead
  <2>2. p <= call'.iter.pos => n \in call'.res \/ (n = call'.node /\ call'.pc # "next")
    <3>1. p \in Nat
      BY IterTableType
    <3>2. CASE p = q
      BY <1>2, <2>1, <3>2 DEF e
    <3> QED
      BY <1>1, <1>2, <2>1, <3>1, <3>2
  <2>3. Wanted(IterTable[p])'
    BY <1>3, <2>1
  <2> QED
    BY <1>3, <2>1, <2>2, <2>3 DEF Ahead
<1>6. ASSUME NEW n \in Node
      PROVE  call'.execs[n] + Unused(n)' <= 2 * (DownRetryAttempts - call'.tries)
  <2>1. Unused(n)' <= Unused(n) /\ Unused(n) \in Nat /\ Unused(n)' \in Nat
    <3>1. CASE n = e.name
      <4>1. ~Reached(n)
        <5>1. \A p \in 1 .. call.iter.pos : p \in DOMAIN IterTable /\ p # q
          BY <1>1, IterTableType
        <5> QED
          BY <1>1, <3>1, <5>1, IterTableType DEF Reached, Unique, e
      <4> QED
        BY <4>1 DEF Unused
    <3>2. CASE n # e.name
      <4>1. Reached(n)' <=> Reached(n)
        BY <1>1, <1>2, <1>3, <3>2 DEF Reached, e
      <4> QED
        BY <1>1, <1>2, <3>2, <4>1 DEF Unused
    <3> QED
      BY <3>1, <3>2
  <2>2. call.execs[n] + Unused(n) <= 2 * (DownRetryAttempts - call.tries)
    BY <1>1 DEF IInv, Attempt, Trying
  <2>3. call.execs[n] \in Nat /\ call.tries \in Nat
    BY DEF IInv, Types
  <2> QED
    BY <1>2, <2>1, <2>2, <2>3, NodesAssumption
<1>7. Attempt'
  <2>1. call'.pc # "next" => call'.iter.pos > 0 /\ IterTable'[call'.iter.pos].name = call'.node
    BY <1>1, <1>2, <1>3 DEF e
  <2>2. call'.tries < DownRetryAttempts
    BY <1>1, <1>2 DEF IInv, Attempt, Trying
  <2> QED
    BY <1>2, <1>5, <1>6, <2>1, <2>2 DEF Attempt
<1> QED
  BY <1>1, <1>2, <1>4, <1>7 DEF IInv, Scanning, Between, EveryNodeAnswers, Types

LEMMA Inv_merge_result ==
    ASSUME IInv, _merge_result
    PROVE  IInv'
<1>1. call.pc = "next" /\ call.iter.pos = Len(IterTable) /\ nodes' = nodes
  BY DEF _merge_result
<1>2. call.wanted \subseteq call.res
  <2> SUFFICES ASSUME NEW n \in call.wanted PROVE n \in call.res
    OBVIOUS
  <2>1. PICK p \in DOMAIN IterTable : p <= call.iter.pos => n \in call.res
    BY <1>1 DEF IInv, Attempt, Trying, Ahead
  <2> QED
    BY <1>1, <2>1, IterTableType
<1>3. call.cmd # "SCAN"
  BY <1>1, NotScan DEF IInv, Types, Trying
<1>4. CASE Return("ok", Merged(call.cmd, call.res))
  BY <1>1, <1>2, <1>3, <1>4, SameTable, Ends
<1>5. CASE Raise
  BY <1>1, <1>5, SameTable, Raises
<1> QED
  BY <1>4, <1>5 DEF _merge_result

-----------------------------------------------------------------------------
(* A request to one node.                                                  *)

(* What an execution changes of the call: one count, by at most one.       *)
LEMMA OneExecution ==
    ASSUME IInv, NEW n \in Node
    PROVE  /\ Executed(n) = [call EXCEPT !.execs = Executed(n).execs]
           /\ Executed(n).execs \in [Node -> Nat]
           /\ Executed(n).execs[n] <= call.execs[n] + 1
           /\ call.execs[n] <= MaxExecs => Executed(n).execs[n] = call.execs[n] + 1
           /\ \A m \in Node \ {n} : Executed(n).execs[m] = call.execs[m]
<1> DEFINE x == [call.execs EXCEPT ![n] = IF @ <= MaxExecs THEN @ + 1 ELSE @]
<1>1. Executed(n) = [call EXCEPT !.execs = x]
  BY DEF Executed
<1>2. Executed(n).execs = x
  BY <1>1 DEF IInv, Types, Shape
<1>3. call.execs \in [Node -> Nat]
  BY DEF IInv, Types
<1>4. x \in [Node -> Nat]
  BY <1>3
<1>5. /\ x[n] <= call.execs[n] + 1
      /\ call.execs[n] <= MaxExecs => x[n] = call.execs[n] + 1
      /\ \A m \in Node \ {n} : x[m] = call.execs[m]
  BY <1>3
<1> QED
  BY <1>1, <1>2, <1>4, <1>5

LEMMA SendsToNode ==
    ASSUME IInv, call.pc \in {"send", "resend"}
    PROVE  /\ call.node \in Node /\ call.iter.pos \in DOMAIN IterTable /\ call.iter.pos > 0
           /\ IterTable[call.iter.pos].name = call.node
<1>1. call.iter.pos > 0 /\ IterTable[call.iter.pos].name = call.node
  BY DEF IInv, Attempt, Trying
<1>2. call.iter.pos \in 1 .. Len(IterTable)
  BY <1>1 DEF IInv, Types
<1>3. IterTable[call.iter.pos] \in Entry
  BY <1>2, IterTableType
<1> QED
  BY <1>1, <1>2, <1>3, IterTableType DEF Entry

(* A reply or a broken connection uses up what the node may still execute. *)
LEMMA InvSent ==
    ASSUME IInv, call.pc \in {"send", "resend"}, nodes' = nodes,
           NEW to \in {"next", "resend"}, to = "resend" => call.pc = "send",
           NEW more \in {call.execs, Executed(call.node).execs},
           Shape', call'.pc = to, call'.cmd = call.cmd, call'.tries = call.tries,
           call'.iter = call.iter, call'.node = call.node, call'.result = call.result,
           call'.wanted = call.wanted, call'.execs = more,
           call'.res = IF to = "next" THEN call.res \cup {call.node} ELSE call.res
    PROVE  IInv'
<1>1. call.node \in Node /\ call.iter.pos \in DOMAIN IterTable
      /\ IterTable[call.iter.pos].name = call.node
  BY SendsToNode
<1>2. /\ more \in [Node -> Nat] /\ more[call.node] <= call.execs[call.node] + 1
      /\ \A m \in Node \ {call.node} : more[m] = call.execs[m]
  <2>1. call.execs \in [Node -> Nat]
    BY DEF IInv, Types
  <2>2. CASE more = call.execs
    BY <1>1, <2>1, <2>2
  <2>3. CASE more = Executed(call.node).execs
    BY <1>1, <2>3, OneExecution
  <2> QED
    BY <2>2, <2>3
<1>3. IterTable' = IterTable /\ \A x : Wanted(x)' <=> Wanted(x)
  BY DEF IterTable, Wanted, Flag
<1>4. Types'
  BY <1>2, <1>3 DEF IInv, Types, Label, Trying
<1>5. ASSUME NEW n \in call.wanted PROVE Ahead(n)'
  <2>1. PICK p \in DOMAIN IterTable :
           /\ IterTable[p].name = n /\ Wanted(IterTable[p])
           /\ p <= call.iter.pos => n \in call.res \/ n = call.node
    BY <1>5 DEF IInv, Attempt, Trying, Ahead
  <2>2. Wanted(IterTable[p])'
    BY <1>3, <2>1
  <2>3. p <= call'.iter.pos => n \in call'.res \/ (n = call'.node /\ call'.pc # "next")
    BY <2>1
  <2> QED
    BY <1>3, <2>1, <2>2, <2>3 DEF Ahead
<1>6. ASSUME NEW n \in Node
      PROVE  call'.execs[n] + Unused(n)' <= 2 * (DownRetryAttempts - call'.tries)
  <2>1. Reached(n)' <=> Reached(n)
    BY <1>3 DEF Reached
  <2>2. more[n] + Unused(n)' <= call.execs[n] + Unused(n)
    <3>1. CASE n = call.node
      <4>1. Reached(n)
        BY <1>1, <3>1, IterTableType DEF Reached
      <4>2. Unused(n)' + 1 <= Unused(n) /\ Unused(n) \in Nat /\ Unused(n)' \in Nat
        BY <2>1, <3>1, <4>1 DEF Unused
      <4> QED
        BY <1>2, <3>1, <4>2 DEF IInv, Types
    <3>2. CASE n # call.node
      <4>1. Unused(n)' = Unused(n)
        BY <2>1, <3>2 DEF Unused
      <4> QED
        BY <1>2, <3>2, <4>1 DEF IInv, Types, Unused
    <3> QED
      BY <3>1, <3>2
  <2>3. call.execs[n] + Unused(n) <= 2 * (DownRetryAttempts - call.tries)
    BY DEF IInv, Attempt, Trying
  <2>4. /\ call.execs[n] \in Nat /\ more[n] \in Nat /\ call.tries \in Nat
        /\ Unused(n) \in Nat /\ Unused(n)' \in Nat
    BY <1>2 DEF IInv, Types, Unused
  <2> QED
    BY <2>2, <2>3, <2>4, NodesAssumption
<1>7. Attempt'
  <2>1. call'.pc # "next" => call'.iter.pos > 0 /\ IterTable'[call'.iter.pos].name = call'.node
    BY <1>1, <1>3 DEF IInv, Attempt, Trying
  <2>2. call'.tries < DownRetryAttempts
    BY DEF IInv, Attempt, Trying
  <2> QED
    BY <1>5, <1>6, <2>1, <2>2 DEF Attempt
<1> QED
  BY <1>4, <1>7 DEF IInv, Scanning, Between, EveryNodeAnswers, Types

LEMMA InvAnswered ==
    ASSUME IInv, Answered
    PROVE  IInv'
<1>1. call.pc \in {"send", "resend"} /\ nodes' = nodes /\ call.node \in Node
  BY SendsToNode DEF Answered
<1> DEFINE more == Executed(call.node).execs
<1>2. call' = [[call EXCEPT !.execs = more] EXCEPT !.pc = "next", !.res = @ \cup {call.node}]
  BY <1>1, OneExecution DEF Answered
<1> HIDE DEF more
<1>3. /\ Shape' /\ call'.pc = "next" /\ call'.cmd = call.cmd /\ call'.tries = call.tries
      /\ call'.iter = call.iter /\ call'.node = call.node /\ call'.result = call.result
      /\ call'.wanted = call.wanted /\ call'.execs = more
      /\ call'.res = call.res \cup {call.node}
  BY <1>2 DEF IInv, Types, Shape
<1> QED
  BY <1>1, <1>3, InvSent DEF more

LEMMA InvBroken ==
    ASSUME IInv, NEW timeout \in BOOLEAN, Broken(timeout)
    PROVE  IInv'
<1>1. call.pc = "send" /\ nodes' = nodes /\ call.node \in Node
  BY SendsToNode DEF Broken
<1>2. PICK more \in {call.execs, Executed(call.node).execs} :
         call' = [[call EXCEPT !.execs = more] EXCEPT !.pc = "resend"]
  <2>1. [call EXCEPT !.execs = call.execs] = call
    BY DEF IInv, Types, Shape
  <2> QED
    BY <1>1, <2>1, OneExecution DEF Broken
<1>3. /\ Shape' /\ call'.pc = "resend" /\ call'.cmd = call.cmd /\ call'.tries = call.tries
      /\ call'.iter = call.iter /\ call'.node = call.node /\ call'.result = call.result
      /\ call'.wanted = call.wanted /\ call'.execs = more /\ call'.res = call.res
  BY <1>2 DEF IInv, Types, Shape
<1> QED
  BY <1>1, <1>3, InvSent

LEMMA InvClusterDown ==
    ASSUME IInv, ClusterDown
    PROVE  IInv'
<1>1. /\ call.pc \in Trying /\ nodes' = nodes
      /\ call' = [call EXCEPT !.pc = "start", !.iter = NoIter]
  BY DEF ClusterDown, Trying
<1>2. /\ Shape' /\ call'.pc = "start" /\ call'.cmd = call.cmd /\ call'.tries = call.tries
      /\ call'.iter = NoIter /\ call'.result = call.result /\ call'.execs = call.execs
  BY <1>1 DEF IInv, Types, Shape, NoIter
<1>3. Types'
  <2>1. call.cmd \in Command /\ call.result = "none"
    BY <1>1 DEF IInv, Types, Trying
  <2>2. NoIter.live = FALSE /\ NoIter.table = <<>> /\ NoIter.pos = 0
    BY DEF NoIter
  <2>3. IterTable' = <<>> /\ Unique(<<>>) /\ <<>> \in Seq(Entry)
    BY <1>2, <2>2 DEF IterTable, Unique
  <2> QED
    <3>1. call'.iter.pos \in 0 .. Len(IterTable')
      BY <1>2, <2>2, <2>3
    <3>2. call'.iter.live = FALSE /\ call'.iter.table \in Seq(Entry) /\ Unique(call'.iter.table)
      BY <1>2, <2>2, <2>3
    <3>3. call'.pc \in Label
      BY <1>2 DEF Label
    <3> QED
      BY <1>1, <1>2, <2>1, <3>1, <3>2, <3>3 DEF IInv, Types, Trying
<1>4. ExecutionsAreBounded'
  BY <1>2, Bounded DEF ExecutionsAreBounded
<1> QED
  BY <1>1, <1>2, <1>3, <1>4
     DEF IInv, Types, Attempt, Scanning, Between, EveryNodeAnswers, Trying

-----------------------------------------------------------------------------
(* scan_iter.                                                              *)

LEMMA InvScanIter ==
    ASSUME IInv, ScanIter
    PROVE  IInv'
<1> DEFINE masters == {e.name : e \in {x \in Range(nodes) : x.server_type = "master"}}
           zeros == [n \in masters |-> 0]
<1>1. masters \subseteq Node
  <2>1. \A e \in Range(nodes) : e \in Entry
    BY DEF IInv, Types, Range
  <2> QED
    BY <2>1 DEF Entry
<1>2. zeros \in [masters -> 0 .. Pages] /\ \A n \in masters : zeros[n] = 0
  BY NodesAssumption
<1>3. /\ nodes' = nodes
      /\ call' = [Idle EXCEPT !.pc = "scan", !.cmd = "SCAN", !.wanted = masters,
                              !.iter = [NoIter EXCEPT !.table = nodes, !.pos = Len(nodes)],
                              !.cursors = zeros]
  BY DEF ScanIter
<1> HIDE DEF masters, zeros
<1>4. /\ Shape' /\ call'.pc = "scan" /\ call'.cmd = "SCAN" /\ call'.tries = 0
      /\ call'.iter.live = FALSE /\ call'.iter.table = nodes /\ call'.iter.pos = Len(nodes)
      /\ call'.cursors = zeros /\ call'.result = "none" /\ call'.wanted = masters
      /\ call'.execs = [n \in Node |-> 0]
  BY <1>3 DEF Idle, NoIter, Shape
<1>5. IterTable' = nodes
  BY <1>4 DEF IterTable
<1>6. Types'
  <2>1. nodes' \in Seq(Entry) /\ Unique(nodes)' /\ nodes \in Seq(Entry) /\ Unique(nodes)
    BY <1>3 DEF IInv, Types, Unique
  <2>2. call'.iter.pos \in 0 .. Len(IterTable')
    BY <1>4, <1>5, <2>1
  <2>3. call'.pc \in Label /\ call'.tries \in 0 .. DownRetryAttempts /\ call'.execs \in [Node -> Nat]
    BY <1>4, NodesAssumption DEF Label
  <2> QED
    BY <1>4, <2>1, <2>2, <2>3 DEF Types, Trying
<1>7. Scanning'
  BY <1>1, <1>2, <1>4 DEF Scanning
<1> QED
  BY <1>4, <1>6, <1>7 DEF IInv, Attempt, Trying, Between, EveryNodeAnswers

(* A step of the scan goes to a place in the table and reads a page of one *)
(* node, or none.                                                          *)
LEMMA InvScans ==
    ASSUME IInv, call.pc = "scan", nodes' = nodes, NEW read \in SUBSET call.wanted,
           Shape', call'.pc = "scan", call'.cmd = call.cmd, call'.tries = call.tries,
           call'.iter.live = call.iter.live, call'.iter.table = call.iter.table,
           call'.iter.pos \in 0 .. Len(call.iter.table), call'.result = call.result,
           call'.wanted = call.wanted, call'.cursors \in [call.wanted -> 0 .. Pages],
           call'.execs \in [Node -> Nat],
           \A n \in read : /\ call'.cursors[n] = call.cursors[n] + 1
                           /\ call'.execs[n] = call.execs[n] + 1,
           \A n \in call.wanted \ read : call'.cursors[n] = call.cursors[n],
           \A n \in Node \ read : call'.execs[n] = call.execs[n]
    PROVE  IInv'
<1>1. ~call.iter.live /\ IterTable' = call.iter.table
  BY DEF IInv, Types, IterTable
<1>2. Types'
  BY <1>1 DEF IInv, Types, Trying
<1>3. Scanning'
  <2> SUFFICES ASSUME NEW n \in Node
               PROVE  call'.execs[n] = IF n \in call.wanted THEN call'.cursors[n] ELSE 0
    BY DEF IInv, Scanning
  <2>1. call.execs[n] = IF n \in call.wanted THEN call.cursors[n] ELSE 0
    BY DEF IInv, Scanning
  <2>2. CASE n \in read
    BY <2>1, <2>2
  <2>3. CASE n \notin read
    BY <2>1, <2>3
  <2> QED
    BY <2>2, <2>3
<1> QED
  BY <1>2, <1>3 DEF IInv, Attempt, Trying, Between, EveryNodeAnswers, Types

LEMMA InvScanRound ==
    ASSUME IInv, ScanRound
    PROVE  IInv'
<1>1. call.pc = "scan" /\ nodes' = nodes
  BY DEF ScanRound
<1>2. /\ call.cmd = "SCAN" /\ call.wanted \subseteq Node /\ call.cursors \in [call.wanted -> 0 .. Pages]
      /\ \A n \in Node : call.execs[n] = IF n \in call.wanted THEN call.cursors[n] ELSE 0
  BY <1>1 DEF IInv, Scanning
<1>3. CASE ScanDone
  <2>1. \A n \in call.wanted : call.execs[n] = Pages
    BY <1>2, <1>3 DEF ScanDone
  <2>2. Return("ok", call.value)
    BY <1>3 DEF ScanRound
  <2> QED
    BY <1>1, <1>2, <2>1, <2>2, SameTable, Ends
<1>4. CASE ~ScanDone
  <2>1. call' = [call EXCEPT !.iter.pos = 0]
    BY <1>4 DEF ScanRound
  <2>2. /\ Shape' /\ call'.pc = "scan" /\ call'.cmd = call.cmd /\ call'.tries = call.tries
        /\ call'.iter.live = call.iter.live /\ call'.iter.table = call.iter.table
        /\ call'.iter.pos = 0 /\ call'.result = call.result /\ call'.wanted = call.wanted
        /\ call'.cursors = call.cursors /\ call'.execs = call.execs
    BY <1>1, <2>1 DEF IInv, Types, Shape
  <2>3. call.iter.table \in Seq(Entry) /\ call.execs \in [Node -> Nat]
    BY DEF IInv, Types
  <2>4. {} \in SUBSET call.wanted /\ call'.iter.pos \in 0 .. Len(call.iter.table)
    BY <2>2, <2>3
  <2> QED
    BY <1>1, <1>2, <2>2, <2>3, <2>4, InvScans
<1> QED
  BY <1>3, <1>4

LEMMA ScanPlace ==
    ASSUME IInv, ScanAtNode
    PROVE  call.iter.pos + 1 \in 0 .. Len(call.iter.table)
<1>1. call.pc = "scan" /\ call.iter.pos < Len(call.iter.table)
  BY DEF ScanAtNode
<1>2. IterTable = call.iter.table /\ call.iter.table \in Seq(Entry)
  BY <1>1 DEF IInv, Types, IterTable
<1> QED
  BY <1>1, <1>2 DEF IInv, Types

LEMMA InvScanSkips ==
    ASSUME IInv, ScanSkips
    PROVE  IInv'
<1>1. /\ call.pc = "scan" /\ nodes' = nodes /\ call' = [call EXCEPT !.iter.pos = @ + 1]
      /\ call.iter.pos + 1 \in 0 .. Len(call.iter.table)
  BY ScanPlace DEF ScanSkips, ScanAtNode
<1>2. /\ Shape' /\ call'.pc = "scan" /\ call'.cmd = call.cmd /\ call'.tries = call.tries
      /\ call'.iter.live = call.iter.live /\ call'.iter.table = call.iter.table
      /\ call'.iter.pos = call.iter.pos + 1 /\ call'.result = call.result
      /\ call'.wanted = call.wanted /\ call'.cursors = call.cursors /\ call'.execs = call.execs
  BY <1>1 DEF IInv, Types, Shape
<1>3. call.cursors \in [call.wanted -> 0 .. Pages] /\ call.execs \in [Node -> Nat]
  BY <1>1 DEF IInv, Types, Scanning
<1> QED
  <2>1. {} \in SUBSET call.wanted
    OBVIOUS
  <2> QED
    BY <1>1, <1>2, <1>3, <2>1, InvScans

LEMMA InvScanPage ==
    ASSUME IInv, ScanPage
    PROVE  IInv'
<1> DEFINE n == ScanNode
           more == Executed(n).execs
           value == call.value \cup {i \in Data[n] : PageOf[i] = call.cursors[n] + 1}
<1>1. /\ call.pc = "scan" /\ nodes' = nodes /\ n \in DOMAIN call.cursors /\ call.cursors[n] # Pages
      /\ call.iter.pos + 1 \in 0 .. Len(call.iter.table)
  BY ScanPlace DEF ScanPage, ScanAtNode, PagesLeft
<1>2. /\ call.wanted \subseteq Node /\ call.cursors \in [call.wanted -> 0 .. Pages]
      /\ \A m \in Node : call.execs[m] = IF m \in call.wanted THEN call.cursors[m] ELSE 0
  BY <1>1 DEF IInv, Scanning
<1>3. n \in call.wanted /\ n \in Node /\ call.cursors[n] + 1 \in 0 .. Pages /\ call.execs[n] <= MaxExecs
  BY <1>1, <1>2, NodesAssumption DEF MaxExecs
<1>4. /\ Executed(n) = [call EXCEPT !.execs = more]
      /\ more \in [Node -> Nat] /\ more[n] = call.execs[n] + 1
      /\ \A m \in Node \ {n} : more[m] = call.execs[m]
  BY <1>3, OneExecution
<1>5. call' = [Executed(n) EXCEPT !.iter.pos = @ + 1, !.cursors[n] = @ + 1,
                 !.value = @ \cup {i \in Data[n] : PageOf[i] = call.cursors[n] + 1}]
  BY DEF ScanPage
<1> HIDE DEF n, more
<1>6. call' = [call EXCEPT !.execs = more, !.iter = [call.iter EXCEPT !.pos = @ + 1],
                           !.cursors = [call.cursors EXCEPT ![n] = @ + 1], !.value = value]
  BY <1>4, <1>5 DEF IInv, Types, Shape
<1> HIDE DEF value
<1>7. /\ Shape' /\ call'.pc = "scan" /\ call'.cmd = call.cmd /\ call'.tries = call.tries
      /\ call'.iter.live = call.iter.live /\ call'.iter.table = call.iter.table
      /\ call'.iter.pos = call.iter.pos + 1 /\ call'.result = call.result
      /\ call'.wanted = call.wanted /\ call'.cursors = [call.cursors EXCEPT ![n] = @ + 1]
      /\ call'.execs = more
  BY <1>1, <1>6 DEF IInv, Types, Shape
<1>8. /\ call'.cursors \in [call.wanted -> 0 .. Pages] /\ call'.cursors[n] = call.cursors[n] + 1
      /\ \A m \in call.wanted \ {n} : call'.cursors[m] = call.cursors[m]
  BY <1>2, <1>3, <1>7
<1>9. {n} \in SUBSET call.wanted
  BY <1>3
<1> QED
  BY <1>1, <1>3, <1>4, <1>7, <1>8, <1>9, InvScans

-----------------------------------------------------------------------------
(* Other threads: what the loop goes over is the same dictionary, or has   *)
(* grown at its end.                                                       *)

LEMMA InvOther ==
    ASSUME IInv, nodes' \in Seq(Entry), Unique(nodes)', Shape', IterTable' \in Seq(Entry),
           Grows(IterTable, IterTable'),
           call'.iter.live \in BOOLEAN, call'.iter.live => call.iter.live,
           call'.iter.table \in Seq(Entry), Unique(call'.iter.table),
           call'.iter.pos = call.iter.pos, call'.pc = call.pc, call'.cmd = call.cmd,
           call'.tries = call.tries, call'.node = call.node, call'.res = call.res,
           call'.cursors = call.cursors, call'.result = call.result,
           call'.wanted = call.wanted, call'.execs = call.execs
    PROVE  IInv'
<1>1. \A p \in DOMAIN IterTable :
         /\ p \in DOMAIN IterTable' /\ IterTable'[p].name = IterTable[p].name
         /\ Wanted(IterTable[p]) => Wanted(IterTable[p])'
  <2>1. \A p \in DOMAIN IterTable : p \in DOMAIN IterTable'
    BY IterTableType DEF Grows
  <2>2. ASSUME NEW p \in DOMAIN IterTable, Wanted(IterTable[p]) PROVE Wanted(IterTable[p])'
    BY <2>2 DEF Grows, Wanted, Flag
  <2> QED
    BY <2>1, <2>2 DEF Grows
<1>2. Types'
  <2>1. call'.iter.pos \in 0 .. Len(IterTable')
    BY IterTableType DEF IInv, Types, Grows
  <2> QED
    BY <2>1 DEF IInv, Types, Label, Trying
<1>3. \A p \in 1 .. call.iter.pos : p \in DOMAIN IterTable
  BY IterTableType DEF IInv, Types
<1>4. ASSUME NEW n \in Node PROVE Unused(n)' = Unused(n)
  <2>1. Reached(n)' <=> Reached(n)
    BY <1>1, <1>3 DEF Reached
  <2> QED
    BY <2>1 DEF Unused
<1>5. ASSUME NEW n, Ahead(n) PROVE Ahead(n)'
  BY <1>1, <1>5 DEF Ahead
<1>6. Attempt'
  <2> SUFFICES ASSUME call.pc \in Trying PROVE Attempt'
    BY DEF Attempt
  <2>1. call.pc # "next" => call.iter.pos > 0 /\ IterTable'[call.iter.pos].name = call.node
    <3> SUFFICES ASSUME call.pc # "next" PROVE call.iter.pos > 0 /\ IterTable'[call.iter.pos].name = call.node
      OBVIOUS
    <3>1. call.pc \in {"send", "resend"}
      BY DEF Trying
    <3> QED
      BY <1>1, <3>1, SendsToNode
  <2>2. \A n \in call'.wanted : Ahead(n)'
    BY <1>5 DEF IInv, Attempt
  <2>3. \A n \in Node : call'.execs[n] + Unused(n)' <= 2 * (DownRetryAttempts - call'.tries)
    BY <1>4 DEF IInv, Attempt
  <2>4. call'.tries < DownRetryAttempts
    BY DEF IInv, Attempt
  <2> QED
    BY <2>1, <2>2, <2>3, <2>4 DEF Attempt
<1> QED
  BY <1>2, <1>6 DEF IInv, Scanning, Between, EveryNodeAnswers, ExecutionsAreBounded

LEMMA InvOtherMoved ==
    ASSUME IInv, OtherMoved
    PROVE  IInv'
<1>1. PICK n \in Node : set_node(n)
  BY DEF OtherMoved
<1>2. call' = call
  BY DEF OtherMoved
<1>3. nodes' \in Seq(Entry) /\ Unique(nodes') /\ Grows(nodes, nodes')
  BY <1>1, SetNodeGrows DEF IInv, Types
<1>4. IterTable' \in Seq(Entry) /\ Grows(IterTable, IterTable')
  <2>1. CASE call.iter.live
    BY <1>2, <1>3, <2>1 DEF IterTable
  <2>2. CASE ~call.iter.live
    <3>1. IterTable' = IterTable
      BY <1>2, <2>2 DEF IterTable
    <3> QED
      BY <3>1, IterTableType DEF Grows
  <2> QED
    BY <2>1, <2>2
<1>5. Shape' /\ call.iter.live \in BOOLEAN /\ call.iter.table \in Seq(Entry) /\ Unique(call.iter.table)
  BY <1>2 DEF IInv, Types, Shape
<1> QED
  BY <1>2, <1>3, <1>4, <1>5, InvOther DEF Unique

LEMMA InvOtherInitialize ==
    ASSUME IInv, OtherInitialize
    PROVE  IInv'
<1>1. nodes' \in Seq(Entry) /\ Unique(nodes')
  BY TablesAreFine DEF OtherInitialize
<1>2. /\ Shape' /\ IterTable' = IterTable
      /\ call'.iter.live = FALSE /\ call'.iter.table = IterTable
      /\ call'.iter.pos = call.iter.pos /\ call'.pc = call.pc /\ call'.cmd = call.cmd
      /\ call'.tries = call.tries /\ call'.node = call.node /\ call'.res = call.res
      /\ call'.cursors = call.cursors /\ call'.result = call.result
      /\ call'.wanted = call.wanted /\ call'.execs = call.execs
  <2>1. CASE call.iter.live
    <3>1. call' = [call EXCEPT !.iter = [call.iter EXCEPT !.live = FALSE, !.table = nodes]]
      BY <2>1 DEF OtherInitialize, IInv, Types, Shape
    <3> QED
      BY <2>1, <3>1 DEF IInv, Types, Shape, IterTable
  <2>2. CASE ~call.iter.live
    <3>1. call' = call
      BY <2>2 DEF OtherInitialize
    <3> QED
      BY <2>2, <3>1 DEF IInv, Types, Shape, IterTable
  <2> QED
    BY <2>1, <2>2
<1>3. Grows(IterTable, IterTable') /\ IterTable' \in Seq(Entry) /\ Unique(call'.iter.table)
  BY <1>2, IterTableType DEF Grows
<1> QED
  BY <1>1, <1>2, <1>3, IterTableType, InvOther DEF Unique

-----------------------------------------------------------------------------
LEMMA InvNext == IInv /\ [Next]_vars => IInv'
<1> SUFFICES ASSUME IInv, [Next]_vars PROVE IInv'
  OBVIOUS
<1>1. CASE \E cmd \in Command : ExecuteCommand(cmd)
  BY <1>1, InvExecuteCommand
<1>2. CASE GiveUp \/ InitializeFails \/ ChangedSize \/ Fails \/ ScanFails
  BY <1>2, SameTable, Raises DEF GiveUp, InitializeFails, ChangedSize, Fails, ScanFails
<1>3. CASE Initialize \/ Begin \/ NextNode \/ _merge_result
  BY <1>3, InvInitialize, InvBegin, InvNextNode, Inv_merge_result
<1>4. CASE Answered \/ Broken(TRUE) \/ Broken(FALSE) \/ ClusterDown
  BY <1>4, InvAnswered, InvBroken, InvClusterDown
<1>5. CASE ScanIter \/ ScanRound \/ ScanPage \/ ScanSkips
  BY <1>5, InvScanIter, InvScanRound, InvScanPage, InvScanSkips
<1>6. CASE OtherMoved \/ OtherInitialize
  BY <1>6, InvOtherMoved, InvOtherInitialize
<1>7. CASE UNCHANGED vars
  BY <1>7 DEF vars, IInv, Types, Shape, IterTable, Unique, Attempt, Ahead, Unused, Reached, Wanted,
              Flag, Scanning, Between, EveryNodeAnswers, ExecutionsAreBounded
<1> QED
  BY <1>1, <1>2, <1>3, <1>4, <1>5, <1>6, <1>7 DEF Next, Step

LEMMA InvAlways == Spec => []IInv
BY InvInit, InvNext, PTL DEF Spec

(* A command that returns has the answer of every node that it was for,    *)
(* and a SCAN all pages of every master, although other threads change and *)
(* replace the dictionary that the loop goes over.                         *)
THEOREM NodesAllAnswer == Spec => []EveryNodeAnswers
<1>1. IInv => EveryNodeAnswers
  BY DEF IInv
<1> QED
  BY <1>1, InvAlways, PTL

(* Neither the resend nor the attempts after a CLUSTERDOWN let a node      *)
(* execute a command more often than twice in an attempt.                  *)
THEOREM NodesExecuteTwice == Spec => []ExecutionsAreBounded
BY InvAlways, Bounded, PTL
-----------------------------------------------------------------------------
(* What is made of the replies: a command's result is merged from those of *)
(* nodes, and a SCAN has the items of the pages that it has read.          *)
Nodes == call.res \subseteq Node /\ call.wanted \subseteq Node

Reading ==
    call.cmd = "SCAN" =>
        /\ \A i \in call.value : \E n \in Node : i \in Data[n]
        /\ call.pc = "scan" => \A n \in call.wanted : \A i \in Data[n] :
                                  PageOf[i] <= call.cursors[n] => i \in call.value

Given ==
    call.result = "ok" => IF call.cmd = "SCAN"
                          THEN \A n \in call.wanted : Data[n] \subseteq call.value
                          ELSE call.value = Merged(call.cmd, call.res)

Results == Nodes /\ Reading /\ Given

(* While the command is on its way there is no result of it yet.           *)
LEMMA ResultsQuiet ==
    ASSUME call'.cmd \in Command, call'.result = "none",
           call'.res \subseteq Node, call'.wanted \subseteq Node
    PROVE  Results'
BY NotScan DEF Results, Nodes, Reading, Given

LEMMA ResultsReturn ==
    ASSUME IInv, Results, NEW result, NEW value, Return(result, value),
           call.cmd = "SCAN" => \A i \in value : \E n \in Node : i \in Data[n],
           result = "ok" => IF call.cmd = "SCAN" THEN \A n \in call.wanted : Data[n] \subseteq value
                            ELSE value = Merged(call.cmd, call.res)
    PROVE  Results'
<1>1. /\ call'.pc = "idle" /\ call'.cmd = call.cmd /\ call'.result = result /\ call'.value = value
      /\ call'.res = call.res /\ call'.wanted = call.wanted
  BY DEF Return, Idle
<1>2. Merged(call'.cmd, call'.res) = Merged(call.cmd, call.res)
  BY <1>1
<1> QED
  BY <1>1, <1>2 DEF Results, Nodes, Reading, Given

LEMMA ResultsRaise ==
    ASSUME IInv, Results, Raise
    PROVE  Results'
BY ResultsReturn DEF Raise

LEMMA NamesOfTable ==
    ASSUME NEW table \in Seq(Entry)
    PROVE  \A e \in Range(table) : e.name \in Node
<1>1. \A e \in Range(table) : e \in Entry
  BY DEF Range
<1> QED
  BY <1>1 DEF Entry

LEMMA ResultsBegin ==
    ASSUME IInv, Results, Begin
    PROVE  Results'
<1>1. nodes \in Seq(Entry)
  BY DEF IInv, Types
<1>2. CASE Raise
  BY <1>2, ResultsRaise
<1>3. CASE ~Raise
  <2>1. PICK e \in Range(nodes) :
           call' = [call EXCEPT
               !.pc = "next", !.tries = TriesLeft, !.res = {},
               !.iter = IF Several THEN [live |-> TRUE, table |-> <<>>, pos |-> 0, size |-> Len(nodes)]
                        ELSE [NoIter EXCEPT !.table = <<e>>, !.size = 1],
               !.wanted = IF Several THEN NamesWanted(nodes) ELSE {e.name}]
    BY <1>3 DEF Begin
  <2>2. /\ call'.cmd = call.cmd /\ call'.result = call.result /\ call'.res = {}
        /\ call'.wanted \in {NamesWanted(nodes), {e.name}}
    BY <2>1 DEF IInv, Types, Shape
  <2>3. NamesWanted(nodes) \subseteq Node /\ e.name \in Node
    BY <1>1, NamesOfTable DEF NamesWanted
  <2>4. call.cmd \in Command /\ call.result = "none"
    BY DEF Begin, IInv, Types
  <2> QED
    BY <2>2, <2>3, <2>4, ResultsQuiet
<1> QED
  BY <1>2, <1>3

LEMMA ResultsSent ==
    ASSUME IInv, Results, NextNode \/ Answered \/ Broken(TRUE) \/ Broken(FALSE) \/ ClusterDown
    PROVE  Results'
<1>1. call.pc \in Trying /\ call.cmd \in Command /\ call.result = "none"
  BY DEF NextNode, Answered, Broken, ClusterDown, Trying, IInv, Types
<1>2. /\ call'.cmd = call.cmd /\ call'.result = call.result /\ call'.wanted = call.wanted
      /\ call'.res \in {call.res, call.res \cup {call.node}}
      /\ call'.res # call.res => call.pc \in {"send", "resend"}
  BY DEF NextNode, Answered, Broken, ClusterDown, Executed, IInv, Types, Shape
<1> QED
  BY <1>1, <1>2, SendsToNode, ResultsQuiet DEF Results, Nodes

LEMMA ResultsScanPage ==
    ASSUME IInv, Results, ScanPage
    PROVE  Results'
<1> DEFINE n == ScanNode
           value == call.value \cup {i \in Data[n] : PageOf[i] = call.cursors[n] + 1}
<1>1. /\ call.pc = "scan" /\ n \in DOMAIN call.cursors
  BY DEF ScanPage, ScanAtNode, PagesLeft
<1>2. /\ call.wanted \subseteq Node /\ call.cursors \in [call.wanted -> 0 .. Pages]
      /\ call.cmd = "SCAN" /\ call.result = "none"
  BY <1>1 DEF IInv, Scanning, Types
<1>3. n \in call.wanted /\ n \in Node
  BY <1>1, <1>2
<1>4. Executed(n) = [call EXCEPT !.execs = Executed(n).execs]
  BY <1>3, OneExecution
<1>5. call' = [Executed(n) EXCEPT !.iter.pos = @ + 1, !.cursors[n] = @ + 1,
                 !.value = @ \cup {i \in Data[n] : PageOf[i] = call.cursors[n] + 1}]
  BY DEF ScanPage
<1> HIDE DEF n
<1>6. call' = [call EXCEPT !.execs = Executed(n).execs, !.iter = [call.iter EXCEPT !.pos = @ + 1],
                           !.cursors = [call.cursors EXCEPT ![n] = @ + 1], !.value = value]
  BY <1>4, <1>5 DEF IInv, Types, Shape
<1> HIDE DEF value
<1>7. /\ call'.pc = "scan" /\ call'.cmd = call.cmd /\ call'.result = call.result
      /\ call'.wanted = call.wanted /\ call'.cursors = [call.cursors EXCEPT ![n] = @ + 1]
      /\ call'.value = value /\ call'.res = call.res
  BY <1>1, <1>6 DEF IInv, Types, Shape
<1>8. \A m \in call.wanted : call'.cursors[m] = IF m = n THEN call.cursors[m] + 1 ELSE call.cursors[m]
  BY <1>2, <1>3, <1>7
<1>9. \A i \in value : \E m \in Node : i \in Data[m]
  BY <1>2, <1>3 DEF Results, Reading, value
<1>10. ASSUME NEW m \in call.wanted, NEW i \in Data[m], PageOf[i] <= call'.cursors[m]
       PROVE  i \in value
  <2>1. i \in Item /\ PageOf[i] \in Nat /\ call.cursors[m] \in Nat
    BY <1>2, NodesAssumption
  <2>2. PageOf[i] <= call.cursors[m] => i \in call.value
    BY <1>1, <1>2 DEF Results, Reading
  <2>3. CASE m = n
    BY <1>8, <1>10, <2>1, <2>2, <2>3 DEF value
  <2>4. CASE m # n
    BY <1>8, <1>10, <2>2, <2>4 DEF value
  <2> QED
    BY <2>3, <2>4
<1>11. Nodes'
  BY <1>7 DEF Results, Nodes
<1>12. Reading'
  BY <1>7, <1>9, <1>10 DEF Reading
<1>13. Given'
  BY <1>2, <1>7 DEF Given
<1> QED
  BY <1>11, <1>12, <1>13 DEF Results

LEMMA ResultsScans ==
    ASSUME IInv, Results, ScanIter \/ ScanRound \/ ScanSkips
    PROVE  Results'
<1>1. CASE ScanIter
  <2> DEFINE masters == {e.name : e \in {x \in Range(nodes) : x.server_type = "master"}}
             zeros == [n \in masters |-> 0]
  <2>1. masters \subseteq Node
    BY NamesOfTable DEF IInv, Types
  <2>2. \A n \in masters : zeros[n] = 0
    OBVIOUS
  <2>3. call' = [Idle EXCEPT !.pc = "scan", !.cmd = "SCAN", !.wanted = masters,
                             !.iter = [NoIter EXCEPT !.table = nodes, !.pos = Len(nodes)],
                             !.cursors = zeros]
    BY <1>1 DEF ScanIter
  <2> HIDE DEF masters, zeros
  <2>4. /\ call'.cursors = zeros /\ call'.result = "none" /\ call'.wanted = masters
        /\ call'.value = {} /\ call'.res = {}
    BY <2>3 DEF Idle
  <2>5. \A n \in masters : \A i \in Data[n] : PageOf[i] \in Nat \ {0}
    BY <2>1, NodesAssumption
  <2>6. \A n \in masters : \A i \in Data[n] : ~(PageOf[i] <= zeros[n])
    BY <2>2, <2>5
  <2> QED
    BY <2>1, <2>4, <2>6 DEF Results, Nodes, Reading, Given
<1>2. CASE ScanRound /\ ScanDone /\ Return("ok", call.value)
  <2>1. call.pc = "scan" /\ call.cmd = "SCAN" /\ call.cursors \in [call.wanted -> 0 .. Pages]
    BY <1>2 DEF ScanRound, IInv, Scanning
  <2>2. \A n \in call.wanted : \A i \in Data[n] : PageOf[i] <= call.cursors[n]
    BY <1>2, <2>1, NodesAssumption DEF ScanDone, Results, Nodes
  <2> QED
    BY <1>2, <2>1, <2>2, ResultsReturn DEF Results, Reading
<1>3. CASE (ScanRound /\ call' = [call EXCEPT !.iter.pos = 0]) \/ ScanSkips
  <2>1. /\ call'.cmd = call.cmd /\ call'.result = call.result /\ call'.wanted = call.wanted
        /\ call'.cursors = call.cursors /\ call'.value = call.value /\ call'.res = call.res
        /\ call.pc = "scan"
    BY <1>3 DEF ScanRound, ScanSkips, ScanAtNode, IInv, Types, Shape
  <2>2. call.result = "none"
    BY <2>1 DEF IInv, Types
  <2> QED
    BY <2>1, <2>2 DEF Results, Nodes, Reading, Given
<1> QED
  BY <1>1, <1>2, <1>3 DEF ScanRound

LEMMA ResultsSame ==
    ASSUME IInv, Results, UNCHANGED vars \/ Initialize \/ OtherMoved \/ OtherInitialize
    PROVE  Results'
<1>1. /\ call'.cmd = call.cmd /\ call'.result = call.result /\ call'.wanted = call.wanted
      /\ call'.cursors = call.cursors /\ call'.value = call.value /\ call'.res = call.res
      /\ call'.pc = call.pc
  BY DEF vars, Initialize, OtherMoved, OtherInitialize, IInv, Types, Shape
<1>2. Merged(call'.cmd, call'.res) = Merged(call.cmd, call.res)
  BY <1>1
<1> QED
  BY <1>1, <1>2 DEF Results, Nodes, Reading, Given

LEMMA ResultsNext == IInv /\ Results /\ [Next]_vars => Results'
<1> SUFFICES ASSUME IInv, Results, [Next]_vars PROVE Results'
  OBVIOUS
<1>1. CASE \E cmd \in Command : ExecuteCommand(cmd)
  BY <1>1, ResultsQuiet DEF ExecuteCommand, Idle
<1>2. CASE GiveUp \/ InitializeFails \/ ChangedSize \/ Fails \/ ScanFails
  BY <1>2, ResultsRaise DEF GiveUp, InitializeFails, ChangedSize, Fails, ScanFails
<1>3. CASE _merge_result
  <2>1. call.cmd # "SCAN"
    BY <1>3, NotScan DEF _merge_result, IInv, Types, Trying
  <2> QED
    BY <1>3, <2>1, ResultsReturn, ResultsRaise DEF _merge_result
<1>4. CASE Begin \/ NextNode \/ Answered \/ Broken(TRUE) \/ Broken(FALSE) \/ ClusterDown
  BY <1>4, ResultsBegin, ResultsSent
<1>5. CASE ScanIter \/ ScanRound \/ ScanPage \/ ScanSkips
  BY <1>5, ResultsScans, ResultsScanPage
<1>6. CASE UNCHANGED vars \/ Initialize \/ OtherMoved \/ OtherInitialize
  BY <1>6, ResultsSame
<1> QED
  BY <1>1, <1>2, <1>3, <1>4, <1>5, <1>6 DEF Next, Step

LEMMA ResultsAlways == Spec => []Results
<1>1. Init => Results
  BY DEF Init, Idle, Results, Nodes, Reading, Given
<1> QED
  BY <1>1, ResultsNext, InvAlways, PTL DEF Spec
(* The nodes among ns that have the item i. *)
Having(ns, i) == {n \in ns : i \in Data[n]}

LEMMA HavingGrows ==
    ASSUME IsFiniteSet(Node), NEW ns \in SUBSET Node, NEW ms \in SUBSET ns, NEW i
    PROVE  /\ Cardinality(Having(ms, i)) \in Nat /\ Cardinality(Having(ns, i)) \in Nat
           /\ Cardinality(Having(ms, i)) <= Cardinality(Having(ns, i))
           /\ Cardinality(Having(ns, i)) > 0 <=> \E n \in ns : i \in Data[n]
<1>1. Having(ns, i) \in SUBSET Node /\ Having(ms, i) \in SUBSET Having(ns, i)
  BY DEF Having
<1>2. IsFiniteSet(Having(ns, i)) /\ IsFiniteSet(Having(ms, i))
      /\ Cardinality(Having(ms, i)) <= Cardinality(Having(ns, i))
  BY <1>1, FS_Subset
<1>3. Cardinality(Having(ms, i)) \in Nat /\ Cardinality(Having(ns, i)) \in Nat
  BY <1>2, FS_CardinalityType
<1>4. Cardinality(Having(ns, i)) = 0 <=> Having(ns, i) = {}
  BY <1>2, FS_EmptySet
<1>5. Having(ns, i) # {} <=> \E n \in ns : i \in Data[n]
  BY DEF Having
<1> QED
  BY <1>2, <1>3, <1>4, <1>5

(* What all of res have, each part of res has. *)
LEMMA HavingAll ==
    ASSUME IsFiniteSet(Node), NEW res \in SUBSET Node, NEW wanted \in SUBSET res, NEW i,
           Cardinality(Having(res, i)) = Cardinality(res)
    PROVE  Cardinality(Having(wanted, i)) = Cardinality(wanted)
<1>1. IsFiniteSet(res) /\ Having(res, i) \in SUBSET res
  BY FS_Subset DEF Having
<1>2. Having(res, i) = res
  BY <1>1, FS_Subset
<1>3. Having(wanted, i) = wanted
  BY <1>2 DEF Having
<1> QED
  BY <1>3

LEMMA MergedValues ==
    ASSUME NEW res
    PROVE  /\ Merged("KEYS", res) = UNION {Data[n] : n \in res}
           /\ Merged("NUMSUB", res) = [i \in Item |-> Cardinality(Having(res, i))]
           /\ Merged("SCRIPT_EXISTS", res) =
                 {i \in Item : Cardinality(Having(res, i)) = Cardinality(res)}
<1>1. /\ RESULT_CALLBACKS["KEYS"] = "merge_result" /\ RESULT_CALLBACKS["NUMSUB"] = "numsub"
      /\ RESULT_CALLBACKS["SCRIPT_EXISTS"] = "all"
  BY DEF RESULT_CALLBACKS
<1>2. Count(res) = [i \in Item |-> Cardinality(Having(res, i))]
  BY DEF Count, Having
<1>3. Everywhere(res) = {i \in Item : Cardinality(Having(res, i)) = Cardinality(res)}
  BY <1>2 DEF Everywhere
<1>4. Merged("KEYS", res) = UNION {Data[n] : n \in res}
  BY <1>1 DEF Merged
<1>5. Merged("NUMSUB", res) = Count(res)
  BY <1>1 DEF Merged
<1>6. Merged("SCRIPT_EXISTS", res) = Everywhere(res)
  BY <1>1 DEF Merged
<1> QED
  BY <1>2, <1>3, <1>4, <1>5, <1>6

(* What _merge_result of client.py makes of the replies of a command, and  *)
(* scan_iter of its pages, holds for all nodes that the command was for    *)
(* when it was sent and has nothing that no node has, for any data of any  *)
(* nodes and whatever other threads make of the table.                     *)
THEOREM NodesResultIsOfAll ==
    ASSUME IsFiniteSet(Node)
    PROVE  Spec => []ResultIsOfAllNodes
<1>1. EveryNodeAnswers /\ Results => ResultIsOfAllNodes
  <2> SUFFICES ASSUME EveryNodeAnswers, Results, call.result = "ok" PROVE ResultIsOfAllNodes
    BY DEF ResultIsOfAllNodes
  <2>1. call.wanted \in SUBSET Node /\ call.res \in SUBSET Node
    BY DEF Results, Nodes
  <2>2. call.cmd # "SCAN" => /\ call.wanted \in SUBSET call.res
                             /\ call.value = Merged(call.cmd, call.res)
    BY DEF EveryNodeAnswers, Results, Given
  <2>3. ASSUME call.cmd \in {"KEYS", "SCAN"}, NEW i \in Item
        PROVE  /\ Cardinality(Having(call.wanted, i)) > 0 => i \in call.value
               /\ i \in call.value => Cardinality(Having(Node, i)) > 0
    <3>1. /\ Cardinality(Having(call.wanted, i)) > 0 <=> \E n \in call.wanted : i \in Data[n]
          /\ Cardinality(Having(Node, i)) > 0 <=> \E n \in Node : i \in Data[n]
      BY <2>1, HavingGrows
    <3>2. CASE call.cmd = "KEYS"
      <4>1. call.value = UNION {Data[n] : n \in call.res}
        BY <2>2, <3>2, MergedValues
      <4> QED
        BY <2>1, <2>2, <3>1, <3>2, <4>1
    <3>3. CASE call.cmd = "SCAN"
      BY <3>1, <3>3 DEF Results, Reading, Given
    <3> QED
      BY <2>3, <3>2, <3>3
  <2>4. ASSUME call.cmd = "NUMSUB", NEW i \in Item
        PROVE  call.value[i] \in Cardinality(Having(call.wanted, i)) .. Cardinality(Having(Node, i))
    <3>1. call.value[i] = Cardinality(Having(call.res, i))
      BY <2>2, <2>4, MergedValues
    <3>2. Node \in SUBSET Node /\ call.wanted \in SUBSET call.res
      BY <2>2, <2>4
    <3>3. /\ Cardinality(Having(call.wanted, i)) \in Nat /\ Cardinality(Having(call.res, i)) \in Nat
          /\ Cardinality(Having(call.wanted, i)) <= Cardinality(Having(call.res, i))
      BY <2>1, <3>2, HavingGrows
    <3>4. /\ Cardinality(Having(Node, i)) \in Nat
          /\ Cardinality(Having(call.res, i)) <= Cardinality(Having(Node, i))
      BY <2>1, <3>2, HavingGrows
    <3> QED
      BY <3>1, <3>3, <3>4
  <2>5. ASSUME call.cmd = "SCRIPT_EXISTS", NEW i \in call.value
        PROVE  Cardinality(Having(call.wanted, i)) = Cardinality(call.wanted)
    <3>1. Cardinality(Having(call.res, i)) = Cardinality(call.res)
      BY <2>2, <2>5, MergedValues
    <3> QED
      BY <2>1, <2>2, <2>5, <3>1, HavingAll
  <2> QED
    BY <2>3, <2>4, <2>5 DEF ResultIsOfAllNodes, Having
<1> QED
  BY <1>1, NodesAllAnswer, ResultsAlways, PTL
(* The table of nodes has each node once, whatever is put into it, and the *)
(* loop of _execute_command_on_nodes is always at a place in its table.    *)
THEOREM NodesTypes == Spec => []TypeOK
<1> DEFINE Others == refresh \in BOOLEAN /\ changes \in 0 .. MaxChanges
<1>0. MaxChanges \in Nat
  BY NodesAssumption
<1>1. Init => Others
  <2>1. Init => changes \in 0 .. MaxChanges
    BY <1>0 DEF Init
  <2>2. Init => refresh \in BOOLEAN
    BY DEF Init
  <2> QED
    BY <2>1, <2>2
<1>2. Others /\ [Next]_vars => Others'
  <2> SUFFICES ASSUME Others, [Next]_vars PROVE Others'
    OBVIOUS
  <2>1. \/ UNCHANGED changes
        \/ changes < MaxChanges /\ changes' = changes + 1
    BY DEF Next, Step, vars, ExecuteCommand, GiveUp, Initialize, Begin, InitializeFails, NextNode,
       ChangedSize, _merge_result, Answered, Broken, Fails, ClusterDown, ScanIter, ScanRound,
       ScanPage, ScanSkips, ScanFails, OtherMoved, OtherInitialize
  <2>2. \/ UNCHANGED refresh \/ refresh' = FALSE
        \/ refresh' = (refresh \/ call.pc = "send")
    BY DEF Next, Step, vars, ExecuteCommand, GiveUp, Initialize, Begin, InitializeFails, NextNode,
       ChangedSize, _merge_result, Answered, Broken, Fails, ClusterDown, ScanIter, ScanRound,
       ScanPage, ScanSkips, ScanFails, OtherMoved, OtherInitialize
  <2>3. refresh' \in BOOLEAN
    BY <2>2
  <2> QED
    BY <1>0, <2>1, <2>3
<1>3. IInv /\ Results /\ Others => TypeOK
  BY DEF IInv, Types, Results, Nodes, TypeOK
<1> QED
  BY <1>1, <1>2, <1>3, InvAlways, ResultsAlways, PTL DEF Spec
=============================================================================
