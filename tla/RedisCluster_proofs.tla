------------------------- MODULE RedisCluster_proofs -------------------------
(***************************************************************************)
(* TypeOK and AskingReachesCommand are invariants of RedisCluster, for any *)
(* number of threads, nodes and slots and any limits.  What a call learns  *)
(* stays in the tables, and these agree with each other, as long as one    *)
(* thread uses the client: MovedCorrectsTable, RetryAfterDownIsFresh and   *)
(* AskIsFollowed, from OneThread, whatever older layouts are read.         *)
(***************************************************************************)
EXTENDS RedisCluster, TLAPS

(* A row can be replaced, added or read without leaving Layout.            *)
LEMMA LayoutFacts ==
    ASSUME NEW l \in Layout
    PROVE  /\ DOMAIN l \subseteq Slot
           /\ \A s \in DOMAIN l : l[s] \in Row
           /\ \A s \in Slot, r \in Row : Replace(l, s, r) \in Layout
           /\ \A s \in DOMAIN l, r \in Row : [l EXCEPT ![s] = r] \in Layout
<1>1. PICK D \in SUBSET Slot : l \in [D -> Row]
  BY DEF Layout
<1>2. \A s \in Slot, r \in Row : Replace(l, s, r) \in Layout
  <2> SUFFICES ASSUME NEW s \in Slot, NEW r \in Row PROVE Replace(l, s, r) \in Layout
    OBVIOUS
  <2>1. Replace(l, s, r) \in [D \cup {s} -> Row]
    BY <1>1 DEF Replace
  <2> QED
    BY <2>1 DEF Layout
<1>3. \A s \in DOMAIN l, r \in Row : [l EXCEPT ![s] = r] \in Layout
  <2>1. \A s \in DOMAIN l, r \in Row : [l EXCEPT ![s] = r] \in [D -> Row]
    BY <1>1
  <2> QED
    BY <2>1 DEF Layout
<1> QED
  BY <1>1, <1>2, <1>3

LEMMA NodesOfLayout ==
    ASSUME NEW l \in Layout
    PROVE  NodesOf(l) \subseteq Node
  BY LayoutFacts DEF NodesOf, Row

LEMMA EmptyLayout == <<>> \in Layout
<1>1. <<>> \in [{} -> Row]
  OBVIOUS
<1> QED
  BY <1>1 DEF Layout

LEMMA ClusterTypes ==
    ASSUME TypeOK, ClusterChange
    PROVE  TypeOK'
<1>1. shard' \in Layout /\ importing' \in [Slot -> Node \cup {None}] /\ up' \subseteq Node
  <2>1. ASSUME NEW s \in Slot, NEW n \in Node,
               StartMigration(s, n) \/ Failover(s, n) \/ AssignSlot(s, n) \/ FinishMigration(s)
        PROVE  shard' \in Layout /\ importing' \in [Slot -> Node \cup {None}] /\ up' \subseteq Node
    <3> USE DEF TypeOK
    <3>1. CASE StartMigration(s, n)
      BY <3>1 DEF StartMigration
    <3>2. CASE Failover(s, n)
      <4>1. [master |-> n, replicas |-> shard[s].replicas \ {n}] \in Row
        BY <3>2, LayoutFacts DEF Failover, Row
      <4> QED
        BY <3>2, <4>1, LayoutFacts DEF Failover
    <3>3. CASE AssignSlot(s, n)
      <4>1. [master |-> n, replicas |-> {}] \in Row
        BY DEF Row
      <4> QED
        BY <3>3, <4>1, LayoutFacts DEF AssignSlot
    <3>4. CASE FinishMigration(s)
      <4>1. [master |-> importing[s], replicas |-> shard[s].replicas \ {importing[s]}] \in Row
        BY <3>4, LayoutFacts DEF FinishMigration, Row
      <4> QED
        BY <3>4, <4>1, LayoutFacts DEF FinishMigration
    <3> QED
      BY <2>1, <3>1, <3>2, <3>3, <3>4
  <2>2. ASSUME NEW n \in Node, NodeStops(n) \/ NodeRestarts(n)
        PROVE  shard' \in Layout /\ importing' \in [Slot -> Node \cup {None}] /\ up' \subseteq Node
    BY <2>2 DEF NodeStops, NodeRestarts, TypeOK
  <2>3. PICK n \in Node : TRUE
    BY ClusterAssumption
  <2> QED
    BY <2>1, <2>2, <2>3 DEF ClusterChange
<1>2. changes' \in 0 .. MaxChanges
  BY ClusterAssumption DEF ClusterChange, TypeOK
<1>3. shard' \in layouts' /\ layouts' \subseteq Layout
  BY <1>1 DEF ClusterChange, TypeOK
<1> QED
  BY <1>1, <1>2, <1>3 DEF ClusterChange, TypeOK, table

-----------------------------------------------------------------------------
(* The steps of a thread.  Each replaces the record of its call, so what   *)
(* is to show is that the new record is well formed, and what the step     *)
(* does to the tables.                                                     *)

Tables == <<cluster, table, refresh>>

LEMMA ContinueTypes ==
    ASSUME TypeOK, NEW t \in Thread, NEW d, CallOK(d), Continue(t, d)
    PROVE  DOMAIN call' = Thread /\ \A u \in Thread : CallOK(call'[u])
  BY DEF Continue, TypeOK

LEMMA TypesFromCall ==
    ASSUME TypeOK, UNCHANGED Tables,
           DOMAIN call' = Thread, \A u \in Thread : CallOK(call'[u])
    PROVE  TypeOK'
  BY DEF TypeOK, Tables, cluster, table

LEMMA IdleTypes == CallOK(Idle)
  BY EmptyLayout, ClusterAssumption DEF CallOK, Idle, Pc, Then, Result

LEMMA ReturnTypes ==
    ASSUME NEW c, CallOK(c), NEW r \in Result
    PROVE  CallOK([Idle EXCEPT !.result = r, !.execs = c.execs, !.lost = c.lost])
  BY EmptyLayout, ClusterAssumption DEF CallOK, Idle, Pc, Then, Result

LEMMA EnterTypes ==
    ASSUME NEW c, CallOK(c), c.pc \in {"start", "started"}
    PROVE  CallOK(Enter(c))
  BY ClusterAssumption DEF CallOK, Enter, Idle, Pc, Then, Result

LEMMA AttemptTypes ==
    ASSUME NEW c, CallOK(c), c.pc = "loop", c.ttl > 0, NEW n \in Node
    PROVE  CallOK(Attempt(c, n))
<1>1. ASSUME NEW p \in {"asking", "readonly", "send"}
      PROVE  CallOK([c EXCEPT !.ttl = c.ttl - 1, !.node = n, !.asked = FALSE,
                              !.readonly = FALSE, !.pc = p])
  BY ClusterAssumption DEF CallOK, Idle, Pc, Then, Result
<1> DEFINE p == IF c.asking THEN "asking" ELSE IF c.replica THEN "readonly" ELSE "send"
<1>2. p \in {"asking", "readonly", "send"}
  OBVIOUS
<1>3. Attempt(c, n) = [c EXCEPT !.ttl = c.ttl - 1, !.node = n, !.asked = FALSE,
                                !.readonly = FALSE, !.pc = p]
  BY DEF Attempt
<1> QED
  BY <1>1, <1>2, <1>3

LEMMA BrokenTypes ==
    ASSUME NEW c, CallOK(c), NEW b \in Broken(c)
    PROVE  CallOK(b) /\ b.pc = c.pc /\ b.errors = c.errors
<1> DEFINE d == [c EXCEPT !.execs = c.execs + 1, !.lost = c.lost + 1]
<1>1. b = c \/ b = d
  BY DEF Broken
<1>2. CallOK(d)
  BY DEF CallOK, Idle
<1>3. d.pc = c.pc /\ d.errors = c.errors
  BY DEF CallOK, Idle
<1> QED
  BY <1>1, <1>2, <1>3

LEMMA StartTypes ==
    ASSUME TypeOK, NEW t \in Thread,
           \/ \E s \in Slot, read \in BOOLEAN : ExecuteCommand(t, s, read)
           \/ StartDirectly(t) \/ StartRefresh(t) \/ Started(t) \/ GiveUpOnClusterDown(t)
    PROVE  TypeOK'
<1> DEFINE c == call[t]
<1>0. CallOK(c)
  BY DEF TypeOK
<1> HIDE DEF c
<1>1. ASSUME NEW s \in Slot, NEW read \in BOOLEAN, ExecuteCommand(t, s, read)
      PROVE  TypeOK'
  <2> DEFINE d == [Idle EXCEPT !.pc = "start", !.slot = s, !.read = read,
                              !.tries = DownRetryAttempts]
  <2>1. CallOK(d)
    BY EmptyLayout, ClusterAssumption DEF CallOK, Idle, Pc, Then, Result
  <2>2. Continue(t, d) /\ UNCHANGED Tables
    BY <1>1 DEF ExecuteCommand, Tables
  <2> QED
    BY <2>1, <2>2, ContinueTypes, TypesFromCall
<1>2. CASE StartDirectly(t)
  <2> DEFINE d == [Enter(c) EXCEPT !.tries = c.tries - 1]
  <2>0. c.pc = "start" /\ c.tries > 0
    BY <1>2 DEF StartDirectly, c
  <2>1. CallOK(d)
    <3>1. CallOK(Enter(c))
      BY <1>0, <2>0, EnterTypes
    <3>2. c.tries - 1 \in 0 .. DownRetryAttempts
      BY <1>0, <2>0, ClusterAssumption DEF CallOK
    <3> QED
      BY <3>1, <3>2 DEF CallOK, Idle
  <2>2. Continue(t, d) /\ UNCHANGED Tables
    BY <1>2 DEF StartDirectly, Tables, c
  <2> QED
    BY <2>1, <2>2, ContinueTypes, TypesFromCall
<1>3. CASE StartRefresh(t)
  <2> DEFINE d == [c EXCEPT !.pc = "fetch", !.then = "started", !.tries = c.tries - 1]
  <2>0. c.pc = "start" /\ c.tries > 0
    BY <1>3 DEF StartRefresh, c
  <2>1. CallOK(d)
    BY <1>0, <2>0, ClusterAssumption DEF CallOK, Idle, Pc, Then, Result
  <2>2. Continue(t, d) /\ UNCHANGED Tables
    BY <1>3 DEF StartRefresh, Tables, c
  <2> QED
    BY <2>1, <2>2, ContinueTypes, TypesFromCall
<1>4. CASE Started(t)
  <2>1. CallOK(Enter(c))
    BY <1>0, <1>4, EnterTypes DEF Started, c, CallOK
  <2>2. Continue(t, Enter(c)) /\ UNCHANGED <<cluster, table>> /\ refresh' = FALSE
    BY <1>4 DEF Started, c
  <2> QED
    BY <2>1, <2>2, ContinueTypes DEF TypeOK, cluster, table
<1>5. CASE GiveUpOnClusterDown(t)
  <2>1. CallOK([Idle EXCEPT !.result = "clusterdown", !.execs = c.execs, !.lost = c.lost])
    BY <1>0, ReturnTypes DEF Result
  <2> QED
    BY <1>5, <2>1, ContinueTypes, TypesFromCall DEF GiveUpOnClusterDown, Return, Tables, c
<1> QED
  BY <1>1, <1>2, <1>3, <1>4, <1>5

LEMMA InitializeTypes ==
    ASSUME TypeOK, NEW t \in Thread, Initialize(t)
    PROVE  TypeOK'
<1> DEFINE c == call[t]
<1>0. CallOK(c)
  BY DEF TypeOK
<1> HIDE DEF c
<1>1. startup \cup nodes \subseteq Node
  BY DEF TypeOK
<1>2. CASE Fetch(t)
  <2>1. PICK l \in layouts : Continue(t, [c EXCEPT !.pc = "swap_slots", !.parsed = l])
    BY <1>2 DEF Fetch, c
  <2> DEFINE d == [c EXCEPT !.pc = "swap_slots", !.parsed = l]
  <2>2. c.pc = "fetch" /\ l \in Layout
    BY <1>2 DEF Fetch, TypeOK, c
  <2>3. CallOK(d)
    BY <1>0, <2>2 DEF CallOK, Idle, Pc
  <2> QED
    BY <1>1, <1>2, <2>1, <2>3, ContinueTypes DEF Fetch, TypeOK, cluster
<1>3. CASE FetchFails(t)
  <2> DEFINE d == [Idle EXCEPT !.result = "error", !.execs = c.execs, !.lost = c.lost]
  <2>1. CallOK(d)
    BY <1>0, ReturnTypes DEF Result
  <2>2. Continue(t, d)
    BY <1>3 DEF FetchFails, Return, c
  <2> QED
    BY <1>1, <1>3, <2>1, <2>2, ContinueTypes DEF FetchFails, TypeOK, cluster
<1>4. CASE SwapSlots(t)
  <2>1. ASSUME NEW e, CallOK(e) PROVE CallOK([e EXCEPT !.stale = "no", !.pc = e.pc])
    BY <2>1 DEF CallOK, Idle
  <2>2. c.pc = "swap_slots" /\ slots' = c.parsed
    BY <1>4 DEF SwapSlots, c
  <2>3. CallOK([c EXCEPT !.stale = "no", !.pc = "swap_nodes"])
    BY <1>0, <2>2 DEF CallOK, Idle, Pc
  <2>4. slots' \in Layout
    BY <1>0, <2>2 DEF CallOK
  <2>5. DOMAIN call' = Thread /\ \A u \in Thread : CallOK(call'[u])
    BY <1>4, <2>1, <2>3 DEF SwapSlots, TypeOK, c
  <2> QED
    BY <1>4, <2>4, <2>5 DEF SwapSlots, TypeOK, cluster
<1>5. CASE SwapNodes(t)
  <2> DEFINE d == [c EXCEPT !.pc = c.then, !.parsed = <<>>, !.then = "none"]
  <2>0. c.pc = "swap_nodes" /\ nodes' = NodesOf(c.parsed)
    BY <1>5 DEF SwapNodes, c
  <2>1. CallOK(d)
    BY <1>0, <2>0, EmptyLayout DEF CallOK, Idle, Pc, Then
  <2>2. Continue(t, d)
    BY <1>5 DEF SwapNodes, c
  <2>3. nodes' \subseteq Node
    BY <1>0, <2>0, NodesOfLayout DEF CallOK
  <2> QED
    BY <1>5, <2>1, <2>2, <2>3, ContinueTypes, ClusterAssumption DEF SwapNodes, TypeOK, cluster
<1> QED
  BY <1>2, <1>3, <1>4, <1>5 DEF Initialize

LEMMA CheckCounterTypes ==
    ASSUME TypeOK, NEW t \in Thread, CheckCounter(t)
    PROVE  TypeOK'
<1> DEFINE c == call[t]
           d == IF counter = 0 THEN [c EXCEPT !.pc = "fetch"]
                ELSE [c EXCEPT !.pc = c.then, !.then = "none"]
<1>1. Continue(t, d) /\ UNCHANGED Tables
  BY DEF CheckCounter, Tables
<1>2. CallOK(c) /\ c.pc = "check"
  BY DEF CheckCounter, TypeOK
<1> HIDE DEF c
<1>3. CallOK([c EXCEPT !.pc = "fetch"])
  BY <1>2 DEF CallOK, Idle, Pc
<1>4. CallOK([c EXCEPT !.pc = c.then, !.then = "none"])
  BY <1>2 DEF CallOK, Idle, Pc, Then
<1> QED
  BY <1>1, <1>3, <1>4, ContinueTypes, TypesFromCall

LEMMA PickTypes ==
    ASSUME TypeOK, NEW t \in Thread, Pick(t)
    PROVE  TypeOK'
<1> DEFINE c == call[t]
<1>0. CallOK(c) /\ c.pc = "loop"
  BY DEF TypeOK, Pick, PickAsk, PickRandom, PickRefreshed, PickFromTable, PickUncovered,
         Exhausted, UsesTable, Picking
<1>1. ASSUME NEW r \in Result, Return(t, c, r), UNCHANGED <<cluster, table>>,
             refresh' \in BOOLEAN
      PROVE  TypeOK'
  <2> DEFINE d == [Idle EXCEPT !.result = r, !.execs = c.execs, !.lost = c.lost]
  <2>1. CallOK(d) /\ Continue(t, d)
    BY <1>0, <1>1, ReturnTypes DEF Return
  <2> QED
    BY <1>1, <2>1, ContinueTypes DEF TypeOK, cluster, table
<1>2. ASSUME NEW e, CallOK(e), e.pc = "loop", e.ttl > 0, NEW n \in Node,
             Continue(t, Attempt(e, n)), UNCHANGED <<cluster, table>>, refresh' \in BOOLEAN
      PROVE  TypeOK'
  <2>1. CallOK(Attempt(e, n))
    BY <1>2, AttemptTypes
  <2> QED
    BY <1>2, <2>1, ContinueTypes DEF TypeOK, cluster, table
<1>3. \A s \in DOMAIN slots : slots[s].master \in Node /\ slots[s].replicas \subseteq Node
  BY LayoutFacts DEF TypeOK, Row
<1>4. refresh \in BOOLEAN /\ startup \subseteq Node
  BY DEF TypeOK
<1>5. CASE PickAsk(t)
  <2>1. c.ttl > 0 /\ UNCHANGED <<cluster, table, refresh>>
    BY <1>5 DEF PickAsk, Picking
  <2>2. CASE c.redirect \in nodes
    <3>1. Continue(t, Attempt(c, c.redirect)) /\ c.redirect \in Node
      BY <1>5, <2>2 DEF PickAsk, TypeOK
    <3> QED
      BY <1>0, <1>2, <1>4, <2>1, <3>1
  <2>3. CASE c.redirect \notin nodes
    BY <1>1, <1>4, <1>5, <2>1, <2>3 DEF PickAsk, Result
  <2> QED
    BY <2>2, <2>3
<1>6. CASE PickRandom(t)
  <2> DEFINE e == [c EXCEPT !.random = FALSE]
  <2>1. c.ttl > 0 /\ UNCHANGED <<cluster, table, refresh>>
    BY <1>6 DEF PickRandom, Picking
  <2>2. PICK n \in startup : Continue(t, Attempt(e, n))
    BY <1>6 DEF PickRandom
  <2> HIDE DEF c
  <2>3. CallOK(e)
    BY <1>0 DEF CallOK, Idle
  <2>4. e.pc = "loop" /\ e.ttl > 0
    BY <1>0, <2>1 DEF CallOK, Idle
  <2> HIDE DEF e
  <2> QED
    BY <1>2, <1>4, <2>1, <2>2, <2>3, <2>4
<1>7. CASE PickRefreshed(t)
  <2>1. c.ttl > 0 /\ c.slot \in DOMAIN slots /\ refresh' = FALSE
        /\ Continue(t, Attempt(c, slots[c.slot].master)) /\ UNCHANGED <<cluster, table>>
    BY <1>7 DEF PickRefreshed, UsesTable, Picking
  <2> QED
    BY <1>0, <1>2, <1>3, <2>1
<1>8. CASE PickFromTable(t)
  <2>1. c.ttl > 0 /\ c.slot \in DOMAIN slots /\ UNCHANGED <<cluster, table, refresh>>
    BY <1>8 DEF PickFromTable, UsesTable, Picking
  <2>2. PICK b \in BOOLEAN, n \in Node : Continue(t, Attempt([c EXCEPT !.replica = b], n))
    BY <1>3, <1>8, <2>1 DEF PickFromTable
  <2> DEFINE e == [c EXCEPT !.replica = b]
  <2> HIDE DEF c
  <2>3. CallOK(e)
    BY <1>0 DEF CallOK, Idle
  <2>4. e.pc = "loop" /\ e.ttl > 0
    BY <1>0, <2>1 DEF CallOK, Idle
  <2>5. Continue(t, Attempt(e, n))
    BY <2>2
  <2> HIDE DEF e
  <2> QED
    BY <1>2, <1>4, <2>1, <2>3, <2>4, <2>5
<1>9. CASE PickUncovered(t)
  <2> DEFINE d == [c EXCEPT !.ttl = c.ttl - 1, !.stale = "uncovered"]
  <2>1. UNCHANGED <<cluster, table>> /\ refresh' \in BOOLEAN /\ c.ttl > 0
    BY <1>4, <1>9 DEF PickUncovered, UsesTable, Picking
  <2>2. Return(t, c, "internal") \/ Return(t, c, "notcovered") \/ Continue(t, d)
    BY <1>9 DEF PickUncovered
  <2> HIDE DEF c
  <2>3. CallOK(d)
    BY <1>0, <2>1, ClusterAssumption DEF CallOK, Idle
  <2>4. CASE Continue(t, d)
    <3> HIDE DEF d
    <3> QED
      BY <2>1, <2>3, <2>4, ContinueTypes DEF TypeOK, cluster, table
  <2> QED
    BY <1>1, <2>1, <2>2, <2>4 DEF Result
<1>10. CASE Exhausted(t)
  BY <1>1, <1>4, <1>10 DEF Exhausted, Result
<1> QED
  BY <1>5, <1>6, <1>7, <1>8, <1>9, <1>10 DEF Pick

(* The three ways a broken connection is handled, and the counter.         *)
LEMMA BackToLoop ==
    ASSUME NEW c, CallOK(c), c.pc \in {"asking", "readonly", "send"}
    PROVE  /\ c.errors + 1 < ConnErrorLimit =>
                  CallOK([c EXCEPT !.pc = "loop", !.node = None, !.told = None,
                                   !.errors = c.errors + 1])
           /\ CallOK([c EXCEPT !.pc = "check", !.then = "loop", !.node = None, !.told = None,
                               !.errors = 0])
           /\ \A r \in BOOLEAN : CallOK([c EXCEPT !.pc = "loop", !.node = None,
                                                  !.told = None, !.random = r])
           /\ CallOK([c EXCEPT !.pc = "loop", !.node = None, !.told = None])
<1>1. ASSUME c.errors + 1 < ConnErrorLimit
      PROVE  CallOK([c EXCEPT !.pc = "loop", !.node = None, !.told = None,
                              !.errors = c.errors + 1])
  BY <1>1, ClusterAssumption DEF CallOK, Idle, Pc
<1>2. CallOK([c EXCEPT !.pc = "check", !.then = "loop", !.node = None, !.told = None,
                       !.errors = 0])
  BY ClusterAssumption DEF CallOK, Idle, Pc, Then
<1>3. ASSUME NEW r \in BOOLEAN
      PROVE  CallOK([c EXCEPT !.pc = "loop", !.node = None, !.told = None, !.random = r])
  BY DEF CallOK, Idle, Pc
<1>4. CallOK([c EXCEPT !.pc = "loop", !.node = None, !.told = None])
  BY DEF CallOK, Idle, Pc
<1> QED
  BY <1>1, <1>2, <1>3, <1>4

LEMMA IncrementTypes ==
    ASSUME TypeOK, NEW n \in Nat, Increment(n)
    PROVE  counter' \in 0 .. ReinitializeSteps - 1
  BY ClusterAssumption DEF TypeOK, Increment

LEMMA ExchangeTypes ==
    ASSUME TypeOK, NEW t \in Thread, Exchange(t)
    PROVE  TypeOK'
<1> DEFINE c == call[t]
<1>0. CallOK(c)
  BY DEF TypeOK
<1>1. ASSUME NEW d, CallOK(d), Continue(t, d), UNCHANGED Tables
      PROVE  TypeOK'
  BY <1>1, ContinueTypes, TypesFromCall
<1>2. ASSUME NEW r \in Result, Return(t, c, r), UNCHANGED Tables
      PROVE  TypeOK'
  BY <1>0, <1>1, <1>2, ReturnTypes DEF Return
<1>3. CASE SendAsking(t)
  <2> DEFINE d(p) == [c EXCEPT !.asking = FALSE, !.asked = TRUE, !.pc = p]
  <2>1. c.pc = "asking"
    BY <1>3 DEF SendAsking
  <2>2. PICK p \in {"readonly", "send"} : Continue(t, d(p)) /\ UNCHANGED Tables
    BY <1>3 DEF SendAsking, Tables
  <2> HIDE DEF c
  <2>3. CallOK(d(p))
    BY <1>0, <2>1 DEF CallOK, Idle, Pc
  <2> HIDE DEF d
  <2> QED
    BY <1>1, <2>2, <2>3
<1>4. CASE SendReadonly(t)
  <2> DEFINE d == [c EXCEPT !.replica = FALSE, !.asked = FALSE, !.readonly = TRUE, !.pc = "send"]
  <2>1. c.pc = "readonly" /\ Continue(t, d) /\ UNCHANGED Tables
    BY <1>4 DEF SendReadonly, Tables
  <2> HIDE DEF c
  <2>2. CallOK(d)
    BY <1>0, <2>1 DEF CallOK, Idle, Pc
  <2> HIDE DEF d
  <2> QED
    BY <1>1, <2>1, <2>2
<1>5. CASE Executed(t)
  <2> DEFINE e == [c EXCEPT !.execs = c.execs + 1]
             d == [Idle EXCEPT !.result = "ok", !.execs = e.execs, !.lost = e.lost]
  <2>1. Return(t, e, "ok") /\ UNCHANGED Tables
    BY <1>5 DEF Executed, Tables
  <2>2. CallOK(d)
    <3> HIDE DEF c
    <3>1. CallOK(e)
      BY <1>0 DEF CallOK, Idle
    <3> HIDE DEF e
    <3> QED
      BY <3>1, ReturnTypes DEF Result
  <2> QED
    BY <1>1, <2>1, <2>2 DEF Return
<1>6. CASE Raised(t)
  BY <1>2, <1>6 DEF Raised, Tables, Result
<1>7. CASE ConnectionError(t)
  <2>1. PICK b \in Broken(c) :
           Continue(t, [b EXCEPT !.pc = "loop", !.node = None, !.told = None,
                                 !.errors = b.errors + 1])
    BY <1>7 DEF ConnectionError
  <2>2. c.pc \in {"asking", "readonly", "send"} /\ c.errors + 1 < ConnErrorLimit
        /\ UNCHANGED Tables
    BY <1>7 DEF ConnectionError, Connecting, Tables
  <2> HIDE DEF c
  <2>3. CallOK([b EXCEPT !.pc = "loop", !.node = None, !.told = None, !.errors = b.errors + 1])
    BY <1>0, <2>2, BrokenTypes, BackToLoop
  <2> QED
    BY <1>1, <2>1, <2>2, <2>3
<1>8. CASE ConnectionErrorLimit(t)
  <2>1. PICK b \in Broken(c) :
           Continue(t, [b EXCEPT !.pc = "check", !.then = "loop", !.node = None, !.told = None,
                                 !.errors = 0])
    BY <1>8 DEF ConnectionErrorLimit
  <2>2. c.pc \in {"asking", "readonly", "send"}
    BY <1>8 DEF ConnectionErrorLimit, Connecting
  <2> HIDE DEF c
  <2>3. CallOK([b EXCEPT !.pc = "check", !.then = "loop", !.node = None, !.told = None,
                         !.errors = 0])
    BY <1>0, <2>2, BrokenTypes, BackToLoop
  <2>4. counter' \in 0 .. ReinitializeSteps - 1
    BY <1>8, IncrementTypes, ClusterAssumption DEF ConnectionErrorLimit
  <2>5. DOMAIN call' = Thread /\ \A u \in Thread : CallOK(call'[u])
    BY <2>1, <2>3, ContinueTypes
  <2> QED
    BY <1>8, <2>4, <2>5 DEF ConnectionErrorLimit, TypeOK, cluster
<1>9. CASE TimeoutError(t)
  <2>1. PICK b \in Broken(c) :
           Continue(t, [b EXCEPT !.pc = "loop", !.node = None, !.told = None,
                                 !.random = IF Late(c) THEN b.random ELSE TRUE])
    BY <1>9 DEF TimeoutError
  <2>2. c.pc \in {"asking", "readonly", "send"} /\ UNCHANGED Tables
    BY <1>9 DEF TimeoutError, Connecting, Tables
  <2> HIDE DEF c
  <2>3. CallOK(b) /\ b.pc = c.pc
    BY <1>0, BrokenTypes
  <2>4. (IF Late(c) THEN b.random ELSE TRUE) \in BOOLEAN
    BY <2>3 DEF CallOK
  <2>5. CallOK([b EXCEPT !.pc = "loop", !.node = None, !.told = None,
                         !.random = IF Late(c) THEN b.random ELSE TRUE])
    BY <2>2, <2>3, <2>4, BackToLoop
  <2> QED
    BY <1>1, <2>1, <2>2, <2>5
<1>10. CASE ClusterDownReply(t)
  <2> DEFINE d == [c EXCEPT !.pc = "start", !.node = None, !.told = None, !.stale = "down"]
  <2>1. c.pc = "send" /\ Continue(t, d) /\ refresh' = TRUE /\ UNCHANGED <<cluster, table>>
    BY <1>10 DEF ClusterDownReply, Answered
  <2> HIDE DEF c
  <2>2. CallOK(d)
    BY <1>0, <2>1 DEF CallOK, Idle, Pc
  <2> HIDE DEF d
  <2> QED
    BY <2>1, <2>2, ContinueTypes DEF TypeOK, cluster, table
<1>11. CASE MovedReply(t)
  <2> DEFINE d == [c EXCEPT !.pc = "check", !.then = "patch", !.moved = shard[c.slot].master,
                           !.told = shard[c.slot].master]
  <2>1. c.pc = "send" /\ c.slot \in DOMAIN shard /\ Continue(t, d)
    BY <1>11 DEF MovedReply, Answered, Redirects
  <2>2. shard[c.slot].master \in Node
    BY <2>1, LayoutFacts DEF TypeOK, Row
  <2>3. CallOK(d)
    <3> HIDE DEF c
    <3> QED
      BY <1>0, <2>1, <2>2 DEF CallOK, Idle, Pc, Then
  <2>4. counter' \in 0 .. ReinitializeSteps - 1
    BY <1>11, IncrementTypes DEF MovedReply
  <2>5. DOMAIN call' = Thread /\ \A u \in Thread : CallOK(call'[u])
    BY <2>1, <2>3, ContinueTypes
  <2> QED
    BY <1>11, <2>4, <2>5 DEF MovedReply, TypeOK, cluster
<1>12. CASE PatchSlot(t)
  <2> DEFINE d == [c EXCEPT !.pc = "loop", !.node = None, !.moved = None]
             e == [Idle EXCEPT !.result = "internal", !.execs = c.execs, !.lost = c.lost]
  <2>1. c.pc = "patch" /\ c.moved \in Node
    BY <1>0, <1>12 DEF PatchSlot, CallOK
  <2>2. nodes' \subseteq Node
    BY <1>12, <2>1 DEF PatchSlot, TypeOK
  <2>3. slots' \in Layout
    <3>1. CASE c.slot \in DOMAIN slots
      <4>1. [slots[c.slot] EXCEPT !.master = c.moved] \in Row
        BY <2>1, <3>1, LayoutFacts DEF TypeOK, Row
      <4>2. slots' = [slots EXCEPT ![c.slot] = [slots[c.slot] EXCEPT !.master = c.moved]]
        BY <1>12, <3>1 DEF PatchSlot
      <4> QED
        BY <3>1, <4>1, <4>2, LayoutFacts DEF TypeOK
    <3>2. CASE c.slot \notin DOMAIN slots
      BY <1>12, <3>2 DEF PatchSlot, TypeOK
    <3> QED
      BY <3>1, <3>2
  <2>4. Continue(t, d) \/ Continue(t, e)
    BY <1>12 DEF PatchSlot, Return
  <2>5. CallOK(d)
    <3> HIDE DEF c
    <3> QED
      BY <1>0, <2>1 DEF CallOK, Idle, Pc
  <2>6. CallOK(e)
    BY <1>0, ReturnTypes DEF Result
  <2>7. DOMAIN call' = Thread /\ \A u \in Thread : CallOK(call'[u])
    BY <2>4, <2>5, <2>6, ContinueTypes
  <2> QED
    BY <1>12, <2>2, <2>3, <2>7 DEF PatchSlot, TypeOK, cluster
<1>13. CASE TryAgainReply(t)
  <2>1. c.pc = "send" /\ UNCHANGED Tables
        /\ Continue(t, [c EXCEPT !.pc = "loop", !.node = None, !.told = None])
    BY <1>13 DEF TryAgainReply, Answered, Tables
  <2> HIDE DEF c
  <2> QED
    BY <1>0, <1>1, <2>1, BackToLoop
<1>14. CASE AskReply(t)
  <2> DEFINE d == [c EXCEPT !.pc = "loop", !.node = None, !.told = None, !.asking = TRUE,
                           !.redirect = importing[c.slot]]
  <2>1. c.pc = "send" /\ UNCHANGED Tables /\ Continue(t, d) /\ importing[c.slot] # None
    BY <1>14 DEF AskReply, Answered, Tables, SendsAsk
  <2>2. c.slot \in Slot
    BY <1>0, <2>1 DEF CallOK
  <2>3. importing[c.slot] \in Node
    BY <2>1, <2>2 DEF TypeOK
  <2>4. CallOK(d)
    <3> HIDE DEF c
    <3> QED
      BY <1>0, <2>1, <2>3 DEF CallOK, Idle, Pc
  <2> QED
    BY <1>1, <2>1, <2>4
<1> QED
  BY <1>3, <1>4, <1>5, <1>6, <1>7, <1>8, <1>9, <1>10, <1>11, <1>12, <1>13, <1>14 DEF Exchange

-----------------------------------------------------------------------------
(* No step of a thread or of the cluster leaves a call with a local that   *)
(* its next statement could not use, or a table with anything but nodes.   *)
THEOREM ClusterTypesInvariant == Spec => []TypeOK
<1>1. Init => TypeOK
  <2>1. NodesOf(Shard0) \subseteq Node
    BY NodesOfLayout, ClusterAssumption
  <2>2. Init => DOMAIN call = Thread /\ \A t \in Thread : CallOK(call[t])
    BY IdleTypes DEF Init
  <2>3. 0 \in 0 .. MaxChanges /\ 0 \in 0 .. ReinitializeSteps - 1
    BY ClusterAssumption
  <2>4. Init => importing \in [Slot -> Node \cup {None}]
    BY DEF Init
  <2> QED
    BY <2>1, <2>2, <2>3, <2>4, ClusterAssumption DEF Init, TypeOK
<1>2. TypeOK /\ [Next]_vars => TypeOK'
  <2> SUFFICES ASSUME TypeOK, [Next]_vars PROVE TypeOK'
    OBVIOUS
  <2>1. CASE \E t \in Thread, s \in Slot, read \in BOOLEAN : ExecuteCommand(t, s, read)
    BY <2>1, StartTypes
  <2>2. CASE \E t \in Thread : Run(t)
    BY <2>2, StartTypes, InitializeTypes, CheckCounterTypes, PickTypes, ExchangeTypes DEF Run
  <2>3. CASE ClusterChange
    BY <2>3, ClusterTypes
  <2>4. CASE UNCHANGED vars
    BY <2>4 DEF vars, cluster, table, TypeOK
  <2> QED
    BY <2>1, <2>2, <2>3, <2>4 DEF Next
<1> QED
  BY <1>1, <1>2, PTL DEF Spec

-----------------------------------------------------------------------------
(* AskingReachesCommand is not inductive: AskReply sets asking whatever    *)
(* is_read_replica is, and SendAsking sets asked.  What makes them safe is *)
(* that READONLY has been sent before an answer can arrive, and that only  *)
(* an attempt with asking sends ASKING.                                    *)
AskOK(c) ==
    /\ ~(c.asking /\ c.replica)
    /\ ~(c.asked /\ c.replica)
    /\ c.pc = "send" => ~c.replica
    /\ c.pc = "asking" => c.asking

AskInv == \A t \in Thread : AskOK(call[t])

LEMMA ContinueAsk ==
    ASSUME TypeOK, AskInv, NEW t \in Thread, NEW d, AskOK(d), Continue(t, d)
    PROVE  AskInv'
  BY DEF AskInv, Continue, TypeOK

LEMMA ReturnAsk ==
    ASSUME TypeOK, AskInv, NEW t \in Thread, NEW c, NEW r, Return(t, c, r)
    PROVE  AskInv'
<1>1. AskOK([Idle EXCEPT !.result = r, !.execs = c.execs, !.lost = c.lost])
  BY DEF AskOK, Idle
<1> QED
  BY <1>1, ContinueAsk DEF Return

LEMMA EnterAsk ==
    ASSUME NEW c, CallOK(c), AskOK(c)
    PROVE  AskOK(Enter(c)) /\ \A n : AskOK([Enter(c) EXCEPT !.tries = n])
  BY DEF AskOK, Enter, CallOK, Idle

LEMMA AttemptAsk ==
    ASSUME NEW c, CallOK(c), ~(c.asking /\ c.replica), NEW n
    PROVE  AskOK(Attempt(c, n))
<1>1. ASSUME NEW p, p = "send" => ~c.replica, p = "asking" => c.asking
      PROVE  AskOK([c EXCEPT !.ttl = c.ttl - 1, !.node = n, !.asked = FALSE,
                             !.readonly = FALSE, !.pc = p])
  BY <1>1 DEF AskOK, CallOK, Idle
<1> QED
  BY <1>1 DEF Attempt

LEMMA BrokenAsk ==
    ASSUME NEW c, CallOK(c), AskOK(c), NEW b \in Broken(c)
    PROVE  CallOK(b) /\ AskOK(b)
<1>1. AskOK([c EXCEPT !.execs = c.execs + 1, !.lost = c.lost + 1])
  BY DEF AskOK, CallOK, Idle
<1> QED
  BY <1>1, BrokenTypes DEF Broken

LEMMA StartAsk ==
    ASSUME TypeOK, AskInv, NEW t \in Thread,
           \/ \E s \in Slot, read \in BOOLEAN : ExecuteCommand(t, s, read)
           \/ StartDirectly(t) \/ StartRefresh(t) \/ Started(t) \/ GiveUpOnClusterDown(t)
    PROVE  AskInv'
<1> DEFINE c == call[t]
<1>0. CallOK(c) /\ AskOK(c)
  BY DEF TypeOK, AskInv
<1>1. ASSUME NEW s \in Slot, NEW read \in BOOLEAN, ExecuteCommand(t, s, read)
      PROVE  AskInv'
  <2>1. AskOK([Idle EXCEPT !.pc = "start", !.slot = s, !.read = read,
                           !.tries = DownRetryAttempts])
    BY DEF AskOK, Idle
  <2> QED
    BY <1>1, <2>1, ContinueAsk DEF ExecuteCommand
<1>2. CASE StartDirectly(t)
  <2>1. Continue(t, [Enter(c) EXCEPT !.tries = c.tries - 1])
    BY <1>2 DEF StartDirectly
  <2> HIDE DEF c
  <2> QED
    BY <1>0, <2>1, EnterAsk, ContinueAsk
<1>3. CASE StartRefresh(t)
  <2> DEFINE d == [c EXCEPT !.pc = "fetch", !.then = "started", !.tries = c.tries - 1]
  <2>1. Continue(t, d)
    BY <1>3 DEF StartRefresh
  <2> HIDE DEF c
  <2>2. AskOK(d)
    BY <1>0 DEF AskOK, CallOK, Idle
  <2> QED
    BY <2>1, <2>2, ContinueAsk
<1>4. CASE Started(t)
  BY <1>0, <1>4, EnterAsk, ContinueAsk DEF Started
<1>5. CASE GiveUpOnClusterDown(t)
  BY <1>5, ReturnAsk DEF GiveUpOnClusterDown
<1> QED
  BY <1>1, <1>2, <1>3, <1>4, <1>5

LEMMA InitializeAsk ==
    ASSUME TypeOK, AskInv, NEW t \in Thread, Initialize(t) \/ CheckCounter(t)
    PROVE  AskInv'
<1> DEFINE c == call[t]
<1>0. CallOK(c) /\ AskOK(c)
  BY DEF TypeOK, AskInv
<1>1. CASE Fetch(t)
  <2>1. PICK l \in layouts : Continue(t, [c EXCEPT !.pc = "swap_slots", !.parsed = l])
    BY <1>1 DEF Fetch
  <2> DEFINE d == [c EXCEPT !.pc = "swap_slots", !.parsed = l]
  <2> HIDE DEF c
  <2>2. AskOK(d)
    BY <1>0 DEF AskOK, CallOK, Idle
  <2> QED
    BY <2>1, <2>2, ContinueAsk
<1>2. CASE FetchFails(t)
  BY <1>2, ReturnAsk DEF FetchFails
<1>3. CASE SwapSlots(t)
  <2>1. ASSUME NEW u \in Thread, NEW p, p = call[u].pc \/ p = "swap_nodes"
        PROVE  AskOK([call[u] EXCEPT !.stale = "no", !.pc = p])
    BY <2>1 DEF AskOK, AskInv, TypeOK, CallOK, Idle
  <2> QED
    BY <1>3, <2>1 DEF SwapSlots, AskInv
<1>4. ASSUME c.pc \in {"swap_nodes", "check"}, NEW p \in Then, NEW q, NEW r,
             p # "none"
      PROVE  /\ AskOK([c EXCEPT !.pc = p, !.parsed = q, !.then = r])
             /\ AskOK([c EXCEPT !.pc = p, !.then = r])
             /\ AskOK([c EXCEPT !.pc = "fetch"])
  <2> HIDE DEF c
  <2> QED
    BY <1>0, <1>4 DEF AskOK, CallOK, Idle, Then
<1>5. CASE SwapNodes(t)
  <2>1. c.pc = "swap_nodes" /\ c.then \in Then /\ c.then # "none"
        /\ Continue(t, [c EXCEPT !.pc = c.then, !.parsed = <<>>, !.then = "none"])
    BY <1>0, <1>5 DEF SwapNodes, CallOK
  <2> QED
    BY <1>4, <2>1, ContinueAsk
<1>6. CASE CheckCounter(t)
  <2>1. c.pc = "check" /\ c.then \in Then /\ c.then # "none"
        /\ \/ Continue(t, [c EXCEPT !.pc = "fetch"])
           \/ Continue(t, [c EXCEPT !.pc = c.then, !.then = "none"])
    BY <1>0, <1>6 DEF CheckCounter, CallOK
  <2> QED
    BY <1>4, <2>1, ContinueAsk
<1> QED
  BY <1>1, <1>2, <1>3, <1>5, <1>6 DEF Initialize

LEMMA PickAskInv ==
    ASSUME TypeOK, AskInv, NEW t \in Thread, Pick(t)
    PROVE  AskInv'
<1> DEFINE c == call[t]
<1>0. CallOK(c) /\ AskOK(c)
  BY DEF TypeOK, AskInv
<1>1. ASSUME NEW e, CallOK(e), ~(e.asking /\ e.replica), NEW n, Continue(t, Attempt(e, n))
      PROVE  AskInv'
  BY <1>1, AttemptAsk, ContinueAsk
<1>2. ASSUME NEW n, Continue(t, Attempt(c, n))
      PROVE  AskInv'
  BY <1>0, <1>1, <1>2 DEF AskOK
<1>3. CASE PickAsk(t)
  BY <1>2, <1>3, ReturnAsk DEF PickAsk
<1>4. CASE PickRandom(t)
  <2> DEFINE e == [c EXCEPT !.random = FALSE]
  <2>1. PICK n \in startup : Continue(t, Attempt(e, n))
    BY <1>4 DEF PickRandom
  <2> HIDE DEF c
  <2>2. CallOK(e) /\ ~(e.asking /\ e.replica)
    BY <1>0 DEF AskOK, CallOK, Idle
  <2> HIDE DEF e
  <2> QED
    BY <1>1, <2>1, <2>2
<1>5. CASE PickRefreshed(t)
  BY <1>2, <1>5 DEF PickRefreshed
<1>6. CASE PickFromTable(t)
  <2> DEFINE e(r) == [c EXCEPT !.replica = r]
  <2>1. ~c.asking /\ \E r \in BOOLEAN : \E n : Continue(t, Attempt(e(r), n))
    BY <1>6 DEF PickFromTable, UsesTable
  <2>2. PICK r \in BOOLEAN : \E n : Continue(t, Attempt(e(r), n))
    BY <2>1
  <2> HIDE DEF c
  <2>3. CallOK(e(r)) /\ ~(e(r).asking /\ e(r).replica)
    BY <1>0, <2>1 DEF CallOK, Idle
  <2> HIDE DEF e
  <2> QED
    BY <1>1, <2>2, <2>3
<1>7. CASE PickUncovered(t)
  <2> DEFINE d == [c EXCEPT !.ttl = c.ttl - 1, !.stale = "uncovered"]
  <2>1. (\E r : Return(t, c, r)) \/ Continue(t, d)
    BY <1>7 DEF PickUncovered
  <2> HIDE DEF c
  <2>2. AskOK(d)
    BY <1>0 DEF AskOK, CallOK, Idle
  <2> HIDE DEF d
  <2> QED
    BY <2>1, <2>2, ReturnAsk, ContinueAsk
<1>8. CASE Exhausted(t)
  BY <1>8, ReturnAsk DEF Exhausted
<1> QED
  BY <1>3, <1>4, <1>5, <1>6, <1>7, <1>8 DEF Pick

LEMMA ExchangeAsk ==
    ASSUME TypeOK, AskInv, NEW t \in Thread, Exchange(t)
    PROVE  AskInv'
<1> DEFINE c == call[t]
<1>0. CallOK(c) /\ AskOK(c)
  BY DEF TypeOK, AskInv
<1>1. ASSUME NEW b, CallOK(b), AskOK(b), NEW r, NEW e
      PROVE  /\ AskOK([b EXCEPT !.pc = "loop", !.node = None, !.told = None, !.errors = e])
             /\ AskOK([b EXCEPT !.pc = "loop", !.node = None, !.told = None, !.random = r])
             /\ AskOK([b EXCEPT !.pc = "loop", !.node = None, !.told = None])
             /\ AskOK([b EXCEPT !.pc = "check", !.then = "loop", !.node = None,
                                !.told = None, !.errors = 0])
             /\ AskOK([b EXCEPT !.pc = "start", !.node = None, !.told = None, !.stale = "down"])
             /\ AskOK([b EXCEPT !.pc = "check", !.then = "patch", !.moved = r, !.told = r])
             /\ AskOK([b EXCEPT !.pc = "loop", !.node = None, !.moved = None])
  BY <1>1 DEF AskOK, CallOK, Idle
<1>2. CASE SendAsking(t)
  <2> DEFINE d(p) == [c EXCEPT !.asking = FALSE, !.asked = TRUE, !.pc = p]
  <2>1. c.pc = "asking" /\ \E p \in {"readonly", "send"} : Continue(t, d(p))
    BY <1>2 DEF SendAsking
  <2> HIDE DEF c
  <2>2. ~c.replica
    BY <1>0, <2>1 DEF AskOK
  <2>3. \A p \in {"readonly", "send"} : AskOK(d(p))
    BY <1>0, <2>2 DEF AskOK, CallOK, Idle
  <2> HIDE DEF d
  <2> QED
    BY <2>1, <2>3, ContinueAsk
<1>3. CASE SendReadonly(t)
  <2> DEFINE d == [c EXCEPT !.replica = FALSE, !.asked = FALSE, !.readonly = TRUE, !.pc = "send"]
  <2>1. Continue(t, d)
    BY <1>3 DEF SendReadonly
  <2> HIDE DEF c
  <2>2. AskOK(d)
    BY <1>0 DEF AskOK, CallOK, Idle
  <2> QED
    BY <2>1, <2>2, ContinueAsk
<1>4. CASE AskReply(t)
  <2> DEFINE d == [c EXCEPT !.pc = "loop", !.node = None, !.told = None, !.asking = TRUE,
                           !.redirect = importing[c.slot]]
  <2>1. c.pc = "send" /\ Continue(t, d)
    BY <1>4 DEF AskReply, Answered
  <2> HIDE DEF c
  <2>2. AskOK(d)
    BY <1>0, <2>1 DEF AskOK, CallOK, Idle
  <2> QED
    BY <2>1, <2>2, ContinueAsk
<1>5. CASE Executed(t)
  BY <1>5, ReturnAsk DEF Executed
<1>6. CASE Raised(t)
  BY <1>6, ReturnAsk DEF Raised
<1>7. CASE ConnectionError(t)
  <2>1. PICK b \in Broken(c) :
           Continue(t, [b EXCEPT !.pc = "loop", !.node = None, !.told = None,
                                 !.errors = b.errors + 1])
    BY <1>7 DEF ConnectionError
  <2> HIDE DEF c
  <2>2. CallOK(b) /\ AskOK(b)
    BY <1>0, BrokenAsk
  <2> QED
    BY <1>1, <2>1, <2>2, ContinueAsk
<1>8. CASE ConnectionErrorLimit(t)
  <2>1. PICK b \in Broken(c) :
           Continue(t, [b EXCEPT !.pc = "check", !.then = "loop", !.node = None, !.told = None,
                                 !.errors = 0])
    BY <1>8 DEF ConnectionErrorLimit
  <2> HIDE DEF c
  <2>2. CallOK(b) /\ AskOK(b)
    BY <1>0, BrokenAsk
  <2> QED
    BY <1>1, <2>1, <2>2, ContinueAsk
<1>9. CASE TimeoutError(t)
  <2>1. PICK b \in Broken(c) :
           Continue(t, [b EXCEPT !.pc = "loop", !.node = None, !.told = None,
                                 !.random = IF Late(c) THEN b.random ELSE TRUE])
    BY <1>9 DEF TimeoutError
  <2> HIDE DEF c
  <2>2. CallOK(b) /\ AskOK(b)
    BY <1>0, BrokenAsk
  <2> QED
    BY <1>1, <2>1, <2>2, ContinueAsk
<1>10. CASE ClusterDownReply(t)
  BY <1>0, <1>1, <1>10, ContinueAsk DEF ClusterDownReply
<1>11. CASE MovedReply(t)
  BY <1>0, <1>1, <1>11, ContinueAsk DEF MovedReply
<1>12. CASE PatchSlot(t)
  <2>1. \/ Continue(t, [c EXCEPT !.pc = "loop", !.node = None, !.moved = None])
        \/ Return(t, c, "internal")
    BY <1>12 DEF PatchSlot
  <2> QED
    BY <1>0, <1>1, <2>1, ContinueAsk, ReturnAsk
<1>13. CASE TryAgainReply(t)
  BY <1>0, <1>1, <1>13, ContinueAsk DEF TryAgainReply
<1> QED
  BY <1>2, <1>3, <1>4, <1>5, <1>6, <1>7, <1>8, <1>9, <1>10, <1>11, <1>12, <1>13 DEF Exchange

(* The ASKING of a redirected command reaches the command: the server's    *)
(* flag is not used up by a READONLY in between.                           *)
THEOREM ClusterAskingReachesCommand == Spec => []AskingReachesCommand
<1>1. Init => AskInv
  BY DEF Init, AskInv, AskOK, Idle
<1>2. TypeOK /\ AskInv /\ [Next]_vars => AskInv'
  <2> SUFFICES ASSUME TypeOK, AskInv, [Next]_vars PROVE AskInv'
    OBVIOUS
  <2>1. CASE \E t \in Thread, s \in Slot, read \in BOOLEAN : ExecuteCommand(t, s, read)
    BY <2>1, StartAsk
  <2>2. CASE \E t \in Thread : Run(t)
    BY <2>2, StartAsk, InitializeAsk, PickAskInv, ExchangeAsk DEF Run
  <2>3. CASE ClusterChange
    BY <2>3 DEF ClusterChange, AskInv
  <2>4. CASE UNCHANGED vars
    BY <2>4 DEF vars, AskInv
  <2> QED
    BY <2>1, <2>2, <2>3, <2>4 DEF Next
<1>3. AskInv => AskingReachesCommand
  BY DEF AskInv, AskOK, AskingReachesCommand
<1> QED
  BY <1>1, <1>2, <1>3, ClusterTypesInvariant, PTL DEF Spec

-----------------------------------------------------------------------------
(* A client that one thread uses.  Another thread's reinitialize writes    *)
(* slots and nodes between this thread's steps, and none of the three      *)
(* properties below survives that.                                         *)
OneThread == \E t : Thread = {t}

(* While nodes is still to follow, slots is what the thread has parsed.    *)
KnownOK(c, tbl, known) ==
    IF c.pc = "swap_nodes" THEN tbl = c.parsed ELSE NodesOf(tbl) \subseteq known

(* From CLUSTERDOWN to the next replacement of slots a refresh is asked    *)
(* for or under way.                                                       *)
FreshOK(c, asap) ==
    c.stale = "down" => \/ c.pc = "start" /\ asap
                        \/ c.pc \in {"fetch", "swap_slots"} /\ c.then = "started"

Correcting(c) == c.pc = "patch" \/ c.then = "patch"

(* What MOVED said is in moved until the table is corrected, whatever is   *)
(* read and swapped in meanwhile, and then in the table; no table is read  *)
(* any more before the call has forgotten it.                              *)
Attempting == {"loop", "asking", "readonly", "send"}

ToldOK(c, tbl) ==
    c.told # None =>
        IF Correcting(c) THEN c.moved = c.told
        ELSE c.pc \in Attempting /\ c.slot \in DOMAIN tbl /\ tbl[c.slot].master = c.told

RouteInv ==
    \A t \in Thread : /\ KnownOK(call[t], slots, nodes)
                      /\ FreshOK(call[t], refresh)
                      /\ ToldOK(call[t], slots)

LEMMA ContinueRoute ==
    ASSUME OneThread, TypeOK, NEW t \in Thread, NEW d, Continue(t, d),
           KnownOK(d, slots', nodes'), FreshOK(d, refresh'), ToldOK(d, slots')
    PROVE  RouteInv'
<1>1. Thread = {t} /\ call'[t] = d
  BY DEF OneThread, Continue, TypeOK
<1> QED
  BY <1>1 DEF RouteInv

(* Most steps leave the tables alone, and neither start on a MOVED nor on  *)
(* a reinitialize.                                                         *)
LEMMA LightRoute ==
    ASSUME OneThread, TypeOK, RouteInv, NEW t \in Thread, NEW d, Continue(t, d),
           UNCHANGED <<slots, nodes>>,
           call[t].pc # "swap_nodes",
           d.pc \notin {"swap_nodes", "swap_slots", "patch"}, d.then # "patch",
           d.told # None => /\ d.told = call[t].told /\ d.slot = call[t].slot
                            /\ ~Correcting(call[t]) /\ d.pc \in Attempting,
           FreshOK(d, refresh')
    PROVE  RouteInv'
<1> DEFINE c == call[t]
<1>0. KnownOK(c, slots, nodes) /\ ToldOK(c, slots)
  BY DEF RouteInv
<1>1. KnownOK(d, slots', nodes')
  BY <1>0 DEF KnownOK
<1>2. ToldOK(d, slots')
  BY <1>0 DEF ToldOK, Correcting, Attempting
<1> QED
  BY <1>1, <1>2, ContinueRoute

LEMMA ReturnRoute ==
    ASSUME OneThread, TypeOK, RouteInv, NEW t \in Thread, NEW c, NEW r, Return(t, c, r),
           UNCHANGED <<slots, nodes>>, call[t].pc # "swap_nodes"
    PROVE  RouteInv'
<1> DEFINE d == [Idle EXCEPT !.result = r, !.execs = c.execs, !.lost = c.lost]
<1>1. d.pc = "idle" /\ d.then = "none" /\ d.told = None /\ d.stale = "no"
  BY DEF Idle
<1>2. Continue(t, d)
  BY DEF Return
<1> HIDE DEF d
<1> QED
  BY <1>1, <1>2, LightRoute DEF FreshOK

(* The steps of the loop and of the exchange: outside "start" and the      *)
(* refresh that follows it, a call is not stale.                           *)
LEMMA LoopRoute ==
    ASSUME OneThread, TypeOK, RouteInv, NEW t \in Thread, NEW d, Continue(t, d),
           UNCHANGED <<slots, nodes>>,
           call[t].pc \in {"started", "loop", "asking", "readonly", "send"},
           d.pc \notin {"swap_nodes", "swap_slots", "patch"}, d.then # "patch",
           d.told # None => /\ d.told = call[t].told /\ d.slot = call[t].slot
                            /\ d.pc \in Attempting,
           d.stale = call[t].stale \/ d.stale = "uncovered"
    PROVE  RouteInv'
<1>1. call[t].stale # "down"
  BY DEF RouteInv, FreshOK
<1>2. ~Correcting(call[t])
  BY DEF TypeOK, CallOK, Correcting
<1>3. FreshOK(d, refresh')
  BY <1>1 DEF FreshOK
<1> QED
  BY <1>2, <1>3, LightRoute

LEMMA StartRoute ==
    ASSUME OneThread, TypeOK, RouteInv, NEW t \in Thread,
           \/ \E s \in Slot, read \in BOOLEAN : ExecuteCommand(t, s, read)
           \/ StartDirectly(t) \/ StartRefresh(t) \/ Started(t) \/ GiveUpOnClusterDown(t)
    PROVE  RouteInv'
<1> DEFINE c == call[t]
<1>0. CallOK(c) /\ KnownOK(c, slots, nodes) /\ FreshOK(c, refresh) /\ ToldOK(c, slots)
  BY DEF TypeOK, RouteInv
<1>1. ASSUME NEW s \in Slot, NEW read \in BOOLEAN, ExecuteCommand(t, s, read)
      PROVE  RouteInv'
  <2> DEFINE d == [Idle EXCEPT !.pc = "start", !.slot = s, !.read = read,
                              !.tries = DownRetryAttempts]
  <2>1. d.pc = "start" /\ d.then = "none" /\ d.told = None /\ d.stale = "no"
    BY DEF Idle
  <2>2. c.pc = "idle" /\ Continue(t, d) /\ UNCHANGED <<slots, nodes>>
    BY <1>1 DEF ExecuteCommand, table
  <2> HIDE DEF d
  <2> QED
    BY <2>1, <2>2, LightRoute DEF FreshOK
<1>2. CASE StartDirectly(t)
  <2> DEFINE d == [Enter(c) EXCEPT !.tries = c.tries - 1]
  <2>1. c.pc = "start" /\ ~refresh /\ Continue(t, d) /\ UNCHANGED <<slots, nodes>>
    BY <1>2 DEF StartDirectly, table
  <2> HIDE DEF c
  <2>2. c.stale # "down" /\ c.then # "patch" /\ c.told = None
    BY <1>0, <2>1 DEF FreshOK, CallOK, ToldOK, Correcting, Attempting
  <2>3. d.pc = "loop" /\ d.then = c.then /\ d.told = c.told /\ d.stale = c.stale
    BY <1>0 DEF CallOK, Enter, Idle
  <2> HIDE DEF d
  <2> QED
    BY <2>1, <2>2, <2>3, LightRoute DEF FreshOK, c
<1>3. CASE StartRefresh(t)
  <2> DEFINE d == [c EXCEPT !.pc = "fetch", !.then = "started", !.tries = c.tries - 1]
  <2>1. c.pc = "start" /\ Continue(t, d) /\ UNCHANGED <<slots, nodes>>
    BY <1>3 DEF StartRefresh, table
  <2> HIDE DEF c
  <2>2. c.told = None
    BY <1>0, <2>1 DEF CallOK, ToldOK, Correcting, Attempting
  <2>3. d.pc = "fetch" /\ d.then = "started" /\ d.told = c.told
    BY <1>0 DEF CallOK, Idle
  <2> HIDE DEF d
  <2> QED
    BY <2>1, <2>2, <2>3, LightRoute DEF FreshOK, c
<1>4. CASE Started(t)
  <2>1. c.pc = "started" /\ Continue(t, Enter(c)) /\ UNCHANGED <<slots, nodes>>
    BY <1>4 DEF Started, table
  <2>2. c.told = None
    BY <1>0, <2>1 DEF CallOK, ToldOK, Correcting, Attempting
  <2>3. Enter(c).pc = "loop" /\ Enter(c).then = "none" /\ Enter(c).told = c.told
        /\ Enter(c).stale = c.stale
    <3> HIDE DEF c
    <3> QED
      BY <1>0, <2>1 DEF CallOK, Enter, Idle
  <2> QED
    BY <2>1, <2>2, <2>3, LoopRoute
<1>5. CASE GiveUpOnClusterDown(t)
  BY <1>5, ReturnRoute DEF GiveUpOnClusterDown, table
<1> QED
  BY <1>1, <1>2, <1>3, <1>4, <1>5

LEMMA InitializeRoute ==
    ASSUME OneThread, TypeOK, RouteInv, NEW t \in Thread, Initialize(t) \/ CheckCounter(t)
    PROVE  RouteInv'
<1> DEFINE c == call[t]
<1>0. CallOK(c) /\ KnownOK(c, slots, nodes) /\ FreshOK(c, refresh) /\ ToldOK(c, slots)
  BY DEF TypeOK, RouteInv
<1>1. CASE Fetch(t)
  <2>1. c.pc = "fetch" /\ UNCHANGED <<slots, nodes>>
    BY <1>1 DEF Fetch
  <2>2. PICK l \in layouts : Continue(t, [c EXCEPT !.pc = "swap_slots", !.parsed = l])
    BY <1>1 DEF Fetch
  <2> DEFINE d == [c EXCEPT !.pc = "swap_slots", !.parsed = l]
  <2> HIDE DEF c
  <2>3. d.pc = "swap_slots" /\ d.then = c.then /\ d.told = c.told
        /\ d.slot = c.slot /\ d.stale = c.stale /\ d.moved = c.moved
    BY <1>0 DEF CallOK, Idle
  <2> HIDE DEF d
  <2>4. KnownOK(d, slots', nodes')
    BY <1>0, <2>1, <2>3 DEF KnownOK
  <2>5. FreshOK(d, refresh')
    BY <1>0, <2>1, <2>3 DEF FreshOK
  <2>6. ToldOK(d, slots')
    BY <1>0, <2>1, <2>3 DEF ToldOK, Correcting, Attempting
  <2> QED
    BY <2>1, <2>2, <2>4, <2>5, <2>6, ContinueRoute DEF d
<1>2. CASE FetchFails(t)
  BY <1>2, ReturnRoute DEF FetchFails
<1>3. CASE SwapSlots(t)
  <2> DEFINE d == [c EXCEPT !.stale = "no", !.pc = "swap_nodes"]
  <2>1. c.pc = "swap_slots" /\ slots' = c.parsed /\ UNCHANGED nodes
    BY <1>3 DEF SwapSlots
  <2>2. Thread = {t} /\ call' = [u \in Thread |-> d]
    <3>1. Thread = {t}
      BY DEF OneThread
    <3> QED
      BY <1>3, <3>1 DEF SwapSlots
  <2> HIDE DEF c
  <2>3. d.pc = "swap_nodes" /\ d.stale = "no" /\ d.then = c.then /\ d.told = c.told
        /\ d.slot = c.slot /\ d.moved = c.moved /\ d.parsed = c.parsed
    BY <1>0 DEF CallOK, Idle
  <2> HIDE DEF d
  <2>4. KnownOK(d, slots', nodes')
    BY <2>1, <2>3 DEF KnownOK
  <2>5. FreshOK(d, refresh')
    BY <2>3 DEF FreshOK
  <2>6. ToldOK(d, slots')
    BY <1>0, <2>1, <2>3 DEF ToldOK, Correcting, Attempting
  <2> QED
    BY <2>2, <2>4, <2>5, <2>6 DEF RouteInv
<1>4. CASE SwapNodes(t)
  <2> DEFINE d == [c EXCEPT !.pc = c.then, !.parsed = <<>>, !.then = "none"]
  <2>1. c.pc = "swap_nodes" /\ nodes' = NodesOf(c.parsed) /\ Continue(t, d)
        /\ UNCHANGED slots
    BY <1>4 DEF SwapNodes
  <2> HIDE DEF c
  <2>2. d.pc = c.then /\ d.stale = c.stale /\ d.then = "none" /\ d.told = c.told
        /\ d.slot = c.slot /\ d.moved = c.moved
    BY <1>0 DEF CallOK, Idle
  <2>3. c.then \in Then
    BY <1>0 DEF CallOK
  <2> HIDE DEF d
  <2>4. KnownOK(d, slots', nodes')
    <3>1. slots = c.parsed
      BY <1>0, <2>1 DEF KnownOK
    <3> QED
      BY <2>1, <2>2, <2>3, <3>1 DEF KnownOK, Then
  <2>5. FreshOK(d, refresh')
    BY <1>0, <2>1, <2>2 DEF FreshOK
  <2>6. ToldOK(d, slots')
    BY <1>0, <2>1, <2>2, <2>3 DEF ToldOK, Correcting, Attempting, Then
  <2> QED
    BY <2>1, <2>4, <2>5, <2>6, ContinueRoute
<1>5. CASE CheckCounter(t)
  <2> DEFINE f == [c EXCEPT !.pc = "fetch"]
             g == [c EXCEPT !.pc = c.then, !.then = "none"]
  <2>1. c.pc = "check" /\ UNCHANGED <<slots, nodes>>
        /\ (Continue(t, f) \/ Continue(t, g))
    BY <1>5 DEF CheckCounter, table
  <2> HIDE DEF c
  <2>2. c.stale # "down" /\ c.then \in Then
    BY <1>0, <2>1 DEF FreshOK, CallOK
  <2>3. f.pc = "fetch" /\ f.then = c.then /\ f.told = c.told /\ f.slot = c.slot
        /\ f.stale = c.stale /\ f.moved = c.moved
    BY <1>0 DEF CallOK, Idle
  <2>4. g.pc = c.then /\ g.then = "none" /\ g.told = c.told /\ g.slot = c.slot
        /\ g.stale = c.stale /\ g.moved = c.moved
    BY <1>0 DEF CallOK, Idle
  <2> HIDE DEF f, g
  <2>5. ASSUME NEW d, d = f \/ d = g
        PROVE  KnownOK(d, slots', nodes') /\ FreshOK(d, refresh') /\ ToldOK(d, slots')
    <3>1. KnownOK(d, slots', nodes')
      BY <1>0, <2>1, <2>2, <2>3, <2>4, <2>5 DEF KnownOK, Then
    <3>2. FreshOK(d, refresh')
      BY <2>2, <2>3, <2>4, <2>5 DEF FreshOK
    <3>3. ToldOK(d, slots')
      BY <1>0, <2>1, <2>2, <2>3, <2>4, <2>5 DEF ToldOK, Correcting, Attempting, Then
    <3> QED
      BY <3>1, <3>2, <3>3
  <2> QED
    BY <2>1, <2>5, ContinueRoute
<1> QED
  BY <1>1, <1>2, <1>3, <1>4, <1>5 DEF Initialize

LEMMA AttemptRoute ==
    ASSUME OneThread, TypeOK, RouteInv, NEW t \in Thread, call[t].pc = "loop",
           NEW e, CallOK(e), e.told = call[t].told, e.slot = call[t].slot,
           e.stale = call[t].stale, e.then = "none",
           NEW n, Continue(t, Attempt(e, n)), UNCHANGED <<slots, nodes>>
    PROVE  RouteInv'
<1> DEFINE d == Attempt(e, n)
<1>1. d.pc \in {"asking", "readonly", "send"} /\ d.then = e.then /\ d.told = e.told
      /\ d.slot = e.slot /\ d.stale = e.stale
  <2> DEFINE p == IF e.asking THEN "asking" ELSE IF e.replica THEN "readonly" ELSE "send"
  <2>1. p \in {"asking", "readonly", "send"}
    OBVIOUS
  <2>2. d = [e EXCEPT !.ttl = e.ttl - 1, !.node = n, !.asked = FALSE,
                      !.readonly = FALSE, !.pc = p]
    BY DEF Attempt
  <2> HIDE DEF p, d
  <2> QED
    BY <2>1, <2>2 DEF CallOK, Idle
<1> HIDE DEF d
<1>2. Continue(t, d)
  BY DEF d
<1> QED
  BY <1>1, <1>2, LoopRoute DEF Attempting

LEMMA PickRoute ==
    ASSUME OneThread, TypeOK, RouteInv, NEW t \in Thread, Pick(t)
    PROVE  RouteInv'
<1> DEFINE c == call[t]
<1>0. CallOK(c) /\ c.pc = "loop" /\ c.then = "none"
  BY DEF TypeOK, CallOK, Pick, PickAsk, PickRandom, PickRefreshed, PickFromTable, PickUncovered,
         Exhausted, UsesTable, Picking
<1>1. UNCHANGED <<slots, nodes>>
  BY DEF Pick, PickAsk, PickRandom, PickRefreshed, PickFromTable, PickUncovered, Exhausted,
         table
<1>2. ASSUME NEW n, Continue(t, Attempt(c, n))
      PROVE  RouteInv'
  BY <1>0, <1>1, <1>2, AttemptRoute
<1>3. ASSUME NEW r, Return(t, c, r)
      PROVE  RouteInv'
  BY <1>0, <1>1, <1>3, ReturnRoute
<1>4. CASE PickAsk(t)
  BY <1>2, <1>3, <1>4 DEF PickAsk
<1>5. CASE PickRandom(t)
  <2> DEFINE e == [c EXCEPT !.random = FALSE]
  <2>1. PICK n \in startup : Continue(t, Attempt(e, n))
    BY <1>5 DEF PickRandom
  <2> HIDE DEF c
  <2>2. CallOK(e) /\ e.told = c.told /\ e.slot = c.slot /\ e.stale = c.stale /\ e.then = "none"
    BY <1>0 DEF CallOK, Idle
  <2> HIDE DEF e
  <2> QED
    BY <1>0, <1>1, <2>1, <2>2, AttemptRoute DEF c
<1>6. CASE PickRefreshed(t)
  BY <1>2, <1>6 DEF PickRefreshed
<1>7. CASE PickFromTable(t)
  <2> DEFINE e(r) == [c EXCEPT !.replica = r]
  <2>1. PICK r \in BOOLEAN : \E n : Continue(t, Attempt(e(r), n))
    BY <1>7 DEF PickFromTable
  <2> HIDE DEF c
  <2>2. CallOK(e(r)) /\ e(r).told = c.told /\ e(r).slot = c.slot /\ e(r).stale = c.stale
        /\ e(r).then = "none"
    BY <1>0 DEF CallOK, Idle
  <2> HIDE DEF e
  <2> QED
    BY <1>0, <1>1, <2>1, <2>2, AttemptRoute DEF c
<1>8. CASE PickUncovered(t)
  <2> DEFINE d == [c EXCEPT !.ttl = c.ttl - 1, !.stale = "uncovered"]
  <2>1. (\E r : Return(t, c, r)) \/ Continue(t, d)
    BY <1>8 DEF PickUncovered
  <2>2. CASE Continue(t, d)
    <3> HIDE DEF c
    <3>1. d.pc = "loop" /\ d.told = c.told /\ d.slot = c.slot /\ d.then = "none"
          /\ d.stale = "uncovered"
      BY <1>0 DEF CallOK, Idle
    <3> HIDE DEF d
    <3> QED
      BY <1>0, <1>1, <2>2, <3>1, LoopRoute DEF Attempting, c
  <2> QED
    BY <1>3, <2>1, <2>2
<1>9. CASE Exhausted(t)
  BY <1>3, <1>9 DEF Exhausted
<1> QED
  BY <1>4, <1>5, <1>6, <1>7, <1>8, <1>9 DEF Pick

(* After a broken connection the call is back in the loop, or about to     *)
(* reinitialize, and has forgotten what a MOVED said.                      *)
LEMMA BrokenRoute ==
    ASSUME OneThread, TypeOK, RouteInv, NEW t \in Thread,
           ConnectionError(t) \/ ConnectionErrorLimit(t) \/ TimeoutError(t)
    PROVE  RouteInv'
<1> DEFINE c == call[t]
<1>0. CallOK(c) /\ c.pc \in {"asking", "readonly", "send"} /\ UNCHANGED <<slots, nodes>>
  BY DEF TypeOK, ConnectionError, ConnectionErrorLimit, TimeoutError, Connecting, table
<1>1. ASSUME NEW b \in Broken(c)
      PROVE  CallOK(b) /\ b.stale = c.stale /\ b.then = "none"
  <2> HIDE DEF c
  <2> DEFINE e == [c EXCEPT !.execs = c.execs + 1, !.lost = c.lost + 1]
  <2>1. e.stale = c.stale /\ e.then = c.then /\ c.then = "none"
    BY <1>0 DEF CallOK, Idle
  <2>2. b = c \/ b = e
    BY DEF Broken
  <2> QED
    BY <1>0, <2>1, <2>2, BrokenTypes
<1>2. ASSUME NEW d, Continue(t, d), d.pc \in {"loop", "check"}, d.then # "patch", d.told = None,
             d.stale = c.stale
      PROVE  RouteInv'
  BY <1>0, <1>2, LoopRoute
<1>3. CASE ConnectionError(t)
  <2> DEFINE d(b) == [b EXCEPT !.pc = "loop", !.node = None, !.told = None,
                               !.errors = b.errors + 1]
  <2>1. PICK b \in Broken(c) : Continue(t, d(b))
    BY <1>3 DEF ConnectionError
  <2>2. CallOK(b) /\ b.stale = c.stale /\ b.then = "none"
    BY <1>1
  <2>3. d(b).pc = "loop" /\ d(b).then = "none" /\ d(b).told = None /\ d(b).stale = b.stale
    BY <2>2 DEF CallOK, Idle
  <2> HIDE DEF d
  <2> QED
    BY <1>2, <2>1, <2>2, <2>3
<1>4. CASE ConnectionErrorLimit(t)
  <2> DEFINE d(b) == [b EXCEPT !.pc = "check", !.then = "loop", !.node = None, !.told = None,
                               !.errors = 0]
  <2>1. PICK b \in Broken(c) : Continue(t, d(b))
    BY <1>4 DEF ConnectionErrorLimit
  <2>2. CallOK(b) /\ b.stale = c.stale /\ b.then = "none"
    BY <1>1
  <2>3. d(b).pc = "check" /\ d(b).then = "loop" /\ d(b).told = None /\ d(b).stale = b.stale
    BY <2>2 DEF CallOK, Idle
  <2> HIDE DEF d
  <2> QED
    BY <1>2, <2>1, <2>2, <2>3
<1>5. CASE TimeoutError(t)
  <2> DEFINE d(b) == [b EXCEPT !.pc = "loop", !.node = None, !.told = None,
                               !.random = IF Late(c) THEN b.random ELSE TRUE]
  <2>1. PICK b \in Broken(c) : Continue(t, d(b))
    BY <1>5 DEF TimeoutError
  <2>2. CallOK(b) /\ b.stale = c.stale /\ b.then = "none"
    BY <1>1
  <2>3. ASSUME NEW r
        PROVE  LET e == [b EXCEPT !.pc = "loop", !.node = None, !.told = None, !.random = r]
               IN  e.pc = "loop" /\ e.then = "none" /\ e.told = None /\ e.stale = b.stale
    BY <2>2 DEF CallOK, Idle
  <2>4. d(b).pc = "loop" /\ d(b).then = "none" /\ d(b).told = None /\ d(b).stale = b.stale
    BY <2>3
  <2> HIDE DEF d
  <2> QED
    BY <1>2, <2>1, <2>2, <2>4
<1> QED
  BY <1>3, <1>4, <1>5

(* set_node and the row: the node MOVED named is the slot's master, and is *)
(* known.                                                                  *)
LEMMA PatchRoute ==
    ASSUME OneThread, TypeOK, RouteInv, NEW t \in Thread, PatchSlot(t)
    PROVE  RouteInv'
<1> DEFINE c == call[t]
<1>0. CallOK(c) /\ KnownOK(c, slots, nodes) /\ FreshOK(c, refresh) /\ ToldOK(c, slots)
  BY DEF TypeOK, RouteInv
<1>1. c.pc = "patch" /\ nodes' = nodes \cup {c.moved} /\ NodesOf(slots) \subseteq nodes
  BY <1>0 DEF PatchSlot, KnownOK
<1>2. c.stale # "down" /\ c.then # "patch" /\ (c.told # None => c.moved = c.told)
  BY <1>0, <1>1 DEF FreshOK, CallOK, ToldOK, Correcting
<1>3. CASE c.slot \in DOMAIN slots
  <2> DEFINE d == [c EXCEPT !.pc = "loop", !.node = None, !.moved = None]
  <2>1. Continue(t, d) /\ slots' = [slots EXCEPT ![c.slot] = [slots[c.slot] EXCEPT !.master = c.moved]]
    BY <1>3 DEF PatchSlot
  <2>2. slots[c.slot] \in Row /\ DOMAIN slots' = DOMAIN slots
    BY <1>3, <2>1, LayoutFacts DEF TypeOK
  <2>3. slots'[c.slot].master = c.moved /\ slots'[c.slot].replicas = slots[c.slot].replicas
    BY <1>3, <2>1, <2>2 DEF Row
  <2>4. \A s \in DOMAIN slots' : s = c.slot \/ slots'[s] = slots[s]
    BY <2>1, <2>2
  <2>5. d.pc = "loop" /\ d.then = c.then /\ d.told = c.told /\ d.slot = c.slot
        /\ d.stale = c.stale
    <3> HIDE DEF c
    <3> QED
      BY <1>0 DEF CallOK, Idle
  <2> HIDE DEF d, c
  <2>6. KnownOK(d, slots', nodes')
    <3>1. ASSUME NEW s \in DOMAIN slots'
          PROVE  {slots'[s].master} \cup slots'[s].replicas \subseteq nodes'
      <4>1. {slots[s].master} \cup slots[s].replicas \subseteq nodes
        BY <1>1, <2>2 DEF NodesOf
      <4>2. CASE s = c.slot
        BY <1>1, <2>3, <4>1, <4>2
      <4>3. CASE s # c.slot
        BY <1>1, <2>4, <4>1, <4>3
      <4> QED
        BY <4>2, <4>3
    <3>2. NodesOf(slots') \subseteq nodes'
      BY <3>1 DEF NodesOf
    <3> QED
      BY <2>5, <3>2 DEF KnownOK
  <2>7. FreshOK(d, refresh')
    BY <1>2, <2>5 DEF FreshOK
  <2>8. ToldOK(d, slots')
    BY <1>2, <1>3, <2>2, <2>3, <2>5 DEF ToldOK, Correcting, Attempting
  <2> QED
    BY <2>1, <2>6, <2>7, <2>8, ContinueRoute
<1>4. CASE c.slot \notin DOMAIN slots
  <2> DEFINE d == [Idle EXCEPT !.result = "internal", !.execs = c.execs, !.lost = c.lost]
  <2>1. Continue(t, d) /\ slots' = slots
    BY <1>4 DEF PatchSlot, Return
  <2>2. d.pc = "idle" /\ d.told = None /\ d.stale = "no"
    BY DEF Idle
  <2> HIDE DEF d
  <2>3. KnownOK(d, slots', nodes')
    BY <1>1, <2>1, <2>2 DEF KnownOK
  <2> QED
    BY <2>1, <2>2, <2>3, ContinueRoute DEF FreshOK, ToldOK
<1> QED
  BY <1>3, <1>4

LEMMA ExchangeRoute ==
    ASSUME OneThread, TypeOK, RouteInv, NEW t \in Thread, Exchange(t)
    PROVE  RouteInv'
<1> DEFINE c == call[t]
<1>0. CallOK(c) /\ KnownOK(c, slots, nodes) /\ FreshOK(c, refresh) /\ ToldOK(c, slots)
  BY DEF TypeOK, RouteInv
<1>1. CASE SendAsking(t)
  <2> DEFINE d(p) == [c EXCEPT !.asking = FALSE, !.asked = TRUE, !.pc = p]
  <2>1. c.pc = "asking" /\ UNCHANGED <<slots, nodes>>
    BY <1>1 DEF SendAsking, table
  <2>2. PICK p \in {"readonly", "send"} : Continue(t, d(p))
    BY <1>1 DEF SendAsking
  <2> HIDE DEF c
  <2>3. d(p).pc = p /\ d(p).then = "none" /\ d(p).told = c.told /\ d(p).slot = c.slot
        /\ d(p).stale = c.stale
    BY <1>0, <2>1 DEF CallOK, Idle
  <2> HIDE DEF d
  <2> QED
    BY <2>1, <2>2, <2>3, LoopRoute DEF Attempting, c
<1>2. CASE SendReadonly(t)
  <2> DEFINE d == [c EXCEPT !.replica = FALSE, !.asked = FALSE, !.readonly = TRUE, !.pc = "send"]
  <2>1. c.pc = "readonly" /\ UNCHANGED <<slots, nodes>> /\ Continue(t, d)
    BY <1>2 DEF SendReadonly, table
  <2> HIDE DEF c
  <2>2. d.pc = "send" /\ d.then = "none" /\ d.told = c.told /\ d.slot = c.slot
        /\ d.stale = c.stale
    BY <1>0, <2>1 DEF CallOK, Idle
  <2> HIDE DEF d
  <2> QED
    BY <2>1, <2>2, LoopRoute DEF Attempting, c
<1>3. CASE Executed(t)
  BY <1>3, ReturnRoute DEF Executed, Answered, table
<1>4. CASE Raised(t)
  BY <1>4, ReturnRoute DEF Raised, Connecting, table
<1>5. CASE ConnectionError(t) \/ ConnectionErrorLimit(t) \/ TimeoutError(t)
  BY <1>5, BrokenRoute
<1>6. CASE ClusterDownReply(t)
  <2> DEFINE d == [c EXCEPT !.pc = "start", !.node = None, !.told = None, !.stale = "down"]
  <2>1. c.pc = "send" /\ Continue(t, d) /\ refresh' = TRUE /\ UNCHANGED <<slots, nodes>>
    BY <1>6 DEF ClusterDownReply, Answered, table
  <2> HIDE DEF c
  <2>2. d.pc = "start" /\ d.then = "none" /\ d.told = None
    BY <1>0, <2>1 DEF CallOK, Idle
  <2> HIDE DEF d
  <2> QED
    BY <2>1, <2>2, LightRoute DEF FreshOK, c
<1>7. CASE MovedReply(t)
  <2> DEFINE d == [c EXCEPT !.pc = "check", !.then = "patch", !.moved = shard[c.slot].master,
                           !.told = shard[c.slot].master]
  <2>1. c.pc = "send" /\ Continue(t, d) /\ UNCHANGED <<slots, nodes>>
    BY <1>7 DEF MovedReply, Answered
  <2> HIDE DEF c
  <2>2. d.pc = "check" /\ d.then = "patch" /\ d.slot = c.slot /\ d.stale = c.stale
        /\ d.moved = shard[c.slot].master /\ d.told = d.moved
    BY <1>0 DEF CallOK, Idle
  <2> HIDE DEF d
  <2>3. KnownOK(d, slots', nodes')
    BY <1>0, <2>1, <2>2 DEF KnownOK
  <2>4. FreshOK(d, refresh')
    BY <1>0, <2>1, <2>2 DEF FreshOK
  <2>5. ToldOK(d, slots')
    BY <2>1, <2>2 DEF ToldOK, Correcting, Attempting
  <2> QED
    BY <2>1, <2>3, <2>4, <2>5, ContinueRoute
<1>8. CASE PatchSlot(t)
  BY <1>8, PatchRoute
<1>9. CASE TryAgainReply(t)
  <2> DEFINE d == [c EXCEPT !.pc = "loop", !.node = None, !.told = None]
  <2>1. c.pc = "send" /\ UNCHANGED <<slots, nodes>> /\ Continue(t, d)
    BY <1>9 DEF TryAgainReply, Answered, table
  <2> HIDE DEF c
  <2>2. d.pc = "loop" /\ d.then = "none" /\ d.told = None /\ d.stale = c.stale
    BY <1>0, <2>1 DEF CallOK, Idle
  <2> HIDE DEF d
  <2> QED
    BY <2>1, <2>2, LoopRoute DEF Attempting, c
<1>10. CASE AskReply(t)
  <2> DEFINE d == [c EXCEPT !.pc = "loop", !.node = None, !.told = None, !.asking = TRUE,
                           !.redirect = importing[c.slot]]
  <2>1. c.pc = "send" /\ UNCHANGED <<slots, nodes>> /\ Continue(t, d)
    BY <1>10 DEF AskReply, Answered, table
  <2> HIDE DEF c
  <2>2. d.pc = "loop" /\ d.then = "none" /\ d.told = None /\ d.stale = c.stale
    BY <1>0, <2>1 DEF CallOK, Idle
  <2> HIDE DEF d
  <2> QED
    BY <2>1, <2>2, LoopRoute DEF Attempting, c
<1> QED
  BY <1>1, <1>2, <1>3, <1>4, <1>5, <1>6, <1>7, <1>8, <1>9, <1>10 DEF Exchange

(* Nothing that happens to the cluster reaches the tables or the calls.    *)
LEMMA ChangeRoute ==
    ASSUME RouteInv, ClusterChange
    PROVE  RouteInv'
  BY DEF ClusterChange, table, RouteInv

LEMMA RouteInvariant ==
    ASSUME OneThread
    PROVE  Spec => []RouteInv
<1>1. Init => RouteInv
  <2>1. Idle.pc = "idle" /\ Idle.told = None /\ Idle.stale = "no"
    BY DEF Idle
  <2> QED
    BY <2>1 DEF Init, RouteInv, KnownOK, FreshOK, ToldOK
<1>2. TypeOK /\ RouteInv /\ [Next]_vars => RouteInv'
  <2> SUFFICES ASSUME TypeOK, RouteInv, [Next]_vars PROVE RouteInv'
    OBVIOUS
  <2>1. CASE \E t \in Thread, s \in Slot, read \in BOOLEAN : ExecuteCommand(t, s, read)
    BY <2>1, StartRoute
  <2>2. CASE \E t \in Thread : Run(t)
    BY <2>2, StartRoute, InitializeRoute, PickRoute, ExchangeRoute DEF Run
  <2>3. CASE ClusterChange
    BY <2>3, ChangeRoute
  <2>4. CASE UNCHANGED vars
    BY <2>4 DEF vars, table, RouteInv
  <2> QED
    BY <2>1, <2>2, <2>3, <2>4 DEF Next
<1> QED
  BY <1>1, <1>2, ClusterTypesInvariant, PTL DEF Spec

(* After a MOVED the next attempt finds the node it named in the table,    *)
(* whatever error came before and whichever layout, also one of before the *)
(* move, a reinitialize in between has read.                               *)
THEOREM ClusterMovedCorrectsTable ==
    ASSUME OneThread
    PROVE  Spec => []MovedCorrectsTable
<1>1. TypeOK /\ RouteInv => MovedCorrectsTable
  BY DEF TypeOK, CallOK, RouteInv, ToldOK, Correcting, MovedCorrectsTable
<1> QED
  BY <1>1, RouteInvariant, ClusterTypesInvariant, PTL

(* No attempt after a CLUSTERDOWN uses the layout it found out of date.    *)
THEOREM ClusterRetryAfterDownIsFresh ==
    ASSUME OneThread
    PROVE  Spec => []RetryAfterDownIsFresh
<1>1. RouteInv => RetryAfterDownIsFresh
  BY DEF RouteInv, FreshOK, RetryAfterDownIsFresh
<1> QED
  BY <1>1, RouteInvariant, PTL

(* An ASK that names a node of the slot table is followed: initialize sets *)
(* nodes to what the new slots name, and MOVED adds the node it puts in    *)
(* slots, so that but for the moment between the two assignments of        *)
(* initialize, when no thread is in the loop, nodes has all of them.       *)
THEOREM ClusterAskIsFollowed ==
    ASSUME OneThread
    PROVE  Spec => AskIsFollowed
<1> DEFINE Followed(t) ==
        LET c == call[t] IN
        /\ c.pc = "loop" /\ c.asking /\ c.redirect \in NodesOf(slots)
        /\ call'[t].pc = "idle"
        => call'[t].result # "internal"
<1>1. TypeOK /\ RouteInv /\ [Next]_vars => [\A t \in Thread : Followed(t)]_vars
  <2> SUFFICES ASSUME TypeOK, RouteInv, Next, NEW t \in Thread,
                      call[t].pc = "loop", call[t].asking, call[t].redirect \in NodesOf(slots),
                      call'[t].pc = "idle"
               PROVE  call'[t].result # "internal"
    OBVIOUS
  <2> DEFINE c == call[t]
  <2>0. CallOK(c) /\ DOMAIN call = Thread
    BY DEF TypeOK
  <2>1. Thread = {t}
    BY DEF OneThread
  <2>2. c.redirect \in nodes
    BY DEF RouteInv, KnownOK
  <2>3. ~ClusterChange
    BY DEF ClusterChange
  <2>4. Run(t)
    BY <2>1, <2>3 DEF Next, ExecuteCommand
  <2>5. PickAsk(t) \/ Exhausted(t)
    BY <2>4 DEF Run, StartDirectly, StartRefresh, Started, GiveUpOnClusterDown, Initialize, Fetch,
            FetchFails, SwapSlots, SwapNodes, CheckCounter, Pick, PickRandom, UsesTable,
            PickRefreshed, PickFromTable, PickUncovered, Exchange, SendAsking, SendReadonly,
            Executed, Raised, ConnectionError, ConnectionErrorLimit, TimeoutError, Connecting,
            ClusterDownReply, MovedReply, PatchSlot, TryAgainReply, AskReply, Answered
  <2>6. CASE PickAsk(t)
    <3>1. call'[t] = Attempt(c, c.redirect)
      BY <2>0, <2>2, <2>6 DEF PickAsk, Continue
    <3>2. Attempt(c, c.redirect).pc # "idle"
      <4> HIDE DEF c
      <4> QED
        BY <2>0 DEF Attempt, CallOK, Idle
    <3> QED
      BY <3>1, <3>2
  <2>7. CASE Exhausted(t)
    <3>1. call'[t] = [Idle EXCEPT !.result = "ttl", !.execs = c.execs, !.lost = c.lost]
      BY <2>0, <2>7 DEF Exhausted, Return, Continue
    <3> QED
      BY <3>1 DEF Idle
  <2> QED
    BY <2>5, <2>6, <2>7
<1> QED
  BY <1>1, RouteInvariant, ClusterTypesInvariant, PTL DEF Spec, AskIsFollowed
=============================================================================
