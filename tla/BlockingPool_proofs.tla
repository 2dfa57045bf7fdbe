------------------------- MODULE BlockingPool_proofs -------------------------
(***************************************************************************)
(* The blocking pool keeps its types, gives no connection to two threads   *)
(* and implements ResourcePool, for any threads, nodes and connections.    *)
(* With one queue for all nodes it keeps to max_connections until a reset, *)
(* and loses connections by timeouts only.                                 *)
(***************************************************************************)
EXTENDS BlockingPool, FiniteSetTheorems, TLAPS

Cell == Conn \cup {None}

(* What a thread's locals can be at each statement.                        *)
Frame == [pc : {"idle", "get_pool", "add_pool", "get", "put_back", "held", "put", "reset"},
          node : Node \cup {None}, pool : Queue \cup {None},
          others : Seq(Conn), conn : Cell]

FrameOK(r) ==
    /\ r \in Frame
    /\ r.pc = "idle" => r.conn = None
    /\ r.pc # "idle" => r.node \in Node
    /\ r.pool # None <=> r.pc \in {"add_pool", "get", "put_back", "put"}
    /\ r.others # <<>> => r.pc \in {"get", "put_back"}
    /\ r.pc = "get" => r.conn = None
    /\ r.pc \in {"held", "put", "reset"} => r.conn # None
    /\ r.pc = "add_pool" => PerNode

RunOK == DOMAIN run = Thread /\ \A t \in Thread : FrameOK(run[t])

(* What a queue does to a list of items, by Last, Front and Append, and    *)
(* what del others[0] does, by Head and Tail.                              *)
LEMMA SeqFacts ==
    ASSUME NEW S, NEW s \in Seq(S)
    PROVE  /\ DOMAIN s = 1 .. Len(s) /\ Len(s) \in Nat
           /\ \A i \in DOMAIN s : s[i] \in S
           /\ s = <<>> <=> Len(s) = 0
  OBVIOUS

LEMMA FrontFacts ==
    ASSUME NEW S, NEW s \in Seq(S), s # <<>>
    PROVE  /\ Front(s) \in Seq(S) /\ Len(Front(s)) = Len(s) - 1
           /\ DOMAIN Front(s) = 1 .. Len(s) - 1
           /\ \A i \in 1 .. Len(s) - 1 : Front(s)[i] = s[i]
           /\ Last(s) = s[Len(s)] /\ Len(s) \in DOMAIN s /\ Last(s) \in S
<1>1. Len(s) \in Nat \ {0}
  OBVIOUS
<1>2. /\ Front(s) \in Seq(S)
      /\ DOMAIN Front(s) = 1 .. Len(s) - 1
      /\ \A i \in 1 .. Len(s) - 1 : Front(s)[i] = s[i]
  BY DEF Front
<1>3. Len(Front(s)) = Len(s) - 1
  <2> DEFINE m == Len(Front(s))
             n == Len(s) - 1
  <2>1. m \in Nat /\ n \in Nat /\ 1 .. m = 1 .. n
    BY <1>1, <1>2
  <2> HIDE DEF m, n
  <2>2. m = n
    <3>1. m = 0 \/ m \in 1 .. n
      BY <2>1
    <3>2. n = 0 \/ n \in 1 .. m
      BY <2>1
    <3> QED
      BY <2>1, <3>1, <3>2
  <2> QED
    BY <2>2 DEF m, n
<1> QED
  BY <1>1, <1>2, <1>3 DEF Last

LEMMA TailFacts ==
    ASSUME NEW S, NEW s \in Seq(S), s # <<>>
    PROVE  /\ Tail(s) \in Seq(S) /\ Len(Tail(s)) = Len(s) - 1
           /\ DOMAIN Tail(s) = 1 .. Len(s) - 1
           /\ \A i \in 1 .. Len(s) - 1 : Tail(s)[i] = s[i + 1]
           /\ Head(s) = s[1] /\ 1 \in DOMAIN s /\ Head(s) \in S
  OBVIOUS

LEMMA AppendFacts ==
    ASSUME NEW S, NEW s \in Seq(S), NEW e \in S
    PROVE  /\ Append(s, e) \in Seq(S) /\ Len(Append(s, e)) = Len(s) + 1
           /\ DOMAIN Append(s, e) = 1 .. Len(s) + 1
           /\ \A i \in 1 .. Len(s) : Append(s, e)[i] = s[i]
           /\ Append(s, e)[Len(s) + 1] = e
  OBVIOUS

LEMMA FullFacts ==
    /\ Full \in Seq(Cell) /\ Len(Full) = MaxConnections
    /\ DOMAIN Full = 1 .. MaxConnections
    /\ \A i \in 1 .. MaxConnections : Full[i] = None
  BY BlockingPoolAssumption DEF Full, Cell

LEMMA Fresh ==
    /\ FreeQueues # {} => FreshQueue \in Queue /\ FreshQueue \notin UsedQueues
    /\ FreeConns # {} => FreshConn \in Conn /\ FreshConn \notin UsedConns
  BY DEF FreeQueues, FreeConns, FreshQueue, FreshConn

LEMMA NotUsed ==
    ASSUME NEW c, c \notin UsedConns
    PROVE  /\ c \notin connections
           /\ \A t \in Thread : c \notin Has(t)
           /\ \A q \in Live : c \notin Range(items[q])
<1> DEFINE H == UNION {Has(t) : t \in Thread}
           Q == UNION {Range(items[q]) : q \in Live}
<1>1. UsedConns = connections \cup (Q \cup H)
  BY DEF UsedConns, Placed, Live
<1>2. \A t \in Thread : Has(t) \subseteq H
  OBVIOUS
<1>3. \A q \in Live : Range(items[q]) \subseteq Q
  OBVIOUS
<1> HIDE DEF H, Q
<1> QED
  BY <1>1, <1>2, <1>3

(* TypeOK in its parts: the pool's attributes, the locals, and that a      *)
(* thread has no connection but to the node it asked for.                  *)
TablesOK ==
    /\ items \in [Queue -> Seq(Cell)]
    /\ \A q \in Queue : Len(items[q]) <= MaxConnections
    /\ DOMAIN byNode \subseteq Range(Name) /\ Range(byNode) \subseteq Queue
    /\ group \in Queue
    /\ connections \subseteq Conn /\ resets \in 0 .. MaxResets
    /\ nodeOf \in [Conn -> Node \cup {None}]

OwnNode == \A t \in Thread : run[t].conn # None => nodeOf[run[t].conn] = run[t].node

Types == TablesOK /\ RunOK /\ OwnNode

LEMMA TypesGiveTypeOK == Types => TypeOK
<1> SUFFICES ASSUME Types PROVE TypeOK
  OBVIOUS
<1>1. \A t \in Thread :
          /\ run[t].pc \in {"idle", "get_pool", "add_pool", "get", "put_back", "held", "put", "reset"}
          /\ run[t].others \in Seq(Conn) /\ run[t].conn \in Conn \cup {None}
          /\ run[t].pc \in {"add_pool", "get", "put_back", "put"} => run[t].pool \in Queue
          /\ run[t].others # <<>> => run[t].pc \in {"get", "put_back"}
          /\ run[t].conn # None => nodeOf[run[t].conn] = run[t].node
  BY DEF Types, RunOK, OwnNode, FrameOK, Frame, Cell
<1> QED
  BY <1>1 DEF Types, TablesOK, TypeOK, Cell

LEMMA FrameOf ==
    ASSUME RunOK, NEW t \in Thread
    PROVE  FrameOK(run[t])
  BY DEF RunOK

LEMMA IdleFrame == FrameOK(Idle) /\ Idle.conn = None /\ Idle.others = <<>> /\ Idle.pool = None
  BY BlockingPoolAssumption DEF FrameOK, Frame, Idle, Cell

LEMMA TypesInit == Init => Types
<1> SUFFICES ASSUME Init PROVE Types
  OBVIOUS
<1> USE BlockingPoolAssumption
<1>1. group \in Queue
  BY DEF Init
<1>2. /\ items \in [Queue -> Seq(Cell)]
      /\ \A q \in Queue : Len(items[q]) <= MaxConnections
  BY FullFacts DEF Init
<1>3. TablesOK
  BY <1>1, <1>2 DEF Init, TablesOK, Range
<1>4. FrameOK(Idle) /\ Idle.conn = None
  BY IdleFrame
<1>5. RunOK /\ OwnNode
  <2> HIDE DEF Idle
  <2> QED
    BY <1>4 DEF Init, RunOK, OwnNode
<1> QED
  BY <1>3, <1>5 DEF Types

(* A step that gives a thread locals it may have keeps all the locals.     *)
LEMMA NextFrame ==
    ASSUME RunOK, NEW t \in Thread, NEW r, FrameOK(r), Locals(t, r)
    PROVE  RunOK' /\ run'[t] = r /\ \A u \in Thread : u # t => run'[u] = run[u]
<1>1. /\ DOMAIN run' = Thread /\ run'[t] = r
      /\ \A u \in Thread : u # t => run'[u] = run[u]
  BY DEF Locals, RunOK
<1>2. \A u \in Thread : FrameOK(run'[u])
  <2>1. \A u \in Thread : u = t \/ run'[u] = run[u]
    BY <1>1
  <2> QED
    BY <1>1, <2>1 DEF RunOK
<1>3. RunOK'
  BY <1>1, <1>2 DEF RunOK, FrameOK
<1> QED
  BY <1>1, <1>3

LEMMA NextLocals ==
    ASSUME Types, NEW t \in Thread, NEW r, FrameOK(r), Locals(t, r), nodeOf' = nodeOf,
           r.conn # None => nodeOf[r.conn] = r.node
    PROVE  RunOK' /\ OwnNode'
<1>1. RunOK' /\ run'[t] = r /\ \A u \in Thread : u # t => run'[u] = run[u]
  BY NextFrame DEF Types
<1> QED
  BY <1>1 DEF Types, OwnNode

(* The locals that a step of get_connection_by_node or release leaves.     *)
LEMMA TypesPools ==
    ASSUME Types, NEW t \in Thread,
           \/ \E n \in Node : Call(t, n)
           \/ GetPool(t) \/ MissingPool(t) \/ AddPool(t) \/ Release(t)
    PROVE  Types'
<1> DEFINE f == run[t]
<1>0. /\ FrameOK(f) /\ TablesOK
      /\ f.conn # None => nodeOf[f.conn] = f.node
  BY DEF Types, OwnNode, RunOK
<1>1. CASE \E n \in Node : Call(t, n)
  <2>1. PICK n \in Node : Call(t, n)
    BY <1>1
  <2>2. FrameOK([Idle EXCEPT !.pc = "get_pool", !.node = n])
    BY IdleFrame, BlockingPoolAssumption DEF FrameOK, Frame
  <2>3. RunOK' /\ OwnNode'
    BY <2>1, <2>2, NextLocals DEF Call, Idle
  <2> QED
    BY <1>0, <2>1, <2>3 DEF Call, Types, TablesOK
<1>2. ASSUME NEW q \in Queue, Using(t, q), f.pc \in {"get_pool", "add_pool"}, nodeOf' = nodeOf
      PROVE  RunOK' /\ OwnNode'
  <2> DEFINE r == [f EXCEPT !.pool = q, !.pc = IF f.conn = None THEN "get" ELSE "put"]
  <2>1. q # None /\ f \in Frame /\ f.others = <<>>
    BY <1>0, <1>2, BlockingPoolAssumption DEF FrameOK
  <2>2. FrameOK(r) /\ r.conn = f.conn /\ r.node = f.node
    BY <1>0, <1>2, <2>1 DEF FrameOK, Frame
  <2>3. Locals(t, r)
    BY <1>2 DEF Using
  <2> HIDE DEF r, f
  <2> QED
    BY <1>0, <1>2, <2>2, <2>3, NextLocals
<1>3. CASE GetPool(t)
  <2> DEFINE q == IF PerNode THEN byNode[Key(t)] ELSE group
  <2>1. q \in Queue
    BY <1>0, <1>3 DEF GetPool, TablesOK, Range
  <2>2. RunOK' /\ OwnNode'
    BY <1>2, <1>3, <2>1 DEF GetPool
  <2> QED
    BY <1>0, <1>3, <2>2 DEF GetPool, Types, TablesOK
<1>4. CASE MissingPool(t)
  <2>1. FreshQueue \in Queue /\ FreshQueue # None
    BY <1>4, Fresh, BlockingPoolAssumption DEF MissingPool
  <2>2. FrameOK([f EXCEPT !.pool = FreshQueue, !.pc = "add_pool"])
    BY <1>0, <1>4, <2>1 DEF MissingPool, FrameOK, Frame
  <2>3. RunOK' /\ OwnNode'
    BY <1>0, <1>4, <2>2, NextLocals DEF MissingPool, FrameOK, Frame
  <2>4. TablesOK'
    BY <1>0, <1>4, <2>1, FullFacts, BlockingPoolAssumption DEF MissingPool, TablesOK
  <2> QED
    BY <2>3, <2>4 DEF Types
<1>5. CASE AddPool(t)
  <2>1. f.pool \in Queue /\ f.node \in Node /\ f.pc = "add_pool"
    BY <1>0, <1>5, BlockingPoolAssumption DEF AddPool, FrameOK, Frame
  <2>2. RunOK' /\ OwnNode'
    BY <1>2, <1>5, <2>1 DEF AddPool
  <2>3. Key(t) \in Range(Name)
    BY <2>1, BlockingPoolAssumption DEF Key, Range
  <2>4. TablesOK'
    BY <1>0, <1>5, <2>1, <2>3 DEF AddPool, TablesOK, Range
  <2> QED
    BY <2>2, <2>4 DEF Types
<1>6. CASE Release(t)
  <2>1. FrameOK([f EXCEPT !.pc = "get_pool"])
    BY <1>0, <1>6 DEF Release, FrameOK, Frame
  <2>2. RunOK' /\ OwnNode'
    BY <1>0, <1>6, <2>1, NextLocals DEF Release, Goto, FrameOK, Frame
  <2> QED
    BY <1>0, <1>6, <2>2 DEF Release, Types, TablesOK
<1> QED
  BY <1>1, <1>3, <1>4, <1>5, <1>6

(* Where a step takes something off a queue, or puts something back.       *)
LEMMA QueueOf ==
    ASSUME Types, NEW t \in Thread, run[t].pc \in {"add_pool", "get", "put_back", "put"}
    PROVE  /\ run[t].pool \in Queue /\ run[t].pool # None /\ run[t].pool \in UsedQueues
           /\ Queued(t) \in Seq(Cell) /\ Len(Queued(t)) <= MaxConnections
           /\ Queued(t) = items[run[t].pool]
  BY DEF Types, TablesOK, RunOK, FrameOK, Frame, Queued, UsedQueues

LEMMA TypesGet ==
    ASSUME Types, NEW t \in Thread,
           Get(t) \/ GetOther(t) \/ Evict(t) \/ NoConnection(t)
    PROVE  Types'
<1> DEFINE f == run[t]
           s == Queued(t)
           x == Last(s)
<1>0. /\ FrameOK(f) /\ TablesOK
      /\ f.conn # None => nodeOf[f.conn] = f.node
      /\ f.pc = "get" /\ f.pool \in Queue /\ f.pool # None
      /\ s \in Seq(Cell) /\ Len(s) <= MaxConnections /\ s = items[f.pool]
      /\ f.conn = None /\ f.others \in Seq(Conn)
  <2>1. f.pc = "get"
    BY DEF Get, GetOther, Evict, NoConnection, Getting, TimedOut
  <2> QED
    BY <2>1, QueueOf DEF Types, OwnNode, RunOK, FrameOK, Frame
<1>1. ASSUME Pop(t), s # <<>>,
             UNCHANGED <<byNode, group, connections, nodeOf, resets>>
      PROVE  TablesOK' /\ x \in Cell
  <2>1. /\ Front(s) \in Seq(Cell) /\ Len(Front(s)) <= MaxConnections /\ x \in Cell
    BY <1>0, <1>1, FrontFacts, BlockingPoolAssumption
  <2>2. items' = [items EXCEPT ![f.pool] = Front(s)]
    BY <1>0, <1>1 DEF Pop
  <2> HIDE DEF s, x, f
  <2> QED
    BY <1>0, <1>1, <2>1, <2>2 DEF TablesOK
<1>2. CASE Get(t)
  <2>1. TablesOK' /\ x \in Cell
    BY <1>1, <1>2 DEF Get, Getting
  <2>2. x # None => nodeOf[x] = f.node
    BY <1>2 DEF Get, TopMatches
  <2> DEFINE r == [f EXCEPT !.conn = x, !.pc = "put_back"]
  <2>3. FrameOK(r) /\ r.conn = x /\ r.node = f.node
    <3> HIDE DEF x, f
    <3> QED
      BY <1>0, <2>1 DEF FrameOK, Frame
  <2>4. Locals(t, r) /\ nodeOf' = nodeOf
    BY <1>2 DEF Get
  <2> HIDE DEF r, x, f
  <2>5. RunOK' /\ OwnNode'
    BY <2>2, <2>3, <2>4, NextLocals
  <2> QED
    BY <2>1, <2>5 DEF Types
<1>3. CASE GetOther(t)
  <2>1. TablesOK' /\ x \in Conn
    BY <1>1, <1>3 DEF GetOther, Getting, TopMatches, Cell
  <2> DEFINE r == [f EXCEPT !.others = Append(@, x)]
  <2>3. FrameOK(r) /\ r.conn = None
    <3>1. Append(f.others, x) \in Seq(Conn)
      BY <1>0, <2>1, AppendFacts
    <3> HIDE DEF x, f
    <3> QED
      BY <1>0, <3>1 DEF FrameOK, Frame
  <2>4. Locals(t, r) /\ nodeOf' = nodeOf
    BY <1>3 DEF GetOther
  <2> HIDE DEF r, x, f
  <2>5. RunOK' /\ OwnNode'
    BY <2>3, <2>4, NextLocals
  <2> QED
    BY <2>1, <2>5 DEF Types
<1>4. CASE Evict(t)
  <2>1. TablesOK'
    BY <1>0, <1>4 DEF Evict, TablesOK
  <2> DEFINE r == [f EXCEPT !.others = Front(@), !.pc = "put_back"]
  <2>3. FrameOK(r) /\ r.conn = None
    <3>1. f.others # <<>>
      BY <1>0, <1>4, SeqFacts, BlockingPoolAssumption DEF Evict, AllAreOthers
    <3>2. Front(f.others) \in Seq(Conn)
      BY <1>0, <3>1, FrontFacts
    <3> HIDE DEF f
    <3> QED
      BY <1>0, <3>2 DEF FrameOK, Frame
  <2>4. Locals(t, r) /\ nodeOf' = nodeOf
    BY <1>4 DEF Evict
  <2> HIDE DEF r, f
  <2>5. RunOK' /\ OwnNode'
    BY <2>3, <2>4, NextLocals
  <2> QED
    BY <2>1, <2>5 DEF Types
<1>5. CASE NoConnection(t)
  <2>1. FrameOK(Idle) /\ Idle.conn = None
    BY IdleFrame
  <2> HIDE DEF Idle
  <2>2. RunOK' /\ OwnNode'
    BY <1>5, <2>1, NextLocals DEF NoConnection
  <2> QED
    BY <1>0, <1>5, <2>2 DEF NoConnection, TablesOK, Types
<1> QED
  BY <1>2, <1>3, <1>4, <1>5

LEMMA TypesPutBack ==
    ASSUME Types, NEW t \in Thread,
           PutBack(t) \/ PutBackFull(t) \/ Reuse(t) \/ MakeConnection(t)
    PROVE  Types'
<1> DEFINE f == run[t]
           s == Queued(t)
<1>0. /\ FrameOK(f) /\ TablesOK
      /\ f.conn # None => nodeOf[f.conn] = f.node
      /\ f.pc = "put_back" /\ f.pool \in Queue /\ f.pool # None
      /\ s \in Seq(Cell) /\ Len(s) <= MaxConnections /\ s = items[f.pool]
      /\ f.others \in Seq(Conn) /\ f.node \in Node
  <2>1. f.pc = "put_back"
    BY DEF PutBack, PutBackFull, Reuse, MakeConnection, PuttingBack
  <2> QED
    BY <2>1, QueueOf DEF Types, OwnNode, RunOK, FrameOK, Frame
<1>1. CASE PutBack(t)
  <2> DEFINE x == Head(f.others)
             r == [f EXCEPT !.others = Tail(@)]
  <2>1. x \in Conn /\ Tail(f.others) \in Seq(Conn)
    BY <1>0, <1>1, TailFacts DEF PutBack, PuttingBack
  <2>2. /\ Append(s, x) \in Seq(Cell) /\ Len(Append(s, x)) <= MaxConnections
    <3>1. x \in Cell
      BY <2>1 DEF Cell
    <3>2. Len(s) # MaxConnections
      BY <1>1 DEF PutBack, IsFull
    <3> HIDE DEF x, s
    <3> QED
      BY <1>0, <3>1, <3>2, AppendFacts, BlockingPoolAssumption
  <2>3. items' = [items EXCEPT ![f.pool] = Append(s, x)]
    BY <1>0, <1>1 DEF PutBack, Push
  <2>4. TablesOK'
    <3> HIDE DEF s, x, f
    <3> QED
      BY <1>0, <1>1, <2>2, <2>3 DEF PutBack, TablesOK
  <2>5. FrameOK(r) /\ r.conn = f.conn /\ r.node = f.node
    <3> HIDE DEF f
    <3> QED
      BY <1>0, <2>1 DEF FrameOK, Frame
  <2>6. Locals(t, r) /\ nodeOf' = nodeOf
    BY <1>1 DEF PutBack
  <2> HIDE DEF r, f
  <2>7. RunOK' /\ OwnNode'
    BY <1>0, <2>5, <2>6, NextLocals
  <2> QED
    BY <2>4, <2>7 DEF Types
<1>2. CASE PutBackFull(t)
  <2>1. TablesOK'
    BY <1>0, <1>2 DEF PutBackFull, TablesOK
  <2> DEFINE r == [f EXCEPT !.others = <<>>]
  <2>2. FrameOK(r) /\ r.conn = f.conn /\ r.node = f.node
    <3> HIDE DEF f
    <3> QED
      BY <1>0, <<>> \in Seq(Conn) DEF FrameOK, Frame
  <2>3. FrameOK(Idle) /\ Idle.conn = None
    BY IdleFrame
  <2>4. (Locals(t, r) \/ Locals(t, Idle)) /\ nodeOf' = nodeOf
    BY <1>2 DEF PutBackFull
  <2> HIDE DEF r, f, Idle
  <2>5. RunOK' /\ OwnNode'
    BY <1>0, <2>2, <2>3, <2>4, NextLocals
  <2> QED
    BY <2>1, <2>5 DEF Types
<1>3. CASE Reuse(t)
  <2>1. TablesOK'
    BY <1>0, <1>3 DEF Reuse, TablesOK
  <2> DEFINE r == [f EXCEPT !.pc = "held", !.pool = None]
  <2>2. FrameOK(r) /\ r.conn = f.conn /\ r.node = f.node
    <3>1. f.conn # None /\ f.others = <<>>
      BY <1>3 DEF Reuse
    <3> HIDE DEF f
    <3> QED
      BY <1>0, <3>1 DEF FrameOK, Frame
  <2>3. Locals(t, r) /\ nodeOf' = nodeOf
    BY <1>3 DEF Reuse
  <2> HIDE DEF r, f
  <2>4. RunOK' /\ OwnNode'
    BY <1>0, <2>2, <2>3, NextLocals
  <2> QED
    BY <2>1, <2>4 DEF Types
<1>4. CASE MakeConnection(t)
  <2> DEFINE c == FreshConn
             r == [f EXCEPT !.conn = c, !.pc = "held", !.pool = None]
  <2>1. c \in Conn /\ c \notin UsedConns /\ c # None
    BY <1>4, Fresh, BlockingPoolAssumption DEF MakeConnection
  <2>2. \A u \in Thread : run[u].conn # c
    BY <2>1, NotUsed DEF Has
  <2>3. /\ Locals(t, r) /\ nodeOf' = [nodeOf EXCEPT ![c] = f.node]
        /\ connections' = connections \cup {c} /\ f.others = <<>>
        /\ UNCHANGED <<items, byNode, group, resets>>
    BY <1>4 DEF MakeConnection
  <2> HIDE DEF c
  <2>4. FrameOK(r) /\ r.conn = c /\ r.node = f.node
    <3> HIDE DEF f
    <3> QED
      BY <1>0, <2>1, <2>3 DEF FrameOK, Frame, Cell
  <2> HIDE DEF r
  <2>5. RunOK' /\ run'[t] = r /\ \A u \in Thread : u # t => run'[u] = run[u]
    BY <2>3, <2>4, NextFrame DEF Types
  <2>6. nodeOf'[c] = f.node /\ \A d \in Conn \ {c} : nodeOf'[d] = nodeOf[d]
    BY <2>1, <2>3 DEF Types, TablesOK
  <2>7. \A u \in Thread : run[u].conn \in Cell
    BY DEF Types, RunOK, FrameOK, Frame
  <2>8. OwnNode'
    BY <2>2, <2>4, <2>5, <2>6, <2>7 DEF Types, OwnNode, Cell
  <2>9. TablesOK'
    <3> HIDE DEF f
    <3> QED
      BY <1>0, <2>1, <2>3 DEF TablesOK
  <2> QED
    BY <2>5, <2>8, <2>9 DEF Types
<1> QED
  BY <1>1, <1>2, <1>3, <1>4

LEMMA TypesPut ==
    ASSUME Types, NEW t \in Thread,
           Put(t) \/ PutFull(t) \/ ResetPools(t) \/ ResetConnections(t)
    PROVE  Types'
<1> DEFINE f == run[t]
           s == Queued(t)
<1>0. FrameOK(f) /\ TablesOK /\ (f.conn # None => nodeOf[f.conn] = f.node)
  BY DEF Types, OwnNode, RunOK
<1>1. FrameOK(Idle) /\ Idle.conn = None
  BY IdleFrame
<1>2. ASSUME Locals(t, Idle), nodeOf' = nodeOf PROVE RunOK' /\ OwnNode'
  <2> HIDE DEF Idle
  <2> QED
    BY <1>1, <1>2, NextLocals
<1>3. CASE Put(t)
  <2>1. /\ s \in Seq(Cell) /\ Len(s) <= MaxConnections /\ s = items[f.pool]
        /\ f.pool \in Queue /\ f.conn \in Cell
    BY <1>0, <1>3, QueueOf DEF Put, FrameOK, Frame
  <2>2. /\ Append(s, f.conn) \in Seq(Cell) /\ Len(Append(s, f.conn)) <= MaxConnections
    <3>1. Len(s) # MaxConnections
      BY <1>3 DEF Put, IsFull
    <3> HIDE DEF s, f
    <3> QED
      BY <2>1, <3>1, AppendFacts, BlockingPoolAssumption
  <2>3. items' = [items EXCEPT ![f.pool] = Append(s, f.conn)]
    BY <2>1, <1>3 DEF Put, Push
  <2>4. TablesOK'
    <3> HIDE DEF s, f
    <3> QED
      BY <1>0, <1>3, <2>1, <2>2, <2>3 DEF Put, TablesOK
  <2> QED
    BY <1>2, <1>3, <2>4 DEF Put, Types
<1>4. CASE PutFull(t) \/ ResetConnections(t)
  <2>1. TablesOK'
    BY <1>0, <1>4 DEF PutFull, ResetConnections, TablesOK
  <2> QED
    BY <1>2, <1>4, <2>1 DEF PutFull, ResetConnections, Types
<1>5. CASE ResetPools(t)
  <2>1. FreshQueue \in Queue
    BY <1>5, Fresh DEF ResetPools
  <2>2. /\ Range(<<>>) = {} /\ DOMAIN <<>> = {}
    BY DEF Range
  <2>3. TablesOK'
    BY <1>0, <1>5, <2>1, <2>2, FullFacts, BlockingPoolAssumption DEF ResetPools, TablesOK
  <2>4. FrameOK([f EXCEPT !.pc = "reset"])
    BY <1>0, <1>5 DEF ResetPools, FrameOK, Frame
  <2>5. RunOK' /\ OwnNode'
    BY <1>0, <1>5, <2>4, NextLocals DEF ResetPools, Goto, FrameOK, Frame
  <2> QED
    BY <2>3, <2>5 DEF Types
<1> QED
  BY <1>3, <1>4, <1>5

LEMMA TypesStep == Types /\ [Next]_vars => Types'
<1> SUFFICES ASSUME Types, [Next]_vars PROVE Types'
  OBVIOUS
<1>1. CASE UNCHANGED vars
  BY <1>1 DEF vars, Types, TablesOK, RunOK, OwnNode
<1>2. CASE Next
  BY <1>2, TypesPools, TypesGet, TypesPutBack, TypesPut DEF Next, Run
<1> QED
  BY <1>1, <1>2

(* Queues keep to max_connections, a thread has a queue and a connection   *)
(* where the code uses one, and only one to the node it asked for.         *)
THEOREM BlockingTypes == Spec => []TypeOK
<1>1. Init => Types
  BY TypesInit
<1>2. Types /\ [Next]_vars => Types'
  BY TypesStep
<1>3. Types => TypeOK
  BY TypesGiveTypeOK
<1> QED
  BY <1>1, <1>2, <1>3, PTL DEF Spec

-----------------------------------------------------------------------------
(* Which connections each queue and each thread has, and that no           *)
(* connection is in two of them, nor twice in one.                         *)

ConnsIn(s) == Range(s) \ {None}
Holds(r)   == (Range(r.others) \cup {r.conn}) \ {None}

Lists == [q \in Queue |-> ConnsIn(items[q])]
Hands == [t \in Thread |-> Holds(run[t])]

Disjoint ==
    \A c \in Conn :
        /\ \A q, p \in Live : c \in Lists[q] /\ c \in Lists[p] => q = p
        /\ \A t, u \in Thread : c \in Hands[t] /\ c \in Hands[u] => t = u
        /\ \A q \in Live, t \in Thread : c \in Lists[q] => c \notin Hands[t]

OnlyOnce(s) == \A i, j \in DOMAIN s : s[i] = s[j] /\ s[i] # None => i = j

NoDoubles ==
    /\ \A q \in Live : OnlyOnce(items[q])
    /\ \A t \in Thread : OnlyOnce(run[t].others) /\ run[t].conn \notin Range(run[t].others)

Apart == Disjoint /\ NoDoubles

LEMMA FrontConns ==
    ASSUME NEW s \in Seq(Cell), s # <<>>, OnlyOnce(s)
    PROVE  OnlyOnce(Front(s)) /\ ConnsIn(Front(s)) = ConnsIn(s) \ {Last(s)}
<1>1. /\ DOMAIN Front(s) = 1 .. Len(s) - 1
      /\ \A i \in 1 .. Len(s) - 1 : Front(s)[i] = s[i]
      /\ Last(s) = s[Len(s)] /\ DOMAIN s = 1 .. Len(s) /\ Len(s) \in Nat \ {0}
  BY FrontFacts, SeqFacts
<1> DEFINE f == Front(s)
           x == Last(s)
<1> HIDE DEF f, x
<1>2. OnlyOnce(f)
  BY <1>1 DEF OnlyOnce, f
<1>3. ASSUME NEW c \in ConnsIn(s), c # x PROVE c \in ConnsIn(f)
  <2>1. PICK i \in DOMAIN s : s[i] = c
    BY DEF ConnsIn, Range
  <2>2. i \in 1 .. Len(s) - 1
    BY <1>1, <1>3, <2>1 DEF x
  <2> QED
    BY <1>1, <2>1, <2>2 DEF ConnsIn, Range, f
<1>4. ASSUME NEW c \in ConnsIn(f) PROVE c \in ConnsIn(s) /\ c # x
  <2>1. PICK i \in DOMAIN f : f[i] = c /\ c # None
    BY DEF ConnsIn, Range
  <2>2. i \in DOMAIN s /\ i # Len(s) /\ s[i] = c
    BY <1>1, <2>1 DEF f
  <2>3. Len(s) \in DOMAIN s /\ x = s[Len(s)]
    BY <1>1 DEF x
  <2> QED
    BY <2>1, <2>2, <2>3 DEF ConnsIn, Range, OnlyOnce
<1> QED
  BY <1>2, <1>3, <1>4 DEF f, x

LEMMA TailConns ==
    ASSUME NEW s \in Seq(Conn), s # <<>>, OnlyOnce(s)
    PROVE  OnlyOnce(Tail(s)) /\ Range(Tail(s)) = Range(s) \ {Head(s)} /\ Head(s) \in Range(s)
<1>1. /\ DOMAIN Tail(s) = 1 .. Len(s) - 1
      /\ \A i \in 1 .. Len(s) - 1 : Tail(s)[i] = s[i + 1]
      /\ Head(s) = s[1] /\ DOMAIN s = 1 .. Len(s) /\ Len(s) \in Nat \ {0}
      /\ \A i \in DOMAIN s : s[i] # None
  BY TailFacts, SeqFacts, BlockingPoolAssumption
<1> DEFINE f == Tail(s)
           x == Head(s)
<1> HIDE DEF f, x
<1>2. OnlyOnce(f)
  <2> SUFFICES ASSUME NEW i \in DOMAIN f, NEW j \in DOMAIN f, f[i] = f[j]
               PROVE  i = j
    BY DEF OnlyOnce
  <2>1. i + 1 \in DOMAIN s /\ j + 1 \in DOMAIN s /\ s[i + 1] = s[j + 1]
    BY <1>1 DEF f
  <2>2. i + 1 = j + 1
    BY <1>1, <2>1 DEF OnlyOnce
  <2> QED
    BY <1>1, <2>2 DEF f
<1>3. ASSUME NEW c \in Range(s), c # x PROVE c \in Range(f)
  <2>1. PICK i \in DOMAIN s : s[i] = c
    BY DEF Range
  <2>2. i - 1 \in 1 .. Len(s) - 1 /\ s[(i - 1) + 1] = c
    BY <1>1, <1>3, <2>1 DEF x
  <2>3. i - 1 \in DOMAIN f /\ f[i - 1] = c
    BY <1>1, <2>2 DEF f
  <2> QED
    BY <2>3 DEF Range
<1>4. ASSUME NEW c \in Range(f) PROVE c \in Range(s) /\ c # x
  <2>1. PICK i \in DOMAIN f : f[i] = c
    BY DEF Range
  <2>2. i + 1 \in DOMAIN s /\ i + 1 # 1 /\ s[i + 1] = c
    BY <1>1, <2>1 DEF f
  <2>3. 1 \in DOMAIN s /\ x = s[1]
    BY <1>1 DEF x
  <2> QED
    BY <1>1, <2>2, <2>3 DEF Range, OnlyOnce
<1>5. x \in Range(s)
  BY <1>1 DEF Range, x
<1> QED
  BY <1>2, <1>3, <1>4, <1>5 DEF f, x

LEMMA AppendConns ==
    ASSUME NEW s \in Seq(Cell), NEW e \in Cell, OnlyOnce(s), e \notin ConnsIn(s)
    PROVE  OnlyOnce(Append(s, e)) /\ Range(Append(s, e)) = Range(s) \cup {e}
<1>1. /\ DOMAIN Append(s, e) = 1 .. Len(s) + 1
      /\ \A i \in 1 .. Len(s) : Append(s, e)[i] = s[i]
      /\ Append(s, e)[Len(s) + 1] = e
      /\ DOMAIN s = 1 .. Len(s) /\ Len(s) \in Nat
  BY AppendFacts, SeqFacts
<1> DEFINE f == Append(s, e)
<1> HIDE DEF f
<1>2. \A i \in DOMAIN f : \/ i = Len(s) + 1 /\ f[i] = e
                          \/ i \in DOMAIN s /\ f[i] = s[i]
  BY <1>1 DEF f
<1>3. \A i \in DOMAIN s : s[i] # e \/ e = None
  BY DEF ConnsIn, Range
<1>4. OnlyOnce(f)
  BY <1>2, <1>3 DEF OnlyOnce
<1>5. \A i \in DOMAIN s : i \in DOMAIN f /\ f[i] = s[i]
  BY <1>1 DEF f
<1>6. Len(s) + 1 \in DOMAIN f /\ f[Len(s) + 1] = e
  BY <1>1 DEF f
<1>7. Range(f) = Range(s) \cup {e}
  BY <1>2, <1>5, <1>6 DEF Range
<1> QED
  BY <1>4, <1>7 DEF f

(* Exclusive says the same of positions.                                   *)
LEMMA ApartGivesExclusive ==
    ASSUME Types, Apart
    PROVE  Exclusive
<1> SUFFICES ASSUME NEW c \in Conn, NEW one \in Places(c), NEW other \in Places(c)
             PROVE  one = other
  BY DEF Exclusive
<1> DEFINE Queues(p) == \E q \in Live : \E i \in DOMAIN items[q] :
                            p = <<"queue", q, i>> /\ items[q][i] = c
           Aside(p) == \E t \in Thread : \E i \in DOMAIN run[t].others :
                            p = <<"aside", t, i>> /\ run[t].others[i] = c
           InHands(p) == \E t \in Thread : p = <<"hand", t, 0>> /\ run[t].conn = c
<1>1. \A p \in Places(c) : Queues(p) \/ Aside(p) \/ InHands(p)
  <2>1. \A p \in OnQueue(c) : Queues(p)
    BY DEF OnQueue, Positions
  <2>2. \A p \in SetAside(c) : Aside(p)
    BY DEF SetAside, Positions
  <2>3. \A p \in InHand(c) : InHands(p)
    BY DEF InHand
  <2> QED
    BY <2>1, <2>2, <2>3 DEF Places
<1>2. c # None /\ Live \subseteq Queue
  BY BlockingPoolAssumption DEF Live, UsedQueues, Types, TablesOK, RunOK, FrameOK, Frame
<1>3. \A q \in Live : \A i \in DOMAIN items[q] : items[q][i] = c => c \in Lists[q]
  BY <1>2 DEF Lists, ConnsIn, Range
<1>4. \A t \in Thread : \A i \in DOMAIN run[t].others : run[t].others[i] = c => c \in Hands[t]
  BY <1>2 DEF Hands, Holds, Range
<1>5. \A t \in Thread : run[t].conn = c => c \in Hands[t]
  BY <1>2 DEF Hands, Holds
<1>6. /\ \A q, p \in Live : c \in Lists[q] /\ c \in Lists[p] => q = p
      /\ \A t, u \in Thread : c \in Hands[t] /\ c \in Hands[u] => t = u
      /\ \A q \in Live, t \in Thread : c \in Lists[q] => c \notin Hands[t]
  BY DEF Apart, Disjoint
<1>7. CASE Queues(one) /\ Queues(other)
  BY <1>2, <1>3, <1>6, <1>7 DEF Apart, NoDoubles, OnlyOnce
<1>8. CASE Aside(one) /\ Aside(other)
  BY <1>2, <1>4, <1>6, <1>8 DEF Apart, NoDoubles, OnlyOnce
<1>9. CASE InHands(one) /\ InHands(other)
  BY <1>5, <1>6, <1>9
<1>10. ~(Aside(one) /\ InHands(other)) /\ ~(InHands(one) /\ Aside(other))
  BY <1>2, <1>4, <1>5, <1>6 DEF Apart, NoDoubles, Range
<1>11. /\ ~(Queues(one) /\ (Aside(other) \/ InHands(other)))
       /\ ~(Queues(other) /\ (Aside(one) \/ InHands(one)))
  BY <1>3, <1>4, <1>5, <1>6
<1> HIDE DEF Queues, Aside, InHands
<1> QED
  BY <1>1, <1>7, <1>8, <1>9, <1>10, <1>11

-----------------------------------------------------------------------------
(* What a step does, to the queues and the hands: a thread takes one       *)
(* connection off a queue, puts one there, makes one, lets go of some, or  *)
(* changes which queues the pool uses.                                     *)

SamePools == Live' \subseteq Live /\ Current' = Current
OthersKeep(t) == \A u \in Thread : u # t => Hands'[u] = Hands[u]
SameLists == \A q \in Live : Lists'[q] = Lists[q]

Takes(t, q, c) ==
    /\ c \in Conn /\ q \in Live /\ c \in Lists[q] /\ Lists'[q] = Lists[q] \ {c}
    /\ \A p \in Live : p # q => Lists'[p] = Lists[p]
    /\ Hands'[t] = Hands[t] \cup {c} /\ OthersKeep(t) /\ SamePools

Gives(t, q, c) ==
    /\ c \in Conn /\ q \in Live /\ c \in Hands[t] /\ Lists'[q] = Lists[q] \cup {c}
    /\ \A p \in Live : p # q => Lists'[p] = Lists[p]
    /\ Hands'[t] = Hands[t] \ {c} /\ OthersKeep(t) /\ SamePools

Makes(t, c) ==
    /\ c \in Conn /\ \A q \in Live : c \notin Lists[q]
    /\ \A u \in Thread : c \notin Hands[u]
    /\ SameLists /\ Hands'[t] = Hands[t] \cup {c} /\ OthersKeep(t) /\ SamePools

LetsGo(t) == SameLists /\ Hands'[t] \subseteq Hands[t] /\ OthersKeep(t) /\ SamePools

Repools(q) ==
    /\ Live' \subseteq Live \cup {q} /\ Current' \subseteq Current \cup {q}
    /\ \A p \in Live : p # q => Lists'[p] = Lists[p]
    /\ Lists'[q] = {}
    /\ \A u \in Thread : Hands'[u] = Hands[u]

Does(t) ==
    \/ \E q \in Live, c \in Conn : Takes(t, q, c) \/ Gives(t, q, c)
    \/ \E c \in Conn : Makes(t, c)
    \/ LetsGo(t)
    \/ \E q \in Queue : Repools(q)

(* None of these steps puts a connection in two places.                    *)
LEMMA DisjointStep ==
    ASSUME Disjoint, NEW t \in Thread, Does(t)
    PROVE  Disjoint'
<1> USE DEF SamePools, OthersKeep, SameLists
<1>1. ASSUME NEW q \in Live, NEW c \in Conn, Takes(t, q, c) PROVE Disjoint'
  BY <1>1 DEF Takes, Disjoint
<1>2. ASSUME NEW q \in Live, NEW c \in Conn, Gives(t, q, c) PROVE Disjoint'
  BY <1>2 DEF Gives, Disjoint
<1>3. ASSUME NEW c \in Conn, Makes(t, c) PROVE Disjoint'
  BY <1>3 DEF Makes, Disjoint
<1>4. CASE LetsGo(t)
  BY <1>4 DEF LetsGo, Disjoint
<1>5. ASSUME NEW q \in Queue, Repools(q) PROVE Disjoint'
  BY <1>5 DEF Repools, Disjoint
<1> QED
  BY <1>1, <1>2, <1>3, <1>4, <1>5 DEF Does

LEMMA LiveQueues ==
    ASSUME Types
    PROVE  /\ Live \subseteq Queue /\ Current \subseteq Live /\ group \in Current
           /\ \A t \in Thread : run[t].pool # None => run[t].pool \in Live
           /\ Live = ({run[t].pool : t \in Thread} \cup Current) \ {None}
  BY BlockingPoolAssumption
  DEF Live, Current, UsedQueues, Types, TablesOK, RunOK, FrameOK, Frame

(* A thread goes on, with a queue that is already in use or with none.     *)
LEMMA NextHands ==
    ASSUME Types, NEW t \in Thread, NEW r, Locals(t, r)
    PROVE  /\ Hands'[t] = Holds(r) /\ OthersKeep(t) /\ Hands[t] = Holds(run[t])
           /\ (UNCHANGED <<byNode, group>> /\ r.pool \in Live \cup {None}) => SamePools
<1>1. /\ run'[t] = r /\ \A u \in Thread : u # t => run'[u] = run[u]
  BY DEF Locals, Types, RunOK
<1>2. ASSUME UNCHANGED <<byNode, group>>, r.pool \in Live \cup {None} PROVE SamePools
  <2>1. Current' = Current
    BY <1>2 DEF Current
  <2>2. UsedQueues' = {run'[u].pool : u \in Thread} \cup Range(byNode) \cup {group}
    BY <1>2 DEF UsedQueues
  <2>3. \A u \in Thread : run'[u].pool \in Live \cup {None}
    BY <1>1, <1>2 DEF Live, UsedQueues
  <2>4. Live' \subseteq Live
    BY <2>2, <2>3 DEF Live, UsedQueues
  <2> QED
    BY <2>1, <2>4 DEF SamePools
<1> QED
  BY <1>1, <1>2 DEF Hands, OthersKeep

LEMMA NextDoubles ==
    ASSUME Types, NoDoubles, NEW t \in Thread, NEW r, Locals(t, r),
           OnlyOnce(r.others), r.conn \notin Range(r.others),
           \A q \in Live' : OnlyOnce(items'[q])
    PROVE  NoDoubles'
<1>1. /\ run'[t] = r /\ \A u \in Thread : u # t => run'[u] = run[u]
  BY DEF Locals, Types, RunOK
<1>2. \A u \in Thread : OnlyOnce(run'[u].others) /\ run'[u].conn \notin Range(run'[u].others)
  <2>1. \A u \in Thread : u = t \/ run'[u] = run[u]
    BY <1>1
  <2> QED
    BY <1>1, <2>1 DEF NoDoubles
<1> QED
  BY <1>2 DEF NoDoubles, OnlyOnce

LEMMA NoneTwice == OnlyOnce(<<>>) /\ Range(<<>>) = {} /\ OnlyOnce(Full) /\ ConnsIn(Full) = {}
  BY FullFacts DEF OnlyOnce, ConnsIn, Range

(* Steps that only change locals, and let go of what they forget.          *)
LEMMA LetsGoOf ==
    ASSUME Types, NoDoubles, NEW t \in Thread, NEW r, Locals(t, r),
           UNCHANGED <<items, byNode, group>>, r.pool \in Live \cup {None},
           Holds(r) \subseteq Holds(run[t]),
           OnlyOnce(r.others), r.conn \notin Range(r.others)
    PROVE  LetsGo(t) /\ NoDoubles'
<1>1. Hands'[t] \subseteq Hands[t] /\ OthersKeep(t) /\ SamePools
  BY NextHands
<1>2. SameLists
  BY DEF SameLists, Lists
<1>3. \A q \in Live' : OnlyOnce(items'[q])
  BY <1>1 DEF SamePools, NoDoubles
<1> QED
  BY <1>1, <1>2, <1>3, NextDoubles DEF LetsGo

(* Nobody else uses a queue that is being added to _pool_by_node, and it   *)
(* has no connections yet.                                                 *)
NewPool ==
    \A t \in Thread :
        run[t].pc = "add_pool" =>
            /\ Lists[run[t].pool] = {} /\ run[t].pool \notin Current
            /\ \A u \in Thread : u # t => run[u].pool # run[t].pool

LEMMA LocalsLetGo ==
    ASSUME Types, NoDoubles, NEW t \in Thread,
           \/ \E n \in Node : Call(t, n)
           \/ GetPool(t) \/ Evict(t) \/ NoConnection(t) \/ PutBackFull(t) \/ Reuse(t)
           \/ Release(t) \/ PutFull(t) \/ ResetConnections(t)
    PROVE  LetsGo(t) /\ NoDoubles'
<1> DEFINE f == run[t]
<1>0. /\ f \in Frame /\ OnlyOnce(f.others) /\ f.conn \notin Range(f.others)
      /\ f.pool \in Live \cup {None} /\ f.others \in Seq(Conn)
  BY LiveQueues DEF Types, RunOK, FrameOK, NoDoubles, Frame
<1>1. ASSUME NEW r, Locals(t, r), UNCHANGED <<items, byNode, group>>,
             r.pool \in Live \cup {None}, r.others = f.others \/ r.others = <<>>,
             r.conn = f.conn \/ r.conn = None
      PROVE  LetsGo(t) /\ NoDoubles'
  <2>1. OnlyOnce(r.others) /\ Range(r.others) \subseteq Range(f.others)
    BY <1>0, <1>1, NoneTwice
  <2>2. \A c \in Range(f.others) : c # None
    BY <1>0, BlockingPoolAssumption DEF Range
  <2>3. r.conn \notin Range(r.others)
    BY <1>0, <1>1, <2>1, <2>2
  <2>4. Holds(r) \subseteq Holds(f)
    BY <1>1, <2>1 DEF Holds
  <2> HIDE DEF f
  <2> QED
    BY <1>1, <2>1, <2>3, <2>4, LetsGoOf DEF f
<1>2. ASSUME Locals(t, Idle), UNCHANGED <<items, byNode, group>> PROVE LetsGo(t) /\ NoDoubles'
  <2> HIDE DEF f
  <2> QED
    BY <1>1, <1>2, IdleFrame
<1>3. CASE \E n \in Node : Call(t, n)
  <2>1. PICK n \in Node : Call(t, n)
    BY <1>3
  <2> DEFINE r == [Idle EXCEPT !.pc = "get_pool", !.node = n]
  <2>2. r.pool = None /\ r.others = <<>> /\ r.conn = None
    BY DEF Idle
  <2>3. Locals(t, r) /\ UNCHANGED <<items, byNode, group>>
    BY <2>1 DEF Call
  <2> HIDE DEF r, f
  <2> QED
    BY <1>1, <2>2, <2>3
<1>4. CASE GetPool(t)
  <2> DEFINE q == IF PerNode THEN byNode[Key(t)] ELSE group
             r == [f EXCEPT !.pool = q, !.pc = IF f.conn = None THEN "get" ELSE "put"]
  <2>1. q \in Live
    <3>1. q \in Current
      BY <1>4 DEF GetPool, Current, Range
    <3> QED
      BY <3>1, LiveQueues
  <2>2. r.pool = q /\ r.others = f.others /\ r.conn = f.conn
    BY <1>0 DEF Frame
  <2>3. Locals(t, r) /\ UNCHANGED <<items, byNode, group>>
    BY <1>4 DEF GetPool, Using
  <2> HIDE DEF r, f, q
  <2> QED
    BY <1>1, <2>1, <2>2, <2>3
<1>5. CASE Evict(t)
  <2> DEFINE r == [f EXCEPT !.others = Front(@), !.pc = "put_back"]
             s == f.others
  <2>1. s # <<>> /\ s \in Seq(Conn) /\ s \in Seq(Cell)
    BY <1>0, <1>5, SeqFacts, BlockingPoolAssumption DEF Evict, AllAreOthers, Cell
  <2>2. r.others = Front(s) /\ r.conn = f.conn /\ r.pool = f.pool
    BY <1>0 DEF Frame
  <2>3. OnlyOnce(Front(s)) /\ ConnsIn(Front(s)) = ConnsIn(s) \ {Last(s)}
    BY <1>0, <2>1, FrontConns
  <2>4. \A c \in Range(Front(s)) : c \in Range(s)
    BY <2>1, FrontFacts, SeqFacts DEF Range
  <2>5. r.conn \notin Range(r.others) /\ Holds(r) \subseteq Holds(f)
    BY <1>0, <2>2, <2>4 DEF Holds
  <2>6. Locals(t, r) /\ UNCHANGED <<items, byNode, group>>
    BY <1>5 DEF Evict
  <2> HIDE DEF r, f, s
  <2> QED
    BY <1>0, <2>2, <2>3, <2>5, <2>6, LetsGoOf DEF f
<1>6. CASE PutBackFull(t)
  <2> DEFINE r == [f EXCEPT !.others = <<>>]
  <2>1. r.pool = f.pool /\ r.others = <<>> /\ r.conn = f.conn
    BY <1>0 DEF Frame
  <2>2. (Locals(t, r) \/ Locals(t, Idle)) /\ UNCHANGED <<items, byNode, group>>
    BY <1>6 DEF PutBackFull
  <2> HIDE DEF r, f
  <2> QED
    BY <1>0, <1>1, <1>2, <2>1, <2>2
<1>7. CASE Reuse(t) \/ Release(t)
  <2> DEFINE r == [f EXCEPT !.pc = "held", !.pool = None]
             p == [f EXCEPT !.pc = "get_pool"]
  <2>1. /\ r.pool = None /\ r.others = f.others /\ r.conn = f.conn
        /\ p.pool = f.pool /\ p.others = f.others /\ p.conn = f.conn
    BY <1>0 DEF Frame
  <2>2. (Locals(t, r) \/ Locals(t, p)) /\ UNCHANGED <<items, byNode, group>>
    BY <1>7 DEF Reuse, Release, Goto
  <2> HIDE DEF r, f, p
  <2> QED
    BY <1>0, <1>1, <2>1, <2>2
<1>8. CASE NoConnection(t) \/ PutFull(t) \/ ResetConnections(t)
  BY <1>2, <1>8 DEF NoConnection, PutFull, ResetConnections
<1> QED
  BY <1>3, <1>4, <1>5, <1>6, <1>7, <1>8

(* What a step leaves of the queues, when it changes one.                  *)
LEMMA NextLists ==
    ASSUME Types, NEW q \in Queue, NEW s, items' = [items EXCEPT ![q] = s]
    PROVE  /\ Lists'[q] = ConnsIn(s) /\ items'[q] = s
           /\ \A p \in Queue : p # q => Lists'[p] = Lists[p] /\ items'[p] = items[p]
           /\ Lists[q] = ConnsIn(items[q])
  BY DEF Types, TablesOK, Lists

LEMMA OffTheQueue ==
    ASSUME Types, Apart, NEW t \in Thread, Getting(t), Pop(t), NEW r, Locals(t, r),
           UNCHANGED <<byNode, group>>,
           r.pool = run[t].pool, Last(Queued(t)) \in Conn,
           OnlyOnce(r.others), r.conn \notin Range(r.others),
           Holds(r) = Holds(run[t]) \cup {Last(Queued(t))}
    PROVE  Takes(t, run[t].pool, Last(Queued(t))) /\ NoDoubles'
<1> DEFINE q == run[t].pool
           s == Queued(t)
           c == Last(s)
<1>1. /\ q \in Queue /\ q \in Live /\ s \in Seq(Cell) /\ s = items[q] /\ s # <<>>
      /\ items' = [items EXCEPT ![q] = Front(s)]
  BY QueueOf, LiveQueues DEF Getting, Pop
<1>2. OnlyOnce(s)
  BY <1>1 DEF Apart, NoDoubles
<1>3. /\ OnlyOnce(Front(s)) /\ ConnsIn(Front(s)) = ConnsIn(s) \ {c}
      /\ c \in ConnsIn(s)
  <2>1. c \in Range(s)
    BY <1>1, FrontFacts DEF Range
  <2>2. c # None
    BY BlockingPoolAssumption
  <2> QED
    BY <1>1, <1>2, <2>1, <2>2, FrontConns DEF ConnsIn
<1> HIDE DEF s, c, q
<1>4. /\ Lists'[q] = Lists[q] \ {c} /\ c \in Lists[q] /\ items'[q] = Front(s)
      /\ \A p \in Queue : p # q => Lists'[p] = Lists[p] /\ items'[p] = items[p]
  BY <1>1, <1>3, NextLists
<1>5. Hands'[t] = Hands[t] \cup {c} /\ OthersKeep(t) /\ SamePools
  BY <1>1, NextHands DEF c, s, q
<1>6. Live' \subseteq Live /\ Live \subseteq Queue
  BY <1>5, LiveQueues DEF SamePools
<1>7. \A p \in Live' : OnlyOnce(items'[p])
  <2>1. \A p \in Live' : p # q => OnlyOnce(items[p]) /\ items'[p] = items[p]
    BY <1>4, <1>6 DEF Apart, NoDoubles
  <2> QED
    BY <1>3, <1>4, <2>1
<1>8. NoDoubles'
  BY <1>7, NextDoubles DEF Apart
<1>9. Takes(t, q, c)
  BY <1>1, <1>4, <1>5, <1>6 DEF Takes, c, s
<1> QED
  BY <1>8, <1>9 DEF q, c, s

LEMMA GetDoes ==
    ASSUME Types, Apart, NEW t \in Thread, Get(t)
    PROVE  /\ \/ \E c \in Conn : Takes(t, run[t].pool, c)
              \/ LetsGo(t)
           /\ NoDoubles'
<1> DEFINE f == run[t]
           q == f.pool
           s == Queued(t)
           c == Last(s)
           r == [f EXCEPT !.conn = c, !.pc = "put_back"]
<1>1. /\ f \in Frame /\ f.others \in Seq(Conn) /\ f.conn = None /\ f.pc = "get"
      /\ q \in Queue /\ q \in Live /\ s \in Seq(Cell) /\ s = items[q] /\ s # <<>>
      /\ items' = [items EXCEPT ![q] = Front(s)]
  <2>1. f.pc = "get"
    BY DEF Get, Getting
  <2> QED
    BY <2>1, QueueOf, LiveQueues DEF Get, Getting, Pop, Types, RunOK, FrameOK, Frame
<1>2. Locals(t, r) /\ UNCHANGED <<byNode, group>> /\ Getting(t) /\ Pop(t)
  BY DEF Get
<1>3. r.pool = q /\ r.others = f.others /\ r.conn = c
  <2> HIDE DEF c
  <2> QED
    BY <1>1 DEF Frame
<1>5. OnlyOnce(f.others) /\ OnlyOnce(s)
  BY <1>1 DEF Apart, NoDoubles
<1>6. /\ c \in Cell /\ OnlyOnce(Front(s)) /\ ConnsIn(Front(s)) = ConnsIn(s) \ {c}
      /\ c \in Range(s)
  <2>1. c \in Range(s)
    BY <1>1, FrontFacts DEF Range
  <2> QED
    BY <1>1, <1>5, <2>1, FrontConns, FrontFacts
<1>7. c \notin Range(f.others)
  <2>1. CASE c = None
    BY <1>1, <2>1, BlockingPoolAssumption DEF Range
  <2>2. CASE c # None
    <3>1. c \in Lists[q] /\ c \in Conn
      BY <1>1, <1>6, <2>2 DEF Lists, ConnsIn, Cell
    <3>2. c \notin Hands[t]
      BY <1>1, <3>1 DEF Apart, Disjoint
    <3> QED
      BY <2>2, <3>2 DEF Hands, Holds
  <2> QED
    BY <2>1, <2>2
<1> HIDE DEF c, r, s, q
<1>8. CASE c = None
  <2>1. /\ Lists'[q] = Lists[q] /\ items'[q] = Front(s)
        /\ \A p \in Queue : p # q => Lists'[p] = Lists[p] /\ items'[p] = items[p]
    BY <1>1, <1>6, <1>8, NextLists DEF ConnsIn
  <2>2. Hands'[t] \subseteq Hands[t] /\ OthersKeep(t) /\ SamePools
    BY <1>1, <1>2, <1>3, <1>8, NextHands DEF Holds
  <2>3. Live' \subseteq Live /\ Live \subseteq Queue
    BY <2>2, LiveQueues DEF SamePools
  <2>4. LetsGo(t)
    <3>1. \A p \in Live : Lists'[p] = Lists[p]
      BY <2>1, <2>3
    <3> QED
      BY <2>2, <3>1 DEF LetsGo, SameLists
  <2>5. \A p \in Live' : OnlyOnce(items'[p])
    <3>1. \A p \in Live' : p # q => OnlyOnce(items[p]) /\ items'[p] = items[p]
      BY <2>1, <2>3 DEF Apart, NoDoubles
    <3> QED
      BY <1>6, <2>1, <3>1
  <2>6. NoDoubles'
    BY <1>2, <1>3, <1>5, <1>7, <2>5, NextDoubles DEF Apart
  <2> QED
    BY <2>4, <2>6
<1>9. CASE c # None
  <2>1. c \in Conn /\ Holds(r) = Holds(f) \cup {c}
    BY <1>1, <1>3, <1>6, <1>9 DEF Holds, Cell
  <2>2. Takes(t, q, c) /\ NoDoubles'
    <3> HIDE DEF f
    <3> QED
      BY <1>2, <1>3, <1>5, <1>7, <2>1, OffTheQueue DEF f, q, c, s
  <2> QED
    BY <2>1, <2>2 DEF q
<1> QED
  BY <1>8, <1>9

LEMMA GetOtherDoes ==
    ASSUME Types, Apart, NEW t \in Thread, GetOther(t)
    PROVE  (\E c \in Conn : Takes(t, run[t].pool, c)) /\ NoDoubles'
<1> DEFINE f == run[t]
           q == f.pool
           s == Queued(t)
           c == Last(s)
           r == [f EXCEPT !.others = Append(@, c)]
<1>1. /\ f \in Frame /\ f.others \in Seq(Conn) /\ f.conn = None
      /\ q \in Queue /\ q \in Live /\ s \in Seq(Cell) /\ s = items[q] /\ s # <<>>
  <2>1. f.pc = "get"
    BY DEF GetOther, Getting
  <2> QED
    BY <2>1, QueueOf, LiveQueues DEF GetOther, Getting, Types, RunOK, FrameOK, Frame
<1>2. Locals(t, r) /\ UNCHANGED <<byNode, group>> /\ Getting(t) /\ Pop(t)
  BY DEF GetOther
<1>3. c \in Conn /\ c \in Range(s) /\ c # None
  <2>1. c \in Range(s) /\ c \in Cell
    BY <1>1, FrontFacts DEF Range
  <2>2. c # None
    BY DEF GetOther, TopMatches
  <2> QED
    BY <2>1, <2>2 DEF Cell
<1>4. c \notin Range(f.others)
  <2>1. c \in Lists[q]
    BY <1>1, <1>3 DEF Lists, ConnsIn
  <2>2. c \notin Hands[t]
    BY <1>1, <1>3, <2>1 DEF Apart, Disjoint
  <2> QED
    BY <1>3, <2>2 DEF Hands, Holds
<1> HIDE DEF c, s, q
<1>5. /\ OnlyOnce(Append(f.others, c)) /\ Range(Append(f.others, c)) = Range(f.others) \cup {c}
  <2>1. f.others \in Seq(Cell) /\ c \in Cell /\ c \notin ConnsIn(f.others)
    BY <1>1, <1>3, <1>4 DEF Cell, ConnsIn
  <2>2. OnlyOnce(f.others)
    BY DEF Apart, NoDoubles
  <2> QED
    BY <2>1, <2>2, AppendConns
<1>6. r.others = Append(f.others, c) /\ r.conn = None /\ r.pool = f.pool
  BY <1>1 DEF Frame
<1> HIDE DEF r
<1>7. r.conn \notin Range(r.others) /\ Holds(r) = Holds(f) \cup {c}
  <2>1. None \notin Range(f.others)
    BY <1>1, BlockingPoolAssumption DEF Range
  <2> QED
    BY <1>1, <1>3, <1>5, <1>6, <2>1 DEF Holds
<1>8. Takes(t, q, c) /\ NoDoubles'
  <2> HIDE DEF f
  <2> QED
    BY <1>2, <1>3, <1>5, <1>6, <1>7, OffTheQueue DEF f, q, c, s
<1> QED
  BY <1>3, <1>8 DEF q

(* A connection goes back on the queue it was taken for.                   *)
LEMMA OnTheQueue ==
    ASSUME Types, Apart, NEW t \in Thread, run[t].pc \in {"put_back", "put"},
           NEW c \in Conn, c \in Hands[t], Push(t, c), NEW r, Locals(t, r),
           UNCHANGED <<byNode, group>>, r.pool \in Live \cup {None},
           OnlyOnce(r.others), r.conn \notin Range(r.others),
           Holds(r) = Holds(run[t]) \ {c}
    PROVE  Gives(t, run[t].pool, c) /\ NoDoubles'
<1> DEFINE q == run[t].pool
           s == Queued(t)
<1>1. /\ q \in Queue /\ q \in Live /\ s \in Seq(Cell) /\ s = items[q]
      /\ items' = [items EXCEPT ![q] = Append(s, c)]
  BY QueueOf, LiveQueues DEF Push
<1> HIDE DEF s, q
<1>2. c \in Cell /\ c \notin ConnsIn(s) /\ c # None /\ OnlyOnce(s)
  <2>1. c \notin Lists[q]
    BY <1>1 DEF Apart, Disjoint
  <2> QED
    BY <1>1, <2>1, BlockingPoolAssumption DEF Cell, Lists, Apart, NoDoubles
<1>3. OnlyOnce(Append(s, c)) /\ ConnsIn(Append(s, c)) = ConnsIn(s) \cup {c}
  BY <1>1, <1>2, AppendConns DEF ConnsIn
<1>4. /\ Lists'[q] = Lists[q] \cup {c} /\ items'[q] = Append(s, c)
      /\ \A p \in Queue : p # q => Lists'[p] = Lists[p] /\ items'[p] = items[p]
  BY <1>1, <1>3, NextLists
<1>5. Hands'[t] = Hands[t] \ {c} /\ OthersKeep(t) /\ SamePools
  BY NextHands
<1>6. Live' \subseteq Live /\ Live \subseteq Queue
  BY <1>5, LiveQueues DEF SamePools
<1>7. \A p \in Live' : OnlyOnce(items'[p])
  <2>1. \A p \in Live' : p # q => OnlyOnce(items[p]) /\ items'[p] = items[p]
    BY <1>4, <1>6 DEF Apart, NoDoubles
  <2> QED
    BY <1>3, <1>4, <2>1
<1>8. NoDoubles'
  BY <1>7, NextDoubles DEF Apart
<1>9. Gives(t, q, c)
  BY <1>1, <1>4, <1>5, <1>6 DEF Gives
<1> QED
  BY <1>8, <1>9 DEF q

LEMMA PutsDo ==
    ASSUME Types, Apart, NEW t \in Thread, PutBack(t) \/ Put(t)
    PROVE  (\E c \in Conn : Gives(t, run[t].pool, c)) /\ NoDoubles'
<1> DEFINE f == run[t]
<1>1. /\ f \in Frame /\ f.others \in Seq(Conn) /\ f.pc \in {"put_back", "put"}
      /\ f.pool \in Live /\ OnlyOnce(f.others) /\ f.conn \notin Range(f.others)
      /\ Hands[t] = Holds(f)
  <2>1. f.pc \in {"put_back", "put"}
    BY DEF PutBack, Put, PuttingBack
  <2>2. f.pool # None /\ f \in Frame
    BY <2>1 DEF Types, RunOK, FrameOK
  <2>3. OnlyOnce(f.others) /\ f.conn \notin Range(f.others)
    BY DEF Apart, NoDoubles
  <2> QED
    BY <2>1, <2>2, <2>3, LiveQueues DEF Frame, Hands
<1>2. CASE PutBack(t)
  <2> DEFINE c == Head(f.others)
             r == [f EXCEPT !.others = Tail(@)]
  <2>1. f.others # <<>> /\ Locals(t, r) /\ Push(t, c) /\ UNCHANGED <<byNode, group>>
    BY <1>2 DEF PutBack, PuttingBack
  <2>2. /\ c \in Conn /\ c \in Range(f.others) /\ OnlyOnce(Tail(f.others))
        /\ Range(Tail(f.others)) = Range(f.others) \ {c}
    BY <1>1, <2>1, TailConns, TailFacts
  <2>3. r.others = Tail(f.others) /\ r.conn = f.conn /\ r.pool = f.pool
    BY <1>1 DEF Frame
  <2> HIDE DEF r, c
  <2>4. /\ r.conn \notin Range(r.others) /\ Holds(r) = Holds(f) \ {c}
        /\ c \in Holds(f)
    BY <1>1, <2>2, <2>3, BlockingPoolAssumption DEF Holds
  <2>5. Gives(t, f.pool, c) /\ NoDoubles'
    <3>1. f.pc \in {"put_back", "put"} /\ c \in Hands[t]
      BY <1>1, <2>4
    <3>2. r.pool \in Live \cup {None} /\ OnlyOnce(r.others)
      BY <1>1, <2>2, <2>3
    <3> HIDE DEF f
    <3> QED
      BY <2>1, <2>2, <2>4, <3>1, <3>2, OnTheQueue DEF f
  <2> QED
    BY <2>2, <2>5
<1>3. CASE Put(t)
  <2> DEFINE c == f.conn
  <2>1. c # None /\ f.others = <<>> /\ c \in Conn
    BY <1>1, <1>3 DEF Put, Types, RunOK, FrameOK, Frame, Cell
  <2>2. Holds(f) = {c} /\ Holds(Idle) = {}
    BY <2>1, NoneTwice, IdleFrame DEF Holds
  <2>3. Locals(t, Idle) /\ Push(t, c) /\ UNCHANGED <<byNode, group>>
    BY <1>3 DEF Put
  <2> HIDE DEF c
  <2>4. Gives(t, f.pool, c) /\ NoDoubles'
    <3>1. f.pc \in {"put_back", "put"} /\ c \in Hands[t] /\ Holds(Idle) = Holds(f) \ {c}
      BY <1>1, <2>2
    <3>2. /\ Idle.pool \in Live \cup {None} /\ OnlyOnce(Idle.others)
          /\ Idle.conn \notin Range(Idle.others)
      BY IdleFrame, NoneTwice
    <3> HIDE DEF f
    <3> QED
      BY <2>1, <2>3, <3>1, <3>2, OnTheQueue DEF f
  <2> QED
    BY <2>1, <2>4
<1> QED
  BY <1>2, <1>3

LEMMA MakeDoes ==
    ASSUME Types, Apart, NEW t \in Thread, MakeConnection(t)
    PROVE  Makes(t, FreshConn) /\ FreshConn \in Conn /\ NoDoubles'
<1> DEFINE f == run[t]
           c == FreshConn
           r == [f EXCEPT !.conn = c, !.pc = "held", !.pool = None]
<1>1. /\ f \in Frame /\ f.others = <<>> /\ f.conn = None
      /\ Locals(t, r) /\ UNCHANGED <<items, byNode, group>>
  BY DEF MakeConnection, Types, RunOK, FrameOK
<1>2. c \in Conn /\ c \notin UsedConns /\ c # None
  BY Fresh, BlockingPoolAssumption DEF MakeConnection
<1> HIDE DEF c
<1>3. /\ \A q \in Live : c \notin Lists[q]
      /\ \A u \in Thread : c \notin Hands[u]
  BY <1>2, NotUsed, LiveQueues DEF Lists, ConnsIn, Hands, Holds, Has
<1>4. r.conn = c /\ r.pool = None /\ r.others = <<>>
  BY <1>1 DEF Frame
<1> HIDE DEF r
<1>5. Holds(r) = {c} /\ Holds(f) = {}
  BY <1>1, <1>2, <1>4, NoneTwice DEF Holds
<1>6. Hands'[t] = Hands[t] \cup {c} /\ OthersKeep(t) /\ SamePools
  BY <1>1, <1>4, <1>5, NextHands
<1>7. SameLists
  BY <1>1 DEF SameLists, Lists
<1>8. NoDoubles'
  <2>1. \A q \in Live' : OnlyOnce(items'[q])
    BY <1>1, <1>6 DEF SamePools, Apart, NoDoubles
  <2> QED
    BY <1>1, <1>4, <2>1, NextDoubles, NoneTwice DEF Apart
<1> QED
  BY <1>2, <1>3, <1>6, <1>7, <1>8 DEF Makes, c

(* Steps that change which queues are in use. *)
OwnOrNew(t, q) == q = run[t].pool \/ q \notin Live

LEMMA PoolsDo ==
    ASSUME Types, Apart, NewPool, NEW t \in Thread,
           MissingPool(t) \/ AddPool(t) \/ ResetPools(t)
    PROVE  (\E q \in Queue : Repools(q) /\ OwnOrNew(t, q)) /\ NoDoubles'
<1> DEFINE f == run[t]
<1>1. /\ f \in Frame /\ OnlyOnce(f.others) /\ f.conn \notin Range(f.others)
      /\ Hands[t] = Holds(f)
  BY DEF Types, RunOK, FrameOK, Apart, NoDoubles, Hands
<1>2. ASSUME NEW r, Locals(t, r), r.others = f.others, r.conn = f.conn
      PROVE  \A u \in Thread : Hands'[u] = Hands[u]
  <2>1. Hands'[t] = Holds(r) /\ OthersKeep(t)
    BY <1>2, NextHands
  <2>2. Holds(r) = Holds(f)
    BY <1>2 DEF Holds
  <2> QED
    BY <1>1, <2>1, <2>2 DEF OthersKeep
<1>3. ASSUME NEW r, Locals(t, r), NEW q \in Queue, r.pool \in Live \cup {q, None},
             Current' \subseteq Current \cup {q}
      PROVE  Live' \subseteq Live \cup {q}
  <2>1. /\ run'[t] = r /\ \A u \in Thread : u # t => run'[u] = run[u]
    BY <1>3 DEF Locals, Types, RunOK
  <2>2. Live' = ({run'[u].pool : u \in Thread} \cup Current') \ {None}
    BY DEF Live, UsedQueues, Current
  <2>3. \A u \in Thread : run'[u].pool \in Live \cup {q, None}
    BY <1>3, <2>1, LiveQueues
  <2>4. {run'[u].pool : u \in Thread} \subseteq Live \cup {q, None}
    BY <2>3
  <2> QED
    BY <1>3, <2>2, <2>4, LiveQueues
<1>4. ASSUME NEW r, Locals(t, r), r.others = f.others, r.conn = f.conn,
             FreeQueues # {}, items' = [items EXCEPT ![FreshQueue] = Full],
             r.pool \in Live \cup {FreshQueue, None},
             Current' \subseteq Current \cup {FreshQueue}
      PROVE  (\E q \in Queue : Repools(q) /\ OwnOrNew(t, q)) /\ NoDoubles'
  <2> DEFINE q == FreshQueue
  <2>1. q \in Queue /\ q \notin Live
    BY <1>4, Fresh DEF Live
  <2> HIDE DEF q
  <2>2. /\ Lists'[q] = {} /\ items'[q] = Full
        /\ \A p \in Queue : p # q => Lists'[p] = Lists[p] /\ items'[p] = items[p]
    BY <1>4, <2>1, NextLists, NoneTwice DEF q
  <2>3. Live' \subseteq Live \cup {q} /\ Live \subseteq Queue
    BY <1>3, <1>4, <2>1, LiveQueues DEF q
  <2>4. Repools(q)
    BY <1>2, <1>4, <2>2, <2>3 DEF Repools, q
  <2>5. \A p \in Live' : OnlyOnce(items'[p])
    BY <2>2, <2>3, NoneTwice DEF Apart, NoDoubles
  <2>6. NoDoubles'
    BY <1>1, <1>4, <2>5, NextDoubles DEF Apart
  <2> QED
    BY <2>1, <2>4, <2>6 DEF OwnOrNew
<1>5. CASE MissingPool(t)
  <2> DEFINE r == [f EXCEPT !.pool = FreshQueue, !.pc = "add_pool"]
  <2>1. r.others = f.others /\ r.conn = f.conn /\ r.pool = FreshQueue
    BY <1>1 DEF Frame
  <2>2. /\ Locals(t, r) /\ FreeQueues # {} /\ items' = [items EXCEPT ![FreshQueue] = Full]
        /\ Current' = Current
    BY <1>5 DEF MissingPool, Current
  <2> HIDE DEF r, f
  <2> QED
    BY <1>4, <2>1, <2>2
<1>6. CASE ResetPools(t)
  <2> DEFINE r == [f EXCEPT !.pc = "reset"]
  <2>1. r.others = f.others /\ r.conn = f.conn /\ r.pool = f.pool
    BY <1>1 DEF Frame
  <2>2. /\ Locals(t, r) /\ FreeQueues # {} /\ items' = [items EXCEPT ![FreshQueue] = Full]
        /\ Current' \subseteq {FreshQueue}
    BY <1>6, NoneTwice DEF ResetPools, Goto, Current
  <2>3. r.pool \in Live \cup {None}
    BY <2>1, LiveQueues
  <2> HIDE DEF r, f
  <2> QED
    BY <1>4, <2>1, <2>2, <2>3
<1>7. CASE AddPool(t)
  <2> DEFINE q == f.pool
             r == [f EXCEPT !.pool = q, !.pc = IF f.conn = None THEN "get" ELSE "put"]
  <2>1. /\ r.others = f.others /\ r.conn = f.conn /\ r.pool = q
    BY <1>1 DEF Frame
  <2>2. /\ Locals(t, r) /\ items' = items /\ group' = group
        /\ byNode' = [k \in DOMAIN byNode \cup {Key(t)} |-> IF k = Key(t) THEN q ELSE byNode[k]]
        /\ f.pc = "add_pool"
    BY <1>7 DEF AddPool, Using
  <2>3. q \in Queue /\ q \in Live /\ Lists[q] = {}
    BY <2>2, QueueOf, LiveQueues DEF NewPool
  <2> HIDE DEF q, r, f
  <2>4. Current' \subseteq Current \cup {q}
    BY <2>2 DEF Current, Range
  <2>5. Live' \subseteq Live
    BY <1>3, <2>1, <2>2, <2>3, <2>4
  <2>6. Lists' = Lists
    BY <2>2 DEF Lists
  <2>7. Repools(q)
    BY <1>2, <2>1, <2>2, <2>3, <2>4, <2>5, <2>6 DEF Repools
  <2>8. NoDoubles'
    <3>1. \A p \in Live' : OnlyOnce(items'[p])
      BY <2>2, <2>5 DEF Apart, NoDoubles
    <3> QED
      BY <1>1, <2>1, <2>2, <3>1, NextDoubles DEF Apart
  <2> QED
    BY <2>3, <2>7, <2>8 DEF OwnOrNew, q, f
<1> QED
  BY <1>5, <1>6, <1>7

(* Every step, in these terms. *)
Moves(t) ==
    \/ \E c \in Conn : Takes(t, run[t].pool, c) \/ Gives(t, run[t].pool, c)
    \/ \E c \in Conn : Makes(t, c)
    \/ LetsGo(t)

Change(t) == Moves(t) \/ \E q \in Queue : Repools(q) /\ OwnOrNew(t, q)

LEMMA EveryMove ==
    ASSUME Types, Apart, NewPool, NEW t \in Thread, Run(t) \/ \E n \in Node : Call(t, n)
    PROVE  MissingPool(t) \/ AddPool(t) \/ ResetPools(t) \/ (Moves(t) /\ NoDoubles')
<1> USE DEF Moves
<1>1. CASE Get(t)
  BY <1>1, GetDoes
<1>2. CASE GetOther(t)
  BY <1>2, GetOtherDoes
<1>3. CASE PutBack(t) \/ Put(t)
  BY <1>3, PutsDo
<1>4. CASE MakeConnection(t)
  BY <1>4, MakeDoes
<1>5. CASE \/ \E n \in Node : Call(t, n)
           \/ GetPool(t) \/ Evict(t) \/ NoConnection(t) \/ PutBackFull(t) \/ Reuse(t)
           \/ Release(t) \/ PutFull(t) \/ ResetConnections(t)
  BY <1>5, LocalsLetGo DEF Apart
<1> QED
  BY <1>1, <1>2, <1>3, <1>4, <1>5 DEF Run

LEMMA EveryStep ==
    ASSUME Types, Apart, NewPool, NEW t \in Thread, Run(t) \/ \E n \in Node : Call(t, n)
    PROVE  Change(t) /\ NoDoubles'
  BY EveryMove, PoolsDo DEF Change

LEMMA ApartStep ==
    ASSUME Types, Apart, NewPool, NEW t \in Thread, Run(t) \/ \E n \in Node : Call(t, n)
    PROVE  Apart'
<1>1. Change(t) /\ NoDoubles'
  BY EveryStep
<1>2. Does(t)
  <2>1. ASSUME NEW c \in Conn, NEW q, Takes(t, q, c) \/ Gives(t, q, c) PROVE q \in Live
    BY <2>1 DEF Takes, Gives
  <2> QED
    BY <1>1, <2>1 DEF Change, Moves, Does
<1>3. Disjoint'
  BY <1>2, DisjointStep DEF Apart
<1> QED
  BY <1>1, <1>3 DEF Apart

(* The queue a thread goes on with is one it or the pool has, or a new one. *)
LEMMA PoolAfter ==
    ASSUME Types, NEW t \in Thread, Run(t) \/ \E n \in Node : Call(t, n)
    PROVE  /\ \A u \in Thread : u # t => run'[u] = run[u]
           /\ \/ run'[t].pool \in {run[t].pool, None} \cup Current
              \/ MissingPool(t) /\ run'[t].pool \notin Live
           /\ run'[t].pc = "add_pool" => MissingPool(t)
<1> DEFINE f == run[t]
<1>1. ASSUME NEW r, Locals(t, r)
      PROVE  run'[t] = r /\ \A u \in Thread : u # t => run'[u] = run[u]
  BY <1>1 DEF Types, RunOK, Locals
<1>2. f \in Frame
  BY DEF Types, RunOK, FrameOK
<1>3. CASE \E n \in Node : Call(t, n)
  <2>1. PICK n \in Node : Call(t, n)
    BY <1>3
  <2> DEFINE r == [Idle EXCEPT !.pc = "get_pool", !.node = n]
  <2>2. r.pc = "get_pool" /\ r.pool = None /\ Locals(t, r)
    BY <2>1 DEF Idle, Call
  <2> HIDE DEF r
  <2> QED
    BY <1>1, <2>2
<1>4. CASE GetPool(t) \/ AddPool(t)
  <2>1. PICK q : Using(t, q) /\ q \in Current \cup {f.pool}
    BY <1>4 DEF GetPool, AddPool, Current, Range
  <2> DEFINE r == [f EXCEPT !.pool = q, !.pc = IF f.conn = None THEN "get" ELSE "put"]
  <2>2. r.pc # "add_pool" /\ r.pool = q /\ Locals(t, r)
    BY <1>2, <2>1 DEF Frame, Using
  <2> HIDE DEF r
  <2> QED
    BY <1>1, <2>1, <2>2
<1>5. CASE MissingPool(t)
  <2> DEFINE r == [f EXCEPT !.pool = FreshQueue, !.pc = "add_pool"]
  <2>1. r.pool = FreshQueue /\ Locals(t, r) /\ FreshQueue \notin Live
    BY <1>2, <1>5, Fresh DEF Frame, MissingPool, Live
  <2> HIDE DEF r
  <2> QED
    BY <1>1, <1>5, <2>1
<1>6. CASE NoConnection(t) \/ Put(t) \/ PutFull(t) \/ ResetConnections(t)
  <2>1. Locals(t, Idle) /\ Idle.pool = None /\ Idle.pc # "add_pool"
    BY <1>6 DEF NoConnection, Put, PutFull, ResetConnections, Idle
  <2> QED
    BY <1>1, <2>1
<1>7. CASE Release(t) \/ ResetPools(t)
  <2>1. PICK l \in {"get_pool", "reset"} : Locals(t, [f EXCEPT !.pc = l])
    BY <1>7 DEF Release, ResetPools, Goto
  <2> DEFINE r == [f EXCEPT !.pc = l]
  <2>2. r.pc # "add_pool" /\ r.pool = f.pool
    BY <1>2 DEF Frame
  <2> HIDE DEF r
  <2> QED
    BY <1>1, <2>1, <2>2 DEF r
<1>8. CASE Reuse(t) \/ MakeConnection(t)
  <2> DEFINE r == [f EXCEPT !.pc = "held", !.pool = None]
             m == [f EXCEPT !.conn = FreshConn, !.pc = "held", !.pool = None]
  <2>1. /\ r.pc # "add_pool" /\ r.pool = None /\ m.pc # "add_pool" /\ m.pool = None
        /\ Locals(t, r) \/ Locals(t, m)
    BY <1>2, <1>8 DEF Frame, Reuse, MakeConnection
  <2> HIDE DEF r, m
  <2> QED
    BY <1>1, <2>1
<1>9. CASE Get(t) \/ GetOther(t) \/ Evict(t) \/ PutBack(t) \/ PutBackFull(t)
  <2> DEFINE x == Last(Queued(t))
             a == [f EXCEPT !.conn = x, !.pc = "put_back"]
             b == [f EXCEPT !.others = Append(@, x)]
             c == [f EXCEPT !.others = Front(@), !.pc = "put_back"]
             d == [f EXCEPT !.others = Tail(@)]
             e == [f EXCEPT !.others = <<>>]
  <2>1. \E r \in {a, b, c, d, e, Idle} : Locals(t, r)
    BY <1>9 DEF Get, GetOther, Evict, PutBack, PutBackFull
  <2>2. f.pc \in {"get", "put_back"}
    BY <1>9 DEF Get, GetOther, Evict, PutBack, PutBackFull, Getting, TimedOut, PuttingBack
  <2>3. \A r \in {a, b, c, d, e, Idle} : r.pc # "add_pool" /\ r.pool \in {f.pool, None}
    <3>1. /\ a.pc = "put_back" /\ c.pc = "put_back"
          /\ b.pc = f.pc /\ d.pc = f.pc /\ e.pc = f.pc /\ Idle.pc = "idle"
      BY <1>2 DEF Frame, Idle
    <3>2. /\ a.pool = f.pool /\ b.pool = f.pool /\ c.pool = f.pool
          /\ d.pool = f.pool /\ e.pool = f.pool /\ Idle.pool = None
      BY <1>2 DEF Frame, Idle
    <3> HIDE DEF a, b, c, d, e, Idle
    <3> QED
      BY <2>2, <3>1, <3>2
  <2> HIDE DEF a, b, c, d, e, Idle
  <2> QED
    BY <1>1, <2>1, <2>3
<1> QED
  BY <1>3, <1>4, <1>5, <1>6, <1>7, <1>8, <1>9 DEF Run

LEMMA NewPoolStep ==
    ASSUME Types, Apart, NewPool, NEW t \in Thread, Run(t) \/ \E n \in Node : Call(t, n)
    PROVE  NewPool'
<1>1. Change(t)
  BY EveryStep
<1>2. /\ \A u \in Thread : u # t => run'[u] = run[u]
      /\ \/ run'[t].pool \in {run[t].pool, None} \cup Current
         \/ MissingPool(t) /\ run'[t].pool \notin Live
      /\ run'[t].pc = "add_pool" => MissingPool(t)
  BY PoolAfter
<1>3. ASSUME NEW u \in Thread, u # t, run[u].pc = "add_pool"
      PROVE  /\ Lists'[run[u].pool] = {} /\ run[u].pool \notin Current'
             /\ run'[t].pool # run[u].pool
  <2> DEFINE p == run[u].pool
  <2>1. /\ p \in Live /\ p # None /\ Lists[p] = {} /\ p \notin Current
        /\ run[t].pool # p
    BY <1>3, QueueOf, LiveQueues DEF NewPool
  <2> HIDE DEF p
  <2>2. Lists'[p] = {} /\ p \notin Current'
    <3>1. ASSUME NEW c \in Conn, Takes(t, run[t].pool, c) \/ Gives(t, run[t].pool, c)
          PROVE  Lists'[p] = {} /\ p \notin Current'
      BY <2>1, <3>1 DEF Takes, Gives, SamePools
    <3>2. ASSUME NEW c \in Conn, Makes(t, c) PROVE Lists'[p] = {} /\ p \notin Current'
      BY <2>1, <3>2 DEF Makes, SamePools, SameLists
    <3>3. CASE LetsGo(t)
      BY <2>1, <3>3 DEF LetsGo, SamePools, SameLists
    <3>4. ASSUME NEW q \in Queue, Repools(q), OwnOrNew(t, q)
          PROVE  Lists'[p] = {} /\ p \notin Current'
      BY <2>1, <3>4 DEF Repools, OwnOrNew
    <3> QED
      BY <1>1, <3>1, <3>2, <3>3, <3>4 DEF Change, Moves
  <2>3. run'[t].pool # p
    BY <1>2, <2>1
  <2> QED
    BY <2>2, <2>3 DEF p
<1>4. ASSUME MissingPool(t), run'[t].pc = "add_pool"
      PROVE  /\ Lists'[run'[t].pool] = {} /\ run'[t].pool \notin Current'
             /\ \A u \in Thread : u # t => run[u].pool # run'[t].pool
  <2> DEFINE q == FreshQueue
             f == run[t]
             r == [f EXCEPT !.pool = FreshQueue, !.pc = "add_pool"]
  <2>1. q \in Queue /\ q \notin UsedQueues
    BY <1>4, Fresh DEF MissingPool
  <2>2. run'[t].pool = q
    <3>1. Locals(t, r) /\ r.pool = q
      BY <1>4 DEF MissingPool, Types, RunOK, FrameOK, Frame
    <3> HIDE DEF r
    <3> QED
      BY <3>1 DEF Locals, Types, RunOK
  <2>3. Current' = Current /\ items' = [items EXCEPT ![q] = Full]
    BY <1>4 DEF MissingPool, Current
  <2> HIDE DEF q
  <2>4. Lists'[q] = {}
    BY <2>1, <2>3, NextLists, NoneTwice
  <2>5. q \notin Current /\ \A u \in Thread : run[u].pool # q
    BY <2>1 DEF UsedQueues, Current
  <2> QED
    BY <2>2, <2>3, <2>4, <2>5
<1> QED
  BY <1>2, <1>3, <1>4 DEF NewPool

(* The inductive invariant of Exclusive: types, that no connection is in   *)
(* two queues or hands, and that a queue not yet added is its maker's.     *)
IInv == Types /\ Apart /\ NewPool

LEMMA IInvInit == Init => IInv
<1> SUFFICES ASSUME Init PROVE IInv
  OBVIOUS
<1>1. Types
  BY TypesInit
<1>2. \A t \in Thread : run[t] = Idle
  BY DEF Init
<1>3. \A q \in Queue : Lists[q] = {} /\ OnlyOnce(items[q])
  <2>1. \A q \in Queue : items[q] \in {Full, <<>>}
    BY DEF Init
  <2> QED
    BY <2>1, NoneTwice DEF Lists, ConnsIn
<1>4. \A t \in Thread : Hands[t] = {}
  BY <1>2, IdleFrame, NoneTwice DEF Hands, Holds
<1>5. Live \subseteq Queue
  BY <1>1, LiveQueues
<1>6. Disjoint
  BY <1>3, <1>4, <1>5 DEF Disjoint
<1>7. NoDoubles
  BY <1>2, <1>3, <1>5, IdleFrame, NoneTwice DEF NoDoubles
<1>8. NewPool
  BY <1>2 DEF NewPool, Idle
<1> QED
  BY <1>1, <1>6, <1>7, <1>8 DEF IInv, Apart

LEMMA IInvStep == IInv /\ [Next]_vars => IInv'
<1> SUFFICES ASSUME IInv, [Next]_vars PROVE IInv'
  OBVIOUS
<1>1. Types'
  BY TypesStep DEF IInv
<1>2. CASE UNCHANGED vars
  <2>1. /\ UNCHANGED <<items, run>> /\ Live' = Live /\ Current' = Current
        /\ Lists' = Lists /\ Hands' = Hands
    BY <1>2 DEF vars, Live, Current, UsedQueues, Lists, Hands
  <2> QED
    BY <1>1, <2>1 DEF IInv, Apart, Disjoint, NoDoubles, NewPool
<1>3. CASE Next
  BY <1>1, <1>3, ApartStep, NewPoolStep DEF Next, IInv
<1> QED
  BY <1>2, <1>3

(* A connection is on one queue, or set aside or held by one thread, and   *)
(* there once: through searches of other nodes' connections, evictions,    *)
(* resets, and releases to a queue that a reset has replaced.              *)
THEOREM BlockingExclusive == Spec => []Exclusive
<1>1. Init => IInv
  BY IInvInit
<1>2. IInv /\ [Next]_vars => IInv'
  BY IInvStep
<1>3. IInv => Exclusive
  BY ApartGivesExclusive DEF IInv
<1> QED
  BY <1>1, <1>2, <1>3, PTL DEF Spec

-----------------------------------------------------------------------------
(* The refinement: Owner by hands and queues, and what each kind of step   *)
(* is to ResourcePool.                                                     *)

OwnerOK ==
    /\ Owner \in [Conn -> Thread \cup {"free", "gone"}]
    /\ \A c \in Conn :
          /\ \A t \in Thread : c \in Hands[t] => Owner[c] = t
          /\ (\A t \in Thread : c \notin Hands[t]) =>
                Owner[c] = IF \E q \in Current : c \in Lists[q] THEN "free" ELSE "gone"

LEMMA OwnerIs == IInv => OwnerOK
<1> SUFFICES ASSUME IInv PROVE OwnerOK
  OBVIOUS
<1>1. ASSUME NEW c \in Conn
      PROVE  /\ \A t \in Thread : c \in Has(t) <=> c \in Hands[t]
             /\ (\E q \in Current : c \in Range(items[q])) <=> \E q \in Current : c \in Lists[q]
  <2>1. c # None /\ Current \subseteq Queue
    BY LiveQueues, BlockingPoolAssumption DEF IInv
  <2>2. \A t \in Thread : c \in Has(t) <=> c \in Hands[t]
    BY <2>1 DEF Has, Hands, Holds
  <2> QED
    BY <2>1, <2>2 DEF Lists, ConnsIn
<1>2. ASSUME NEW c \in Conn, NEW t \in Thread, c \in Hands[t] PROVE Owner[c] = t
  <2>1. Owner[c] = CHOOSE u \in Thread : c \in Has(u)
    BY <1>1, <1>2 DEF Owner
  <2>2. c \in Has(t) /\ \A u \in Thread : c \in Has(u) => u = t
    BY <1>1, <1>2 DEF IInv, Apart, Disjoint
  <2> QED
    BY <2>1, <2>2
<1>3. ASSUME NEW c \in Conn, \A t \in Thread : c \notin Hands[t]
      PROVE  Owner[c] = IF \E q \in Current : c \in Lists[q] THEN "free" ELSE "gone"
  BY <1>1, <1>3 DEF Owner
<1>4. \A c \in Conn : Owner[c] \in Thread \cup {"free", "gone"}
  BY <1>2, <1>3
<1>5. Owner \in [Conn -> Thread \cup {"free", "gone"}]
  BY <1>4 DEF Owner
<1> QED
  BY <1>2, <1>3, <1>5 DEF OwnerOK

LEMMA OwnerNext == IInv' => OwnerOK'
  BY OwnerIs, PTL

LEMMA PassesOn ==
    ASSUME OwnerOK, OwnerOK', NEW t \in Thread, NEW from, NEW to,
           \A c \in Conn : Owner'[c] = Owner[c] \/ (Owner[c] = from /\ Owner'[c] = to),
           \/ from \in {"free", t} /\ to = "gone"
           \/ /\ \E c \in Conn : \A d \in Conn : d # c => Owner'[d] = Owner[d]
              /\ \/ from \in {"free", "gone"} /\ to = t
                 \/ from = t /\ to = "free"
    PROVE  [Promise!Next]_Owner
<1> DEFINE S == Promise!Moved
<1>1. S = {c \in Conn : Owner[c] # Owner'[c]}
  BY DEF Promise!Moved
<1>2. Owner = [c \in Conn |-> Owner[c]] /\ Owner' = [c \in Conn |-> Owner'[c]]
  BY DEF OwnerOK
<1>3. Owner' = [c \in Conn |-> IF c \in S THEN to ELSE Owner[c]]
  BY <1>1, <1>2
<1>4. Promise!Pass(S, from, to)
  BY <1>1, <1>3 DEF Promise!Pass
<1>5. CASE \E c \in Conn : \A d \in Conn : d # c => Owner'[d] = Owner[d]
  <2>1. PICK c \in Conn : \A d \in Conn : d # c => Owner'[d] = Owner[d]
    BY <1>5
  <2>2. CASE Owner'[c] = Owner[c]
    <3>1. Owner' = Owner
      BY <1>2, <2>1, <2>2
    <3> QED
      BY <3>1
  <2>3. CASE Owner'[c] # Owner[c]
    <3>1. S = {c}
      BY <1>1, <2>1, <2>3
    <3> HIDE DEF S
    <3> QED
      BY <1>4, <3>1 DEF S, Promise!Next, Promise!Take, Promise!Make, Promise!Give,
                        Promise!Drop, Promise!Close
  <2> QED
    BY <2>2, <2>3
<1>6. CASE to = "gone" /\ from \in {"free", t}
  <2> HIDE DEF S
  <2> QED
    BY <1>4, <1>6 DEF S, Promise!Next, Promise!Drop, Promise!Close
<1> QED
  BY <1>5, <1>6

LEMMA StepOfPromise ==
    ASSUME IInv, IInv', NEW t \in Thread, Change(t)
    PROVE  [Promise!Next]_Owner
<1>0. OwnerOK /\ OwnerOK'
  BY OwnerIs, OwnerNext
<1>1. Current \subseteq Live /\ Disjoint /\ Current' \subseteq Live' /\ Disjoint'
  <2>1. Current \subseteq Live
    BY LiveQueues DEF IInv
  <2>2. Current' \subseteq Live'
    BY BlockingPoolAssumption DEF IInv, Types, TablesOK, Current, Live, UsedQueues
  <2> QED
    BY <2>1, <2>2 DEF IInv, Apart
(* A connection in the same hands and queues has the same owner.           *)
<1>2. ASSUME NEW d \in Conn, \A u \in Thread : d \in Hands'[u] <=> d \in Hands[u],
             (\E q \in Current : d \in Lists[q]) <=> \E q \in Current' : d \in Lists'[q]
      PROVE  Owner'[d] = Owner[d]
  <2>1. CASE \E u \in Thread : d \in Hands[u]
    BY <1>0, <1>2, <2>1 DEF OwnerOK
  <2>2. CASE \A u \in Thread : d \notin Hands[u]
    BY <1>0, <1>2, <2>2 DEF OwnerOK
  <2> QED
    BY <2>1, <2>2
<1>3. ASSUME NEW c \in Conn, NEW q, Takes(t, q, c) PROVE [Promise!Next]_Owner
  <2>1. \A d \in Conn : d # c => Owner'[d] = Owner[d]
    <3> SUFFICES ASSUME NEW d \in Conn, d # c PROVE Owner'[d] = Owner[d]
      OBVIOUS
    <3>1. \A u \in Thread : d \in Hands'[u] <=> d \in Hands[u]
      BY <1>3 DEF Takes, OthersKeep
    <3>2. Current' = Current /\ \A p \in Live : d \in Lists'[p] <=> d \in Lists[p]
      BY <1>3 DEF Takes, SamePools
    <3> QED
      BY <1>1, <1>2, <3>1, <3>2
  <2>2. Owner'[c] = t
    BY <1>0, <1>3 DEF OwnerOK, Takes
  <2>3. Owner[c] \in {"free", "gone"}
    <3>1. \A u \in Thread : c \notin Hands[u]
      BY <1>1, <1>3 DEF Disjoint, Takes
    <3> QED
      BY <1>0, <3>1 DEF OwnerOK
  <2> QED
    BY <1>0, <2>1, <2>2, <2>3, PassesOn
<1>4. ASSUME NEW c \in Conn, NEW q, Gives(t, q, c) PROVE [Promise!Next]_Owner
  <2>1. \A d \in Conn : d # c => Owner'[d] = Owner[d]
    <3> SUFFICES ASSUME NEW d \in Conn, d # c PROVE Owner'[d] = Owner[d]
      OBVIOUS
    <3>1. \A u \in Thread : d \in Hands'[u] <=> d \in Hands[u]
      BY <1>4 DEF Gives, OthersKeep
    <3>2. Current' = Current /\ \A p \in Live : d \in Lists'[p] <=> d \in Lists[p]
      BY <1>4 DEF Gives, SamePools
    <3> QED
      BY <1>1, <1>2, <3>1, <3>2
  <2>2. Owner[c] = t
    BY <1>0, <1>4 DEF OwnerOK, Gives
  <2>3. Owner'[c] \in {"free", "gone"}
    <3>1. \A u \in Thread : u # t => c \notin Hands[u]
      BY <1>1, <1>4 DEF Disjoint, Gives
    <3>2. \A u \in Thread : c \notin Hands'[u]
      BY <1>4, <3>1 DEF Gives, OthersKeep
    <3> QED
      BY <1>0, <3>2 DEF OwnerOK
  <2> QED
    BY <1>0, <2>1, <2>2, <2>3, PassesOn
<1>5. ASSUME NEW c \in Conn, Makes(t, c) PROVE [Promise!Next]_Owner
  <2>1. \A d \in Conn : d # c => Owner'[d] = Owner[d]
    <3> SUFFICES ASSUME NEW d \in Conn, d # c PROVE Owner'[d] = Owner[d]
      OBVIOUS
    <3>1. \A u \in Thread : d \in Hands'[u] <=> d \in Hands[u]
      BY <1>5 DEF Makes, OthersKeep
    <3>2. Current' = Current /\ \A p \in Live : Lists'[p] = Lists[p]
      BY <1>5 DEF Makes, SamePools, SameLists
    <3> QED
      BY <1>1, <1>2, <3>1, <3>2
  <2>2. Owner'[c] = t
    BY <1>0, <1>5 DEF OwnerOK, Makes
  <2>3. Owner[c] = "gone"
    BY <1>0, <1>1, <1>5 DEF OwnerOK, Makes
  <2> QED
    BY <1>0, <2>1, <2>2, <2>3, PassesOn
<1>6. CASE LetsGo(t)
  <2> SUFFICES \A d \in Conn : Owner'[d] = Owner[d] \/ (Owner[d] = t /\ Owner'[d] = "gone")
    BY <1>0, PassesOn
  <2> SUFFICES ASSUME NEW d \in Conn
               PROVE  Owner'[d] = Owner[d] \/ (Owner[d] = t /\ Owner'[d] = "gone")
    OBVIOUS
  <2>1. Current' = Current /\ \A p \in Live : Lists'[p] = Lists[p]
    BY <1>6 DEF LetsGo, SamePools, SameLists
  <2>2. CASE d \in Hands[t] /\ d \notin Hands'[t]
    <3>1. \A u \in Thread : u # t => d \notin Hands[u]
      BY <1>1, <2>2 DEF Disjoint
    <3>2. \A u \in Thread : d \notin Hands'[u]
      BY <1>6, <2>2, <3>1 DEF LetsGo, OthersKeep
    <3>3. \A q \in Current' : d \notin Lists'[q]
      BY <1>1, <2>1, <2>2 DEF Disjoint
    <3> QED
      BY <1>0, <2>2, <3>2, <3>3 DEF OwnerOK
  <2>3. CASE ~(d \in Hands[t] /\ d \notin Hands'[t])
    <3>1. \A u \in Thread : d \in Hands'[u] <=> d \in Hands[u]
      BY <1>6, <2>3 DEF LetsGo, OthersKeep
    <3> QED
      BY <1>1, <1>2, <2>1, <3>1
  <2> QED
    BY <2>2, <2>3
<1>7. ASSUME NEW q \in Queue, Repools(q) PROVE [Promise!Next]_Owner
  <2> SUFFICES \A d \in Conn : Owner'[d] = Owner[d] \/ (Owner[d] = "free" /\ Owner'[d] = "gone")
    BY <1>0, PassesOn
  <2> SUFFICES ASSUME NEW d \in Conn
               PROVE  Owner'[d] = Owner[d] \/ (Owner[d] = "free" /\ Owner'[d] = "gone")
    OBVIOUS
  <2>1. \A u \in Thread : d \in Hands'[u] <=> d \in Hands[u]
    BY <1>7 DEF Repools
  <2>2. (\E p \in Current' : d \in Lists'[p]) => \E p \in Current : d \in Lists[p]
    BY <1>1, <1>7 DEF Repools
  <2>3. CASE \E u \in Thread : d \in Hands[u]
    BY <1>0, <2>1, <2>3 DEF OwnerOK
  <2>4. CASE \A u \in Thread : d \notin Hands[u]
    BY <1>0, <2>1, <2>2, <2>4 DEF OwnerOK
  <2> QED
    BY <2>3, <2>4
<1> QED
  BY <1>3, <1>4, <1>5, <1>6, <1>7 DEF Change, Moves

(* The queues, permissions and local lists of the blocking pool implement  *)
(* the pool that ResourcePool describes, and what a thread has taken, or   *)
(* set aside in its search, is taken from it by nobody.                    *)
THEOREM BlockingImplementsPool == Spec => ImplementsPool
<1>1. Init => IInv
  BY IInvInit
<1>2. IInv /\ [Next]_vars => IInv'
  BY IInvStep
<1>3. Init => Promise!Init
  <2> SUFFICES ASSUME Init PROVE Owner = [c \in Conn |-> "gone"]
    BY DEF Promise!Init
  <2>1. OwnerOK
    BY IInvInit, OwnerIs
  <2>2. \A t \in Thread : run[t] = Idle
    BY DEF Init
  <2>3. \A t \in Thread : Hands[t] = {}
    BY <2>2, IdleFrame, NoneTwice DEF Hands, Holds
  <2>4. \A q \in Queue : Lists[q] = {}
    <3>1. \A q \in Queue : items[q] \in {Full, <<>>}
      BY DEF Init
    <3> QED
      BY <3>1, NoneTwice DEF Lists, ConnsIn
  <2>5. Current \subseteq Queue
    BY IInvInit, LiveQueues DEF IInv
  <2> QED
    BY <2>1, <2>3, <2>4, <2>5 DEF OwnerOK
<1>4. IInv /\ IInv' /\ [Next]_vars => [Promise!Next]_Owner
  <2> SUFFICES ASSUME IInv, IInv', [Next]_vars PROVE [Promise!Next]_Owner
    OBVIOUS
  <2>1. CASE UNCHANGED vars
    BY <2>1 DEF vars, Owner, Has, Current
  <2>2. CASE Next
    BY <2>2, EveryStep, StepOfPromise DEF Next, IInv
  <2> QED
    BY <2>1, <2>2
<1> QED
  BY <1>1, <1>2, <1>3, <1>4, PTL DEF Spec, ImplementsPool, Promise!Spec

-----------------------------------------------------------------------------
(* max_connections, for the pool with one queue.  As long as it has not    *)
(* been reset, a connection is in _connections and the connections, the    *)
(* permissions on the queue and those that threads have taken off to make  *)
(* a connection by, are max_connections at most.                           *)

Nones(s) == {i \in DOMAIN s : s[i] = None}
Permits  == Nones(items[group])
Owed     == {t \in Thread : run[t].pc = "put_back" /\ run[t].conn = None}

Room ==
    /\ IsFiniteSet(connections) /\ IsFiniteSet(Owed)
    /\ Cardinality(connections) + Cardinality(Permits) + Cardinality(Owed) <= MaxConnections

AllKnown ==
    /\ \A t \in Thread : Hands[t] \subseteq connections
    /\ Lists[group] \subseteq connections

OneQueue ==
    /\ Range(byNode) = {}
    /\ \A t \in Thread : run[t].pool \in {None, group} /\ run[t].pc # "reset"

Within == resets = 0 => Room /\ AllKnown /\ OneQueue

LEMMA NonesFinite ==
    ASSUME NEW s \in Seq(Cell)
    PROVE  IsFiniteSet(Nones(s)) /\ Cardinality(Nones(s)) \in Nat
<1>1. IsFiniteSet(1 .. Len(s)) /\ Nones(s) \in SUBSET (1 .. Len(s))
  <2>1. DOMAIN s = 1 .. Len(s) /\ Len(s) \in Int /\ 1 \in Int
    BY SeqFacts
  <2>2. IsFiniteSet(1 .. Len(s))
    BY <2>1, FS_Interval
  <2>3. Nones(s) \in SUBSET DOMAIN s
    BY DEF Nones
  <2> QED
    BY <2>1, <2>2, <2>3
<1> QED
  BY <1>1, FS_Subset, FS_CardinalityType

LEMMA NonesFront ==
    ASSUME NEW s \in Seq(Cell), s # <<>>
    PROVE  /\ Last(s) = None => Nones(Front(s)) = Nones(s) \ {Len(s)} /\ Len(s) \in Nones(s)
           /\ Last(s) # None => Nones(Front(s)) = Nones(s)
<1>1. /\ DOMAIN Front(s) = 1 .. Len(s) - 1
      /\ \A i \in 1 .. Len(s) - 1 : Front(s)[i] = s[i]
      /\ Last(s) = s[Len(s)] /\ DOMAIN s = 1 .. Len(s) /\ Len(s) \in Nat \ {0}
  BY FrontFacts, SeqFacts
<1> DEFINE f == Front(s)
           x == Last(s)
<1> HIDE DEF f, x
<1>2. \A i \in DOMAIN s : i # Len(s) => i \in DOMAIN f
  BY <1>1 DEF f
<1>3. \A i \in DOMAIN f : i \in DOMAIN s /\ i # Len(s) /\ f[i] = s[i]
  BY <1>1 DEF f
<1>4. Len(s) \in DOMAIN s /\ x = s[Len(s)]
  BY <1>1 DEF x
<1> QED
  BY <1>2, <1>3, <1>4 DEF Nones, f, x

LEMMA NonesAppend ==
    ASSUME NEW s \in Seq(Cell), NEW e \in Conn
    PROVE  Nones(Append(s, e)) = Nones(s)
<1>1. /\ DOMAIN Append(s, e) = 1 .. Len(s) + 1
      /\ \A i \in 1 .. Len(s) : Append(s, e)[i] = s[i]
      /\ Append(s, e)[Len(s) + 1] = e
      /\ DOMAIN s = 1 .. Len(s) /\ Len(s) \in Nat /\ e # None
  BY AppendFacts, SeqFacts, BlockingPoolAssumption DEF Cell
<1> DEFINE f == Append(s, e)
<1> HIDE DEF f
<1>2. \A i \in DOMAIN f : \/ i = Len(s) + 1 /\ f[i] = e
                          \/ i \in DOMAIN s /\ f[i] = s[i]
  BY <1>1 DEF f
<1>3. \A i \in DOMAIN s : i \in DOMAIN f /\ f[i] = s[i]
  BY <1>1 DEF f
<1> QED
  BY <1>1, <1>2, <1>3 DEF Nones, f

LEMMA NonesFull ==
    IsFiniteSet(Nones(Full)) /\ Cardinality(Nones(Full)) = MaxConnections
<1>1. Nones(Full) = 1 .. MaxConnections
  BY FullFacts DEF Nones
<1> QED
  BY <1>1, FS_Interval, BlockingPoolAssumption

LEMMA AddOne ==
    ASSUME NEW S, IsFiniteSet(S), NEW x
    PROVE  /\ IsFiniteSet(S \cup {x}) /\ Cardinality(S \cup {x}) \in Nat
           /\ Cardinality(S \cup {x}) <= Cardinality(S) + 1
<1>1. IsFiniteSet(S \cup {x})
  BY FS_AddElement
<1>2. Cardinality(S \cup {x}) \in Nat /\ Cardinality(S) \in Nat
  BY <1>1, FS_CardinalityType
<1>3. Cardinality(S \cup {x}) = IF x \in S THEN Cardinality(S) ELSE Cardinality(S) + 1
  BY FS_AddElement
<1> QED
  BY <1>1, <1>2, <1>3

(* What a step may do to the three counts.                                 *)
Tally(t) ==
    \/ connections' \subseteq connections /\ Permits' = Permits /\ Owed' \subseteq Owed
    \/ /\ connections' = connections
       /\ \E i \in Permits : Permits' = Permits \ {i}
       /\ Owed' \subseteq Owed \cup {t}
    \/ /\ \E c \in connections : connections' = connections \ {c}
       /\ Permits' = Permits /\ Owed' \subseteq Owed \cup {t}
    \/ /\ \E c : connections' = connections \cup {c}
       /\ Permits' = Permits /\ t \in Owed /\ Owed' = Owed \ {t}

LEMMA RoomStep ==
    ASSUME Types, Room, NEW t \in Thread, Tally(t)
    PROVE  Room'
<1> DEFINE C == Cardinality(connections)
           N == Cardinality(Permits)
           P == Cardinality(Owed)
<1>1. /\ IsFiniteSet(connections) /\ IsFiniteSet(Permits) /\ IsFiniteSet(Owed)
      /\ C \in Nat /\ N \in Nat /\ P \in Nat /\ C + N + P <= MaxConnections
  <2>1. IsFiniteSet(Permits) /\ N \in Nat
    BY NonesFinite DEF Types, TablesOK, Permits
  <2>2. C \in Nat /\ P \in Nat
    BY FS_CardinalityType DEF Room
  <2> QED
    BY <2>1, <2>2 DEF Room
<1>2. ASSUME Owed' \subseteq Owed
      PROVE  IsFiniteSet(Owed') /\ Cardinality(Owed') \in Nat /\ Cardinality(Owed') <= P
  BY <1>1, <1>2, FS_Subset, FS_CardinalityType
<1>3. ASSUME Owed' \subseteq Owed \cup {t}
      PROVE  IsFiniteSet(Owed') /\ Cardinality(Owed') \in Nat /\ Cardinality(Owed') <= P + 1
  <2>1. /\ IsFiniteSet(Owed \cup {t}) /\ Cardinality(Owed \cup {t}) <= P + 1
        /\ Cardinality(Owed \cup {t}) \in Nat
    BY <1>1, AddOne
  <2>2. IsFiniteSet(Owed') /\ Cardinality(Owed') <= Cardinality(Owed \cup {t})
    BY <1>3, <2>1, FS_Subset
  <2>3. Cardinality(Owed') \in Nat
    BY <2>2, FS_CardinalityType
  <2> QED
    BY <1>1, <2>1, <2>2, <2>3
<1>4. CASE connections' \subseteq connections /\ Permits' = Permits /\ Owed' \subseteq Owed
  <2>1. /\ IsFiniteSet(connections') /\ Cardinality(connections') <= C
        /\ Cardinality(connections') \in Nat
    BY <1>1, <1>4, FS_Subset, FS_CardinalityType
  <2>2. /\ IsFiniteSet(Owed') /\ Cardinality(Owed') \in Nat /\ Cardinality(Owed') <= P
        /\ Cardinality(Permits') = N
    BY <1>2, <1>4
  <2> HIDE DEF C, N, P
  <2> QED
    BY <1>1, <2>1, <2>2, BlockingPoolAssumption DEF Room
<1>5. CASE /\ connections' = connections /\ \E i \in Permits : Permits' = Permits \ {i}
           /\ Owed' \subseteq Owed \cup {t}
  <2>1. Cardinality(Permits') = N - 1
    BY <1>1, <1>5, FS_RemoveElement
  <2>2. /\ IsFiniteSet(Owed') /\ Cardinality(Owed') \in Nat /\ Cardinality(Owed') <= P + 1
        /\ Cardinality(connections') = C /\ IsFiniteSet(connections')
    BY <1>1, <1>3, <1>5
  <2> HIDE DEF C, N, P
  <2> QED
    BY <1>1, <2>1, <2>2, BlockingPoolAssumption DEF Room
<1>6. CASE /\ \E c \in connections : connections' = connections \ {c}
           /\ Permits' = Permits /\ Owed' \subseteq Owed \cup {t}
  <2>1. Cardinality(connections') = C - 1 /\ IsFiniteSet(connections')
    BY <1>1, <1>6, FS_RemoveElement
  <2>2. /\ IsFiniteSet(Owed') /\ Cardinality(Owed') \in Nat /\ Cardinality(Owed') <= P + 1
        /\ Cardinality(Permits') = N
    BY <1>3, <1>6
  <2> HIDE DEF C, N, P
  <2> QED
    BY <1>1, <2>1, <2>2, BlockingPoolAssumption DEF Room
<1>7. CASE /\ \E c : connections' = connections \cup {c}
           /\ Permits' = Permits /\ t \in Owed /\ Owed' = Owed \ {t}
  <2>1. /\ IsFiniteSet(connections') /\ Cardinality(connections') <= C + 1
        /\ Cardinality(connections') \in Nat
    BY <1>1, <1>7, AddOne
  <2>2. /\ IsFiniteSet(Owed') /\ Cardinality(Owed') = P - 1 /\ Cardinality(Permits') = N
    BY <1>1, <1>7, FS_RemoveElement
  <2> HIDE DEF C, N, P
  <2> QED
    BY <1>1, <2>1, <2>2, BlockingPoolAssumption DEF Room
<1> QED
  BY <1>4, <1>5, <1>6, <1>7 DEF Tally

LEMMA OwedNext ==
    ASSUME Types, NEW t \in Thread, NEW r, Locals(t, r)
    PROVE  /\ Owed' \subseteq Owed \cup {t} /\ Owed \ {t} \subseteq Owed'
           /\ t \in Owed' <=> r.pc = "put_back" /\ r.conn = None
<1>1. run'[t] = r /\ \A u \in Thread : u # t => run'[u] = run[u]
  BY DEF Types, RunOK, Locals
<1> QED
  BY <1>1 DEF Owed

LEMMA GroupQueue ==
    ASSUME Types, OneQueue, NEW t \in Thread, run[t].pc \in {"get", "put_back", "put"}
    PROVE  /\ run[t].pool = group /\ Queued(t) = items[group] /\ group \in Queue
           /\ Queued(t) \in Seq(Cell) /\ Permits = Nones(Queued(t))
  BY QueueOf DEF OneQueue, Permits

(* What is known stays so, if what _connections forgets was in the hands   *)
(* of the thread and is no longer.                                         *)
LEMMA KnownStep ==
    ASSUME Types, Disjoint, AllKnown, NEW t \in Thread, group' = group,
           \/ /\ connections' = connections
              /\ \E c \in Conn : Takes(t, group, c) \/ Gives(t, group, c)
           \/ \E c \in Conn : Makes(t, c) /\ connections' = connections \cup {c}
           \/ LetsGo(t) /\ connections' = connections
           \/ /\ LetsGo(t)
              /\ \E K : /\ K \subseteq Hands[t] /\ K \cap Hands'[t] = {}
                        /\ connections' = connections \ K
    PROVE  AllKnown'
<1> USE DEF SamePools, OthersKeep, SameLists, AllKnown
<1>0. group \in Live /\ \A u \in Thread : Hands[u] \subseteq Conn
  BY LiveQueues DEF Hands, Holds, Types, RunOK, FrameOK, Frame, Range, Cell
<1>1. CASE /\ connections' = connections
           /\ \E c \in Conn : Takes(t, group, c) \/ Gives(t, group, c)
  BY <1>0, <1>1 DEF Takes, Gives
<1>2. CASE \E c \in Conn : Makes(t, c) /\ connections' = connections \cup {c}
  BY <1>0, <1>2 DEF Makes
<1>3. CASE LetsGo(t) /\ connections' = connections
  BY <1>0, <1>3 DEF LetsGo
<1>4. ASSUME LetsGo(t), NEW K, K \subseteq Hands[t], K \cap Hands'[t] = {},
             connections' = connections \ K
      PROVE  AllKnown'
  BY <1>0, <1>4 DEF LetsGo, Disjoint
<1> QED
  BY <1>1, <1>2, <1>3, <1>4

(* The steps that leave _connections and the queue alone. *)
LEMMA WithinLocals ==
    ASSUME IInv, Room, AllKnown, OneQueue, ~PerNode, NEW t \in Thread,
           \/ \E n \in Node : Call(t, n)
           \/ GetPool(t) \/ NoConnection(t) \/ Reuse(t) \/ Release(t) \/ PutFull(t)
    PROVE  Tally(t) /\ AllKnown' /\ run'[t].pc # "reset" /\ UNCHANGED <<byNode, group>>
<1> DEFINE f == run[t]
<1>1. /\ UNCHANGED <<items, byNode, group, connections>>
      /\ Permits' = Permits
  BY DEF Call, GetPool, NoConnection, Reuse, Release, PutFull, Permits
<1>2. AllKnown'
  BY <1>1, LocalsLetGo, KnownStep DEF IInv, Apart
<1>3. f \in Frame
  BY DEF IInv, Types, RunOK, FrameOK
<1>4. \E r : Locals(t, r) /\ r.pc # "put_back" /\ r.pc # "reset"
  <2>1. ASSUME NEW n \in Node, Call(t, n)
        PROVE  \E r : Locals(t, r) /\ r.pc # "put_back" /\ r.pc # "reset"
    <3>1. [Idle EXCEPT !.pc = "get_pool", !.node = n].pc = "get_pool"
      BY DEF Idle
    <3> QED
      BY <2>1, <3>1 DEF Call
  <2>2. CASE GetPool(t)
    <3>1. PICK q : Using(t, q)
      BY <2>2 DEF GetPool
    <3> DEFINE r == [f EXCEPT !.pool = q, !.pc = IF f.conn = None THEN "get" ELSE "put"]
    <3>2. r.pc \in {"get", "put"} /\ Locals(t, r)
      BY <1>3, <3>1 DEF Frame, Using
    <3> HIDE DEF r
    <3> QED
      BY <3>2
  <2>3. CASE NoConnection(t) \/ PutFull(t)
    <3>1. Locals(t, Idle) /\ Idle.pc = "idle"
      BY <2>3 DEF NoConnection, PutFull, Idle
    <3> HIDE DEF Idle
    <3> QED
      BY <3>1
  <2>4. CASE Reuse(t)
    <3> DEFINE r == [f EXCEPT !.pc = "held", !.pool = None]
    <3>1. r.pc = "held" /\ Locals(t, r)
      BY <1>3, <2>4 DEF Frame, Reuse
    <3> HIDE DEF r
    <3> QED
      BY <3>1
  <2>5. CASE Release(t)
    <3> DEFINE r == [f EXCEPT !.pc = "get_pool"]
    <3>1. r.pc = "get_pool" /\ Locals(t, r)
      BY <1>3, <2>5 DEF Frame, Release, Goto
    <3> HIDE DEF r
    <3> QED
      BY <3>1
  <2> QED
    BY <2>1, <2>2, <2>3, <2>4, <2>5
<1>5. PICK r : Locals(t, r) /\ r.pc # "put_back" /\ r.pc # "reset"
  BY <1>4
<1>6. run'[t] = r
  BY <1>5 DEF IInv, Types, RunOK, Locals
<1>7. Owed' \subseteq Owed
  BY <1>5, OwedNext DEF IInv
<1> QED
  BY <1>1, <1>2, <1>5, <1>6, <1>7 DEF Tally

LEMMA WithinGet ==
    ASSUME IInv, Room, AllKnown, OneQueue, ~PerNode, NEW t \in Thread,
           Get(t) \/ GetOther(t)
    PROVE  Tally(t) /\ AllKnown' /\ run'[t].pc # "reset" /\ UNCHANGED <<byNode, group>>
<1> DEFINE f == run[t]
           s == Queued(t)
           x == Last(s)
           a == [f EXCEPT !.conn = x, !.pc = "put_back"]
           b == [f EXCEPT !.others = Append(@, x)]
<1>1. /\ UNCHANGED <<byNode, group, connections>> /\ f.pc = "get" /\ Pop(t) /\ s # <<>>
      /\ \/ Get(t) /\ Locals(t, a)
         \/ GetOther(t) /\ Locals(t, b) /\ x # None
  BY DEF Get, GetOther, Getting, TopMatches
<1>2. f \in Frame
  BY DEF IInv, Types, RunOK, FrameOK
<1>3. /\ f.pool = group /\ s = items[group] /\ group \in Queue
      /\ s \in Seq(Cell) /\ Permits = Nones(s)
  BY <1>1, GroupQueue DEF IInv
<1>4. Permits' = Nones(Front(s))
  <2>1. items' = [items EXCEPT ![group] = Front(s)]
    BY <1>1, <1>3 DEF Pop
  <2> HIDE DEF s
  <2>2. items'[group] = Front(s)
    BY <1>3, <2>1, NextLists DEF IInv
  <2> QED
    BY <1>1, <2>2 DEF Permits
<1>5. AllKnown'
  <2>1. \/ \E c \in Conn : Takes(t, f.pool, c)
        \/ LetsGo(t)
    BY GetDoes, GetOtherDoes DEF IInv
  <2> QED
    BY <1>1, <1>3, <2>1, KnownStep DEF IInv, Apart
<1>6. /\ x = None => Nones(Front(s)) = Nones(s) \ {Len(s)} /\ Len(s) \in Nones(s)
      /\ x # None => Nones(Front(s)) = Nones(s)
  BY <1>1, <1>3, NonesFront
<1>7. a.pc = "put_back" /\ a.conn = x /\ b.pc = "get"
  <2> HIDE DEF x
  <2> QED
    BY <1>1, <1>2 DEF Frame
<1> HIDE DEF a, b, x, s, f
<1>8. CASE Locals(t, a)
  <2>1. /\ Owed' \subseteq Owed \cup {t} /\ (x # None => Owed' \subseteq Owed)
        /\ run'[t] = a
    <3>1. run'[t] = a
      BY <1>8 DEF IInv, Types, RunOK, Locals
    <3> QED
      BY <1>7, <1>8, <3>1, OwedNext DEF IInv
  <2> QED
    BY <1>1, <1>3, <1>4, <1>5, <1>6, <1>7, <2>1 DEF Tally
<1>9. CASE Locals(t, b) /\ x # None
  <2>1. Owed' \subseteq Owed /\ run'[t] = b
    <3>1. run'[t] = b
      BY <1>9 DEF IInv, Types, RunOK, Locals
    <3> QED
      BY <1>7, <1>9, <3>1, OwedNext DEF IInv
  <2> QED
    BY <1>1, <1>3, <1>4, <1>5, <1>6, <1>7, <1>9, <2>1 DEF Tally
<1> QED
  BY <1>1, <1>8, <1>9

LEMMA WithinEvict ==
    ASSUME IInv, Room, AllKnown, OneQueue, ~PerNode, NEW t \in Thread, Evict(t)
    PROVE  Tally(t) /\ AllKnown' /\ run'[t].pc # "reset" /\ UNCHANGED <<byNode, group>>
<1> DEFINE f == run[t]
           s == f.others
           v == Last(s)
           r == [f EXCEPT !.others = Front(@), !.pc = "put_back"]
<1>1. /\ UNCHANGED <<items, byNode, group>> /\ v \in connections
      /\ connections' = connections \ {v} /\ Locals(t, r) /\ f.pc = "get"
  BY DEF Evict, Victim, TimedOut
<1>2. f \in Frame /\ s \in Seq(Conn) /\ s \in Seq(Cell) /\ s # <<>> /\ f.conn = None
  <2>1. f \in Frame /\ s \in Seq(Conn) /\ f.conn = None
    BY <1>1 DEF IInv, Types, RunOK, FrameOK, Frame
  <2> QED
    BY <2>1, SeqFacts, BlockingPoolAssumption DEF Evict, AllAreOthers, Cell
<1>3. v \in Holds(f) /\ v \notin Holds(r)
  <2>1. OnlyOnce(s)
    BY DEF IInv, Apart, NoDoubles
  <2>2. ConnsIn(Front(s)) = ConnsIn(s) \ {v}
    BY <1>2, <2>1, FrontConns
  <2>3. v \in Range(s) /\ v \in Conn
    BY <1>2, FrontFacts DEF Range
  <2>4. r.others = Front(s) /\ r.conn = None
    BY <1>2 DEF Frame
  <2> HIDE DEF r, v, s
  <2>5. v # None
    BY <2>3, BlockingPoolAssumption
  <2> QED
    BY <2>2, <2>3, <2>4, <2>5 DEF Holds, ConnsIn, s
<1>4. AllKnown'
  <2>1. {v} \subseteq Hands[t] /\ {v} \cap Hands'[t] = {}
    BY <1>1, <1>3, NextHands DEF IInv
  <2>2. LetsGo(t)
    BY LocalsLetGo DEF IInv, Apart
  <2> QED
    BY <1>1, <2>1, <2>2, KnownStep DEF IInv, Apart
<1>5. Permits' = Permits
  BY <1>1 DEF Permits
<1>6. Owed' \subseteq Owed \cup {t} /\ run'[t].pc = "put_back"
  <2>1. r.pc = "put_back"
    BY <1>2 DEF Frame
  <2> HIDE DEF r
  <2>2. run'[t] = r
    BY <1>1 DEF IInv, Types, RunOK, Locals
  <2> QED
    BY <1>1, <2>1, <2>2, OwedNext DEF IInv
<1> QED
  BY <1>1, <1>4, <1>5, <1>6 DEF Tally

LEMMA WithinPuts ==
    ASSUME IInv, Room, AllKnown, OneQueue, ~PerNode, NEW t \in Thread, PutBack(t) \/ Put(t)
    PROVE  Tally(t) /\ AllKnown' /\ run'[t].pc # "reset" /\ UNCHANGED <<byNode, group>>
<1> DEFINE f == run[t]
           s == Queued(t)
           d == [f EXCEPT !.others = Tail(@)]
<1>1. /\ UNCHANGED <<byNode, group, connections>> /\ f.pc \in {"put_back", "put"}
      /\ \/ f.pc = "put_back" /\ Locals(t, d)
         \/ f.pc = "put" /\ Locals(t, Idle)
  BY DEF PutBack, Put, PuttingBack
<1>2. f \in Frame
  BY DEF IInv, Types, RunOK, FrameOK
<1>3. /\ f.pool = group /\ s = items[group] /\ group \in Queue
      /\ s \in Seq(Cell) /\ Permits = Nones(s)
  BY <1>1, GroupQueue DEF IInv
<1>4. \E c \in Conn : items' = [items EXCEPT ![group] = Append(s, c)]
  <2>1. CASE PutBack(t)
    <3>1. Head(f.others) \in Conn
      BY <1>2, <2>1, TailFacts DEF Frame, PutBack, PuttingBack
    <3> QED
      BY <1>3, <2>1, <3>1 DEF PutBack, Push
  <2>2. CASE Put(t)
    <3>1. f.conn \in Conn
      BY <2>2 DEF Put, IInv, Types, RunOK, FrameOK, Frame, Cell
    <3> QED
      BY <1>3, <2>2, <3>1 DEF Put, Push
  <2> QED
    BY <2>1, <2>2
<1>5. Permits' = Permits
  <2>1. PICK c \in Conn : items' = [items EXCEPT ![group] = Append(s, c)]
    BY <1>4
  <2>2. items'[group] = Append(s, c)
    <3> HIDE DEF s
    <3> QED
      BY <1>3, <2>1, NextLists DEF IInv
  <2> QED
    BY <1>1, <1>3, <2>2, NonesAppend DEF Permits
<1>6. AllKnown'
  <2>1. \E c \in Conn : Gives(t, f.pool, c)
    BY PutsDo DEF IInv
  <2> QED
    BY <1>1, <1>3, <2>1, KnownStep DEF IInv, Apart
<1>7. d.pc = f.pc /\ d.conn = f.conn /\ Idle.pc = "idle"
  BY <1>2 DEF Frame, Idle
<1> HIDE DEF d, Idle
<1>8. Owed' \subseteq Owed /\ run'[t].pc # "reset"
  <2>1. ASSUME NEW r, Locals(t, r) PROVE run'[t] = r
    BY <2>1 DEF IInv, Types, RunOK, Locals
  <2>2. CASE f.pc = "put_back" /\ Locals(t, d)
    <3>1. t \in Owed' => t \in Owed
      BY <1>7, <2>2, OwedNext DEF IInv, Owed
    <3> QED
      BY <1>7, <2>1, <2>2, <3>1, OwedNext DEF IInv
  <2>3. CASE Locals(t, Idle)
    BY <1>7, <2>1, <2>3, OwedNext DEF IInv
  <2> QED
    BY <1>1, <2>2, <2>3
<1> QED
  BY <1>1, <1>5, <1>6, <1>8 DEF Tally

LEMMA WithinFull ==
    ASSUME IInv, Room, AllKnown, OneQueue, ~PerNode, NEW t \in Thread, PutBackFull(t)
    PROVE  /\ Tally(t) /\ AllKnown' /\ run'[t].pc # "reset" /\ UNCHANGED <<byNode, group>>
           /\ connections' = connections \ Range(run[t].others)
<1> DEFINE f == run[t]
           e == [f EXCEPT !.others = <<>>]
<1>1. /\ UNCHANGED <<items, byNode, group>> /\ f.pc = "put_back"
      /\ connections' = connections \ Known(t)
      /\ Locals(t, IF Forgotten(t) = {} THEN e ELSE Idle)
  BY DEF PutBackFull, PuttingBack
<1>2. f \in Frame /\ f.others \in Seq(Conn) /\ f.conn \notin Range(f.others)
  BY DEF IInv, Types, RunOK, FrameOK, Frame, Apart, NoDoubles
<1>3. \A c \in Range(f.others) : c \in Hands[t]
  BY <1>2, BlockingPoolAssumption DEF Hands, Holds, Range
<1>4. Forgotten(t) = {}
  BY <1>3 DEF Forgotten, AllKnown, Range
<1>5. Known(t) = Range(f.others)
  BY <1>4 DEF Known, Range
<1>6. Locals(t, e) /\ e.others = <<>> /\ e.conn = f.conn /\ e.pc = "put_back"
  BY <1>1, <1>2, <1>4 DEF Frame
<1> HIDE DEF e
<1>7. AllKnown'
  <2>1. Hands'[t] = Holds(e)
    BY <1>6, NextHands DEF IInv
  <2>2. Known(t) \subseteq Hands[t] /\ Known(t) \cap Hands'[t] = {}
    BY <1>2, <1>3, <1>5, <1>6, <2>1, NoneTwice DEF Holds
  <2>3. LetsGo(t)
    BY LocalsLetGo DEF IInv, Apart
  <2> QED
    BY <1>1, <2>2, <2>3, KnownStep DEF IInv, Apart
<1>8. Permits' = Permits
  BY <1>1 DEF Permits
<1>9. Owed' \subseteq Owed /\ run'[t].pc # "reset"
  <2>1. run'[t] = e
    BY <1>6 DEF IInv, Types, RunOK, Locals
  <2>2. t \in Owed' => t \in Owed
    BY <1>1, <1>6, OwedNext DEF IInv, Owed
  <2> QED
    BY <1>6, <2>1, <2>2, OwedNext DEF IInv
<1> QED
  BY <1>1, <1>5, <1>7, <1>8, <1>9 DEF Tally

LEMMA WithinMake ==
    ASSUME IInv, Room, AllKnown, OneQueue, ~PerNode, NEW t \in Thread, MakeConnection(t)
    PROVE  Tally(t) /\ AllKnown' /\ run'[t].pc # "reset" /\ UNCHANGED <<byNode, group>>
<1> DEFINE f == run[t]
           r == [f EXCEPT !.conn = FreshConn, !.pc = "held", !.pool = None]
<1>1. /\ UNCHANGED <<items, byNode, group>> /\ f.pc = "put_back" /\ f.conn = None
      /\ connections' = connections \cup {FreshConn} /\ Locals(t, r)
  BY DEF MakeConnection
<1>2. Makes(t, FreshConn) /\ FreshConn \in Conn
  BY MakeDoes DEF IInv
<1>3. AllKnown'
  BY <1>1, <1>2, KnownStep DEF IInv, Apart
<1>4. r.pc = "held" /\ f \in Frame
  BY DEF IInv, Types, RunOK, FrameOK, Frame
<1> HIDE DEF r
<1>5. t \in Owed /\ Owed' = Owed \ {t}
  BY <1>1, <1>4, OwedNext DEF IInv, Owed
<1>6. run'[t] = r
  BY <1>1 DEF IInv, Types, RunOK, Locals
<1>7. Permits' = Permits
  BY <1>1 DEF Permits
<1> QED
  BY <1>1, <1>3, <1>4, <1>5, <1>6, <1>7 DEF Tally

LEMMA WithinRun ==
    ASSUME IInv, Room, AllKnown, OneQueue, ~PerNode, resets' = resets,
           NEW t \in Thread, Run(t) \/ \E n \in Node : Call(t, n)
    PROVE  Room' /\ AllKnown' /\ OneQueue'
<1>1. ~MissingPool(t) /\ ~AddPool(t) /\ ~ResetPools(t) /\ ~ResetConnections(t)
  <2>1. ~AddPool(t)
    BY DEF AddPool, IInv, Types, RunOK, FrameOK
  <2>2. ~ResetPools(t)
    BY DEF ResetPools, IInv, Types, TablesOK
  <2> QED
    BY <2>1, <2>2 DEF MissingPool, ResetConnections, OneQueue
<1>2. Tally(t) /\ AllKnown' /\ run'[t].pc # "reset" /\ UNCHANGED <<byNode, group>>
  BY <1>1, WithinLocals, WithinGet, WithinEvict, WithinPuts, WithinFull, WithinMake DEF Run
<1>3. Room'
  BY <1>2, RoomStep DEF IInv
<1>4. /\ \A u \in Thread : u # t => run'[u] = run[u]
      /\ run'[t].pool \in {run[t].pool, None} \cup Current
  BY <1>1, PoolAfter DEF IInv
<1>5. Current = {group}
  BY DEF Current, OneQueue
<1>6. OneQueue'
  BY <1>2, <1>4, <1>5 DEF OneQueue
<1> QED
  BY <1>2, <1>3, <1>6

LEMMA WithinStep ==
    ASSUME ~PerNode
    PROVE  IInv /\ Within /\ [Next]_vars => Within'
<1> SUFFICES ASSUME IInv, Within, [Next]_vars, resets' = 0
             PROVE  (Room /\ AllKnown /\ OneQueue)'
  BY DEF Within
<1>1. resets = 0
  <2>1. resets' = resets \/ resets' = resets + 1
    BY DEF Next, vars, Run, Call, GetPool, MissingPool, AddPool, Get, GetOther, Evict,
           NoConnection, PutBack, PutBackFull, Reuse, MakeConnection, Release, Put, PutFull,
           ResetPools, ResetConnections
  <2> QED
    BY <2>1 DEF IInv, Types, TablesOK
<1>2. CASE UNCHANGED vars
  <2>1. UNCHANGED <<items, byNode, group, connections, run>> /\ Hands' = Hands /\ Lists' = Lists
    BY <1>2 DEF vars, Hands, Lists
  <2> QED
    BY <1>1, <2>1 DEF Within, Room, AllKnown, OneQueue, Permits, Owed
<1>3. CASE Next
  BY <1>1, <1>3, WithinRun DEF Within, Next
<1> QED
  BY <1>2, <1>3

LEMMA WithinInit == Init => Within
<1> SUFFICES ASSUME Init PROVE Room /\ AllKnown /\ OneQueue
  BY DEF Within
<1>1. /\ \A t \in Thread : run[t] = Idle
      /\ connections = {} /\ byNode = <<>> /\ group \in Queue /\ items[group] = Full
  BY BlockingPoolAssumption DEF Init
<1>2. Permits = Nones(Full) /\ Owed = {}
  BY <1>1 DEF Permits, Owed, Idle
<1>3. /\ \A t \in Thread : Hands[t] = {}
      /\ Lists[group] = {}
  BY <1>1, IdleFrame, NoneTwice DEF Hands, Holds, Lists
<1>4. Room
  BY <1>1, <1>2, NonesFull, FS_EmptySet, BlockingPoolAssumption DEF Room
<1>5. OneQueue
  BY <1>1, NoneTwice DEF OneQueue, Idle
<1> QED
  BY <1>1, <1>3, <1>4, <1>5 DEF AllKnown

(* With one queue for all nodes, until a reset forgets some, no more       *)
(* connections than max_connections are open, to any node and in all,      *)
(* whatever searches, evictions and failures to find one interleave.       *)
THEOREM BlockingOpenBound ==
    ASSUME ~PerNode
    PROVE  Spec => []OpenBound
<1>1. Init => IInv /\ Within
  BY IInvInit, WithinInit
<1>2. IInv /\ Within /\ [Next]_vars => IInv' /\ Within'
  BY IInvStep, WithinStep
<1>3. IInv /\ Within => OpenBound
  <2> SUFFICES ASSUME IInv, Within, resets = 0
               PROVE  /\ Cardinality(connections) <= MaxConnections
                      /\ \A k : Cardinality(OpenTo(k)) <= MaxConnections
    BY DEF OpenBound
  <2>1. IsFiniteSet(connections) /\ Cardinality(connections) \in Nat
    BY FS_CardinalityType DEF Within, Room
  <2>2. Cardinality(connections) <= MaxConnections
    <3>1. Cardinality(Permits) \in Nat /\ Cardinality(Owed) \in Nat
      BY NonesFinite, FS_CardinalityType DEF Within, Room, Permits, IInv, Types, TablesOK
    <3> QED
      BY <2>1, <3>1, BlockingPoolAssumption DEF Within, Room
  <2>3. ASSUME NEW k PROVE Cardinality(OpenTo(k)) <= MaxConnections
    <3>1. OpenTo(k) \in SUBSET connections
      BY DEF OpenTo
    <3>2. /\ Cardinality(OpenTo(k)) <= Cardinality(connections)
          /\ Cardinality(OpenTo(k)) \in Nat
      BY <2>1, <3>1, FS_Subset, FS_CardinalityType
    <3> QED
      BY <2>1, <2>2, <3>2, BlockingPoolAssumption
  <2> QED
    BY <2>2, <2>3
<1> QED
  BY <1>1, <1>2, <1>3, PTL DEF Spec

-----------------------------------------------------------------------------
(* What goes missing.                                                      *)

(* The queue has room for a connection that is still out: what it holds    *)
(* are permissions and other connections.                                  *)
LEMMA RoomToPut ==
    ASSUME IInv, Room, AllKnown, OneQueue, NEW t \in Thread, run[t].pc = "put"
    PROVE  ~IsFull(t)
<1> DEFINE s == items[group]
           c == run[t].conn
           A == Nones(s)
           B == DOMAIN s \ A
           T == connections \ {c}
           f == [i \in B |-> s[i]]
<1>1. /\ Queued(t) = s /\ s \in Seq(Cell) /\ A = Permits /\ DOMAIN s = 1 .. Len(s)
      /\ Len(s) \in Nat
  BY GroupQueue, SeqFacts DEF IInv
<1>2. c \in connections /\ c \notin Lists[group] /\ c \in Conn
  <2>1. c \in Conn /\ c # None
    BY BlockingPoolAssumption DEF IInv, Types, RunOK, FrameOK, Frame, Cell
  <2>2. c \in Hands[t]
    BY <2>1 DEF Hands, Holds
  <2>3. group \in Live
    BY LiveQueues DEF IInv
  <2> QED
    BY <2>1, <2>2, <2>3 DEF AllKnown, IInv, Apart, Disjoint
<1>3. \A i \in B : s[i] \in T
  <2>1. \A i \in B : s[i] \in Lists[group]
    BY LiveQueues DEF Lists, ConnsIn, Range, Nones, IInv
  <2> QED
    BY <1>2, <2>1 DEF AllKnown
<1>4. OnlyOnce(s)
  BY LiveQueues DEF IInv, Apart, NoDoubles
<1>5. IsFiniteSet(T) /\ Cardinality(T) = Cardinality(connections) - 1
  BY <1>2, FS_RemoveElement DEF Room
<1>6. IsFiniteSet(B) /\ Cardinality(B) <= Cardinality(T)
  <2>1. f \in Injection(B, T)
    <3>1. \A i, j \in B : s[i] = s[j] => i = j
      BY <1>4 DEF OnlyOnce, Nones
    <3>2. f \in [B -> T]
      BY <1>3
    <3> QED
      BY <3>1, <3>2 DEF Injection, IsInjective
  <2> HIDE DEF f, B, T
  <2> QED
    BY <1>5, <2>1, FS_Injection
<1>7. IsFiniteSet(A) /\ Cardinality(A) \in Nat
  BY <1>1, NonesFinite
<1>8. Len(s) = Cardinality(A) + Cardinality(B)
  <2>1. A \cup B = 1 .. Len(s) /\ A \cap B = {}
    BY <1>1 DEF Nones
  <2>2. Cardinality(1 .. Len(s)) = Len(s)
    BY <1>1, FS_Interval
  <2>3. Cardinality(A \cup B) = Cardinality(A) + Cardinality(B) - Cardinality(A \cap B)
    <3> HIDE DEF A, B
    <3> QED
      BY <1>6, <1>7, FS_Union
  <2>4. Cardinality(A \cap B) = 0
    BY <2>1, FS_EmptySet
  <2>5. Cardinality(B) \in Nat
    BY <1>6, FS_CardinalityType
  <2>6. Cardinality(A \cup B) = Len(s)
    BY <2>1, <2>2
  <2> HIDE DEF A, B, s
  <2> QED
    BY <1>7, <2>3, <2>4, <2>5, <2>6
<1>9. /\ Cardinality(connections) \in Nat /\ Cardinality(Owed) \in Nat
      /\ Cardinality(B) \in Nat /\ Cardinality(T) \in Nat
      /\ Cardinality(connections) + Cardinality(A) + Cardinality(Owed) <= MaxConnections
  BY <1>1, <1>5, <1>6, FS_CardinalityType DEF Room
<1> HIDE DEF s, A, B, T
<1>10. Len(s) < MaxConnections
  BY <1>5, <1>6, <1>7, <1>8, <1>9, BlockingPoolAssumption
<1>11. Len(Queued(t)) = Len(s) /\ Len(s) \in Nat
  BY <1>1
<1>12. Len(Queued(t)) # MaxConnections
  BY <1>10, <1>11, BlockingPoolAssumption
<1> QED
  BY <1>12 DEF IsFull

PlacedOK ==
    \A c \in Conn : c \in Placed <=> (\E t \in Thread : c \in Hands[t]) \/ c \in Lists[group]

LEMMA PlacedIs == Types /\ OneQueue => PlacedOK
<1> SUFFICES ASSUME Types, OneQueue, NEW c \in Conn
             PROVE  c \in Placed <=> (\E t \in Thread : c \in Hands[t]) \/ c \in Lists[group]
  BY DEF PlacedOK
<1> DEFINE H == UNION {Has(t) : t \in Thread}
           Q == UNION {Range(items[q]) : q \in UsedQueues \ {None}}
<1>1. Placed = Q \cup H
  BY DEF Placed
<1>2. c # None /\ group \in Queue /\ group # None
  BY BlockingPoolAssumption DEF Types, TablesOK
<1>3. c \in H <=> \E t \in Thread : c \in Hands[t]
  <2>1. \A t \in Thread : c \in Has(t) <=> c \in Hands[t]
    BY <1>2 DEF Has, Hands, Holds
  <2> QED
    BY <2>1
<1>4. c \in Q <=> c \in Lists[group]
  <2>1. UsedQueues \ {None} = {group}
    BY <1>2 DEF UsedQueues, OneQueue
  <2>2. c \in Q <=> c \in Range(items[group])
    BY <2>1
  <2> QED
    BY <1>2, <2>2 DEF Lists, ConnsIn
<1> HIDE DEF H, Q
<1> QED
  BY <1>1, <1>3, <1>4

LEMMA PlacedNext == Types' /\ OneQueue' => PlacedOK'
  BY PlacedIs, PTL

(* What a thread has it keeps or puts on the queue; an eviction, or a      *)
(* put-back to a full queue, also takes it out of _connections.            *)
LEMMA HandsKept ==
    ASSUME IInv, Room, AllKnown, OneQueue, NEW t \in Thread, ~PerNode,
           Run(t) \/ \E n \in Node : Call(t, n), resets' = resets,
           NEW c \in Hands[t], c \in connections'
    PROVE  c \in Hands'[t] \/ c \in Lists'[group] \/ (NoConnection(t) /\ c \in Range(run[t].others))
<1> DEFINE f == run[t]
<1>1. /\ f \in Frame /\ FrameOK(f) /\ Hands[t] = Holds(f) /\ c # None
      /\ f.others \in Seq(Conn)
  BY DEF IInv, Types, RunOK, FrameOK, Frame, Hands, Holds
<1>2. ASSUME NEW r, Locals(t, r), Range(f.others) \subseteq Range(r.others),
             f.conn \in {None, r.conn}
      PROVE  c \in Hands'[t]
  <2>1. Hands'[t] = Holds(r)
    BY <1>2, NextHands DEF IInv
  <2> QED
    BY <1>1, <1>2, <2>1 DEF Holds
<1>3. CASE \E n \in Node : Call(t, n)
  <2>1. f.conn = None /\ f.others = <<>>
    BY <1>1, <1>3 DEF Call, FrameOK
  <2> QED
    BY <1>1, <2>1, NoneTwice DEF Holds
<1>4. CASE GetPool(t)
  <2>1. PICK q : Using(t, q)
    BY <1>4 DEF GetPool
  <2> DEFINE r == [f EXCEPT !.pool = q, !.pc = IF f.conn = None THEN "get" ELSE "put"]
  <2>2. r.others = f.others /\ r.conn = f.conn /\ Locals(t, r)
    BY <1>1, <2>1 DEF Frame, Using
  <2> HIDE DEF r, f
  <2> QED
    BY <1>2, <2>2
<1>5. CASE Get(t)
  <2> DEFINE x == Last(Queued(t))
             r == [f EXCEPT !.conn = x, !.pc = "put_back"]
  <2>1. r.others = f.others /\ f.conn = None /\ Locals(t, r)
    BY <1>1, <1>5 DEF Frame, FrameOK, Get, Getting
  <2> HIDE DEF r, f
  <2> QED
    BY <1>2, <2>1
<1>6. CASE GetOther(t)
  <2> DEFINE x == Last(Queued(t))
             r == [f EXCEPT !.others = Append(@, x)]
  <2>1. r.others = Append(f.others, x) /\ f.conn = None /\ Locals(t, r)
    BY <1>1, <1>6 DEF Frame, FrameOK, GetOther, Getting
  <2>2. Range(f.others) \subseteq Range(r.others)
    <3>1. x \in Cell
      BY <1>6, QueueOf, FrontFacts DEF GetOther, Getting, IInv
    <3>2. f.others \in Seq(Cell)
      BY <1>1 DEF Cell
    <3> HIDE DEF x, f, r
    <3> QED
      BY <2>1, <3>1, <3>2, AppendFacts, SeqFacts DEF Range
  <2> HIDE DEF r, f
  <2> QED
    BY <1>2, <2>1, <2>2
<1>7. CASE Reuse(t) \/ Release(t)
  <2> DEFINE r == [f EXCEPT !.pc = "held", !.pool = None]
             p == [f EXCEPT !.pc = "get_pool"]
  <2>1. /\ r.others = f.others /\ r.conn = f.conn /\ p.others = f.others /\ p.conn = f.conn
        /\ Locals(t, r) \/ Locals(t, p)
    BY <1>1, <1>7 DEF Frame, Reuse, Release, Goto
  <2> HIDE DEF r, f, p
  <2> QED
    BY <1>2, <2>1
<1>8. CASE MakeConnection(t)
  <2>1. f.conn = None /\ f.others = <<>>
    BY <1>8 DEF MakeConnection
  <2> QED
    BY <1>1, <2>1, NoneTwice DEF Holds
<1>9. CASE NoConnection(t)
  <2>1. f.conn = None
    BY <1>1, <1>9 DEF NoConnection, TimedOut, FrameOK
  <2> QED
    BY <1>1, <1>9, <2>1 DEF Holds
<1>10. CASE Evict(t)
  <2> DEFINE r == [f EXCEPT !.others = Front(@), !.pc = "put_back"]
             s == f.others
  <2>1. /\ f.conn = None /\ connections' = connections \ {Last(s)} /\ Locals(t, r)
        /\ r.others = Front(s) /\ s \in Seq(Cell) /\ s # <<>> /\ OnlyOnce(s)
    BY <1>1, <1>10, SeqFacts, BlockingPoolAssumption
    DEF Evict, Victim, TimedOut, FrameOK, Frame, Cell, AllAreOthers, IInv, Apart, NoDoubles
  <2>2. ConnsIn(Front(s)) = ConnsIn(s) \ {Last(s)}
    BY <2>1, FrontConns
  <2>3. Hands'[t] = Holds(r)
    BY <2>1, NextHands DEF IInv
  <2>4. c # Last(s)
    BY <2>1
  <2> HIDE DEF r, f
  <2> QED
    BY <1>1, <2>1, <2>2, <2>3, <2>4 DEF Holds, ConnsIn
<1>11. CASE PutBackFull(t)
  <2> DEFINE e == [f EXCEPT !.others = <<>>]
  <2>1. c \notin Range(f.others)
    BY <1>11, WithinFull
  <2>2. Locals(t, e) \/ Locals(t, Idle)
    BY <1>11 DEF PutBackFull
  <2>3. Locals(t, e)
    <3>1. \A d \in Range(f.others) : d \in Hands[t]
      BY <1>1, BlockingPoolAssumption DEF Holds, Range
    <3>2. Forgotten(t) = {}
      BY <3>1 DEF Forgotten, AllKnown, Range
    <3> QED
      BY <1>11, <3>2 DEF PutBackFull
  <2>4. e.conn = f.conn
    BY <1>1 DEF Frame
  <2>5. Hands'[t] = Holds(e)
    BY <2>3, NextHands DEF IInv
  <2> HIDE DEF e
  <2> QED
    BY <1>1, <2>1, <2>4, <2>5 DEF Holds
<1>12. CASE PutBack(t) \/ Put(t)
  <2>1. PICK d \in Conn : Gives(t, f.pool, d)
    BY <1>12, PutsDo DEF IInv
  <2>2. f.pool = group
    BY <1>12, GroupQueue DEF PutBack, Put, PuttingBack, IInv
  <2> HIDE DEF f
  <2> QED
    BY <2>1, <2>2 DEF Gives
<1>13. ~PutFull(t)
  BY RoomToPut DEF PutFull
<1>14. ~MissingPool(t) /\ ~AddPool(t) /\ ~ResetPools(t) /\ ~ResetConnections(t)
  <2>1. ~AddPool(t)
    BY <1>1 DEF AddPool, FrameOK
  <2>2. ~ResetPools(t)
    BY DEF ResetPools, IInv, Types, TablesOK
  <2> QED
    BY <2>1, <2>2 DEF MissingPool, ResetConnections, OneQueue
<1> QED
  BY <1>3, <1>4, <1>5, <1>6, <1>7, <1>8, <1>9, <1>10, <1>11, <1>12, <1>13, <1>14 DEF Run

LEMMA LoseRun ==
    ASSUME IInv, IInv', Room, AllKnown, OneQueue, OneQueue', ~PerNode, resets' = resets,
           NEW t \in Thread, Run(t) \/ \E n \in Node : Call(t, n),
           NEW c \in Missing', c \notin Missing
    PROVE  NoConnection(t) /\ c \in Range(run[t].others)
<1>1. c \in Conn /\ c \in connections' /\ c \notin Placed'
  BY DEF Missing, IInv, Types, TablesOK
<1>2. ~MissingPool(t) /\ ~AddPool(t) /\ ~ResetPools(t)
  <2>1. ~AddPool(t)
    BY DEF AddPool, IInv, Types, RunOK, FrameOK
  <2>2. ~ResetPools(t)
    BY DEF ResetPools, IInv, Types, TablesOK
  <2> QED
    BY <2>1, <2>2 DEF MissingPool
<1>3. Moves(t)
  BY <1>2, EveryMove DEF IInv
<1>4. /\ group' = group
      /\ connections' \subseteq connections \/ (MakeConnection(t) /\ connections' = connections \cup {FreshConn})
  BY <1>2 DEF Run, Call, GetPool, Get, GetOther, Evict, NoConnection, PutBack, PutBackFull,
              Reuse, MakeConnection, Release, Put, PutFull, ResetConnections
<1>5. (\A u \in Thread : c \notin Hands'[u]) /\ c \notin Lists'[group]
  BY <1>1, <1>4, PlacedNext DEF PlacedOK, IInv
<1>6. c \in connections
  <2>1. CASE MakeConnection(t) /\ connections' = connections \cup {FreshConn}
    BY <1>1, <1>5, <2>1, MakeDoes DEF IInv, Makes
  <2> QED
    BY <1>1, <1>4, <2>1
<1>7. (\E u \in Thread : c \in Hands[u]) \/ c \in Lists[group]
  BY <1>1, <1>6, PlacedIs DEF PlacedOK, Missing, IInv
<1>8. group \in Live
  BY LiveQueues DEF IInv
<1>9. ASSUME NEW u \in Thread, u # t, c \in Hands[u] PROVE FALSE
  <2>1. Hands'[u] = Hands[u]
    BY <1>3, <1>9 DEF Moves, Takes, Gives, Makes, LetsGo, OthersKeep
  <2> QED
    BY <1>5, <1>9, <2>1
<1>10. c \notin Lists[group]
  BY <1>3, <1>5, <1>8 DEF Moves, Takes, Gives, Makes, LetsGo, SameLists
<1>11. c \in Hands[t]
  BY <1>7, <1>9, <1>10
<1> QED
  BY <1>1, <1>5, <1>11, HandsKept

(* Without a reset, a connection that _connections counts is lost to the   *)
(* pool with one queue in one way: by the timeout of a thread that has set *)
(* it aside.  A release, in particular, never finds the queue full.        *)
THEOREM BlockingOnlyTimeoutsLose ==
    ASSUME ~PerNode
    PROVE  Spec => OnlyTimeoutsLose
<1> DEFINE Loses == resets' = 0 =>
                      \A c \in Missing' \ Missing :
                          \E t \in Thread : NoConnection(t) /\ c \in Range(run[t].others)
<1>1. Init => IInv /\ Within
  BY IInvInit, WithinInit
<1>2. IInv /\ Within /\ [Next]_vars => IInv' /\ Within'
  BY IInvStep, WithinStep
<1>3. IInv /\ IInv' /\ Within /\ Within' /\ [Next]_vars => [Loses]_vars
  <2> SUFFICES ASSUME IInv, IInv', Within, Within', Next, resets' = 0,
                      NEW c \in Missing' \ Missing
               PROVE  \E t \in Thread : NoConnection(t) /\ c \in Range(run[t].others)
    OBVIOUS
  <2>1. PICK t \in Thread : Run(t) \/ \E n \in Node : Call(t, n)
    BY DEF Next
  <2>2. resets' = resets
    <3>1. resets' = resets \/ resets' = resets + 1
      BY DEF Next, Run, Call, GetPool, MissingPool, AddPool, Get, GetOther, Evict,
             NoConnection, PutBack, PutBackFull, Reuse, MakeConnection, Release, Put, PutFull,
             ResetPools, ResetConnections
    <3> QED
      BY <3>1 DEF IInv, Types, TablesOK
  <2> QED
    BY <2>1, <2>2, LoseRun DEF Within
<1> QED
  BY <1>1, <1>2, <1>3, PTL DEF Spec, OnlyTimeoutsLose
=============================================================================
