------------------------ MODULE ClusterPipeline_proofs ------------------------
(***************************************************************************)
(* Whatever fails, a pipeline never gives back a connection that owes a    *)
(* reply, and gives each command its own reply.  As long as no answer is   *)
(* lost, no command is executed twice, and while a slot's commands have    *)
(* one node that its keys only leave, those of a key keep their order.     *)
(*                                                                         *)
(* The invariant is that each connection matches what has to be read from  *)
(* it: in the order of its batch, replies and then requests, or nothing    *)
(* (Matches, Due).  From that follow the other ones, of what is executed   *)
(* and answered (Answered, Once) and of what is refused (Ordered).         *)
(***************************************************************************)
EXTENDS ClusterPipeline, WellFoundedInduction, TLAPS

(* There is a first one of the commands that are sent again.               *)
LEMMA FirstOne ==
    ASSUME NEW S \in SUBSET Nat, S # {}
    PROVE  Min(S) \in S /\ \A i \in S : Min(S) <= i
<1>1. \E x \in S : \A y \in S : ~(<<y, x>> \in OpToRel(<, Nat))
  BY NatLessThanWellFounded, WFMin
<1>2. PICK x \in S : \A y \in S : ~(<<y, x>> \in OpToRel(<, Nat))
  BY <1>1
<1>3. ASSUME NEW y \in S PROVE x <= y
  <2>1. x \in Nat /\ y \in Nat
    OBVIOUS
  <2>2. y < x => <<y, x>> \in {ss \in Nat \X Nat : ss[1] < ss[2]}
    BY <2>1
  <2>3. OpToRel(<, Nat) = {ss \in Nat \X Nat : ss[1] < ss[2]}
    BY DEF OpToRel
  <2>4. ~(y < x)
    BY <1>2, <2>2, <2>3, Zenon
  <2> QED
    BY <2>1, <2>4
<1> QED
  BY <1>3 DEF Min

LEMMA CmdFacts ==
    /\ Cmd = 1 .. Len(Keys) /\ Len(Keys) \in Nat \ {0}
    /\ Cmd \in SUBSET Nat
BY ClusterPipelineAssumption DEF Cmd


-----------------------------------------------------------------------------
Label   == {"route", "write", "read", "release", "count", "retry", "finish",
            "returned", "raised"}
Outcome == {"none", "ok", "error", "down", "lost", "moved", "ask", "tryagain"}
Reply   == [of : Cmd, is : Outcome]
Answers == [of : Cmd, is : Outcome \ {"none", "lost"}]
Wire    == [requests : Seq(Cmd), replies : Seq(Answers), readonly : BOOLEAN]
Place   == Nat \ {0}
Locals  == [pc : Label, next : Place, at : Place, nodes : Seq(Node),
            batch : [Node -> Seq(Cmd)], attempt : SUBSET Cmd, reset : BOOLEAN,
            result : [Cmd -> Reply], tries : Nat, raise : RaiseOnError]

(* Where the locals p of execute point to.                                 *)
Cursor(p) ==
    /\ p.pc = "route" => p.next \in Cmd /\ p.at = 1
    /\ p.pc \in {"write", "read"} => p.at \in DOMAIN p.nodes
    /\ p.pc = "read" => p.next \in DOMAIN p.batch[p.nodes[p.at]]
    /\ p.pc \in {"count", "retry"} => p.attempt # {}
    /\ p.pc \notin {"count", "retry", "raised"} => p.attempt = {}

(* Each node has one batch, and each command a place in one, in the order  *)
(* in which the commands were queued.                                      *)
Grouped(p) ==
    /\ \A j, k \in DOMAIN p.nodes : p.nodes[j] = p.nodes[k] => j = k
    /\ \A n \in Node : n \in Range(p.nodes) <=> p.batch[n] # <<>>
    /\ \A n \in Node : \A j, k \in DOMAIN p.batch[n] : j < k => p.batch[n][j] < p.batch[n][k]
    /\ \A n, m \in Node : n # m => Range(p.batch[n]) \cap Range(p.batch[m]) = {}
    /\ p.pc = "route" => \A n \in Node : \A i \in Range(p.batch[n]) : i < p.next
    /\ \A i \in Cmd : p.pc = "raised" \/ (p.pc = "route" /\ p.next <= i)
                        \/ \E n \in Node : i \in Range(p.batch[n])

TablesOK ==
    /\ owner \in [Slot -> Node] /\ moved \in SUBSET Key /\ log \in Seq(Cmd)
    /\ table \in [Slot -> Node]
    /\ wire \in [Node -> Wire] /\ late \in [Node -> Seq(Cmd)]
    /\ held \in SUBSET Node /\ faults \in 0 .. MaxFaults

Types == TablesOK /\ pipe \in Locals /\ Cursor(pipe) /\ Grouped(pipe)

Silent(w) == w.requests = <<>> /\ w.replies = <<>>

(* The connection w and the results r agree on what the batch b still has  *)
(* to read from position x on: nothing, because the batch was lost or      *)
(* read, or one reply for each command, answered or not yet.               *)
Matches(b, w, r, x) ==
    \/ Silent(w) /\ \A j \in DOMAIN b : j >= x => r[b[j]].is # "none"
    \/ /\ \A j \in DOMAIN b : j >= x => r[b[j]].is = "none"
       /\ Len(w.replies) + Len(w.requests) = Len(b) - x + 1
       /\ \A k \in DOMAIN w.replies : w.replies[k].of = b[x + k - 1]
       /\ \A k \in DOMAIN w.requests : w.requests[k] = b[x + Len(w.replies) + k - 1]

(* The position from which on the j-th node has to be read.                *)
Due(p, j) ==
    LET end == Len(p.batch[p.nodes[j]]) + 1
    IN  IF p.pc = "write" THEN IF j < p.at THEN 1 ELSE end
        ELSE IF j < p.at THEN end ELSE IF j = p.at THEN p.next ELSE 1

Wires ==
    /\ \A n \in Node : pipe.pc \notin {"write", "read"} \/ n \notin Range(pipe.nodes)
                          => Silent(wire[n])
    /\ pipe.pc \in {"write", "read"} =>
          /\ Range(pipe.nodes) \subseteq held
          /\ \A j \in DOMAIN pipe.nodes :
                Matches(pipe.batch[pipe.nodes[j]], wire[pipe.nodes[j]], pipe.result, Due(pipe, j))
    /\ pipe.pc = "route" => Range(pipe.nodes) \subseteq held

(* The reply v says that its command was executed when it was, and that    *)
(* the cluster is down when it is at times.                                *)
Justified(v, executed) ==
    /\ v.is = "ok" => v.of \in executed
    /\ v.is = "down" => "down" \in Fault

ResultsTrue == \A i \in Cmd : pipe.result[i].of = i /\ Justified(pipe.result[i], Range(log))
RepliesTrue(n) == \A k \in DOMAIN wire[n].replies : Justified(wire[n].replies[k], Range(log))

Answered == ResultsTrue /\ \A n \in Node : RepliesTrue(n)

IInv == Types /\ Wires /\ Answered

LEMMA KeyFacts ==
    /\ \A i \in Cmd : Keys[i] \in SUBSET Key /\ Keys[i] # {}
    /\ \A i \in Cmd : SlotOfCmd(i) \in Slot
    /\ \A i \in Cmd : \A k \in Keys[i] : SlotOf[k] = SlotOfCmd(i)
<1>1. \A i \in Cmd : Keys[i] \in SUBSET Key /\ Keys[i] # {}
  BY ClusterPipelineAssumption DEF Cmd
<1>2. \A i \in Cmd : (CHOOSE k \in Keys[i] : TRUE) \in Keys[i]
  BY <1>1
<1> QED
  BY <1>1, <1>2, ClusterPipelineAssumption DEF SlotOfCmd

LEMMA SeqFacts ==
    ASSUME NEW S, NEW s \in Seq(S)
    PROVE  /\ Len(s) \in Nat /\ DOMAIN s = 1 .. Len(s)
           /\ \A j \in DOMAIN s : s[j] \in S
           /\ s # <<>> <=> Len(s) > 0
           /\ Range(s) \in SUBSET S
           /\ \A j \in DOMAIN s : s[j] \in Range(s)
BY DEF Range

(* What a batch and a list of nodes become when one is added to them.      *)
LEMMA AppendFacts ==
    ASSUME NEW S, NEW s \in Seq(S), NEW e \in S
    PROVE  /\ Append(s, e) \in Seq(S) /\ Append(s, e) # <<>>
           /\ Len(Append(s, e)) = Len(s) + 1
           /\ DOMAIN Append(s, e) = 1 .. Len(s) + 1
           /\ \A j \in DOMAIN s : Append(s, e)[j] = s[j]
           /\ Append(s, e)[Len(s) + 1] = e
           /\ Range(Append(s, e)) = Range(s) \cup {e}
<1>1. /\ Append(s, e) \in Seq(S)
      /\ Len(Append(s, e)) = Len(s) + 1
      /\ DOMAIN Append(s, e) = 1 .. Len(s) + 1
      /\ \A j \in DOMAIN s : Append(s, e)[j] = s[j]
      /\ Append(s, e)[Len(s) + 1] = e
      /\ Len(s) \in Nat /\ DOMAIN s = 1 .. Len(s)
  OBVIOUS
<1>2. Append(s, e) # <<>>
  BY <1>1
<1> DEFINE a == Append(s, e)
<1> HIDE DEF a
<1>3. Range(a) \subseteq Range(s) \cup {e}
  <2> SUFFICES ASSUME NEW j \in DOMAIN a PROVE a[j] \in Range(s) \cup {e}
    BY DEF Range
  <2>1. j \in DOMAIN s \/ j = Len(s) + 1
    BY <1>1 DEF a
  <2> QED
    BY <2>1, <1>1 DEF a, Range
<1>4. Range(s) \cup {e} \subseteq Range(a)
  <2>1. \A j \in DOMAIN s : j \in DOMAIN a /\ a[j] = s[j]
    BY <1>1 DEF a
  <2>2. Len(s) + 1 \in DOMAIN a /\ a[Len(s) + 1] = e
    BY <1>1 DEF a
  <2> QED
    BY <2>1, <2>2 DEF Range
<1> QED
  BY <1>1, <1>2, <1>3, <1>4 DEF a

LEMMA PlaceFacts == 1 \in Place /\ Place \in SUBSET Nat /\ \A x \in Nat : x + 1 \in Place
BY DEF Place

LEMMA LocalsFacts ==
    ASSUME NEW p \in Locals
    PROVE  /\ p.pc \in Label /\ p.next \in Nat \ {0} /\ p.at \in Nat \ {0}
           /\ p.next + 1 \in Place /\ p.at + 1 \in Place
           /\ p.nodes \in Seq(Node) /\ p.batch \in [Node -> Seq(Cmd)]
           /\ p.attempt \in SUBSET Cmd /\ p.reset \in BOOLEAN
           /\ p.result \in [Cmd -> Reply] /\ p.tries \in Nat /\ p.raise \in RaiseOnError
BY DEF Locals, Place

LEMMA NextNodeFacts ==
    ASSUME NEW p \in Locals, NEW phase \in Label
    PROVE  LET q == NextNode(p, phase)
           IN  /\ q \in Locals
               /\ q.nodes = p.nodes /\ q.batch = p.batch /\ q.result = p.result
               /\ q.attempt = p.attempt /\ q.tries = p.tries /\ q.raise = p.raise
               /\ q.next = 1
               /\ \/ p.at < Len(p.nodes) /\ q.at = p.at + 1 /\ q.pc = p.pc
                  \/ ~(p.at < Len(p.nodes)) /\ q.at = 1 /\ q.pc = phase
<1>0. Len(p.nodes) \in Nat
  BY LocalsFacts, SeqFacts
<1>1. CASE p.at < Len(p.nodes)
  <2>1. NextNode(p, phase) = [p EXCEPT !.at = @ + 1, !.next = 1]
    BY <1>1 DEF NextNode
  <2> DEFINE q == [p EXCEPT !.at = @ + 1, !.next = 1]
  <2>2. q \in Locals
    BY LocalsFacts, PlaceFacts DEF Locals
  <2>3. /\ q.nodes = p.nodes /\ q.batch = p.batch /\ q.result = p.result
        /\ q.attempt = p.attempt /\ q.tries = p.tries /\ q.raise = p.raise
        /\ q.next = 1 /\ q.at = p.at + 1 /\ q.pc = p.pc
    BY DEF Locals
  <2> QED
    BY <1>1, <2>1, <2>2, <2>3
<1>2. CASE ~(p.at < Len(p.nodes))
  <2>1. NextNode(p, phase) = [p EXCEPT !.at = 1, !.next = 1, !.pc = phase]
    BY <1>2 DEF NextNode
  <2> DEFINE q == [p EXCEPT !.at = 1, !.next = 1, !.pc = phase]
  <2>2. q \in Locals
    BY LocalsFacts, PlaceFacts DEF Locals
  <2>3. /\ q.nodes = p.nodes /\ q.batch = p.batch /\ q.result = p.result
        /\ q.attempt = p.attempt /\ q.tries = p.tries /\ q.raise = p.raise
        /\ q.next = 1 /\ q.at = 1 /\ q.pc = phase
    BY DEF Locals
  <2> QED
    BY <1>2, <2>1, <2>2, <2>3
<1> QED
  BY <1>1, <1>2

(* Once the batches are made they stay what they are.                      *)
LEMMA GroupedStays ==
    ASSUME NEW p, NEW q, Grouped(p), q.nodes = p.nodes, q.batch = p.batch,
           p.pc \notin {"route", "raised"}, q.pc # "route"
    PROVE  Grouped(q)
BY DEF Grouped

LEMMA BatchFacts ==
    ASSUME NEW p \in Locals, Grouped(p), NEW j \in DOMAIN p.nodes
    PROVE  /\ p.nodes[j] \in Node
           /\ p.batch[p.nodes[j]] \in Seq(Cmd)
           /\ 1 \in DOMAIN p.batch[p.nodes[j]]
           /\ Len(p.batch[p.nodes[j]]) \in Nat \ {0}
           /\ DOMAIN p.batch[p.nodes[j]] = 1 .. Len(p.batch[p.nodes[j]])
<1>1. p.nodes[j] \in Node /\ p.nodes[j] \in Range(p.nodes) /\ p.batch[p.nodes[j]] \in Seq(Cmd)
  BY LocalsFacts, SeqFacts
<1>2. p.batch[p.nodes[j]] # <<>>
  BY <1>1 DEF Grouped
<1> QED
  BY <1>1, <1>2, SeqFacts

(* q differs from p in the places it points to only.                       *)
Kept(p, q) ==
    /\ q \in Locals
    /\ q.nodes = p.nodes /\ q.batch = p.batch /\ q.result = p.result
    /\ q.attempt = p.attempt /\ q.tries = p.tries /\ q.raise = p.raise

(* The phase that comes after each. *)
Follows == {<<"write", "read">>, <<"read", "release">>}

NextNodeIs(p, phase, q) ==
    /\ q.next = 1
    /\ \/ p.at < Len(p.nodes) /\ q.at = p.at + 1 /\ q.pc = p.pc
       \/ ~(p.at < Len(p.nodes)) /\ q.at = 1 /\ q.pc = phase

NextReadIs(p, q) ==
    LET length == Len(p.batch[p.nodes[p.at]])
    IN  \/ p.next < length /\ q.next = p.next + 1 /\ q.at = p.at /\ q.pc = p.pc
        \/ ~(p.next < length) /\ NextNodeIs(p, "release", q)

LEMMA NextNodeKeeps ==
    ASSUME NEW p \in Locals, NEW phase \in Label
    PROVE  Kept(p, NextNode(p, phase)) /\ NextNodeIs(p, phase, NextNode(p, phase))
BY NextNodeFacts DEF Kept, NextNodeIs

LEMMA NextReadKeeps ==
    ASSUME NEW p \in Locals, p.nodes = pipe.nodes, p.batch = pipe.batch, p.at = pipe.at
    PROVE  Kept(p, NextRead(p)) /\ NextReadIs(p, NextRead(p))
<1>0. Batch = p.batch[p.nodes[p.at]]
  BY DEF Batch, Current
<1> DEFINE length == p.batch[p.nodes[p.at]]
<1>1. CASE p.next < Len(length)
  <2>1. NextRead(p) = [p EXCEPT !.next = @ + 1]
    BY <1>0, <1>1 DEF NextRead
  <2> DEFINE q == [p EXCEPT !.next = @ + 1]
  <2>2. q \in Locals
    BY LocalsFacts DEF Locals
  <2>3. /\ q.nodes = p.nodes /\ q.batch = p.batch /\ q.result = p.result
        /\ q.attempt = p.attempt /\ q.tries = p.tries /\ q.raise = p.raise
        /\ q.next = p.next + 1 /\ q.at = p.at /\ q.pc = p.pc
    BY DEF Locals
  <2> QED
    BY <1>1, <2>1, <2>2, <2>3 DEF Kept, NextReadIs
<1>2. CASE ~(p.next < Len(length))
  <2>1. NextRead(p) = NextNode(p, "release")
    BY <1>0, <1>2 DEF NextRead
  <2> QED
    BY <1>2, <2>1, NextNodeKeeps DEF NextReadIs, Label
<1> QED
  BY <1>1, <1>2

(* The loops over the nodes and over a batch stay inside them.             *)
LEMMA NextNodePoints ==
    ASSUME NEW p \in Locals, NEW q, Grouped(p), Cursor(p), NEW phase,
           <<p.pc, phase>> \in Follows,
           Kept(p, q), NextNodeIs(p, phase, q)
    PROVE  Cursor(q) /\ Grouped(q)
<1>1. /\ p.at \in DOMAIN p.nodes /\ DOMAIN p.nodes = 1 .. Len(p.nodes) /\ Len(p.nodes) \in Nat
      /\ p.attempt = {} /\ p.pc \in {"write", "read"}
  BY LocalsFacts, SeqFacts DEF Cursor, Follows
<1>2. q.nodes = p.nodes /\ q.batch = p.batch /\ q.attempt = {} /\ q.next = 1
  BY <1>1 DEF Kept, NextNodeIs
<1>3. q.pc \in {"write", "read"} => q.at \in DOMAIN p.nodes
  BY <1>1 DEF NextNodeIs
<1>4. q.pc \in {"write", "read", "release"}
  BY DEF NextNodeIs, Follows
<1>5. q.pc \in {"write", "read"} => 1 \in DOMAIN p.batch[p.nodes[q.at]]
  BY <1>3, BatchFacts
<1>6. Grouped(q)
  BY <1>1, <1>2, <1>4, GroupedStays
<1> QED
  BY <1>2, <1>3, <1>4, <1>5, <1>6 DEF Cursor

LEMMA NextReadPoints ==
    ASSUME NEW p \in Locals, NEW q, Grouped(p), Cursor(p), p.pc = "read",
           Kept(p, q), NextReadIs(p, q)
    PROVE  Cursor(q) /\ Grouped(q)
<1> DEFINE b == p.batch[p.nodes[p.at]]
<1>1. /\ p.at \in DOMAIN p.nodes /\ p.next \in DOMAIN b /\ p.attempt = {}
  BY DEF Cursor
<1>2. DOMAIN b = 1 .. Len(b) /\ Len(b) \in Nat
  BY <1>1, BatchFacts
<1>3. CASE p.next < Len(b)
  <2>1. q.next = p.next + 1 /\ q.at = p.at /\ q.pc = "read"
    BY <1>3 DEF NextReadIs
  <2>2. q.next \in DOMAIN b
    BY <1>1, <1>2, <1>3, <2>1
  <2>3. q.nodes = p.nodes /\ q.batch = p.batch /\ q.attempt = {}
    BY <1>1 DEF Kept
  <2>4. Grouped(q)
    BY <2>1, <2>3, GroupedStays
  <2> QED
    BY <1>1, <2>1, <2>2, <2>3, <2>4 DEF Cursor
<1>4. CASE ~(p.next < Len(b))
  <2>1. NextNodeIs(p, "release", q)
    BY <1>4 DEF NextReadIs
  <2> QED
    BY <2>1, NextNodePoints DEF Follows
<1> QED
  BY <1>3, <1>4

LEMMA AllFacts ==
    ASSUME NEW is \in Outcome, pipe \in Locals
    PROVE  /\ All(is) \in [Cmd -> Reply]
           /\ \A i \in Cmd : i \in Range(Batch) => All(is)[i] = [of |-> i, is |-> is]
           /\ \A i \in Cmd : i \notin Range(Batch) => All(is)[i] = pipe.result[i]
<1>1. \A i \in Cmd : [of |-> i, is |-> is] \in Reply /\ pipe.result[i] \in Reply
  BY LocalsFacts DEF Reply
<1> QED
  BY <1>1 DEF All

(* The locals with other results.                                          *)
LEMMA WithResult ==
    ASSUME NEW p \in Locals, NEW r \in [Cmd -> Reply]
    PROVE  LET q == [p EXCEPT !.result = r]
           IN  /\ q \in Locals /\ q.result = r
               /\ q.pc = p.pc /\ q.next = p.next /\ q.at = p.at /\ q.nodes = p.nodes
               /\ q.batch = p.batch /\ q.attempt = p.attempt /\ q.tries = p.tries /\ q.raise = p.raise
               /\ Cursor(p) => Cursor(q)
               /\ Grouped(p) => Grouped(q)
<1> DEFINE q == [p EXCEPT !.result = r]
<1>1. q \in Locals
  BY DEF Locals
<1>2. /\ q.result = r
      /\ q.pc = p.pc /\ q.next = p.next /\ q.at = p.at /\ q.nodes = p.nodes
      /\ q.batch = p.batch /\ q.attempt = p.attempt /\ q.tries = p.tries /\ q.raise = p.raise
  BY DEF Locals
<1> HIDE DEF q
<1>3. (Cursor(p) => Cursor(q)) /\ (Grouped(p) => Grouped(q))
  BY <1>2 DEF Cursor, Grouped
<1> QED
  BY <1>1, <1>2, <1>3 DEF q

-----------------------------------------------------------------------------
(* Types is kept: grouping, and each phase.                                *)

(* A command is put into the batch of n.                                   *)
Batched(n) == [pipe.batch EXCEPT ![n] = Append(@, pipe.next)]
Listed(n)  == IF n \in Range(pipe.nodes) THEN pipe.nodes ELSE Append(pipe.nodes, n)

LEMMA CandidatesAreNodes ==
    ASSUME TablesOK, NEW i \in Cmd
    PROVE  Candidates(i) \subseteq Node
BY KeyFacts, ClusterPipelineAssumption DEF TablesOK, Candidates

LEMMA RouteFacts ==
    ASSUME Types, Route
    PROVE  \E n \in Node :
              /\ n \in Candidates(pipe.next)
              /\ pipe' \in Locals
              /\ pipe'.batch = Batched(n) /\ pipe'.nodes = Listed(n)
              /\ pipe'.at = 1 /\ pipe'.attempt = {} /\ pipe'.result = pipe.result
              /\ pipe'.tries = pipe.tries /\ pipe'.raise = pipe.raise
              /\ \/ pipe.next < Len(Keys) /\ pipe'.pc = "route" /\ pipe'.next = pipe.next + 1
                 \/ ~(pipe.next < Len(Keys)) /\ pipe'.pc = "write"
              /\ held' = held \cup {n}
              /\ \/ n \in Range(pipe.nodes) /\ UNCHANGED wire
                 \/ \E ro \in {FALSE, ReadFromReplicas} : wire' = [wire EXCEPT ![n].readonly = ro]
<1>1. pipe \in Locals /\ pipe.pc = "route" /\ pipe.next \in Cmd /\ pipe.at = 1 /\ pipe.attempt = {}
  BY DEF Types, Cursor, Route
<1> DEFINE batched(n) == [pipe EXCEPT !.batch[n] = Append(@, pipe.next),
                                      !.nodes = IF n \in Range(@) THEN @ ELSE Append(@, n)]
           next(n) == [batched(n) EXCEPT !.next = @ + 1]
           last(n) == [batched(n) EXCEPT !.pc = "write"]
<1>2. PICK n \in Candidates(pipe.next) :
          /\ pipe' = IF pipe.next < Len(Keys) THEN next(n) ELSE last(n)
          /\ held' = held \cup {n}
          /\ IF n \in Range(pipe.nodes) THEN UNCHANGED wire
             ELSE \E ro \in {FALSE, ReadFromReplicas} : wire' = [wire EXCEPT ![n].readonly = ro]
  BY DEF Route
<1>3. n \in Node
  BY <1>1, CandidatesAreNodes DEF Types
<1>4. Batched(n) \in [Node -> Seq(Cmd)] /\ Listed(n) \in Seq(Node)
  <2>1. pipe.batch \in [Node -> Seq(Cmd)] /\ pipe.nodes \in Seq(Node)
    BY <1>1, LocalsFacts
  <2>2. Append(pipe.batch[n], pipe.next) \in Seq(Cmd) /\ Append(pipe.nodes, n) \in Seq(Node)
    BY <1>1, <1>3, <2>1
  <2> QED
    BY <2>1, <2>2 DEF Batched, Listed
<1>5. batched(n) = [pipe EXCEPT !.batch = Batched(n), !.nodes = Listed(n)]
  BY <1>1 DEF Batched, Listed, Locals
<1> DEFINE g == [pipe EXCEPT !.batch = Batched(n), !.nodes = Listed(n)]
<1>6. g \in Locals
  BY <1>1, <1>4 DEF Locals
<1>7. /\ g.batch = Batched(n) /\ g.nodes = Listed(n)
      /\ g.at = 1 /\ g.attempt = {} /\ g.result = pipe.result
      /\ g.tries = pipe.tries /\ g.raise = pipe.raise /\ g.pc = "route" /\ g.next = pipe.next
  BY <1>1 DEF Locals
<1> HIDE DEF g, batched
<1>8. CASE pipe.next < Len(Keys)
  <2>1. pipe' = [g EXCEPT !.next = @ + 1]
    BY <1>2, <1>5, <1>8 DEF g
  <2>2. pipe' \in Locals
    BY <2>1, <1>6, LocalsFacts DEF Locals
  <2>3. /\ pipe'.batch = Batched(n) /\ pipe'.nodes = Listed(n)
        /\ pipe'.at = 1 /\ pipe'.attempt = {} /\ pipe'.result = pipe.result
        /\ pipe'.tries = pipe.tries /\ pipe'.raise = pipe.raise
        /\ pipe'.pc = "route" /\ pipe'.next = pipe.next + 1
    BY <2>1, <1>6, <1>7 DEF Locals
  <2> HIDE DEF next, last
  <2> QED
    BY <1>2, <1>3, <1>8, <2>2, <2>3
<1>9. CASE ~(pipe.next < Len(Keys))
  <2>1. pipe' = [g EXCEPT !.pc = "write"]
    BY <1>2, <1>5, <1>9 DEF g
  <2>2. pipe' \in Locals
    BY <2>1, <1>6 DEF Locals, Label
  <2>3. /\ pipe'.batch = Batched(n) /\ pipe'.nodes = Listed(n)
        /\ pipe'.at = 1 /\ pipe'.attempt = {} /\ pipe'.result = pipe.result
        /\ pipe'.tries = pipe.tries /\ pipe'.raise = pipe.raise
        /\ pipe'.pc = "write"
    BY <2>1, <1>6, <1>7 DEF Locals
  <2> HIDE DEF next, last
  <2> QED
    BY <1>2, <1>3, <1>9, <2>2, <2>3
<1> QED
  BY <1>8, <1>9

LEMMA BatchedFacts ==
    ASSUME pipe \in Locals, pipe.next \in Cmd, NEW n \in Node
    PROVE  /\ Batched(n) \in [Node -> Seq(Cmd)]
           /\ Batched(n)[n] = Append(pipe.batch[n], pipe.next)
           /\ \A m \in Node \ {n} : Batched(n)[m] = pipe.batch[m]
           /\ pipe.batch[n] \in Seq(Cmd)
           /\ Range(Batched(n)[n]) = Range(pipe.batch[n]) \cup {pipe.next}
           /\ Listed(n) \in Seq(Node)
           /\ Range(Listed(n)) = Range(pipe.nodes) \cup {n}
<1>1. pipe.batch \in [Node -> Seq(Cmd)] /\ pipe.nodes \in Seq(Node)
  BY LocalsFacts
<1>2. /\ Append(pipe.batch[n], pipe.next) \in Seq(Cmd)
      /\ Range(Append(pipe.batch[n], pipe.next)) = Range(pipe.batch[n]) \cup {pipe.next}
      /\ Append(pipe.nodes, n) \in Seq(Node)
      /\ Range(Append(pipe.nodes, n)) = Range(pipe.nodes) \cup {n}
  <2>1. pipe.batch[n] \in Seq(Cmd)
    BY <1>1
  <2> QED
    BY <1>1, <2>1, AppendFacts
<1> QED
  BY <1>1, <1>2 DEF Batched, Listed

LEMMA RouteTypes ==
    ASSUME Types, Route
    PROVE  pipe' \in Locals /\ Cursor(pipe') /\ Grouped(pipe')
<1>1. pipe \in Locals /\ pipe.pc = "route" /\ pipe.next \in Cmd /\ Grouped(pipe)
  BY DEF Types, Cursor, Route
<1>2. PICK n \in Node :
          /\ pipe' \in Locals
          /\ pipe'.batch = Batched(n) /\ pipe'.nodes = Listed(n)
          /\ pipe'.at = 1 /\ pipe'.attempt = {}
          /\ \/ pipe.next < Len(Keys) /\ pipe'.pc = "route" /\ pipe'.next = pipe.next + 1
             \/ ~(pipe.next < Len(Keys)) /\ pipe'.pc = "write"
  BY RouteFacts
<1> DEFINE b == Batched(n)
           l == Listed(n)
           i == pipe.next
<1>3. /\ b \in [Node -> Seq(Cmd)] /\ b[n] = Append(pipe.batch[n], i)
      /\ \A m \in Node \ {n} : b[m] = pipe.batch[m]
      /\ pipe.batch \in [Node -> Seq(Cmd)]
      /\ Range(b[n]) = Range(pipe.batch[n]) \cup {i}
      /\ l \in Seq(Node) /\ Range(l) = Range(pipe.nodes) \cup {n}
  BY <1>1, BatchedFacts, LocalsFacts
<1>4. \A m \in Node : \A k \in Range(pipe.batch[m]) : k \in Cmd /\ k < i
  BY <1>1, <1>3, SeqFacts DEF Grouped
<1>a. \A m \in Node : \A k : k \in Range(b[m]) <=> k \in Range(pipe.batch[m]) \/ (m = n /\ k = i)
  <2> SUFFICES ASSUME NEW m \in Node
               PROVE  \A k : k \in Range(b[m]) <=> k \in Range(pipe.batch[m]) \/ (m = n /\ k = i)
    OBVIOUS
  <2>1. CASE m = n
    BY <1>3, <2>1
  <2>2. CASE m # n
    <3>1. b[m] = pipe.batch[m]
      BY <1>3, <2>2
    <3> HIDE DEF b, i
    <3> QED
      BY <2>2, <3>1
  <2> QED
    BY <2>1, <2>2
<1>5. \A j, k \in DOMAIN l : l[j] = l[k] => j = k
  <2>1. CASE n \in Range(pipe.nodes)
    BY <1>1, <2>1 DEF Grouped, Listed
  <2>2. CASE n \notin Range(pipe.nodes)
    <3>1. /\ l = Append(pipe.nodes, n) /\ pipe.nodes \in Seq(Node)
          /\ \A j \in DOMAIN pipe.nodes : pipe.nodes[j] # n
      BY <1>1, <2>2, LocalsFacts, SeqFacts DEF Listed
    <3>2. /\ \A j \in DOMAIN pipe.nodes : l[j] = pipe.nodes[j]
          /\ l[Len(pipe.nodes) + 1] = n
          /\ DOMAIN l = DOMAIN pipe.nodes \cup {Len(pipe.nodes) + 1}
      <4>1. DOMAIN pipe.nodes = 1 .. Len(pipe.nodes) /\ Len(pipe.nodes) \in Nat
        BY <3>1, SeqFacts
      <4> QED
        BY <3>1, <4>1, AppendFacts
    <3>3. \A j, k \in DOMAIN pipe.nodes : pipe.nodes[j] = pipe.nodes[k] => j = k
      BY <1>1 DEF Grouped
    <3> HIDE DEF l
    <3> QED
      BY <3>1, <3>2, <3>3
  <2> QED
    BY <2>1, <2>2
<1>6. \A m \in Node : m \in Range(l) <=> b[m] # <<>>
  <2>1. \A m \in Node : m \in Range(pipe.nodes) <=> pipe.batch[m] # <<>>
    BY <1>1 DEF Grouped
  <2>2. b[n] # <<>>
    BY <1>1, <1>3, AppendFacts
  <2> HIDE DEF b, l
  <2> QED
    BY <1>3, <2>1, <2>2
<1>7. \A m \in Node : \A j, k \in DOMAIN b[m] : j < k => b[m][j] < b[m][k]
  <2> SUFFICES ASSUME NEW m \in Node, NEW j \in DOMAIN b[m], NEW k \in DOMAIN b[m], j < k
               PROVE  b[m][j] < b[m][k]
    OBVIOUS
  <2>0. \A x, y \in DOMAIN pipe.batch[m] : x < y => pipe.batch[m][x] < pipe.batch[m][y]
    BY <1>1 DEF Grouped
  <2>1. CASE m # n
    <3>1. b[m] = pipe.batch[m]
      BY <1>3, <2>1
    <3> HIDE DEF b
    <3> QED
      BY <2>0, <3>1
  <2>2. CASE m = n
    <3> DEFINE s == pipe.batch[n]
    <3>1. s \in Seq(Cmd) /\ Len(s) \in Nat /\ DOMAIN s = 1 .. Len(s) /\ b[n] = Append(s, i)
      BY <1>3, SeqFacts
    <3>2. /\ DOMAIN b[n] = 1 .. Len(s) + 1
          /\ \A x \in DOMAIN s : b[n][x] = s[x]
          /\ b[n][Len(s) + 1] = i
      BY <1>1, <3>1, AppendFacts
    <3>3. \A x \in DOMAIN s : s[x] < i
      BY <1>3, <1>4, SeqFacts
    <3>4. \A x, y \in DOMAIN s : x < y => s[x] < s[y]
      BY <2>0, <2>2
    <3>5. j \in DOMAIN s
      BY <2>2, <3>1, <3>2
    <3>6. k \in DOMAIN s \/ k = Len(s) + 1
      BY <2>2, <3>1, <3>2
    <3> HIDE DEF b, s
    <3> QED
      BY <2>2, <3>2, <3>3, <3>4, <3>5, <3>6
  <2> QED
    BY <2>1, <2>2
<1>8. \A m, o \in Node : m # o => Range(b[m]) \cap Range(b[o]) = {}
  <2>1. \A m, o \in Node : m # o => Range(pipe.batch[m]) \cap Range(pipe.batch[o]) = {}
    BY <1>1 DEF Grouped
  <2>2. \A m \in Node : i \notin Range(pipe.batch[m])
    <3>1. i \in Nat
      BY <1>1, CmdFacts
    <3> QED
      BY <1>4, <3>1
  <2> SUFFICES ASSUME NEW m \in Node, NEW o \in Node, m # o,
                      NEW k \in Range(b[m]), k \in Range(b[o])
               PROVE  FALSE
    OBVIOUS
  <2>3. k \in Range(pipe.batch[m]) \/ (m = n /\ k = i)
    BY <1>a
  <2>4. k \in Range(pipe.batch[o]) \/ (o = n /\ k = i)
    BY <1>a
  <2> HIDE DEF b, i
  <2> QED
    BY <2>1, <2>2, <2>3, <2>4
<1>9. \A m \in Node : \A k \in Range(b[m]) : k <= i /\ k \in Nat
  <2>1. i \in Nat /\ Cmd \subseteq Nat
    BY <1>1, CmdFacts
  <2> SUFFICES ASSUME NEW m \in Node, NEW k \in Range(b[m]) PROVE k <= i /\ k \in Nat
    OBVIOUS
  <2>2. k \in Range(pipe.batch[m]) \/ k = i
    BY <1>a
  <2>3. k \in Range(pipe.batch[m]) => k \in Nat /\ k < i
    BY <1>4, <2>1
  <2> HIDE DEF b, i
  <2> QED
    BY <2>1, <2>2, <2>3
<1>10. \A k \in Cmd : k <= i => \E m \in Node : k \in Range(b[m])
  <2> SUFFICES ASSUME NEW k \in Cmd, k <= i PROVE \E m \in Node : k \in Range(b[m])
    OBVIOUS
  <2>1. CASE k = i
    BY <1>3, <2>1
  <2>2. CASE k # i
    <3>1. ~(i <= k)
      BY <1>1, <2>2, CmdFacts
    <3>2. PICK m \in Node : k \in Range(pipe.batch[m])
      BY <1>1, <3>1 DEF Grouped
    <3>3. k \in Range(b[m])
      BY <1>3, <3>2
    <3> QED
      BY <3>3
  <2> QED
    BY <2>1, <2>2
<1>11. i \in Nat /\ Len(Keys) \in Nat /\ i \in 1 .. Len(Keys) /\ Cmd = 1 .. Len(Keys)
  BY <1>1, CmdFacts
<1>12. pipe'.pc = "route" => pipe'.next \in Cmd
  BY <1>2, <1>11
<1>13. pipe'.pc = "route" => \A m \in Node : \A k \in Range(b[m]) : k < pipe'.next
  <2> SUFFICES ASSUME pipe'.pc = "route", NEW m \in Node, NEW k \in Range(b[m])
               PROVE  k < pipe'.next
    OBVIOUS
  <2>1. k <= i /\ k \in Nat /\ i \in Nat
    BY <1>9, <1>11
  <2>2. pipe'.next = i + 1
    BY <1>2
  <2> HIDE DEF b, i
  <2> QED
    BY <2>1, <2>2
<1>14. \A k \in Cmd : (pipe'.pc = "route" /\ pipe'.next <= k) \/ \E m \in Node : k \in Range(b[m])
  BY <1>2, <1>10, <1>11
<1>15. Grouped(pipe')
  BY <1>2, <1>5, <1>6, <1>7, <1>8, <1>13, <1>14 DEF Grouped
<1>16. 1 \in DOMAIN l
  <2>1. n \in Range(l)
    BY <1>3
  <2>2. DOMAIN l = 1 .. Len(l) /\ Len(l) \in Nat
    BY <1>3, SeqFacts
  <2>3. PICK j \in DOMAIN l : l[j] = n
    BY <2>1 DEF Range
  <2> HIDE DEF l
  <2> QED
    BY <2>2, <2>3
<1>17. pipe'.pc \in {"route", "write"}
  BY <1>2
<1>18. Cursor(pipe')
  BY <1>2, <1>12, <1>16, <1>17 DEF Cursor
<1> QED
  BY <1>2, <1>15, <1>18

(* Going on to the next node, or the next reply, with other results.       *)
LEMMA ToNextNode ==
    ASSUME Types, NEW r \in [Cmd -> Reply], NEW phase, <<pipe.pc, phase>> \in Follows,
           pipe' = NextNode([pipe EXCEPT !.result = r], phase)
    PROVE  /\ pipe' \in Locals /\ Cursor(pipe') /\ Grouped(pipe')
           /\ pipe'.nodes = pipe.nodes /\ pipe'.batch = pipe.batch
           /\ pipe'.result = r /\ pipe'.tries = pipe.tries /\ pipe'.raise = pipe.raise
           /\ NextNodeIs(pipe, phase, pipe')
<1> DEFINE p == [pipe EXCEPT !.result = r]
<1>1. /\ p \in Locals /\ p.result = r
      /\ p.pc = pipe.pc /\ p.next = pipe.next /\ p.at = pipe.at /\ p.nodes = pipe.nodes
      /\ p.batch = pipe.batch /\ p.tries = pipe.tries /\ p.raise = pipe.raise
      /\ Cursor(p) /\ Grouped(p)
  BY WithResult DEF Types
<1> HIDE DEF p
<1>2. phase \in Label
  BY DEF Label, Follows
<1>3. Kept(p, pipe') /\ NextNodeIs(p, phase, pipe')
  BY <1>1, <1>2, NextNodeKeeps DEF p
<1>4. Cursor(pipe') /\ Grouped(pipe')
  BY <1>1, <1>3, NextNodePoints
<1>5. NextNodeIs(pipe, phase, pipe')
  BY <1>1, <1>3 DEF NextNodeIs
<1> QED
  BY <1>1, <1>3, <1>4, <1>5 DEF Kept

LEMMA ToNextRead ==
    ASSUME Types, NEW r \in [Cmd -> Reply], pipe.pc = "read",
           pipe' = NextRead([pipe EXCEPT !.result = r])
    PROVE  /\ pipe' \in Locals /\ Cursor(pipe') /\ Grouped(pipe')
           /\ pipe'.nodes = pipe.nodes /\ pipe'.batch = pipe.batch
           /\ pipe'.result = r /\ pipe'.tries = pipe.tries /\ pipe'.raise = pipe.raise
           /\ NextReadIs(pipe, pipe')
<1> DEFINE p == [pipe EXCEPT !.result = r]
<1>1. /\ p \in Locals /\ p.result = r
      /\ p.pc = pipe.pc /\ p.next = pipe.next /\ p.at = pipe.at /\ p.nodes = pipe.nodes
      /\ p.batch = pipe.batch /\ p.tries = pipe.tries /\ p.raise = pipe.raise
      /\ Cursor(p) /\ Grouped(p)
  BY WithResult DEF Types
<1> HIDE DEF p
<1>3. Kept(p, pipe') /\ NextReadIs(p, pipe')
  BY <1>1, NextReadKeeps DEF p
<1>4. Cursor(pipe') /\ Grouped(pipe')
  BY <1>1, <1>3, NextReadPoints
<1>5. NextReadIs(pipe, pipe')
  BY <1>1, <1>3 DEF NextReadIs, NextNodeIs
<1> QED
  BY <1>1, <1>3, <1>4, <1>5 DEF Kept

(* What the steps of the two phases do.                                    *)
LEMMA WriteFacts ==
    ASSUME Types, Write
    PROVE  /\ pipe' \in Locals /\ Cursor(pipe') /\ Grouped(pipe')
           /\ pipe'.nodes = pipe.nodes /\ pipe'.batch = pipe.batch
           /\ pipe'.result = All("none") /\ pipe'.tries = pipe.tries /\ pipe'.raise = pipe.raise
           /\ NextNodeIs(pipe, "read", pipe')
<1>1. All("none") \in [Cmd -> Reply]
  BY AllFacts DEF Outcome, Types
<1> QED
  BY <1>1, ToNextNode DEF Write, Follows

LEMMA WriteFailsFacts ==
    ASSUME Types, WriteFails
    PROVE  /\ pipe' \in Locals /\ Cursor(pipe') /\ Grouped(pipe')
           /\ pipe'.nodes = pipe.nodes /\ pipe'.batch = pipe.batch
           /\ pipe'.result = All("lost") /\ pipe'.tries = pipe.tries /\ pipe'.raise = pipe.raise
           /\ NextNodeIs(pipe, "read", pipe')
<1>1. All("lost") \in [Cmd -> Reply]
  BY AllFacts DEF Outcome, Types
<1> QED
  BY <1>1, ToNextNode DEF WriteFails, Follows

LEMMA ReadFailsFacts ==
    ASSUME Types, ReadFails
    PROVE  /\ pipe' \in Locals /\ Cursor(pipe') /\ Grouped(pipe')
           /\ pipe'.nodes = pipe.nodes /\ pipe'.batch = pipe.batch
           /\ pipe'.result = All("lost") /\ pipe'.tries = pipe.tries /\ pipe'.raise = pipe.raise
           /\ NextNodeIs(pipe, "release", pipe')
<1>1. All("lost") \in [Cmd -> Reply]
  BY AllFacts DEF Outcome, Types
<1> QED
  BY <1>1, ToNextNode DEF ReadFails, Follows

(* The command whose reply is read next.                                   *)
ToRead == pipe.batch[pipe.nodes[pipe.at]][pipe.next]

LEMMA CurrentFacts ==
    ASSUME Types, pipe.pc \in {"write", "read"}
    PROVE  /\ Current = pipe.nodes[pipe.at] /\ Batch = pipe.batch[Current]
           /\ pipe.at \in DOMAIN pipe.nodes /\ Current \in Node /\ Current \in Range(pipe.nodes)
           /\ Batch \in Seq(Cmd) /\ Len(Batch) \in Nat \ {0} /\ DOMAIN Batch = 1 .. Len(Batch)
           /\ wire[Current] \in Wire /\ late[Current] \in Seq(Cmd)
           /\ pipe.pc = "read" => pipe.next \in DOMAIN Batch /\ ToRead \in Cmd
                                  /\ Batch[pipe.next] = ToRead
<1>1. pipe \in Locals /\ Grouped(pipe) /\ pipe.at \in DOMAIN pipe.nodes
  BY DEF Types, Cursor
<1>2. Current = pipe.nodes[pipe.at] /\ Batch = pipe.batch[Current]
  BY DEF Current, Batch
<1>3. /\ Current \in Node /\ Batch \in Seq(Cmd) /\ Len(Batch) \in Nat \ {0}
      /\ DOMAIN Batch = 1 .. Len(Batch)
  BY <1>1, <1>2, BatchFacts
<1>4. Current \in Range(pipe.nodes)
  BY <1>1, <1>2 DEF Range
<1>5. pipe.pc = "read" => pipe.next \in DOMAIN Batch
  BY <1>2 DEF Types, Cursor
<1>6. Batch[pipe.next] = ToRead
  BY <1>2 DEF ToRead
<1>7. wire[Current] \in Wire /\ late[Current] \in Seq(Cmd)
  BY <1>3 DEF Types, TablesOK
<1> QED
  BY <1>1, <1>2, <1>3, <1>4, <1>5, <1>6, <1>7, SeqFacts

LEMMA WireFacts ==
    ASSUME NEW w \in Wire
    PROVE  /\ w.requests \in Seq(Cmd) /\ w.replies \in Seq(Answers) /\ w.readonly \in BOOLEAN
           /\ w.requests # <<>> => /\ Head(w.requests) \in Cmd /\ Tail(w.requests) \in Seq(Cmd)
                                   /\ Len(Tail(w.requests)) = Len(w.requests) - 1
                                   /\ Head(w.requests) = w.requests[1]
                                   /\ \A k \in 1 .. Len(w.requests) - 1 :
                                         Tail(w.requests)[k] = w.requests[k + 1]
           /\ w.replies # <<>> => /\ Head(w.replies) \in Answers /\ Tail(w.replies) \in Seq(Answers)
                                  /\ Len(Tail(w.replies)) = Len(w.replies) - 1
                                  /\ Head(w.replies) = w.replies[1]
                                  /\ \A k \in 1 .. Len(w.replies) - 1 :
                                        Tail(w.replies)[k] = w.replies[k + 1]
BY DEF Wire

LEMMA ReadReplyFacts ==
    ASSUME Types, ReadReply
    PROVE  LET reply == Head(wire[Current].replies)
           IN  /\ reply \in Answers /\ wire[Current].replies # <<>>
               /\ pipe.result[ToRead].is = "none"
               /\ pipe' \in Locals /\ Cursor(pipe') /\ Grouped(pipe')
               /\ pipe'.nodes = pipe.nodes /\ pipe'.batch = pipe.batch
               /\ pipe'.result = [pipe.result EXCEPT ![ToRead] = reply]
               /\ pipe'.tries = pipe.tries /\ pipe'.raise = pipe.raise
               /\ NextReadIs(pipe, pipe')
<1> DEFINE reply == Head(wire[Current].replies)
           r == [pipe.result EXCEPT ![ToRead] = reply]
<1>1. pipe.pc = "read" /\ wire[Current].replies # <<>> /\ Unread
  BY DEF ReadReply
<1>2. /\ ToRead \in Cmd /\ wire[Current] \in Wire /\ Batch[pipe.next] = ToRead
  BY <1>1, CurrentFacts
<1>3. reply \in Answers
  BY <1>1, <1>2, WireFacts
<1>4. reply \in Reply
  BY <1>3 DEF Answers, Reply
<1>5. pipe \in Locals /\ pipe.result \in [Cmd -> Reply]
  BY LocalsFacts DEF Types
<1>6. r \in [Cmd -> Reply]
  BY <1>4, <1>5
<1> HIDE DEF reply
<1>7. [pipe EXCEPT !.result[Batch[pipe.next]] = reply] = [pipe EXCEPT !.result = r]
  BY <1>2, <1>5 DEF Locals
<1> HIDE DEF r
<1>8. pipe' = NextRead([pipe EXCEPT !.result = r])
  BY <1>7 DEF ReadReply, reply
<1>9. pipe.result[ToRead].is = "none"
  BY <1>1, <1>2 DEF Unread
<1> QED
  BY <1>1, <1>3, <1>6, <1>8, <1>9, ToNextRead DEF r, reply

LEMMA ReadNothingFacts ==
    ASSUME Types, ReadNothing
    PROVE  /\ pipe.result[ToRead].is # "none"
           /\ pipe' \in Locals /\ Cursor(pipe') /\ Grouped(pipe')
           /\ pipe'.nodes = pipe.nodes /\ pipe'.batch = pipe.batch
           /\ pipe'.result = pipe.result
           /\ pipe'.tries = pipe.tries /\ pipe'.raise = pipe.raise
           /\ NextReadIs(pipe, pipe')
<1>1. pipe.pc = "read" /\ ~Unread /\ pipe \in Locals
  BY DEF ReadNothing, Types
<1>2. pipe.result \in [Cmd -> Reply]
  BY <1>1, LocalsFacts
<1>3. pipe = [pipe EXCEPT !.result = pipe.result]
  BY <1>1 DEF Locals
<1>4. pipe' = NextRead([pipe EXCEPT !.result = pipe.result])
  BY <1>3 DEF ReadNothing
<1>5. pipe.result[ToRead].is # "none"
  BY <1>1, CurrentFacts DEF Unread
<1> QED
  BY <1>1, <1>2, <1>4, <1>5, ToNextRead

LEMMA StartFacts ==
    ASSUME NEW r \in [Cmd -> Reply], NEW tries \in Nat, NEW raise \in RaiseOnError
    PROVE  LET p == Start(r, tries, raise)
           IN  /\ p \in Locals /\ Cursor(p) /\ Grouped(p)
               /\ p.pc = "route" /\ p.next = 1 /\ p.nodes = <<>> /\ p.batch = NoBatch
               /\ p.result = r /\ p.tries = tries /\ p.raise = raise
<1> DEFINE p == Start(r, tries, raise)
<1>1. NoBatch \in [Node -> Seq(Cmd)] /\ \A n \in Node : NoBatch[n] = <<>>
  BY DEF NoBatch
<1>2. p \in Locals
  BY <1>1, PlaceFacts DEF Start, Locals, Label
<1>3. /\ p.pc = "route" /\ p.next = 1 /\ p.at = 1 /\ p.nodes = <<>> /\ p.batch = NoBatch
      /\ p.attempt = {} /\ p.result = r /\ p.tries = tries /\ p.raise = raise
  BY DEF Start
<1> HIDE DEF p
<1>4. Cursor(p)
  BY <1>3, CmdFacts DEF Cursor
<1>5. Range(<<>>) = {} /\ DOMAIN <<>> = {}
  BY DEF Range
<1>6. \A i \in Cmd : 1 <= i
  BY CmdFacts
<1>7. Grouped(p)
  BY <1>1, <1>3, <1>5, <1>6 DEF Grouped
<1> QED
  BY <1>2, <1>3, <1>4, <1>7 DEF p

LEMMA RetriedFacts ==
    ASSUME Types, Retrying
    PROVE  Retried \in pipe.attempt /\ Retried \in Cmd /\ \A i \in pipe.attempt : Retried <= i
<1>1. pipe.attempt \in SUBSET Cmd /\ pipe.attempt # {}
  BY LocalsFacts DEF Types, Cursor, Retrying
<1>2. pipe.attempt \in SUBSET Nat
  BY <1>1, CmdFacts
<1> QED
  BY <1>1, <1>2, FirstOne DEF Retried

(* The labels of the loop over single commands and of what comes after.    *)
Single == {"release", "count", "retry", "finish", "returned", "raised"}

LEMMA AfterFacts ==
    ASSUME Types, Retrying, NEW p \in Locals, p.attempt = pipe.attempt
    PROVE  /\ After(p) \in Locals
           /\ After(p).nodes = p.nodes /\ After(p).batch = p.batch /\ After(p).result = p.result
           /\ After(p).tries = p.tries /\ After(p).raise = p.raise
           /\ After(p).attempt = pipe.attempt \ {Retried}
           /\ \/ After(p).pc = "finish" /\ pipe.attempt \ {Retried} = {}
              \/ After(p).pc = "retry" /\ pipe.attempt \ {Retried} # {}
<1>1. pipe.attempt \ {Retried} \in SUBSET Cmd
  BY LocalsFacts DEF Types
<1> DEFINE label == IF pipe.attempt = {Retried} THEN "finish" ELSE "retry"
           q == [p EXCEPT !.attempt = pipe.attempt \ {Retried}, !.pc = label]
<1>2. label \in {"finish", "retry"}
  OBVIOUS
<1>3. label = "finish" <=> pipe.attempt \ {Retried} = {}
  BY RetriedFacts
<1>4. After(p) = q
  BY DEF After
<1> HIDE DEF label
<1>5. label \in Label
  BY <1>2 DEF Label
<1>6. q \in Locals
  BY <1>1, <1>5 DEF Locals
<1>7. /\ q.nodes = p.nodes /\ q.batch = p.batch /\ q.result = p.result
      /\ q.tries = p.tries /\ q.raise = p.raise
      /\ q.attempt = pipe.attempt \ {Retried} /\ q.pc = label
  BY DEF Locals
<1> QED
  BY <1>2, <1>3, <1>4, <1>6, <1>7

(* In a step of these the batches stay, and a result may be replaced.      *)
Later ==
    /\ pipe.pc \notin {"write", "read"} /\ pipe'.pc \in Single
    /\ pipe' \in Locals /\ Cursor(pipe') /\ Grouped(pipe')
    /\ pipe'.nodes = pipe.nodes /\ pipe'.batch = pipe.batch
    /\ pipe'.tries = pipe.tries /\ pipe'.raise = pipe.raise

LEMMA LaterIs ==
    ASSUME Types, pipe.pc \notin {"write", "read"},
           pipe.pc = "route" => pipe'.pc = "raised", pipe.pc # "raised", pipe'.pc \in Single,
           pipe' \in Locals, pipe'.nodes = pipe.nodes, pipe'.batch = pipe.batch,
           pipe'.tries = pipe.tries, pipe'.raise = pipe.raise,
           pipe'.pc \in {"count", "retry"} => pipe'.attempt # {},
           pipe'.pc \notin {"count", "retry", "raised"} => pipe'.attempt = {}
    PROVE  Later
<1>1. Grouped(pipe) /\ Cursor(pipe)
  BY DEF Types
<1>2. Cursor(pipe')
  BY DEF Cursor, Single
<1>3. pipe'.pc # "route"
  BY DEF Single
<1>4. CASE pipe'.pc = "raised"
  BY <1>1, <1>2, <1>4 DEF Later, Grouped
<1>5. CASE pipe'.pc # "raised"
  <2>1. Grouped(pipe')
    BY <1>1, <1>3, <1>5, GroupedStays
  <2> QED
    BY <1>2, <2>1 DEF Later
<1> QED
  BY <1>4, <1>5

LEMMA ToFinish ==
    ASSUME Types, Release \/ CountRetries \/ CountFails \/ RetryEscapes \/ RouteFails
                    \/ Return \/ GiveUp
    PROVE  /\ Later /\ pipe'.result = pipe.result
           /\ pipe'.attempt \in
                 {pipe.attempt, {i \in Cmd : pipe.result[i].is \in ERRORS_ALLOW_RETRY}}
<1>0. pipe \in Locals
  BY DEF Types
<1>1. CASE Release
  <2> DEFINE again == {i \in Cmd : pipe.result[i].is \in ERRORS_ALLOW_RETRY}
             label == IF again = {} THEN "finish" ELSE "count"
  <2>1. pipe' = [pipe EXCEPT !.attempt = again, !.pc = label] /\ pipe.pc = "release"
    BY <1>1 DEF Release
  <2>2. again \in SUBSET Cmd /\ label \in {"finish", "count"} /\ (label = "finish" <=> again = {})
    OBVIOUS
  <2> HIDE DEF again, label
  <2>3. pipe' \in Locals
    BY <1>0, <2>1, <2>2 DEF Locals, Label
  <2>4. /\ pipe'.nodes = pipe.nodes /\ pipe'.batch = pipe.batch /\ pipe'.attempt = again
        /\ pipe'.tries = pipe.tries /\ pipe'.raise = pipe.raise
        /\ pipe'.pc = label /\ pipe'.result = pipe.result
    BY <1>0, <2>1 DEF Locals
  <2>5. pipe'.pc \in Single
    BY <2>2, <2>4 DEF Single
  <2> QED
    BY <2>1, <2>2, <2>3, <2>4, <2>5, LaterIs DEF again
<1>2. CASE CountRetries \/ CountFails \/ RetryEscapes \/ RouteFails \/ GiveUp
  <2>1. PICK label \in {"retry", "raised"} : pipe' = [pipe EXCEPT !.pc = label]
    BY <1>2 DEF CountRetries, CountFails, RetryEscapes, RouteFails, GiveUp
  <2>2. pipe' \in Locals
    BY <1>0, <2>1 DEF Locals, Label
  <2>3. /\ pipe'.nodes = pipe.nodes /\ pipe'.batch = pipe.batch /\ pipe'.attempt = pipe.attempt
        /\ pipe'.tries = pipe.tries /\ pipe'.raise = pipe.raise
        /\ pipe'.pc = label /\ pipe'.result = pipe.result
    BY <1>0, <2>1 DEF Locals
  <2>4. pipe'.pc \in Single
    BY <2>3 DEF Single
  <2>5. pipe.pc \in {"route", "count", "retry", "finish"}
    BY <1>2 DEF CountRetries, CountFails, RetryEscapes, RouteFails, GiveUp, Retrying
  <2>6. pipe'.pc = "retry" => pipe.pc = "count"
    <3>1. CASE CountRetries
      BY <3>1 DEF CountRetries
    <3>2. CASE CountFails \/ RetryEscapes \/ RouteFails \/ GiveUp
      <4>1. pipe' = [pipe EXCEPT !.pc = "raised"]
        BY <3>2 DEF CountFails, RetryEscapes, RouteFails, GiveUp
      <4> QED
        BY <1>0, <4>1 DEF Locals
    <3> QED
      BY <1>2, <3>1, <3>2
  <2>7. pipe.pc = "count" => pipe.attempt # {}
    BY DEF Types, Cursor
  <2> QED
    BY <2>1, <2>2, <2>3, <2>4, <2>5, <2>6, <2>7, LaterIs
<1>3. CASE Return
  <2> DEFINE label == IF pipe.raise /\ Wrong # {} THEN "raised" ELSE "returned"
  <2>1. pipe' = [pipe EXCEPT !.pc = label] /\ pipe.pc = "finish"
    BY <1>3 DEF Return
  <2>2. label \in {"raised", "returned"}
    OBVIOUS
  <2> HIDE DEF label
  <2>3. pipe' \in Locals
    BY <1>0, <2>1, <2>2 DEF Locals, Label
  <2>4. /\ pipe'.nodes = pipe.nodes /\ pipe'.batch = pipe.batch /\ pipe'.attempt = pipe.attempt
        /\ pipe'.tries = pipe.tries /\ pipe'.raise = pipe.raise
        /\ pipe'.pc = label /\ pipe'.result = pipe.result
    BY <1>0, <2>1 DEF Locals
  <2>5. pipe'.pc \in Single
    BY <2>2, <2>4 DEF Single
  <2>6. pipe.attempt = {}
    BY <2>1 DEF Types, Cursor
  <2> QED
    BY <2>1, <2>2, <2>3, <2>4, <2>5, <2>6, LaterIs
<1> QED
  BY <1>1, <1>2, <1>3

LEMMA AfterLater ==
    ASSUME Types, Retrying, NEW p \in Locals, p.attempt = pipe.attempt,
           p.nodes = pipe.nodes, p.batch = pipe.batch, p.tries = pipe.tries, p.raise = pipe.raise,
           pipe' = After(p)
    PROVE  Later /\ pipe'.result = p.result
<1>1. /\ pipe' \in Locals
      /\ pipe'.nodes = p.nodes /\ pipe'.batch = p.batch /\ pipe'.result = p.result
      /\ pipe'.tries = p.tries /\ pipe'.raise = p.raise
      /\ pipe'.attempt = pipe.attempt \ {Retried}
      /\ \/ pipe'.pc = "finish" /\ pipe.attempt \ {Retried} = {}
         \/ pipe'.pc = "retry" /\ pipe.attempt \ {Retried} # {}
  BY AfterFacts
<1>2. pipe'.pc \in Single
  BY <1>1 DEF Single
<1> QED
  BY <1>1, <1>2, LaterIs DEF Retrying

(* The command that is sent again has a new result.                        *)
LEMMA RetryOkFacts ==
    ASSUME Types, RetryOk
    PROVE  /\ Later
           /\ pipe'.result = [pipe.result EXCEPT ![Retried] = [of |-> Retried, is |-> "ok"]]
           /\ pipe'.attempt = pipe.attempt \ {Retried}
<1> DEFINE p == [pipe EXCEPT !.result[Retried] = [of |-> Retried, is |-> "ok"]]
           r == [pipe.result EXCEPT ![Retried] = [of |-> Retried, is |-> "ok"]]
           q == [pipe EXCEPT !.result = r]
<1>1. Retrying /\ pipe \in Locals /\ Retried \in Cmd
  BY RetriedFacts DEF RetryOk, Types
<1>2. r \in [Cmd -> Reply]
  BY <1>1, LocalsFacts DEF Reply, Outcome
<1>3. p = q
  BY <1>1 DEF Locals
<1> HIDE DEF r
<1>4. /\ q \in Locals /\ q.result = r
      /\ q.attempt = pipe.attempt /\ q.nodes = pipe.nodes /\ q.batch = pipe.batch
      /\ q.tries = pipe.tries /\ q.raise = pipe.raise
  BY <1>1, <1>2, WithResult
<1> HIDE DEF p, q
<1>5. pipe' = After(q)
  BY <1>3 DEF RetryOk, p
<1>6. Later /\ pipe'.result = q.result
  BY <1>1, <1>4, <1>5, AfterLater
<1>7. pipe'.attempt = pipe.attempt \ {Retried}
  BY <1>1, <1>4, <1>5, AfterFacts
<1> QED
  BY <1>4, <1>6, <1>7 DEF r

LEMMA RetryFailsFacts ==
    ASSUME Types, RetryFails
    PROVE  \E is \in {"down", "error"} \cap Fault :
              /\ Later
              /\ pipe'.attempt = pipe.attempt \ {Retried}
              /\ pipe'.result = [pipe.result EXCEPT ![Retried] = [of |-> Retried, is |-> is]]
<1>1. Retrying /\ pipe \in Locals /\ Retried \in Cmd
  BY RetriedFacts DEF RetryFails, Types
<1> DEFINE p(is) == [pipe EXCEPT !.result[Retried] = [of |-> Retried, is |-> is],
                                 !.reset = @ \/ is = "down"]
           r(is) == [pipe.result EXCEPT ![Retried] = [of |-> Retried, is |-> is]]
<1>2. PICK is \in {"down", "error"} \cap Fault : pipe' = After(p(is))
  BY DEF RetryFails, Fails
<1> DEFINE s == r(is)
           reset == pipe.reset \/ is = "down"
           q == [pipe EXCEPT !.result = s, !.reset = reset]
<1>3. s \in [Cmd -> Reply]
  BY <1>1, LocalsFacts DEF Reply, Outcome
<1>4. p(is) = q
  BY <1>1 DEF Locals
<1>5. reset \in BOOLEAN
  BY <1>1, LocalsFacts
<1> HIDE DEF s, reset
<1>6. q \in Locals
  BY <1>1, <1>3, <1>5 DEF Locals
<1>7. /\ q.result = s
      /\ q.attempt = pipe.attempt /\ q.nodes = pipe.nodes /\ q.batch = pipe.batch
      /\ q.tries = pipe.tries /\ q.raise = pipe.raise
  BY <1>1 DEF Locals
<1> HIDE DEF p, q
<1>8. pipe' = After(q)
  BY <1>2, <1>4
<1>9. Later /\ pipe'.result = q.result
  BY <1>1, <1>6, <1>7, <1>8, AfterLater
<1>10. pipe'.attempt = pipe.attempt \ {Retried}
  BY <1>1, <1>6, <1>7, <1>8, AfterFacts
<1> QED
  BY <1>7, <1>9, <1>10 DEF s

LEMMA ResendFacts ==
    ASSUME Types, Resend
    PROVE  /\ pipe' \in Locals /\ Cursor(pipe') /\ Grouped(pipe')
           /\ pipe'.pc = "route" /\ pipe'.nodes = <<>> /\ pipe'.result = pipe.result
<1>1. pipe.result \in [Cmd -> Reply] /\ pipe.tries + 1 \in Nat /\ pipe.raise \in RaiseOnError
  BY LocalsFacts DEF Types
<1> QED
  BY <1>1, StartFacts DEF Resend

LEMMA LocalsStep ==
    ASSUME Types, [Next]_vars
    PROVE  pipe' \in Locals /\ Cursor(pipe') /\ Grouped(pipe')
<1>1. CASE UNCHANGED pipe
  BY <1>1 DEF Types
<1>2. CASE Execute
  <2>1. CASE Route
    BY <2>1, RouteTypes
  <2>2. CASE Write \/ WriteFails \/ ReadReply \/ ReadNothing \/ ReadFails
    BY <2>2, WriteFacts, WriteFailsFacts, ReadReplyFacts, ReadNothingFacts, ReadFailsFacts
  <2>3. CASE Release \/ CountRetries \/ CountFails \/ RetryEscapes \/ RouteFails \/ Return \/ GiveUp
    BY <2>3, ToFinish DEF Later
  <2>4. CASE RetryOk \/ RetryFails
    BY <2>4, RetryOkFacts, RetryFailsFacts DEF Later
  <2>5. CASE RetryRepeats
    BY <2>5 DEF RetryRepeats, Types
  <2>6. CASE Resend
    BY <2>6, ResendFacts
  <2> QED
    BY <1>2, <2>1, <2>2, <2>3, <2>4, <2>5, <2>6 DEF Execute
<1> QED
  BY <1>1, <1>2 DEF Next, vars, Done, RefreshTable, Serve, ServeLate, MigrateKey, FinishMigration

-----------------------------------------------------------------------------
(* Types is kept: the servers and the connections.                         *)

LEMMA AnswerFacts ==
    ASSUME NEW n, NEW i
    PROVE  Answer(n, i) \in {"ok", "ask", "tryagain", "moved"}
BY DEF Answer

(* A server takes the first request and sends its reply.                   *)
LEMMA ServeFacts ==
    ASSUME TablesOK, NEW n \in Node, Serve(n)
    PROVE  LET w == wire[n]
               i == Head(w.requests)
           IN  /\ w.requests # <<>> /\ i \in Cmd
               /\ \E is \in {"ok", "ask", "tryagain", "moved", "down", "error"} :
                     /\ wire'[n].requests = Tail(w.requests)
                     /\ wire'[n].replies = Append(w.replies, [of |-> i, is |-> is])
                     /\ wire'[n].readonly = w.readonly
                     /\ [of |-> i, is |-> is] \in Answers
                     /\ log' = IF is = "ok" THEN Append(log, i) ELSE log
                     /\ is = Answer(n, i) \/ is \in {"down", "error"} \cap Fault
                     /\ is = "ok" => Answer(n, i) = "ok"
               /\ wire' \in [Node -> Wire]
               /\ \A m \in Node \ {n} : wire'[m] = wire[m]
               /\ log' \in Seq(Cmd)
               /\ faults' \in 0 .. MaxFaults
<1> DEFINE w == wire[n]
           i == Head(w.requests)
<1>1. w \in Wire /\ w.requests # <<>> /\ wire \in [Node -> Wire]
  BY DEF TablesOK, Serve
<1>2. i \in Cmd /\ Tail(w.requests) \in Seq(Cmd) /\ w.replies \in Seq(Answers)
  BY <1>1, WireFacts
<1>3. PICK is \in {Answer(n, i)} \cup ({"down", "error"} \cap Fault) :
          /\ IF is = Answer(n, i) THEN UNCHANGED faults ELSE Fails(is)
          /\ log' = IF is = "ok" THEN Append(log, i) ELSE log
          /\ wire' = [wire EXCEPT ![n].requests = Tail(@),
                                  ![n].replies = Append(@, [of |-> i, is |-> is])]
  BY DEF Serve
<1>4. is \in {"ok", "ask", "tryagain", "moved", "down", "error"}
  BY <1>3, AnswerFacts
<1> DEFINE reply == [of |-> i, is |-> is]
<1>5. reply \in Answers
  BY <1>2, <1>4 DEF Answers, Outcome
<1> HIDE DEF i, reply
<1> DEFINE v == [w EXCEPT !.requests = Tail(@), !.replies = Append(@, reply)]
<1>6. v \in Wire
  <2>1. Append(w.replies, reply) \in Seq(Answers) /\ w.readonly \in BOOLEAN
    BY <1>1, <1>2, <1>5, WireFacts
  <2> QED
    BY <1>1, <1>2, <2>1 DEF Wire
<1>7. wire' = [wire EXCEPT ![n] = v]
  BY <1>1, <1>3 DEF reply
<1>12. /\ v.requests = Tail(w.requests) /\ v.replies = Append(w.replies, reply)
       /\ v.readonly = w.readonly
  BY <1>1 DEF Wire
<1> HIDE DEF v
<1>8. wire' \in [Node -> Wire] /\ wire'[n] = v /\ \A m \in Node \ {n} : wire'[m] = wire[m]
  BY <1>1, <1>6, <1>7
<1>9. log' \in Seq(Cmd)
  BY <1>2, <1>3 DEF TablesOK
<1>10. faults' \in 0 .. MaxFaults
  BY <1>3, ClusterPipelineAssumption DEF TablesOK, Fails
<1>11. is = "ok" => Answer(n, i) = "ok"
  BY <1>3
<1> HIDE DEF w
<1> QED
  BY <1>1, <1>2, <1>3, <1>4, <1>5, <1>8, <1>9, <1>10, <1>11, <1>12 DEF i, reply, w

LEMMA CloseFacts ==
    ASSUME TablesOK, Current \in Node, NEW a \in Seq(Cmd), Close(a)
    PROVE  /\ wire' \in [Node -> Wire] /\ late' \in [Node -> Seq(Cmd)]
           /\ wire'[Current] = Closed /\ \A m \in Node \ {Current} : wire'[m] = wire[m]
<1>1. wire \in [Node -> Wire] /\ late \in [Node -> Seq(Cmd)]
  BY DEF TablesOK
<1>2. Closed \in Wire
  BY DEF Closed, Wire
<1>3. wire' = [wire EXCEPT ![Current] = Closed]
  BY DEF Close
<1>4. PICK k \in 0 .. Len(a) : late' = [late EXCEPT ![Current] = @ \o SubSeq(a, 1, k)]
  BY DEF Close
<1> DEFINE arrived == SubSeq(a, 1, k)
<1>5. arrived \in Seq(Cmd)
  BY <1>4
<1> HIDE DEF arrived
<1>6. late[Current] \o arrived \in Seq(Cmd)
  BY <1>1, <1>5
<1>7. late' \in [Node -> Seq(Cmd)]
  BY <1>1, <1>4, <1>6 DEF arrived
<1> QED
  BY <1>1, <1>2, <1>3, <1>7

LEMMA FailsFacts ==
    ASSUME faults \in 0 .. MaxFaults, NEW f, Fails(f)
    PROVE  faults' \in 0 .. MaxFaults /\ f \in Fault
BY ClusterPipelineAssumption DEF Fails

(* All that a read takes is the first reply.                               *)
LEMMA ReadWire ==
    ASSUME Types, ReadReply
    PROVE  /\ wire' \in [Node -> Wire]
           /\ wire'[Current].replies = Tail(wire[Current].replies)
           /\ wire'[Current].requests = wire[Current].requests
           /\ wire'[Current].readonly = wire[Current].readonly
           /\ \A m \in Node \ {Current} : wire'[m] = wire[m]
<1> DEFINE w == wire[Current]
           v == [w EXCEPT !.replies = Tail(@)]
<1>1. Current \in Node /\ w \in Wire /\ w.replies # <<>> /\ wire \in [Node -> Wire]
  BY CurrentFacts DEF ReadReply, Types, TablesOK
<1>2. v \in Wire
  BY <1>1, WireFacts DEF Wire
<1>3. wire' = [wire EXCEPT ![Current] = v]
  BY <1>1 DEF ReadReply
<1>4. v.requests = w.requests /\ v.replies = Tail(w.replies) /\ v.readonly = w.readonly
  BY <1>1 DEF Wire
<1> HIDE DEF v
<1> QED
  BY <1>1, <1>2, <1>3, <1>4

(* A batch is written behind what is on the connection.                    *)
LEMMA WriteWire ==
    ASSUME Types, Write
    PROVE  /\ wire' \in [Node -> Wire]
           /\ wire'[Current].requests = wire[Current].requests \o Batch
           /\ wire'[Current].replies = wire[Current].replies
           /\ wire'[Current].readonly = wire[Current].readonly
           /\ \A m \in Node \ {Current} : wire'[m] = wire[m]
<1> DEFINE w == wire[Current]
           v == [w EXCEPT !.requests = @ \o Batch]
<1>1. Current \in Node /\ w \in Wire /\ wire \in [Node -> Wire] /\ Batch \in Seq(Cmd)
  BY CurrentFacts DEF Write, Types, TablesOK
<1>2. v \in Wire
  <2>1. w.requests \o Batch \in Seq(Cmd)
    BY <1>1, WireFacts
  <2> QED
    BY <1>1, <2>1, WireFacts DEF Wire
<1>3. wire' = [wire EXCEPT ![Current] = v]
  BY <1>1 DEF Write
<1>4. v.requests = w.requests \o Batch /\ v.replies = w.replies /\ v.readonly = w.readonly
  BY <1>1 DEF Wire
<1> HIDE DEF v
<1> QED
  BY <1>1, <1>2, <1>3, <1>4

LEMMA RouteWire ==
    ASSUME Types, Route
    PROVE  /\ wire' \in [Node -> Wire]
           /\ \A m \in Node : /\ wire'[m].requests = wire[m].requests
                              /\ wire'[m].replies = wire[m].replies
                              /\ wire'[m].readonly \in {wire[m].readonly, FALSE, ReadFromReplicas}
           /\ held' \in SUBSET Node
<1>1. PICK n \in Node :
          /\ held' = held \cup {n}
          /\ \/ n \in Range(pipe.nodes) /\ UNCHANGED wire
             \/ \E ro \in {FALSE, ReadFromReplicas} : wire' = [wire EXCEPT ![n].readonly = ro]
  BY RouteFacts
<1>2. wire \in [Node -> Wire] /\ held \in SUBSET Node
  BY DEF Types, TablesOK
<1>3. held' \in SUBSET Node
  BY <1>1, <1>2
<1>4. CASE UNCHANGED wire
  BY <1>2, <1>3, <1>4
<1>5. CASE \E ro \in {FALSE, ReadFromReplicas} : wire' = [wire EXCEPT ![n].readonly = ro]
  <2>1. PICK ro \in {FALSE, ReadFromReplicas} : wire' = [wire EXCEPT ![n].readonly = ro]
    BY <1>5
  <2> DEFINE w == wire[n]
             v == [w EXCEPT !.readonly = ro]
  <2>2. w \in Wire /\ ro \in BOOLEAN
    BY <1>2, ClusterPipelineAssumption
  <2>3. v \in Wire
    BY <2>2, WireFacts DEF Wire
  <2>4. wire' = [wire EXCEPT ![n] = v]
    BY <1>2, <2>1
  <2>5. v.requests = w.requests /\ v.replies = w.replies /\ v.readonly = ro
    BY <2>2 DEF Wire
  <2> HIDE DEF v
  <2>6. wire' \in [Node -> Wire] /\ wire'[n] = v /\ \A m \in Node \ {n} : wire'[m] = wire[m]
    BY <1>2, <2>3, <2>4
  <2> QED
    BY <1>3, <2>1, <2>5, <2>6
<1> QED
  BY <1>1, <1>4, <1>5

LEMMA TablesStep ==
    ASSUME Types, [Next]_vars
    PROVE  TablesOK'
<1>0. TablesOK /\ pipe \in Locals
  BY DEF Types
<1>1. CASE UNCHANGED vars
  BY <1>0, <1>1 DEF TablesOK, vars, servers
<1>2. CASE RefreshTable
  BY <1>0, <1>2 DEF TablesOK, RefreshTable, servers
<1>3. ASSUME NEW n \in Node, Serve(n) PROVE TablesOK'
  <2>1. /\ wire' \in [Node -> Wire] /\ log' \in Seq(Cmd) /\ faults' \in 0 .. MaxFaults
    BY <1>0, <1>3, ServeFacts
  <2> QED
    BY <1>0, <1>3, <2>1 DEF TablesOK, Serve
<1>4. ASSUME NEW n \in Node, ServeLate(n) PROVE TablesOK'
  <2>1. late[n] \in Seq(Cmd) /\ late[n] # <<>>
    BY <1>0, <1>4 DEF TablesOK, ServeLate
  <2>2. Head(late[n]) \in Cmd /\ Tail(late[n]) \in Seq(Cmd)
    BY <2>1
  <2>3. late' \in [Node -> Seq(Cmd)] /\ log' \in Seq(Cmd)
    BY <1>0, <1>4, <2>2 DEF TablesOK, ServeLate
  <2> QED
    BY <1>0, <1>4, <2>3 DEF TablesOK, ServeLate
<1>5. ASSUME NEW k \in Key, MigrateKey(k) PROVE TablesOK'
  BY <1>0, <1>5 DEF TablesOK, MigrateKey
<1>6. ASSUME NEW s \in Slot, FinishMigration(s) PROVE TablesOK'
  <2>1. Importer[s] \in Node
    BY <1>6, ClusterPipelineAssumption DEF FinishMigration
  <2> QED
    BY <1>0, <1>6, <2>1 DEF TablesOK, FinishMigration
<1>7. CASE Route
  BY <1>0, <1>7, RouteWire DEF TablesOK, Route, servers
<1>8. CASE Write
  BY <1>0, <1>8, WriteWire DEF TablesOK, Write, servers
<1>9. CASE WriteFails
  <2>1. Current \in Node /\ wire[Current].requests \o Batch \in Seq(Cmd)
    <3>1. Batch \in Seq(Cmd) /\ wire[Current] \in Wire /\ Current \in Node
      BY <1>9, CurrentFacts DEF WriteFails
    <3> QED
      BY <3>1, WireFacts
  <2>2. wire' \in [Node -> Wire] /\ late' \in [Node -> Seq(Cmd)]
    BY <1>0, <1>9, <2>1, CloseFacts DEF WriteFails
  <2>3. faults' \in 0 .. MaxFaults
    BY <1>0, <1>9, FailsFacts DEF WriteFails, TablesOK
  <2> QED
    BY <1>0, <1>9, <2>2, <2>3 DEF TablesOK, WriteFails, servers
<1>10. CASE ReadReply
  BY <1>0, <1>10, ReadWire DEF TablesOK, ReadReply, servers
<1>11. CASE ReadFails
  <2>1. Current \in Node /\ wire[Current].requests \in Seq(Cmd)
    <3>1. wire[Current] \in Wire /\ Current \in Node
      BY <1>11, CurrentFacts DEF ReadFails
    <3> QED
      BY <3>1, WireFacts
  <2>2. wire' \in [Node -> Wire] /\ late' \in [Node -> Seq(Cmd)]
    BY <1>0, <1>11, <2>1, CloseFacts DEF ReadFails
  <2>3. faults' \in 0 .. MaxFaults
    BY <1>0, <1>11, FailsFacts DEF ReadFails, TablesOK
  <2> QED
    BY <1>0, <1>11, <2>2, <2>3 DEF TablesOK, ReadFails, servers
<1>12. CASE RetryOk
  <2>1. Retried \in Cmd
    BY <1>12, RetriedFacts DEF RetryOk
  <2>2. [table EXCEPT ![SlotOfCmd(Retried)] = owner[SlotOfCmd(Retried)]] \in [Slot -> Node]
    BY <1>0, <2>1, KeyFacts DEF TablesOK
  <2>3. table' \in [Slot -> Node] /\ log' \in Seq(Cmd)
    BY <1>0, <1>12, <2>1, <2>2 DEF TablesOK, RetryOk
  <2> QED
    BY <1>0, <1>12, <2>3 DEF TablesOK, RetryOk
<1>13. CASE RetryRepeats
  <2>1. Retried \in Cmd
    BY <1>13, RetriedFacts DEF RetryRepeats
  <2>2. log' \in Seq(Cmd) /\ faults' \in 0 .. MaxFaults
    BY <1>0, <1>13, <2>1, FailsFacts DEF TablesOK, RetryRepeats
  <2> QED
    BY <1>0, <1>13, <2>2 DEF TablesOK, RetryRepeats
<1>14. CASE ReadNothing \/ Return \/ Resend \/ GiveUp
  BY <1>0, <1>14 DEF TablesOK, ReadNothing, Return, Resend, GiveUp, servers
<1>15. CASE Release \/ CountRetries
  BY <1>0, <1>15 DEF TablesOK, Release, CountRetries, servers
<1>16. CASE RouteFails \/ CountFails \/ RetryFails \/ RetryEscapes
  <2>1. faults' \in 0 .. MaxFaults
    BY <1>0, <1>16, FailsFacts DEF TablesOK, RouteFails, CountFails, RetryFails, RetryEscapes
  <2> QED
    BY <1>0, <1>16, <2>1 DEF TablesOK, RouteFails, CountFails, RetryFails, RetryEscapes, servers
<1>17. CASE Execute
  BY <1>7, <1>8, <1>9, <1>10, <1>11, <1>12, <1>13, <1>14, <1>15, <1>16, <1>17 DEF Execute
<1> QED
  BY <1>1, <1>2, <1>3, <1>4, <1>5, <1>6, <1>17 DEF Next, Done

LEMMA TypesInit == Init => Types
<1> SUFFICES ASSUME Init PROVE Types
  OBVIOUS
<1> DEFINE none == [i \in Cmd |-> [of |-> i, is |-> "none"]]
<1>1. none \in [Cmd -> Reply]
  BY DEF Reply, Outcome
<1> HIDE DEF none
<1>2. PICK raise \in RaiseOnError : pipe = Start(none, 1, raise)
  BY DEF Init, none
<1>4. pipe \in Locals /\ Cursor(pipe) /\ Grouped(pipe)
  BY <1>1, <1>2, StartFacts
<1>5. Closed \in Wire
  BY DEF Closed, Wire
<1>6. TablesOK
  BY <1>5, ClusterPipelineAssumption DEF Init, TablesOK
<1> QED
  BY <1>4, <1>6 DEF Types

LEMMA TypesStep == Types /\ [Next]_vars => Types'
BY LocalsStep, TablesStep DEF Types

LEMMA TypesGiveTypeOK == Types => TypeOK
<1> SUFFICES ASSUME Types PROVE TypeOK
  OBVIOUS
<1>1. pipe \in Locals /\ TablesOK /\ Cursor(pipe)
  BY DEF Types
<1>2. \A n \in Node : /\ wire[n].requests \in Seq(Cmd) /\ late[n] \in Seq(Cmd)
                      /\ wire[n].readonly \in BOOLEAN
  BY <1>1, WireFacts DEF TablesOK
<1>3. \A i \in Cmd : pipe.result[i].is \in {"none", "ok", "error", "down"} \cup ERRORS_ALLOW_RETRY
  BY <1>1, LocalsFacts DEF Reply, Outcome, ERRORS_ALLOW_RETRY
<1>4. pipe.pc \in Label
  BY <1>1, LocalsFacts
<1>5. pipe.pc = "read" => pipe.next \in DOMAIN Batch
  BY <1>1 DEF Cursor, Batch, Current
<1> QED
  BY <1>1, <1>2, <1>3, <1>4, <1>5 DEF TablesOK, TypeOK, Cursor, Label

(* The servers, the connections and the locals of execute keep their types, *)
(* with each label's cursor inside the list it goes through.               *)
THEOREM PipelineTypes == Spec => []TypeOK
<1>1. Init => Types
  BY TypesInit
<1>2. Types /\ [Next]_vars => Types'
  BY TypesStep
<1>3. Types => TypeOK
  BY TypesGiveTypeOK
<1> QED
  BY <1>1, <1>2, <1>3, PTL DEF Spec

-----------------------------------------------------------------------------
(* What a connection still owes.                                           *)

LEMMA MatchesEnd ==
    ASSUME NEW b \in Seq(Cmd), NEW w \in Wire, NEW r
    PROVE  Matches(b, w, r, Len(b) + 1) <=> Silent(w)
<1> DEFINE n == Len(b)
           m == Len(w.replies)
           c == Len(w.requests)
<1>1. /\ n \in Nat /\ DOMAIN b = 1 .. n /\ m \in Nat /\ c \in Nat
      /\ w.requests # <<>> <=> c > 0
      /\ w.replies # <<>> <=> m > 0
  BY WireFacts, SeqFacts
<1> HIDE DEF n, m, c
<1>2. \A j \in DOMAIN b : ~(j >= n + 1)
  BY <1>1
<1>3. Silent(w) => Matches(b, w, r, n + 1)
  BY <1>2 DEF Matches
<1>4. ASSUME Matches(b, w, r, n + 1) PROVE Silent(w)
  <2>1. Silent(w) \/ m + c = n - (n + 1) + 1
    BY <1>4 DEF Matches, m, c, n
  <2>2. m + c = n - (n + 1) + 1 => m = 0 /\ c = 0
    BY <1>1
  <2> QED
    BY <1>1, <2>1, <2>2 DEF Silent
<1> QED
  BY <1>3, <1>4 DEF n

LEMMA MatchesElsewhere ==
    ASSUME NEW b, NEW w, NEW v, NEW r, NEW s, NEW x,
           \A j \in DOMAIN b : s[b[j]] = r[b[j]],
           v.requests = w.requests, v.replies = w.replies,
           Matches(b, w, r, x)
    PROVE  Matches(b, v, s, x)
BY DEF Matches, Silent

LEMMA MatchesWritten ==
    ASSUME NEW b \in Seq(Cmd), NEW w \in Wire, NEW v, NEW r, Silent(w),
           v.requests = w.requests \o b, v.replies = w.replies,
           \A j \in DOMAIN b : r[b[j]].is = "none"
    PROVE  Matches(b, v, r, 1)
<1>1. v.requests = b /\ v.replies = <<>>
  BY DEF Silent
<1>2. Len(b) \in Nat /\ DOMAIN b = 1 .. Len(b) /\ Len(v.replies) = 0 /\ DOMAIN v.replies = {}
  BY <1>1
<1>3. \A k \in DOMAIN b : b[k] = b[1 + 0 + k - 1]
  BY <1>2
<1> QED
  BY <1>1, <1>2, <1>3 DEF Matches

(* A server answers the first request that is not answered yet.            *)
LEMMA MatchesServed ==
    ASSUME NEW b \in Seq(Cmd), NEW w \in Wire, NEW v \in Wire, NEW r, NEW x \in Nat \ {0},
           NEW reply, Matches(b, w, r, x),
           w.requests # <<>>, v.requests = Tail(w.requests),
           v.replies = Append(w.replies, reply), reply.of = Head(w.requests), reply \in Answers
    PROVE  /\ Matches(b, v, r, x)
           /\ \E y \in DOMAIN b : y >= x /\ Head(w.requests) = b[y] /\ r[b[y]].is = "none"
                                  /\ y = x + Len(w.replies)
<1> DEFINE q == w.requests
           a == w.replies
           m == Len(w.replies)
           c == Len(w.requests)
           n == Len(b)
<1>1. /\ q \in Seq(Cmd) /\ a \in Seq(Answers) /\ m \in Nat /\ DOMAIN a = 1 .. m
      /\ Len(q) \in Nat \ {0} /\ DOMAIN q = 1 .. Len(q)
      /\ Head(q) = q[1] /\ Len(Tail(q)) = Len(q) - 1
      /\ \A k \in 1 .. Len(q) - 1 : Tail(q)[k] = q[k + 1]
      /\ DOMAIN Tail(q) = 1 .. Len(q) - 1
      /\ Len(b) \in Nat /\ DOMAIN b = 1 .. Len(b)
  <2>1. q \in Seq(Cmd) /\ a \in Seq(Answers) /\ q # <<>> /\ Tail(q) \in Seq(Cmd)
    BY WireFacts
  <2>2. Len(q) \in Nat \ {0}
    BY <2>1, SeqFacts
  <2> QED
    BY <2>1, <2>2, SeqFacts, WireFacts
<1>2. /\ \A j \in DOMAIN b : j >= x => r[b[j]].is = "none"
      /\ m + Len(q) = Len(b) - x + 1
      /\ \A k \in DOMAIN a : a[k].of = b[x + k - 1]
      /\ \A k \in DOMAIN q : q[k] = b[x + m + k - 1]
  BY DEF Matches, Silent
<1>3. /\ Len(v.replies) = m + 1 /\ DOMAIN v.replies = 1 .. m + 1
      /\ \A k \in DOMAIN a : v.replies[k] = a[k]
      /\ v.replies[m + 1] = reply
  BY <1>1, AppendFacts
<1>n. c \in Nat \ {0} /\ n \in Nat /\ m + c = n - x + 1 /\ Len(Tail(q)) = c - 1 /\ DOMAIN b = 1 .. n
  BY <1>1, <1>2
<1>4. reply.of = b[x + m]
  <2>1. 1 \in DOMAIN q /\ m \in Nat
    BY <1>1
  <2> HIDE DEF q, m
  <2>2. x + m + 1 - 1 = x + m
    BY <2>1
  <2>3. q[1] = b[x + m + 1 - 1]
    BY <1>2, <2>1
  <2>4. reply.of = q[1]
    BY <1>1 DEF q
  <2> QED
    BY <2>2, <2>3, <2>4
<1>5. \A k \in DOMAIN v.replies : v.replies[k].of = b[x + k - 1]
  <2> SUFFICES ASSUME NEW k \in 1 .. m + 1 PROVE v.replies[k].of = b[x + k - 1]
    BY <1>3
  <2>1. CASE k \in DOMAIN a
    BY <1>2, <1>3, <2>1
  <2>2. CASE k = m + 1
    <3>1. x + k - 1 = x + m
      BY <1>1, <2>2
    <3> QED
      BY <1>3, <1>4, <2>2, <3>1
  <2> QED
    BY <1>1, <2>1, <2>2
<1>6. \A k \in DOMAIN v.requests : v.requests[k] = b[x + (m + 1) + k - 1]
  <2> SUFFICES ASSUME NEW k \in 1 .. Len(q) - 1 PROVE Tail(q)[k] = b[x + (m + 1) + k - 1]
    BY <1>1
  <2>1. k + 1 \in DOMAIN q /\ x + m + (k + 1) - 1 = x + (m + 1) + k - 1
    BY <1>1
  <2>2. q[k + 1] = b[x + m + (k + 1) - 1]
    BY <1>2, <2>1
  <2> HIDE DEF q, m
  <2> QED
    BY <1>1, <2>1, <2>2
<1>7. Len(v.replies) + Len(v.requests) = Len(b) - x + 1
  <2>1. Len(v.replies) = m + 1 /\ Len(v.requests) = c - 1
    BY <1>3, <1>n
  <2> HIDE DEF m, c, n
  <2>2. (m + 1) + (c - 1) = n - x + 1
    BY <1>1, <1>n
  <2> QED
    BY <2>1, <2>2 DEF n
<1>8. Matches(b, v, r, x)
  BY <1>2, <1>3, <1>5, <1>6, <1>7 DEF Matches
<1>9. x + m \in DOMAIN b /\ x + m >= x
  <2> HIDE DEF m, c, n
  <2> QED
    BY <1>1, <1>n
<1>10. Head(q) = b[x + m] /\ r[b[x + m]].is = "none"
  BY <1>2, <1>4, <1>9
<1> QED
  BY <1>8, <1>9, <1>10

(* The connection goes from w to v when the reply at position x is read.   *)
ReadsAt(b, w, v, r, x) ==
    /\ b \in Seq(Cmd) /\ w \in Wire /\ v \in Wire /\ r \in [Cmd -> Reply]
    /\ x \in DOMAIN b /\ Matches(b, w, r, x)
    /\ \A j, k \in DOMAIN b : j < k => b[j] < b[k]
    /\ r[b[x]].is = "none" /\ w.replies # <<>>
    /\ v.requests = w.requests /\ v.replies = Tail(w.replies)

LEMMA MatchesRead ==
    ASSUME NEW b, NEW w, NEW v, NEW r, NEW x, ReadsAt(b, w, v, r, x),
           NEW reply, reply = Head(w.replies)
    PROVE  /\ Matches(b, v, [r EXCEPT ![b[x]] = reply], x + 1)
           /\ reply.of = b[x] /\ reply \in Answers
<1> DEFINE q == w.requests
           a == w.replies
           s == [r EXCEPT ![b[x]] = reply]
           m == Len(w.replies)
           c == Len(w.requests)
           n == Len(b)
<1>0. /\ b \in Seq(Cmd) /\ w \in Wire /\ v \in Wire /\ r \in [Cmd -> Reply]
      /\ x \in DOMAIN b /\ Matches(b, w, r, x)
      /\ \A j, k \in DOMAIN b : j < k => b[j] < b[k]
      /\ r[b[x]].is = "none" /\ w.replies # <<>>
      /\ v.requests = w.requests /\ v.replies = Tail(w.replies)
  BY DEF ReadsAt
<1>1. /\ q \in Seq(Cmd) /\ a \in Seq(Answers)
      /\ Len(q) \in Nat /\ DOMAIN q = 1 .. Len(q)
      /\ Len(a) \in Nat \ {0} /\ DOMAIN a = 1 .. Len(a)
      /\ Head(a) = a[1] /\ Len(Tail(a)) = Len(a) - 1 /\ Head(a) \in Answers
      /\ \A k \in 1 .. Len(a) - 1 : Tail(a)[k] = a[k + 1]
      /\ DOMAIN Tail(a) = 1 .. Len(a) - 1
      /\ Len(b) \in Nat /\ DOMAIN b = 1 .. Len(b) /\ x \in Nat \ {0}
      /\ \A j \in DOMAIN b : b[j] \in Cmd
  <2>1. q \in Seq(Cmd) /\ a \in Seq(Answers) /\ a # <<>> /\ Tail(a) \in Seq(Answers)
    BY <1>0, WireFacts
  <2>2. Len(a) \in Nat \ {0}
    BY <2>1, SeqFacts
  <2> QED
    BY <1>0, <2>1, <2>2, SeqFacts, WireFacts
<1>2. /\ \A j \in DOMAIN b : j >= x => r[b[j]].is = "none"
      /\ Len(a) + Len(q) = Len(b) - x + 1
      /\ \A k \in DOMAIN a : a[k].of = b[x + k - 1]
      /\ \A k \in DOMAIN q : q[k] = b[x + Len(a) + k - 1]
  BY <1>0 DEF Matches, Silent
<1>n. /\ m \in Nat \ {0} /\ c \in Nat /\ n \in Nat /\ x \in Nat
      /\ m + c = n - x + 1 /\ Len(Tail(a)) = m - 1
  BY <1>1, <1>2
<1>3. reply.of = b[x] /\ reply \in Answers
  <2>1. 1 \in DOMAIN a /\ reply = a[1] /\ reply \in Answers
    BY <1>1
  <2>2. x + 1 - 1 = x
    BY <1>n
  <2>3. a[1].of = b[x + 1 - 1]
    BY <1>2, <2>1
  <2> HIDE DEF a
  <2> QED
    BY <2>1, <2>2, <2>3
<1>4. \A j \in DOMAIN b : j >= x + 1 => s[b[j]].is = "none"
  <2> SUFFICES ASSUME NEW j \in DOMAIN b, j >= x + 1 PROVE s[b[j]].is = "none"
    OBVIOUS
  <2>1. x < j /\ j >= x
    BY <1>1
  <2>2. b[x] < b[j] /\ b[x] \in Nat /\ b[j] \in Nat
    BY <1>0, <1>1, <2>1, CmdFacts
  <2>3. b[j] # b[x] /\ b[j] \in Cmd
    BY <1>1, <2>2
  <2>4. s[b[j]] = r[b[j]]
    BY <1>0, <2>3
  <2> QED
    BY <1>2, <2>1, <2>4
<1>5. \A k \in DOMAIN v.replies : v.replies[k].of = b[(x + 1) + k - 1]
  <2> SUFFICES ASSUME NEW k \in 1 .. Len(a) - 1 PROVE Tail(a)[k].of = b[(x + 1) + k - 1]
    BY <1>0, <1>1
  <2>1. k + 1 \in DOMAIN a /\ x + (k + 1) - 1 = (x + 1) + k - 1
    BY <1>1
  <2>2. a[k + 1].of = b[x + (k + 1) - 1]
    BY <1>2, <2>1
  <2> HIDE DEF a
  <2> QED
    BY <1>1, <2>1, <2>2
<1>6. \A k \in DOMAIN v.requests : v.requests[k] = b[(x + 1) + Len(v.replies) + k - 1]
  <2> SUFFICES ASSUME NEW k \in DOMAIN q PROVE q[k] = b[(x + 1) + (Len(a) - 1) + k - 1]
    BY <1>0, <1>1
  <2>1. (x + 1) + (Len(a) - 1) + k - 1 = x + Len(a) + k - 1
    BY <1>0, <1>1
  <2> HIDE DEF q, a
  <2> QED
    BY <1>2, <2>1
<1>7. Len(v.replies) + Len(v.requests) = Len(b) - (x + 1) + 1
  <2>1. Len(v.replies) = m - 1 /\ Len(v.requests) = c
    BY <1>0, <1>n
  <2> HIDE DEF m, c, n
  <2>2. (m - 1) + c = n - (x + 1) + 1
    <3>1. \A i, j, k, l \in Int : i + j = k - l + 1 => (i - 1) + j = k - (l + 1) + 1
      OBVIOUS
    <3>2. m \in Int /\ c \in Int /\ n \in Int /\ x \in Int
      BY <1>n
    <3>3. m + c = n - x + 1
      BY <1>n
    <3> QED
      BY <3>1, <3>2, <3>3
  <2> QED
    BY <2>1, <2>2 DEF n
<1> HIDE DEF s
<1>8. Matches(b, v, s, x + 1)
  BY <1>4, <1>5, <1>6, <1>7 DEF Matches
<1> QED
  BY <1>3, <1>8 DEF s

LEMMA MatchesSkipped ==
    ASSUME NEW b \in Seq(Cmd), NEW w, NEW r, NEW x \in DOMAIN b, Matches(b, w, r, x),
           r[b[x]].is # "none"
    PROVE  Matches(b, w, r, x + 1)
<1>1. x \in Nat /\ x >= x /\ \A j \in DOMAIN b : j >= x + 1 => j >= x
  BY SeqFacts
<1> QED
  BY <1>1 DEF Matches

(* A step on the connection to one node, of which x is the position that   *)
(* is due next.                                                            *)
BatchAt(j) == pipe.batch[pipe.nodes[j]]

OnlyCurrent ==
    /\ pipe.pc \in {"write", "read"}
    /\ pipe'.nodes = pipe.nodes /\ pipe'.batch = pipe.batch
    /\ wire' \in [Node -> Wire]
    /\ \A m \in Node \ {Current} : wire'[m] = wire[m]
    /\ held' = held
    /\ \A i \in Cmd : i \notin Range(Batch) => pipe'.result[i] = pipe.result[i]

LEMMA OthersMatch ==
    ASSUME Types, Wires, OnlyCurrent, NEW j \in DOMAIN pipe.nodes, j # pipe.at
    PROVE  /\ Matches(BatchAt(j), wire'[pipe.nodes[j]], pipe'.result, Due(pipe, j))
           /\ pipe.nodes[j] \in Node \ {Current}
<1> DEFINE m == pipe.nodes[j]
<1>1. /\ pipe.at \in DOMAIN pipe.nodes /\ Current = pipe.nodes[pipe.at]
      /\ Batch = pipe.batch[Current] /\ Current \in Node /\ m \in Node
      /\ Grouped(pipe)
  BY CurrentFacts, BatchFacts DEF OnlyCurrent, Types
<1>2. m # Current
  BY <1>1 DEF Grouped
<1>3. Range(BatchAt(j)) \cap Range(Batch) = {}
  BY <1>1, <1>2 DEF Grouped, BatchAt
<1>4. \A k \in DOMAIN BatchAt(j) : BatchAt(j)[k] \in Cmd /\ BatchAt(j)[k] \notin Range(Batch)
  <2>1. BatchAt(j) \in Seq(Cmd)
    BY BatchFacts DEF Types, BatchAt
  <2> QED
    BY <1>3, <2>1, SeqFacts
<1>5. \A k \in DOMAIN BatchAt(j) : pipe'.result[BatchAt(j)[k]] = pipe.result[BatchAt(j)[k]]
  BY <1>4 DEF OnlyCurrent
<1>6. wire'[m] = wire[m]
  BY <1>1, <1>2 DEF OnlyCurrent
<1>7. Matches(BatchAt(j), wire[m], pipe.result, Due(pipe, j))
  BY DEF Wires, OnlyCurrent, BatchAt
<1> QED
  BY <1>1, <1>2, <1>5, <1>6, <1>7, MatchesElsewhere

LEMMA WiresAfter ==
    ASSUME Types, Wires, OnlyCurrent, NEW x,
           Matches(Batch, wire'[Current], pipe'.result, x),
           pipe'.pc \in {"write", "read", "release"},
           pipe'.pc \in {"write", "read"} =>
              \A j \in DOMAIN pipe.nodes :
                 Due(pipe', j) = IF j = pipe.at THEN x ELSE Due(pipe, j),
           pipe'.pc = "release" =>
              \A j \in DOMAIN pipe.nodes :
                 Len(BatchAt(j)) + 1 = IF j = pipe.at THEN x ELSE Due(pipe, j)
    PROVE  Wires'
<1> DEFINE due(j) == IF j = pipe.at THEN x ELSE Due(pipe, j)
<1>1. /\ pipe.at \in DOMAIN pipe.nodes /\ Current = pipe.nodes[pipe.at]
      /\ Batch = pipe.batch[Current] /\ Current \in Node /\ Current \in Range(pipe.nodes)
  BY CurrentFacts DEF OnlyCurrent
<1>2. \A j \in DOMAIN pipe.nodes : Matches(BatchAt(j), wire'[pipe.nodes[j]], pipe'.result, due(j))
  <2> SUFFICES ASSUME NEW j \in DOMAIN pipe.nodes
               PROVE  Matches(BatchAt(j), wire'[pipe.nodes[j]], pipe'.result, due(j))
    OBVIOUS
  <2>1. CASE j = pipe.at
    <3>1. BatchAt(j) = Batch /\ pipe.nodes[j] = Current /\ due(j) = x
      BY <1>1, <2>1 DEF BatchAt
    <3> QED
      BY <3>1
  <2>2. CASE j # pipe.at
    <3>1. due(j) = Due(pipe, j)
      BY <2>2
    <3> QED
      BY <2>2, <3>1, OthersMatch
  <2> QED
    BY <2>1, <2>2
<1>3. \A n \in Node \ Range(pipe.nodes) : Silent(wire'[n])
  BY <1>1 DEF Wires, OnlyCurrent
<1>4. CASE pipe'.pc = "release"
  <2>1. ASSUME NEW n \in Range(pipe.nodes) PROVE Silent(wire'[n])
    <3>1. PICK j \in DOMAIN pipe.nodes : n = pipe.nodes[j]
      BY DEF Range
    <3>2. n \in Node /\ BatchAt(j) \in Seq(Cmd)
      BY <3>1, BatchFacts DEF Types, BatchAt
    <3>3. wire'[n] \in Wire
      BY <3>2 DEF OnlyCurrent
    <3>4. Matches(BatchAt(j), wire'[n], pipe'.result, Len(BatchAt(j)) + 1)
      BY <1>2, <1>4, <3>1
    <3> QED
      BY <3>2, <3>3, <3>4, MatchesEnd
  <2> QED
    BY <1>3, <1>4, <2>1 DEF Wires
<1>5. CASE pipe'.pc \in {"write", "read"}
  <2>1. \A j \in DOMAIN pipe.nodes :
            Matches(BatchAt(j), wire'[pipe.nodes[j]], pipe'.result, Due(pipe', j))
    BY <1>2, <1>5
  <2>2. Range(pipe.nodes) \subseteq held
    BY DEF Wires, OnlyCurrent
  <2> QED
    BY <1>3, <1>5, <2>1, <2>2 DEF Wires, OnlyCurrent, BatchAt
<1> QED
  BY <1>4, <1>5

LEMMA PlacesFacts ==
    ASSUME Types, pipe.pc \in {"write", "read"}
    PROVE  /\ pipe.at \in DOMAIN pipe.nodes /\ pipe.at \in Nat /\ Len(pipe.nodes) \in Nat
           /\ DOMAIN pipe.nodes = 1 .. Len(pipe.nodes)
           /\ \A j \in DOMAIN pipe.nodes : j \in Nat /\ j >= 1 /\ j <= Len(pipe.nodes)
           /\ ~(pipe.at < Len(pipe.nodes)) => pipe.at = Len(pipe.nodes)
<1>1. pipe.at \in DOMAIN pipe.nodes /\ pipe.nodes \in Seq(Node)
  BY LocalsFacts DEF Types, Cursor
<1> QED
  BY <1>1, SeqFacts

(* Writing goes on at the next node, or reading starts at the first one.   *)
LEMMA WrittenDue ==
    ASSUME Types, pipe.pc = "write", NextNodeIs(pipe, "read", pipe'),
           pipe'.nodes = pipe.nodes, pipe'.batch = pipe.batch
    PROVE  /\ pipe'.pc \in {"write", "read"}
           /\ \A j \in DOMAIN pipe.nodes :
                 Due(pipe', j) = IF j = pipe.at THEN 1 ELSE Due(pipe, j)
<1>1. /\ pipe.at \in Nat /\ Len(pipe.nodes) \in Nat
      /\ \A j \in DOMAIN pipe.nodes : j \in Nat /\ j >= 1 /\ j <= Len(pipe.nodes)
      /\ ~(pipe.at < Len(pipe.nodes)) => pipe.at = Len(pipe.nodes)
  BY PlacesFacts
<1>2. CASE pipe.at < Len(pipe.nodes)
  <2>1. pipe'.at = pipe.at + 1 /\ pipe'.pc = "write"
    BY <1>2 DEF NextNodeIs
  <2> QED
    BY <1>1, <2>1 DEF Due
<1>3. CASE ~(pipe.at < Len(pipe.nodes))
  <2>1. pipe'.at = 1 /\ pipe'.pc = "read" /\ pipe'.next = 1
    BY <1>3 DEF NextNodeIs
  <2> QED
    BY <1>1, <1>3, <2>1 DEF Due
<1> QED
  BY <1>2, <1>3

(* Reading goes on at the next node, or ends.                              *)
LEMMA NodeReadDue ==
    ASSUME Types, pipe.pc = "read", NextNodeIs(pipe, "release", pipe'),
           pipe'.nodes = pipe.nodes, pipe'.batch = pipe.batch
    PROVE  /\ pipe'.pc \in {"read", "release"}
           /\ pipe'.pc = "read" =>
                 \A j \in DOMAIN pipe.nodes :
                    Due(pipe', j) = IF j = pipe.at THEN Len(Batch) + 1 ELSE Due(pipe, j)
           /\ pipe'.pc = "release" =>
                 \A j \in DOMAIN pipe.nodes :
                    Len(BatchAt(j)) + 1 = IF j = pipe.at THEN Len(Batch) + 1 ELSE Due(pipe, j)
<1>1. /\ pipe.at \in Nat /\ Len(pipe.nodes) \in Nat
      /\ \A j \in DOMAIN pipe.nodes : j \in Nat /\ j >= 1 /\ j <= Len(pipe.nodes)
      /\ ~(pipe.at < Len(pipe.nodes)) => pipe.at = Len(pipe.nodes)
  BY PlacesFacts
<1>2. Batch = BatchAt(pipe.at)
  BY DEF Batch, Current, BatchAt
<1>3. CASE pipe.at < Len(pipe.nodes)
  <2>1. pipe'.at = pipe.at + 1 /\ pipe'.pc = "read" /\ pipe'.next = 1
    BY <1>3 DEF NextNodeIs
  <2> QED
    BY <1>1, <1>2, <2>1 DEF Due, BatchAt
<1>4. CASE ~(pipe.at < Len(pipe.nodes))
  <2>1. pipe'.pc = "release"
    BY <1>4 DEF NextNodeIs
  <2> QED
    BY <1>1, <1>2, <1>4, <2>1 DEF Due, BatchAt
<1> QED
  BY <1>3, <1>4

LEMMA ReadDue ==
    ASSUME Types, pipe.pc = "read", NextReadIs(pipe, pipe'),
           pipe'.nodes = pipe.nodes, pipe'.batch = pipe.batch
    PROVE  /\ pipe'.pc \in {"read", "release"}
           /\ pipe'.pc = "read" =>
                 \A j \in DOMAIN pipe.nodes :
                    Due(pipe', j) = IF j = pipe.at THEN pipe.next + 1 ELSE Due(pipe, j)
           /\ pipe'.pc = "release" =>
                 \A j \in DOMAIN pipe.nodes :
                    Len(BatchAt(j)) + 1 = IF j = pipe.at THEN pipe.next + 1 ELSE Due(pipe, j)
<1>1. Batch = pipe.batch[pipe.nodes[pipe.at]]
  BY DEF Batch, Current
<1>2. CASE pipe.next < Len(Batch)
  <2>1. pipe'.next = pipe.next + 1 /\ pipe'.at = pipe.at /\ pipe'.pc = "read"
    BY <1>1, <1>2 DEF NextReadIs
  <2>2. \A j \in DOMAIN pipe.nodes : j \in Nat
    BY PlacesFacts
  <2>3. pipe.at \in Nat
    BY PlacesFacts
  <2> QED
    BY <2>1, <2>2, <2>3 DEF Due
<1>3. CASE ~(pipe.next < Len(Batch))
  <2>1. NextNodeIs(pipe, "release", pipe')
    BY <1>1, <1>3 DEF NextReadIs
  <2>2. pipe.next = Len(Batch)
    <3>1. pipe.next \in DOMAIN Batch /\ DOMAIN Batch = 1 .. Len(Batch) /\ Len(Batch) \in Nat
      BY CurrentFacts
    <3> QED
      BY <1>3, <3>1
  <2> QED
    BY <2>1, <2>2, NodeReadDue
<1> QED
  BY <1>2, <1>3

LEMMA AllIs ==
    ASSUME NEW is \in Outcome, pipe \in Locals, NEW i \in Cmd
    PROVE  /\ i \in Range(Batch) => All(is)[i].of = i /\ All(is)[i].is = is
           /\ i \notin Range(Batch) => All(is)[i] = pipe.result[i]
<1>1. CASE i \in Range(Batch)
  <2>1. All(is)[i] = [of |-> i, is |-> is]
    BY <1>1, AllFacts
  <2> QED
    BY <1>1, <2>1
<1>2. CASE i \notin Range(Batch)
  BY <1>2, AllFacts
<1> QED
  BY <1>1, <1>2

LEMMA SilentBefore ==
    ASSUME Wires, pipe.pc \notin {"write", "read"}
    PROVE  \A n \in Node : Silent(wire[n])
BY DEF Wires

LEMMA WriteWires ==
    ASSUME Types, Wires, Write
    PROVE  Wires'
<1>1. pipe.pc = "write" /\ held' = held
  BY DEF Write
<1>2. /\ pipe'.nodes = pipe.nodes /\ pipe'.batch = pipe.batch
      /\ pipe'.result = All("none") /\ NextNodeIs(pipe, "read", pipe')
  BY WriteFacts
<1>3. /\ Current = pipe.nodes[pipe.at] /\ Batch = pipe.batch[Current]
      /\ pipe.at \in DOMAIN pipe.nodes /\ Current \in Node
      /\ Batch \in Seq(Cmd) /\ wire[Current] \in Wire
  BY <1>1, CurrentFacts
<1>4. /\ \A i \in Cmd : i \in Range(Batch) => pipe'.result[i].is = "none"
      /\ \A i \in Cmd : i \notin Range(Batch) => pipe'.result[i] = pipe.result[i]
  <2>1. "none" \in Outcome /\ pipe \in Locals
    BY DEF Types, Outcome
  <2>2. /\ \A i \in Cmd : i \in Range(Batch) => All("none")[i].is = "none"
        /\ \A i \in Cmd : i \notin Range(Batch) => All("none")[i] = pipe.result[i]
    BY <2>1, AllIs
  <2> QED
    BY <1>2, <2>2
<1>5. OnlyCurrent
  BY <1>1, <1>2, <1>4, WriteWire DEF OnlyCurrent
<1>6. Silent(wire[Current])
  <2>1. Due(pipe, pipe.at) = Len(Batch) + 1
    <3>1. pipe.at \in Nat
      BY <1>1, PlacesFacts
    <3> QED
      BY <1>1, <1>3, <3>1 DEF Due
  <2>2. Matches(Batch, wire[Current], pipe.result, Due(pipe, pipe.at))
    BY <1>1, <1>3 DEF Wires
  <2> QED
    BY <1>3, <2>1, <2>2, MatchesEnd
<1>7. \A j \in DOMAIN Batch : pipe'.result[Batch[j]].is = "none"
  BY <1>3, <1>4, SeqFacts
<1>8. /\ wire'[Current].requests = wire[Current].requests \o Batch
      /\ wire'[Current].replies = wire[Current].replies
  BY WriteWire
<1>9. Matches(Batch, wire'[Current], pipe'.result, 1)
  BY <1>3, <1>6, <1>7, <1>8, MatchesWritten
<1>10. /\ pipe'.pc \in {"write", "read"}
       /\ \A j \in DOMAIN pipe.nodes : Due(pipe', j) = IF j = pipe.at THEN 1 ELSE Due(pipe, j)
  BY <1>1, <1>2, WrittenDue
<1> QED
  BY <1>5, <1>9, <1>10, WiresAfter

(* A batch that is lost owes nothing from any position on.                 *)
LEMMA LostMatches ==
    ASSUME Types, pipe.pc \in {"write", "read"}, pipe'.result = All("lost"),
           wire'[Current] = Closed, NEW x
    PROVE  /\ Matches(Batch, wire'[Current], pipe'.result, x)
           /\ \A i \in Cmd : i \notin Range(Batch) => pipe'.result[i] = pipe.result[i]
<1>1. /\ \A i \in Cmd : i \in Range(Batch) => pipe'.result[i].is = "lost"
      /\ \A i \in Cmd : i \notin Range(Batch) => pipe'.result[i] = pipe.result[i]
  <2>1. "lost" \in Outcome /\ pipe \in Locals
    BY DEF Types, Outcome
  <2>2. /\ \A i \in Cmd : i \in Range(Batch) => All("lost")[i].is = "lost"
        /\ \A i \in Cmd : i \notin Range(Batch) => All("lost")[i] = pipe.result[i]
    BY <2>1, AllIs
  <2> QED
    BY <2>2
<1>2. \A j \in DOMAIN Batch : pipe'.result[Batch[j]].is = "lost"
  BY <1>1, CurrentFacts, SeqFacts
<1>3. Silent(wire'[Current])
  BY DEF Closed, Silent
<1> QED
  BY <1>1, <1>2, <1>3 DEF Matches

LEMMA WriteFailsWires ==
    ASSUME Types, Wires, WriteFails
    PROVE  Wires'
<1>1. pipe.pc = "write" /\ held' = held
  BY DEF WriteFails
<1>2. /\ pipe'.nodes = pipe.nodes /\ pipe'.batch = pipe.batch
      /\ pipe'.result = All("lost") /\ NextNodeIs(pipe, "read", pipe')
  BY WriteFailsFacts
<1>3. /\ Current \in Node /\ Batch \in Seq(Cmd) /\ wire[Current] \in Wire
  BY <1>1, CurrentFacts
<1>4. wire[Current].requests \o Batch \in Seq(Cmd)
  BY <1>3, WireFacts
<1>5. /\ wire' \in [Node -> Wire]
      /\ wire'[Current] = Closed /\ \A m \in Node \ {Current} : wire'[m] = wire[m]
  BY <1>3, <1>4, CloseFacts DEF WriteFails, Types
<1>6. /\ Matches(Batch, wire'[Current], pipe'.result, 1)
      /\ \A i \in Cmd : i \notin Range(Batch) => pipe'.result[i] = pipe.result[i]
  BY <1>1, <1>2, <1>5, LostMatches
<1>7. OnlyCurrent
  BY <1>1, <1>2, <1>5, <1>6 DEF OnlyCurrent
<1>8. /\ pipe'.pc \in {"write", "read"}
      /\ \A j \in DOMAIN pipe.nodes : Due(pipe', j) = IF j = pipe.at THEN 1 ELSE Due(pipe, j)
  BY <1>1, <1>2, WrittenDue
<1> QED
  BY <1>6, <1>7, <1>8, WiresAfter

LEMMA ReadFailsWires ==
    ASSUME Types, Wires, ReadFails
    PROVE  Wires'
<1>1. pipe.pc = "read" /\ held' = held
  BY DEF ReadFails
<1>2. /\ pipe'.nodes = pipe.nodes /\ pipe'.batch = pipe.batch
      /\ pipe'.result = All("lost") /\ NextNodeIs(pipe, "release", pipe')
  BY ReadFailsFacts
<1>3. /\ Current \in Node /\ wire[Current] \in Wire
  BY <1>1, CurrentFacts
<1>4. wire[Current].requests \in Seq(Cmd)
  BY <1>3, WireFacts
<1>5. /\ wire' \in [Node -> Wire]
      /\ wire'[Current] = Closed /\ \A m \in Node \ {Current} : wire'[m] = wire[m]
  BY <1>3, <1>4, CloseFacts DEF ReadFails, Types
<1> DEFINE x == Len(Batch) + 1
<1>6. /\ Matches(Batch, wire'[Current], pipe'.result, x)
      /\ \A i \in Cmd : i \notin Range(Batch) => pipe'.result[i] = pipe.result[i]
  BY <1>1, <1>2, <1>5, LostMatches
<1>7. OnlyCurrent
  BY <1>1, <1>2, <1>5, <1>6 DEF OnlyCurrent
<1>8. /\ pipe'.pc \in {"read", "release"}
      /\ pipe'.pc = "read" =>
            \A j \in DOMAIN pipe.nodes : Due(pipe', j) = IF j = pipe.at THEN x ELSE Due(pipe, j)
      /\ pipe'.pc = "release" =>
            \A j \in DOMAIN pipe.nodes :
               Len(BatchAt(j)) + 1 = IF j = pipe.at THEN x ELSE Due(pipe, j)
  BY <1>1, <1>2, NodeReadDue
<1> HIDE DEF x
<1> QED
  BY <1>6, <1>7, <1>8, WiresAfter

LEMMA CurrentMatches ==
    ASSUME Types, Wires, pipe.pc = "read"
    PROVE  /\ Matches(Batch, wire[Current], pipe.result, pipe.next)
           /\ \A j, k \in DOMAIN Batch : j < k => Batch[j] < Batch[k]
<1>1. /\ Current = pipe.nodes[pipe.at] /\ Batch = pipe.batch[Current] /\ Current \in Node
      /\ pipe.at \in DOMAIN pipe.nodes
  BY CurrentFacts
<1>2. Due(pipe, pipe.at) = pipe.next
  <2>1. pipe.at \in Nat
    BY PlacesFacts
  <2> QED
    BY <2>1 DEF Due
<1>3. Matches(Batch, wire[Current], pipe.result, Due(pipe, pipe.at))
  BY <1>1 DEF Wires
<1> QED
  BY <1>1, <1>2, <1>3 DEF Types, Grouped

LEMMA ReadReplyWires ==
    ASSUME Types, Wires, ReadReply
    PROVE  /\ Wires'
           /\ Head(wire[Current].replies).of = ToRead
<1> DEFINE reply == Head(wire[Current].replies)
           x == pipe.next + 1
<1>1. pipe.pc = "read" /\ held' = held
  BY DEF ReadReply
<1>2. /\ pipe'.nodes = pipe.nodes /\ pipe'.batch = pipe.batch
      /\ wire[Current].replies # <<>> /\ pipe.result[ToRead].is = "none"
      /\ pipe'.result = [pipe.result EXCEPT ![ToRead] = reply]
      /\ NextReadIs(pipe, pipe')
  BY ReadReplyFacts
<1>3. /\ Current \in Node /\ Batch \in Seq(Cmd) /\ wire[Current] \in Wire
      /\ pipe.next \in DOMAIN Batch /\ ToRead \in Cmd /\ Batch[pipe.next] = ToRead
      /\ ToRead \in Range(Batch)
  BY <1>1, CurrentFacts, SeqFacts
<1>4. /\ wire' \in [Node -> Wire]
      /\ wire'[Current].replies = Tail(wire[Current].replies)
      /\ wire'[Current].requests = wire[Current].requests
      /\ \A m \in Node \ {Current} : wire'[m] = wire[m]
  BY ReadWire
<1>5. pipe.result \in [Cmd -> Reply]
  BY LocalsFacts DEF Types
<1>6. wire'[Current] \in Wire
  BY <1>3, <1>4
<1>7. /\ Matches(Batch, wire[Current], pipe.result, pipe.next)
      /\ \A j, k \in DOMAIN Batch : j < k => Batch[j] < Batch[k]
  BY <1>1, CurrentMatches
<1> HIDE DEF reply
<1>8. /\ Matches(Batch, wire'[Current], [pipe.result EXCEPT ![Batch[pipe.next]] = reply], x)
      /\ reply.of = Batch[pipe.next]
  <2> DEFINE w == wire[Current]
             v == wire'[Current]
             y == pipe.next
             r == pipe.result
             b == Batch
  <2>1. ReadsAt(b, w, v, r, y) /\ reply = Head(w.replies)
    BY <1>2, <1>3, <1>4, <1>5, <1>6, <1>7 DEF reply, ReadsAt
  <2> HIDE DEF w, v, y, r, b
  <2>2. Matches(b, v, [r EXCEPT ![b[y]] = reply], y + 1) /\ reply.of = b[y]
    BY <2>1, MatchesRead
  <2> QED
    BY <2>2 DEF v, y, r, b
<1>9. Matches(Batch, wire'[Current], pipe'.result, x) /\ reply.of = ToRead
  BY <1>2, <1>3, <1>8
<1>10. \A i \in Cmd : i \notin Range(Batch) => pipe'.result[i] = pipe.result[i]
  BY <1>2, <1>3, <1>5
<1>11. OnlyCurrent
  BY <1>1, <1>2, <1>4, <1>10 DEF OnlyCurrent
<1>12. /\ pipe'.pc \in {"read", "release"}
       /\ pipe'.pc = "read" =>
            \A j \in DOMAIN pipe.nodes : Due(pipe', j) = IF j = pipe.at THEN x ELSE Due(pipe, j)
       /\ pipe'.pc = "release" =>
            \A j \in DOMAIN pipe.nodes :
               Len(BatchAt(j)) + 1 = IF j = pipe.at THEN x ELSE Due(pipe, j)
  BY <1>1, <1>2, ReadDue
<1> HIDE DEF x
<1>13. Wires'
  BY <1>9, <1>11, <1>12, WiresAfter
<1> QED
  BY <1>9, <1>13 DEF reply

LEMMA ReadNothingWires ==
    ASSUME Types, Wires, ReadNothing
    PROVE  Wires'
<1> DEFINE x == pipe.next + 1
<1>1. pipe.pc = "read" /\ held' = held /\ wire' = wire
  BY DEF ReadNothing
<1>2. /\ pipe'.nodes = pipe.nodes /\ pipe'.batch = pipe.batch
      /\ pipe.result[ToRead].is # "none" /\ pipe'.result = pipe.result
      /\ NextReadIs(pipe, pipe')
  BY ReadNothingFacts
<1>3. /\ Batch \in Seq(Cmd) /\ pipe.next \in DOMAIN Batch /\ Batch[pipe.next] = ToRead
  BY <1>1, CurrentFacts
<1>4. wire \in [Node -> Wire]
  BY DEF Types, TablesOK
<1>5. Matches(Batch, wire[Current], pipe.result, pipe.next)
  BY <1>1, CurrentMatches
<1>6. Matches(Batch, wire[Current], pipe.result, x)
  BY <1>2, <1>3, <1>5, MatchesSkipped
<1>7. OnlyCurrent
  BY <1>1, <1>2, <1>4 DEF OnlyCurrent
<1>8. Matches(Batch, wire'[Current], pipe'.result, x)
  <2>1. wire'[Current] = wire[Current]
    BY <1>1
  <2> QED
    BY <1>2, <1>6, <2>1
<1>9. /\ pipe'.pc \in {"read", "release"}
      /\ pipe'.pc = "read" =>
            \A j \in DOMAIN pipe.nodes : Due(pipe', j) = IF j = pipe.at THEN x ELSE Due(pipe, j)
      /\ pipe'.pc = "release" =>
            \A j \in DOMAIN pipe.nodes :
               Len(BatchAt(j)) + 1 = IF j = pipe.at THEN x ELSE Due(pipe, j)
  BY <1>1, <1>2, ReadDue
<1> HIDE DEF x
<1> QED
  BY <1>7, <1>8, <1>9, WiresAfter
LEMMA DueFacts ==
    ASSUME Types, pipe.pc \in {"write", "read"}, NEW j \in DOMAIN pipe.nodes
    PROVE  /\ Due(pipe, j) \in Nat \ {0}
           /\ pipe.nodes[j] \in Node /\ BatchAt(j) \in Seq(Cmd) /\ Len(BatchAt(j)) \in Nat
           /\ DOMAIN BatchAt(j) = 1 .. Len(BatchAt(j))
<1>1. /\ pipe.nodes[j] \in Node /\ BatchAt(j) \in Seq(Cmd) /\ Len(BatchAt(j)) \in Nat
      /\ DOMAIN BatchAt(j) = 1 .. Len(BatchAt(j))
  BY BatchFacts DEF Types, BatchAt
<1>2. pipe.next \in Nat \ {0}
  BY LocalsFacts DEF Types
<1>3. Due(pipe, j) \in {1, Len(BatchAt(j)) + 1, pipe.next}
  BY DEF Due, BatchAt
<1> QED
  BY <1>1, <1>2, <1>3

(* A node that has a request is one that the pipeline uses.                *)
LEMMA ServedIsListed ==
    ASSUME Wires, NEW n \in Node, wire[n].requests # <<>>
    PROVE  pipe.pc \in {"write", "read"} /\ \E j \in DOMAIN pipe.nodes : pipe.nodes[j] = n
<1>1. ~Silent(wire[n])
  BY DEF Silent
<1>2. pipe.pc \in {"write", "read"} /\ n \in Range(pipe.nodes)
  BY <1>1 DEF Wires
<1> QED
  BY <1>2 DEF Range

LEMMA ServeWires ==
    ASSUME Types, Wires, NEW n \in Node, Serve(n)
    PROVE  Wires'
<1> DEFINE w == wire[n]
           v == wire'[n]
<1>1. pipe' = pipe /\ held' = held
  BY DEF Serve
<1>2. w \in Wire /\ w.requests # <<>>
  BY DEF Serve, Types, TablesOK
<1>3. PICK is :
          /\ v.requests = Tail(w.requests)
          /\ v.replies = Append(w.replies, [of |-> Head(w.requests), is |-> is])
          /\ [of |-> Head(w.requests), is |-> is] \in Answers
          /\ wire' \in [Node -> Wire] /\ \A m \in Node \ {n} : wire'[m] = wire[m]
  BY ServeFacts DEF Types
<1>4. pipe.pc \in {"write", "read"}
  BY <1>2, ServedIsListed
<1>5. PICK j \in DOMAIN pipe.nodes : pipe.nodes[j] = n
  BY <1>2, ServedIsListed
<1> DEFINE reply == [of |-> Head(w.requests), is |-> is]
<1>6. reply.of = Head(w.requests) /\ v \in Wire
  BY <1>3
<1> HIDE DEF reply
<1>7. Matches(BatchAt(j), v, pipe.result, Due(pipe, j))
  <2>1. Matches(BatchAt(j), w, pipe.result, Due(pipe, j))
    BY <1>4, <1>5 DEF Wires, BatchAt
  <2>2. BatchAt(j) \in Seq(Cmd) /\ Due(pipe, j) \in Nat \ {0}
    BY <1>4, DueFacts
  <2>3. v.requests = Tail(w.requests) /\ v.replies = Append(w.replies, reply) /\ reply \in Answers
    BY <1>3 DEF reply
  <2> DEFINE b == BatchAt(j)
             r == pipe.result
             x == Due(pipe, j)
  <2> HIDE DEF w, v, b, r, x
  <2>4. Matches(b, v, r, x)
    BY <1>2, <1>6, <2>1, <2>2, <2>3, MatchesServed DEF b, r, x
  <2> QED
    BY <2>4 DEF b, r, x
<1>8. ASSUME NEW k \in DOMAIN pipe.nodes
      PROVE  Matches(BatchAt(k), wire'[pipe.nodes[k]], pipe.result, Due(pipe, k))
  <2>1. Matches(BatchAt(k), wire[pipe.nodes[k]], pipe.result, Due(pipe, k))
    BY <1>4 DEF Wires, BatchAt
  <2>2. CASE k = j
    BY <1>5, <1>7, <2>2
  <2>3. CASE k # j
    <3>1. pipe.nodes[k] \in Node \ {n}
      BY <1>4, <1>5, <2>3, DueFacts DEF Types, Grouped
    <3> QED
      BY <1>3, <2>1, <3>1
  <2> QED
    BY <2>2, <2>3
<1>9. \A m \in Node \ Range(pipe.nodes) : Silent(wire'[m])
  <2>1. n \in Range(pipe.nodes)
    BY <1>5 DEF Range
  <2> QED
    BY <1>3, <2>1 DEF Wires
<1> QED
  BY <1>1, <1>4, <1>8, <1>9 DEF Wires, BatchAt

LEMMA RouteWires ==
    ASSUME Types, Wires, Route
    PROVE  Wires'
<1>1. pipe.pc = "route" /\ pipe \in Locals
  BY DEF Route, Types
<1>c. pipe.next \in Cmd
  BY <1>1 DEF Types, Cursor
<1>2. PICK n \in Node : /\ pipe'.nodes = Listed(n) /\ pipe'.at = 1 /\ held' = held \cup {n}
                        /\ pipe'.pc \in {"route", "write"}
  BY RouteFacts
<1>3. pipe' \in Locals /\ Cursor(pipe') /\ Grouped(pipe')
  BY RouteTypes
<1>4. \A m \in Node : Silent(wire[m])
  BY <1>1, SilentBefore
<1>5. \A m \in Node : Silent(wire'[m]) /\ wire'[m] \in Wire
  BY <1>4, RouteWire DEF Silent
<1>6. Range(pipe'.nodes) \subseteq held'
  BY <1>1, <1>2, <1>c, BatchedFacts DEF Wires
<1>7. ASSUME pipe'.pc = "write", NEW j \in DOMAIN pipe'.nodes
      PROVE  Matches(pipe'.batch[pipe'.nodes[j]], wire'[pipe'.nodes[j]], pipe'.result, Due(pipe', j))
  <2>1. pipe'.nodes[j] \in Node /\ pipe'.batch[pipe'.nodes[j]] \in Seq(Cmd)
    BY <1>3, BatchFacts
  <2>2. j \in Nat /\ ~(j < 1)
    <3>1. pipe'.nodes \in Seq(Node)
      BY <1>3, LocalsFacts
    <3> QED
      BY <3>1, SeqFacts
  <2>3. Due(pipe', j) = Len(pipe'.batch[pipe'.nodes[j]]) + 1
    BY <1>2, <1>7, <2>2 DEF Due
  <2> QED
    BY <1>5, <2>1, <2>3, MatchesEnd
<1> QED
  BY <1>2, <1>5, <1>6, <1>7 DEF Wires

LEMMA LaterWires ==
    ASSUME Types, Wires, Later, wire' = wire
    PROVE  Wires'
<1>1. \A m \in Node : Silent(wire'[m])
  BY SilentBefore DEF Later
<1>2. pipe'.pc \notin {"route", "write", "read"}
  BY DEF Later, Single
<1> QED
  BY <1>1, <1>2 DEF Wires

LEMMA ResendWires ==
    ASSUME Types, Wires, Resend
    PROVE  Wires'
<1>1. pipe'.pc = "route" /\ pipe'.nodes = <<>>
  BY ResendFacts
<1>2. \A m \in Node : Silent(wire'[m])
  BY SilentBefore DEF Resend
<1>3. Range(<<>>) = {}
  BY DEF Range
<1> QED
  BY <1>1, <1>2, <1>3 DEF Wires

LEMMA WiresInit == Init => Wires
<1> SUFFICES ASSUME Init PROVE Wires
  OBVIOUS
<1>1. \A n \in Node : Silent(wire[n])
  BY DEF Init, Closed, Silent
<1>2. pipe.pc = "route" /\ pipe.nodes = <<>>
  BY DEF Init, Start
<1>3. Range(<<>>) = {}
  BY DEF Range
<1> QED
  BY <1>1, <1>2, <1>3 DEF Wires

LEMMA WiresStep == Types /\ Wires /\ [Next]_vars => Wires'
<1> SUFFICES ASSUME Types, Wires, [Next]_vars PROVE Wires'
  OBVIOUS
<1>1. CASE wire' = wire /\ pipe' = pipe /\ held' = held
  BY <1>1 DEF Wires
<1>2. ASSUME NEW n \in Node, Serve(n) PROVE Wires'
  BY <1>2, ServeWires
<1>3. CASE Write \/ WriteFails \/ ReadReply \/ ReadNothing \/ ReadFails
  BY <1>3, WriteWires, WriteFailsWires, ReadReplyWires, ReadNothingWires, ReadFailsWires
<1>4. CASE Release \/ CountRetries \/ CountFails \/ RetryEscapes \/ RouteFails \/ Return \/ GiveUp
  <2>1. wire' = wire
    BY <1>4 DEF Release, CountRetries, CountFails, RetryEscapes, RouteFails, Return, GiveUp
  <2> QED
    BY <1>4, <2>1, ToFinish, LaterWires
<1>5. CASE RetryOk \/ RetryFails
  <2>1. wire' = wire
    BY <1>5 DEF RetryOk, RetryFails
  <2>2. Later
    BY <1>5, RetryOkFacts, RetryFailsFacts
  <2> QED
    BY <2>1, <2>2, LaterWires
<1>6. CASE Route \/ Resend
  BY <1>6, RouteWires, ResendWires
<1>7. CASE RetryRepeats
  BY <1>1, <1>7 DEF RetryRepeats
<1> QED
  BY <1>1, <1>2, <1>3, <1>4, <1>5, <1>6, <1>7
  DEF Next, Execute, vars, Done, RefreshTable, ServeLate, MigrateKey, FinishMigration

(* "It is really dangerous to release connections back into the pool if    *)
(* for some reason the socket has data still left in it": execute of       *)
(* pipeline.py gives back only connections that owe no reply, whichever    *)
(* reads and writes fail and whatever servers do meanwhile.                *)
THEOREM PipelineNoStaleReplies == Spec => []NoStaleReplies
<1>1. Init => Types /\ Wires
  BY TypesInit, WiresInit
<1>2. Types /\ Wires /\ [Next]_vars => Types' /\ Wires'
  BY TypesStep, WiresStep
<1>3. Types /\ Wires => NoStaleReplies
  <2> SUFFICES ASSUME Wires, NEW n \in Node \ held PROVE Silent(wire[n])
    BY DEF NoStaleReplies, Silent
  <2> QED
    BY DEF Wires
<1> QED
  BY <1>1, <1>2, <1>3, PTL DEF Spec
-----------------------------------------------------------------------------
(* What is answered has been executed.                                     *)

(* The servers' log only grows.                                            *)
Grows == Range(log) \subseteq Range(log')

LEMMA GrowsStep ==
    ASSUME Types, [Next]_vars
    PROVE  Grows
<1>0. log \in Seq(Cmd)
  BY DEF Types, TablesOK
<1>1. CASE log' = log
  BY <1>1 DEF Grows
<1>2. ASSUME NEW i \in Cmd, log' = Append(log, i) PROVE Grows
  BY <1>0, <1>2, AppendFacts DEF Grows
<1>3. ASSUME NEW n \in Node, Serve(n) PROVE Grows
  <2>1. PICK is : /\ Head(wire[n].requests) \in Cmd
                  /\ log' = IF is = "ok" THEN Append(log, Head(wire[n].requests)) ELSE log
    BY <1>3, ServeFacts DEF Types
  <2> QED
    BY <1>1, <1>2, <2>1
<1>4. ASSUME NEW n \in Node, ServeLate(n) PROVE Grows
  <2>1. late[n] \in Seq(Cmd) /\ late[n] # <<>>
    BY <1>4 DEF ServeLate, Types, TablesOK
  <2>2. Head(late[n]) \in Cmd
    BY <2>1
  <2> QED
    BY <1>1, <1>2, <1>4, <2>2 DEF ServeLate
<1>5. CASE RetryOk \/ RetryRepeats
  BY <1>2, <1>5, RetriedFacts DEF RetryOk, RetryRepeats
<1>6. CASE Execute /\ ~RetryOk /\ ~RetryRepeats
  BY <1>1, <1>6
  DEF Execute, Route, RouteFails, Write, WriteFails, ReadReply, ReadNothing, ReadFails, Release,
      CountRetries, CountFails, RetryFails, RetryEscapes, Return, Resend, GiveUp, servers
<1> QED
  BY <1>1, <1>3, <1>4, <1>5, <1>6
  DEF Next, vars, servers, Done, RefreshTable, MigrateKey, FinishMigration

LEMMA SameResults ==
    ASSUME ResultsTrue, Grows, pipe'.result = pipe.result
    PROVE  ResultsTrue'
BY DEF ResultsTrue, Grows, Justified

LEMMA LostResults ==
    ASSUME Types, ResultsTrue, Grows, NEW is \in {"none", "lost"}, pipe'.result = All(is)
    PROVE  ResultsTrue'
<1> SUFFICES ASSUME NEW i \in Cmd
             PROVE  pipe'.result[i].of = i /\ Justified(pipe'.result[i], Range(log'))
  BY DEF ResultsTrue
<1>1. is \in Outcome /\ pipe \in Locals
  BY DEF Outcome, Types
<1>2. CASE i \in Range(Batch)
  BY <1>1, <1>2, AllIs DEF Justified
<1>3. CASE i \notin Range(Batch)
  <2>1. pipe'.result[i] = pipe.result[i]
    BY <1>1, <1>3, AllIs
  <2> QED
    BY <2>1 DEF ResultsTrue, Grows, Justified
<1> QED
  BY <1>2, <1>3

LEMMA NewResult ==
    ASSUME Types, ResultsTrue, Grows, NEW j \in Cmd, NEW reply, reply.of = j,
           Justified(reply, Range(log')),
           pipe'.result = [pipe.result EXCEPT ![j] = reply]
    PROVE  ResultsTrue'
<1>1. pipe.result \in [Cmd -> Reply]
  BY LocalsFacts DEF Types
<1> SUFFICES ASSUME NEW i \in Cmd
             PROVE  pipe'.result[i].of = i /\ Justified(pipe'.result[i], Range(log'))
  BY DEF ResultsTrue
<1>2. CASE i = j
  <2>1. pipe'.result[i] = reply
    BY <1>1, <1>2
  <2> QED
    BY <1>2, <2>1
<1>3. CASE i # j
  <2>1. pipe'.result[i] = pipe.result[i]
    BY <1>1, <1>3
  <2> QED
    BY <2>1 DEF ResultsTrue, Grows, Justified
<1> QED
  BY <1>2, <1>3

LEMMA SameReplies ==
    ASSUME NEW n, RepliesTrue(n), Grows, wire'[n].replies = wire[n].replies
    PROVE  RepliesTrue(n)'
BY DEF RepliesTrue, Grows, Justified

LEMMA ServeReplies ==
    ASSUME Types, Grows, NEW n \in Node, Serve(n), \A m \in Node : RepliesTrue(m), NEW m \in Node
    PROVE  RepliesTrue(m)'
<1> DEFINE a == wire[n].replies
           b == wire'[n].replies
           i == Head(wire[n].requests)
<1>1. PICK is : /\ i \in Cmd
                /\ b = Append(a, [of |-> i, is |-> is])
                /\ [of |-> i, is |-> is] \in Answers
                /\ \A l \in Node \ {n} : wire'[l] = wire[l]
                /\ log' = IF is = "ok" THEN Append(log, i) ELSE log
                /\ is = "down" => "down" \in Fault
  BY ServeFacts, AnswerFacts DEF Types
<1>2. CASE m # n
  BY <1>1, <1>2, SameReplies
<1>3. CASE m = n
  <2>1. a \in Seq(Answers) /\ log \in Seq(Cmd)
    BY WireFacts DEF Types, TablesOK
  <2>2. is = "ok" => i \in Range(log')
    BY <1>1, <2>1, AppendFacts
  <2> DEFINE reply == [of |-> i, is |-> is]
  <2>3. Justified(reply, Range(log'))
    BY <1>1, <2>2 DEF Justified
  <2> HIDE DEF reply, i
  <2>4. /\ DOMAIN b = 1 .. Len(a) + 1 /\ Len(a) \in Nat /\ DOMAIN a = 1 .. Len(a)
        /\ \A k \in DOMAIN a : b[k] = a[k]
        /\ b[Len(a) + 1] = reply
    BY <1>1, <2>1, AppendFacts, SeqFacts DEF reply
  <2>5. \A k \in DOMAIN a : Justified(a[k], Range(log'))
    BY DEF RepliesTrue, Justified, Grows
  <2> HIDE DEF a, b
  <2>6. \A k \in DOMAIN b : k \in DOMAIN a \/ k = Len(a) + 1
    BY <2>4
  <2>7. \A k \in DOMAIN b : Justified(b[k], Range(log'))
    BY <2>3, <2>4, <2>5, <2>6
  <2> QED
    BY <1>3, <2>7 DEF RepliesTrue, b
<1> QED
  BY <1>2, <1>3

(* A connection that has been read, or closed, tells no more than before.  *)
LEMMA FewerReplies ==
    ASSUME Types, Grows, ReadReply \/ WriteFails \/ ReadFails, \A m \in Node : RepliesTrue(m),
           NEW n \in Node
    PROVE  RepliesTrue(n)'
<1>1. CASE ReadReply
  <2>1. CASE n # Current
    BY <1>1, <2>1, ReadWire, SameReplies
  <2>2. CASE n = Current
    <3> DEFINE a == wire[n].replies
               b == wire'[n].replies
    <3>1. b = Tail(a) /\ a # <<>> /\ a \in Seq(Answers)
      BY <1>1, <2>2, ReadWire, WireFacts DEF ReadReply, Types, TablesOK
    <3>2. \A k \in DOMAIN b : k + 1 \in DOMAIN a /\ b[k] = a[k + 1]
      BY <3>1
    <3>3. \A k \in DOMAIN a : Justified(a[k], Range(log'))
      BY DEF RepliesTrue, Justified, Grows
    <3> HIDE DEF a, b
    <3>4. \A k \in DOMAIN b : Justified(b[k], Range(log'))
      BY <3>2, <3>3
    <3> QED
      BY <3>4 DEF RepliesTrue, b
  <2> QED
    BY <2>1, <2>2
<1>2. CASE WriteFails \/ ReadFails
  <2>1. wire' = [wire EXCEPT ![Current] = Closed] /\ wire \in [Node -> Wire]
    BY <1>2 DEF WriteFails, ReadFails, Close, Types, TablesOK
  <2>2. CASE n # Current
    BY <2>1, <2>2, SameReplies
  <2>3. CASE n = Current
    BY <2>1, <2>3 DEF RepliesTrue, Closed
  <2> QED
    BY <2>2, <2>3
<1> QED
  BY <1>1, <1>2

LEMMA RepliesStep ==
    ASSUME Types, Grows, [Next]_vars, \A m \in Node : RepliesTrue(m), NEW n \in Node
    PROVE  RepliesTrue(n)'
<1>1. CASE wire' = wire
  BY <1>1, SameReplies
<1>2. ASSUME NEW m \in Node, Serve(m) PROVE RepliesTrue(n)'
  BY <1>2, ServeReplies
<1>3. CASE Route
  BY <1>3, RouteWire, SameReplies
<1>4. CASE Write
  <2>1. wire'[n].replies = wire[n].replies
    BY <1>4, WriteWire
  <2> QED
    BY <2>1, SameReplies
<1>5. CASE ReadReply \/ WriteFails \/ ReadFails
  BY <1>5, FewerReplies
<1>6. CASE Execute /\ ~Route /\ ~Write /\ ~ReadReply /\ ~WriteFails /\ ~ReadFails
  BY <1>1, <1>6
  DEF Execute, RouteFails, ReadNothing, Release, CountRetries, CountFails, RetryOk, RetryRepeats,
      RetryFails, RetryEscapes, Return, Resend, GiveUp
<1> QED
  BY <1>1, <1>2, <1>3, <1>4, <1>5, <1>6
  DEF Next, vars, Done, RefreshTable, ServeLate, MigrateKey, FinishMigration

LEMMA ResultsStep ==
    ASSUME Types, Wires, Grows, [Next]_vars, ResultsTrue, \A m \in Node : RepliesTrue(m)
    PROVE  ResultsTrue'
<1>1. CASE pipe' = pipe
  BY <1>1, SameResults
<1>2. CASE Write \/ WriteFails \/ ReadFails
  BY <1>2, WriteFacts, WriteFailsFacts, ReadFailsFacts, LostResults
<1>3. CASE ReadReply
  <2> DEFINE reply == Head(wire[Current].replies)
  <2>1. pipe'.result = [pipe.result EXCEPT ![ToRead] = reply]
    BY <1>3, ReadReplyFacts
  <2>2. reply.of = ToRead
    BY <1>3, ReadReplyWires
  <2>3. pipe.pc = "read" /\ wire[Current].replies # <<>>
    BY <1>3 DEF ReadReply
  <2>4. ToRead \in Cmd /\ Current \in Node /\ wire[Current] \in Wire
    BY <2>3, CurrentFacts
  <2>5. reply = wire[Current].replies[1] /\ 1 \in DOMAIN wire[Current].replies
    BY <2>3, <2>4, WireFacts, SeqFacts
  <2>6. Justified(reply, Range(log'))
    BY <2>4, <2>5 DEF RepliesTrue, Justified, Grows
  <2> HIDE DEF reply
  <2> QED
    BY <2>1, <2>2, <2>4, <2>6, NewResult
<1>4. CASE Route
  BY <1>4, RouteFacts, SameResults
<1>5. CASE ReadNothing \/ Resend
  BY <1>5, ReadNothingFacts, ResendFacts, SameResults
<1>6. CASE Release \/ CountRetries \/ CountFails \/ RetryEscapes \/ RouteFails \/ Return \/ GiveUp
  BY <1>6, ToFinish, SameResults
<1>7. CASE RetryOk
  <2> DEFINE reply == [of |-> Retried, is |-> "ok"]
  <2>1. Retried \in Cmd /\ log \in Seq(Cmd) /\ log' = Append(log, Retried)
    BY <1>7, RetriedFacts DEF RetryOk, Types, TablesOK
  <2>2. pipe'.result = [pipe.result EXCEPT ![Retried] = reply]
    BY <1>7, RetryOkFacts
  <2>3. reply.of = Retried /\ Retried \in Range(log')
    BY <2>1, AppendFacts
  <2>4. Justified(reply, Range(log'))
    BY <2>3 DEF Justified
  <2> HIDE DEF reply
  <2> QED
    BY <2>1, <2>2, <2>3, <2>4, NewResult
<1>8. CASE RetryFails
  <2>1. PICK is \in {"down", "error"} \cap Fault :
            pipe'.result = [pipe.result EXCEPT ![Retried] = [of |-> Retried, is |-> is]]
    BY <1>8, RetryFailsFacts
  <2> DEFINE reply == [of |-> Retried, is |-> is]
  <2>2. Retried \in Cmd
    BY <1>8, RetriedFacts DEF RetryFails
  <2>3. reply.of = Retried /\ reply.is # "ok" /\ reply.is \in Fault
    OBVIOUS
  <2> HIDE DEF reply
  <2>4. Justified(reply, Range(log'))
    BY <2>3 DEF Justified
  <2> QED
    BY <2>1, <2>2, <2>3, <2>4, NewResult DEF reply
<1>9. CASE RetryRepeats
  BY <1>1, <1>9 DEF RetryRepeats
<1> QED
  BY <1>1, <1>2, <1>3, <1>4, <1>5, <1>6, <1>7, <1>8, <1>9
  DEF Next, Execute, vars, Done, RefreshTable, Serve, ServeLate, MigrateKey, FinishMigration

LEMMA AnsweredStep == Types /\ Wires /\ Answered /\ [Next]_vars => Answered'
<1> SUFFICES ASSUME Types, Wires, Answered, [Next]_vars PROVE Answered'
  OBVIOUS
<1>1. Grows
  BY GrowsStep
<1>2. ResultsTrue /\ \A n \in Node : RepliesTrue(n)
  BY DEF Answered
<1>3. ResultsTrue'
  BY <1>1, <1>2, ResultsStep
<1>4. \A n \in Node : RepliesTrue(n)'
  BY <1>1, <1>2, RepliesStep
<1> QED
  BY <1>3, <1>4 DEF Answered

LEMMA AnsweredInit == Init => Answered
<1> SUFFICES ASSUME Init PROVE Answered
  OBVIOUS
<1>1. \A n \in Node : wire[n].replies = <<>>
  BY DEF Init, Closed
<1>2. \A i \in Cmd : pipe.result[i] = [of |-> i, is |-> "none"]
  BY DEF Init, Start
<1>3. ASSUME NEW i \in Cmd PROVE pipe.result[i].of = i /\ pipe.result[i].is = "none"
  <2>1. pipe.result[i] = [of |-> i, is |-> "none"]
    BY <1>2
  <2> QED
    BY <2>1
<1> QED
  BY <1>1, <1>3 DEF Answered, ResultsTrue, RepliesTrue, Justified

(* No command is passed "the buffered result back from a previous          *)
(* command": at each position of what execute of pipeline.py has gathered  *)
(* is an answer to the command queued there, and one that is not an        *)
(* exception comes from an execution of it.                                *)
THEOREM PipelineOwnReply == Spec => []OwnReply
<1>1. Init => IInv
  BY TypesInit, WiresInit, AnsweredInit DEF IInv
<1>2. IInv /\ [Next]_vars => IInv'
  BY TypesStep, WiresStep, AnsweredStep DEF IInv
<1>3. IInv => OwnReply
  BY DEF IInv, Answered, ResultsTrue, Justified, OwnReply
<1> QED
  BY <1>1, <1>2, <1>3, PTL DEF Spec
-----------------------------------------------------------------------------
(* No command is executed twice.                                           *)

(* No answer is lost on the way, and the pipeline is not done again.       *)
NoRepeats == "connection" \notin Fault /\ ("down" \in Fault => TRUE \notin RaiseOnError)

OnTime == \A n \in Node : late[n] = <<>>

(* What has been executed has its answer, or that is on its way.           *)
OnItsWay(i) == \E n \in Node : \E k \in DOMAIN wire[n].replies :
                  wire[n].replies[k].of = i /\ wire[n].replies[k].is = "ok"
Executed == \A i \in Range(log) : pipe.result[i].is = "ok" \/ OnItsWay(i)

(* Nothing is known of a command before its batch is written. *)
Unwritten ==
    /\ pipe.pc = "route" => \A i \in Cmd : pipe.result[i].is = "none"
    /\ pipe.pc = "write" => \A j \in DOMAIN pipe.nodes : j >= pipe.at =>
          \A i \in Range(BatchAt(j)) : pipe.result[i].is = "none"

ToRetry == \A i \in pipe.attempt : pipe.result[i].is \in ERRORS_ALLOW_RETRY

Once == OnTime /\ Unwritten /\ ToRetry /\ Executed /\ AtMostOnce

LEMMA SortedDiffer ==
    ASSUME NEW b \in Seq(Cmd), \A j, k \in DOMAIN b : j < k => b[j] < b[k]
    PROVE  \A j, k \in DOMAIN b : b[j] = b[k] => j = k
<1> SUFFICES ASSUME NEW j \in DOMAIN b, NEW k \in DOMAIN b, j # k PROVE b[j] # b[k]
  OBVIOUS
<1>1. DOMAIN b \in SUBSET Nat /\ b[j] \in Nat /\ b[k] \in Nat
  BY SeqFacts, CmdFacts
<1>2. j < k \/ k < j
  BY <1>1
<1> QED
  BY <1>1, <1>2

(* The commands on a connection are of its batch, have no result yet, and  *)
(* are in order, those that are answered first.                            *)
LEMMA Owes ==
    ASSUME NEW b \in Seq(Cmd), NEW w \in Wire, NEW r, NEW x \in Nat \ {0},
           Matches(b, w, r, x), \A j, k \in DOMAIN b : j < k => b[j] < b[k]
    PROVE  /\ \A k \in DOMAIN w.replies :
                 w.replies[k].of \in Range(b) /\ r[w.replies[k].of].is = "none"
           /\ \A k \in DOMAIN w.requests :
                 w.requests[k] \in Range(b) /\ r[w.requests[k]].is = "none"
           /\ \A k, l \in DOMAIN w.replies : w.replies[k].of = w.replies[l].of => k = l
           /\ \A k \in DOMAIN w.replies, l \in DOMAIN w.requests : w.replies[k].of < w.requests[l]
           /\ \A l \in DOMAIN w.requests, i \in Range(b) : w.requests[l] < i => r[i].is = "none"
<1> DEFINE a == w.replies
           q == w.requests
           m == Len(a)
           c == Len(q)
           n == Len(b)
<1>1. /\ m \in Nat /\ DOMAIN a = 1 .. m /\ c \in Nat /\ DOMAIN q = 1 .. c
      /\ n \in Nat /\ DOMAIN b = 1 .. n
      /\ a = <<>> <=> m = 0
      /\ q = <<>> <=> c = 0
  BY WireFacts, SeqFacts
<1>2. CASE a = <<>> /\ q = <<>>
  <2>1. DOMAIN a = {} /\ DOMAIN q = {}
    BY <1>1, <1>2
  <2> QED
    BY <2>1
<1>3. CASE ~(a = <<>> /\ q = <<>>)
  <2>1. /\ \A j \in DOMAIN b : j >= x => r[b[j]].is = "none"
        /\ m + c = n - x + 1
        /\ \A k \in DOMAIN a : a[k].of = b[x + k - 1]
        /\ \A k \in DOMAIN q : q[k] = b[x + m + k - 1]
    BY <1>3 DEF Matches, Silent
  <2>2. \A j, k \in DOMAIN b : b[j] = b[k] => j = k
    BY SortedDiffer
  <2>3. \A j \in DOMAIN b : b[j] \in Range(b)
    BY SeqFacts
  <2> HIDE DEF a, q, m, c, n
  <2>4. \A k \in DOMAIN a : x + k - 1 \in DOMAIN b /\ x + k - 1 >= x
    BY <1>1, <2>1
  <2>5. \A k \in DOMAIN q : x + m + k - 1 \in DOMAIN b /\ x + m + k - 1 >= x
    BY <1>1, <2>1
  <2>6. \A k, l \in DOMAIN a : x + k - 1 = x + l - 1 => k = l
    BY <1>1
  <2>7. \A k \in DOMAIN a, l \in DOMAIN q : x + k - 1 < x + m + l - 1
    BY <1>1
  <2>8. \A k \in DOMAIN a : a[k].of \in Range(b) /\ r[a[k].of].is = "none"
    BY <2>1, <2>3, <2>4
  <2>9. \A k \in DOMAIN q : q[k] \in Range(b) /\ r[q[k]].is = "none"
    BY <2>1, <2>3, <2>5
  <2>10. \A k, l \in DOMAIN a : a[k].of = a[l].of => k = l
    BY <2>1, <2>2, <2>4, <2>6
  <2>11. \A k \in DOMAIN a, l \in DOMAIN q : a[k].of < q[l]
    BY <2>1, <2>4, <2>5, <2>7
  <2>12. ASSUME NEW l \in DOMAIN q, NEW i \in Range(b), q[l] < i PROVE r[i].is = "none"
    <3>1. PICK j \in DOMAIN b : b[j] = i
      BY DEF Range
    <3> DEFINE y == x + m + l - 1
    <3>2. y \in DOMAIN b /\ y >= x /\ q[l] = b[y]
      BY <2>1, <2>5
    <3>3. j \in Nat /\ y \in Nat /\ x \in Nat
      BY <1>1, <3>2
    <3> HIDE DEF y
    <3>4. b[j] \in Nat /\ b[y] \in Nat
      BY <3>1, <3>2, SeqFacts, CmdFacts
    <3>5. ~(j < y) /\ j # y
      BY <2>12, <3>1, <3>2, <3>4
    <3>6. j >= x
      BY <3>2, <3>3, <3>5
    <3> QED
      BY <2>1, <3>1, <3>6
  <2> QED
    BY <2>8, <2>9, <2>10, <2>11, <2>12 DEF a, q
<1> QED
  BY <1>2, <1>3

LEMMA WireOwes ==
    ASSUME Types, Wires, NEW n \in Node
    PROVE  /\ \A k \in DOMAIN wire[n].replies :
                 /\ wire[n].replies[k].of \in Range(pipe.batch[n])
                 /\ pipe.result[wire[n].replies[k].of].is = "none"
           /\ \A k \in DOMAIN wire[n].requests :
                 /\ wire[n].requests[k] \in Range(pipe.batch[n])
                 /\ pipe.result[wire[n].requests[k]].is = "none"
           /\ \A k, l \in DOMAIN wire[n].replies :
                 wire[n].replies[k].of = wire[n].replies[l].of => k = l
           /\ \A k \in DOMAIN wire[n].replies, l \in DOMAIN wire[n].requests :
                 wire[n].replies[k].of < wire[n].requests[l]
           /\ \A l \in DOMAIN wire[n].requests, i \in Range(pipe.batch[n]) :
                 wire[n].requests[l] < i => pipe.result[i].is = "none"
<1>1. CASE Silent(wire[n])
  BY <1>1 DEF Silent
<1>2. CASE ~Silent(wire[n])
  <2>1. pipe.pc \in {"write", "read"} /\ n \in Range(pipe.nodes)
    BY <1>2 DEF Wires
  <2>2. PICK j \in DOMAIN pipe.nodes : pipe.nodes[j] = n
    BY <2>1 DEF Range
  <2> DEFINE b == pipe.batch[n]
             x == Due(pipe, j)
             w == wire[n]
             r == pipe.result
  <2>3. /\ b \in Seq(Cmd) /\ x \in Nat \ {0} /\ w \in Wire
        /\ Matches(b, w, r, x) /\ \A k, l \in DOMAIN b : k < l => b[k] < b[l]
    BY <2>1, <2>2, DueFacts DEF BatchAt, Wires, Types, TablesOK, Grouped
  <2> HIDE DEF b, x, w, r
  <2>4. /\ \A k \in DOMAIN w.replies :
              w.replies[k].of \in Range(b) /\ r[w.replies[k].of].is = "none"
        /\ \A k \in DOMAIN w.requests :
              w.requests[k] \in Range(b) /\ r[w.requests[k]].is = "none"
        /\ \A k, l \in DOMAIN w.replies : w.replies[k].of = w.replies[l].of => k = l
        /\ \A k \in DOMAIN w.replies, l \in DOMAIN w.requests : w.replies[k].of < w.requests[l]
        /\ \A l \in DOMAIN w.requests, i \in Range(b) : w.requests[l] < i => r[i].is = "none"
    BY <2>3, Owes
  <2> QED
    BY <2>4 DEF b, w, r
<1> QED
  BY <1>1, <1>2

(* A request on a connection is for a command that has not been executed.  *)
LEMMA RequestFresh ==
    ASSUME Types, Wires, Executed, NEW n \in Node, wire[n].requests # <<>>
    PROVE  Head(wire[n].requests) \notin Range(log)
<1> DEFINE i == Head(wire[n].requests)
<1>1. i = wire[n].requests[1] /\ 1 \in DOMAIN wire[n].requests
  <2>1. wire[n] \in Wire
    BY DEF Types, TablesOK
  <2> QED
    BY <2>1, WireFacts, SeqFacts
<1>2. i \in Range(pipe.batch[n]) /\ pipe.result[i].is = "none"
  BY <1>1, WireOwes
<1> SUFFICES ASSUME OnItsWay(i) PROVE FALSE
  BY <1>2 DEF Executed
<1>3a. PICK m \in Node : \E k \in DOMAIN wire[m].replies : wire[m].replies[k].of = i
  BY DEF OnItsWay
<1>3. PICK k \in DOMAIN wire[m].replies : wire[m].replies[k].of = i
  BY <1>3a
<1>4. i \in Range(pipe.batch[m])
  BY <1>3, WireOwes
<1>5. m = n
  BY <1>2, <1>4 DEF Types, Grouped
<1>6. i < i
  BY <1>1, <1>3, <1>5, WireOwes
<1>7. i \in Nat
  BY <1>2, CmdFacts, LocalsFacts, SeqFacts DEF Types
<1> QED
  BY <1>6, <1>7

(* And so is one whose answer is an error.                                 *)
LEMMA ErrorFresh ==
    ASSUME Types, Wires, Executed, NEW n \in Node, NEW k \in DOMAIN wire[n].replies,
           wire[n].replies[k].is # "ok"
    PROVE  wire[n].replies[k].of \notin Range(log)
<1> DEFINE i == wire[n].replies[k].of
<1>2. i \in Range(pipe.batch[n]) /\ pipe.result[i].is = "none"
  BY WireOwes
<1> SUFFICES ASSUME OnItsWay(i) PROVE FALSE
  BY <1>2 DEF Executed
<1>3a. PICK m \in Node : \E l \in DOMAIN wire[m].replies :
          wire[m].replies[l].of = i /\ wire[m].replies[l].is = "ok"
  BY DEF OnItsWay
<1>3. PICK l \in DOMAIN wire[m].replies :
          wire[m].replies[l].of = i /\ wire[m].replies[l].is = "ok"
  BY <1>3a
<1>4. i \in Range(pipe.batch[m])
  BY <1>3, WireOwes
<1>5. m = n
  BY <1>2, <1>4 DEF Types, Grouped
<1> QED
  BY <1>3, <1>5, WireOwes

(* When nothing is on the connections, what was executed is answered.      *)
LEMMA AllAnswered ==
    ASSUME Wires, Executed, pipe.pc \notin {"write", "read"}, NEW i \in Range(log)
    PROVE  pipe.result[i].is = "ok"
<1>1. \A n \in Node : wire[n].replies = <<>>
  BY SilentBefore DEF Silent
<1>2. ~OnItsWay(i)
  BY <1>1 DEF OnItsWay
<1> QED
  BY <1>2 DEF Executed

LEMMA RetriedFresh ==
    ASSUME Types, Wires, Executed, ToRetry, Retrying
    PROVE  Retried \in Cmd /\ Retried \notin Range(log)
<1>1. Retried \in Cmd /\ pipe.result[Retried].is \in ERRORS_ALLOW_RETRY
  BY RetriedFacts DEF ToRetry
<1>2. pipe.result[Retried].is # "ok"
  BY <1>1 DEF ERRORS_ALLOW_RETRY
<1> QED
  BY <1>1, <1>2, AllAnswered DEF Retrying

(* The batch that is written next.                                         *)
LEMMA BatchFresh ==
    ASSUME Types, Wires, Executed, Unwritten, pipe.pc = "write", NEW i \in Range(Batch)
    PROVE  i \notin Range(log)
<1>1. /\ Current = pipe.nodes[pipe.at] /\ Batch = pipe.batch[Current] /\ Current \in Node
      /\ pipe.at \in DOMAIN pipe.nodes /\ Batch \in Seq(Cmd) /\ wire[Current] \in Wire
  BY CurrentFacts
<1>0. pipe.at \in Nat
  BY PlacesFacts
<1>2. pipe.result[i].is = "none"
  BY <1>0, <1>1 DEF Unwritten, BatchAt
<1> SUFFICES ASSUME OnItsWay(i) PROVE FALSE
  BY <1>2 DEF Executed
<1>3a. PICK m \in Node : \E k \in DOMAIN wire[m].replies : wire[m].replies[k].of = i
  BY DEF OnItsWay
<1>3. PICK k \in DOMAIN wire[m].replies : wire[m].replies[k].of = i
  BY <1>3a
<1>4. i \in Range(pipe.batch[m])
  BY <1>3, WireOwes
<1>5. m = Current
  BY <1>1, <1>4 DEF Types, Grouped
<1>6. Silent(wire[Current])
  <2>1. Due(pipe, pipe.at) = Len(Batch) + 1
    BY <1>0, <1>1 DEF Due
  <2>2. Matches(Batch, wire[Current], pipe.result, Due(pipe, pipe.at))
    BY <1>1 DEF Wires
  <2> QED
    BY <1>1, <2>1, <2>2, MatchesEnd
<1> QED
  BY <1>3, <1>5, <1>6 DEF Silent
LEMMA Excluded ==
    ASSUME NoRepeats, Types, Answered
    PROVE  ~WriteFails /\ ~ReadFails /\ ~CountFails /\ ~RetryRepeats /\ ~Resend
<1>1. ~Fails("connection")
  BY DEF NoRepeats, Fails
<1>2. ~Resend
  <2> SUFFICES ASSUME pipe.raise, Wrong # {}, pipe.result[Min(Wrong)].is = "down" PROVE FALSE
    BY DEF Resend, IsDown
  <2>1. Wrong \in SUBSET Nat /\ Wrong \in SUBSET Cmd
    BY CmdFacts DEF Wrong
  <2>2. Min(Wrong) \in Cmd
    BY <2>1, FirstOne
  <2>3. "down" \in Fault
    BY <2>2 DEF Answered, ResultsTrue, Justified
  <2>4. pipe.raise \in RaiseOnError /\ RaiseOnError \subseteq BOOLEAN
    BY LocalsFacts, ClusterPipelineAssumption DEF Types
  <2>5. pipe.raise = TRUE
    BY <2>4, Zenon
  <2> QED
    BY <2>3, <2>4, <2>5, Zenon DEF NoRepeats
<1> QED
  BY <1>1, <1>2 DEF WriteFails, ReadFails, CountFails, RetryRepeats

LEMMA OnTimeStep ==
    ASSUME NoRepeats, Types, Answered, OnTime, [Next]_vars
    PROVE  late' = late
<1>1. \A n \in Node : ~ServeLate(n)
  BY DEF OnTime, ServeLate
<1> QED
  BY <1>1, Excluded
  DEF Next, Execute, Route, RouteFails, Write, ReadReply, ReadNothing, Release,
      CountRetries, RetryOk, RetryFails, RetryEscapes, Return, GiveUp,
      vars, Done, RefreshTable, Serve, MigrateKey, FinishMigration

LEMMA RoutedCommands ==
    ASSUME Types, NEW j \in DOMAIN pipe.nodes
    PROVE  Range(BatchAt(j)) \subseteq Cmd
BY BatchFacts, SeqFacts DEF Types, BatchAt

LEMMA UnwrittenStep ==
    ASSUME NoRepeats, Types, Types', Answered, Unwritten, [Next]_vars
    PROVE  Unwritten'
<1>1. CASE pipe' = pipe
  BY <1>1 DEF Unwritten, BatchAt
<1>2. CASE Route
  <2>1. pipe'.result = pipe.result /\ pipe.pc = "route"
    BY <1>2, RouteFacts DEF Route
  <2>2. \A i \in Cmd : pipe'.result[i].is = "none"
    BY <2>1 DEF Unwritten
  <2>3. ASSUME NEW j \in DOMAIN pipe'.nodes PROVE Range(pipe'.batch[pipe'.nodes[j]]) \subseteq Cmd
    BY BatchFacts, SeqFacts DEF Types
  <2> QED
    BY <2>2, <2>3 DEF Unwritten, BatchAt
<1>3. CASE Write
  <2>0. pipe.pc = "write"
    BY <1>3 DEF Write
  <2>1. /\ pipe'.nodes = pipe.nodes /\ pipe'.batch = pipe.batch
        /\ pipe'.result = All("none") /\ NextNodeIs(pipe, "read", pipe')
    BY <1>3, WriteFacts
  <2>2. \A i \in Cmd : i \notin Range(Batch) => pipe'.result[i] = pipe.result[i]
    <3>1. "none" \in Outcome /\ pipe \in Locals
      BY DEF Outcome, Types
    <3> QED
      BY <2>1, <3>1, AllIs
  <2>3. /\ pipe.at \in DOMAIN pipe.nodes /\ pipe.at \in Nat /\ Current = pipe.nodes[pipe.at]
        /\ Batch = pipe.batch[Current] /\ Current \in Node
        /\ \A j \in DOMAIN pipe.nodes : j \in Nat
    BY <2>0, PlacesFacts, CurrentFacts
  <2>4. pipe'.pc # "route"
    BY <2>0, <2>1 DEF NextNodeIs
  <2>5. ASSUME pipe'.pc = "write", NEW j \in DOMAIN pipe.nodes, j >= pipe'.at,
               NEW i \in Range(BatchAt(j))
        PROVE  pipe'.result[i].is = "none"
    <3>1. pipe'.at = pipe.at + 1
      BY <2>1, <2>5 DEF NextNodeIs
    <3>2. j >= pipe.at /\ j # pipe.at
      BY <2>3, <2>5, <3>1
    <3>3. pipe.nodes[j] # Current /\ pipe.nodes[j] \in Node
      BY <2>3, <3>2, BatchFacts DEF Types, Grouped
    <3>4. i \in Cmd /\ i \notin Range(Batch)
      BY <2>3, <3>3, RoutedCommands DEF Types, Grouped, BatchAt
    <3>5. pipe.result[i].is = "none"
      BY <2>0, <3>2 DEF Unwritten
    <3> QED
      BY <2>2, <3>4, <3>5
  <2> QED
    BY <2>1, <2>4, <2>5 DEF Unwritten, BatchAt
<1>4. CASE ReadReply \/ ReadNothing
  <2>1. pipe.pc = "read" /\ NextReadIs(pipe, pipe')
    BY <1>4, ReadReplyFacts, ReadNothingFacts DEF ReadReply, ReadNothing
  <2>2. pipe'.pc \in {"read", "release"}
    BY <2>1 DEF NextReadIs, NextNodeIs
  <2> QED
    BY <2>2 DEF Unwritten
<1>5. CASE Release \/ CountRetries \/ CountFails \/ RetryEscapes \/ RouteFails \/ Return \/ GiveUp
           \/ RetryOk \/ RetryFails
  <2>1. Later
    BY <1>5, ToFinish, RetryOkFacts, RetryFailsFacts
  <2> QED
    BY <2>1 DEF Later, Single, Unwritten
<1> QED
  BY <1>1, <1>2, <1>3, <1>4, <1>5, Excluded
  DEF Next, Execute, vars, Done, RefreshTable, Serve, ServeLate, MigrateKey, FinishMigration

LEMMA ToRetryStep ==
    ASSUME NoRepeats, Types, Types', Answered, ToRetry, [Next]_vars
    PROVE  ToRetry'
<1>1. CASE pipe' = pipe
  BY <1>1 DEF ToRetry
<1>2. CASE Route \/ Write \/ ReadReply \/ ReadNothing
  <2>1. pipe'.pc \in {"route", "write", "read", "release"}
    <3>1. CASE Route
      BY <3>1, RouteFacts
    <3>2. CASE Write
      BY <3>2, WriteFacts DEF NextNodeIs, Write
    <3>3. CASE ReadReply \/ ReadNothing
      BY <3>3, ReadReplyFacts, ReadNothingFacts DEF NextReadIs, NextNodeIs, ReadReply, ReadNothing
    <3> QED
      BY <1>2, <3>1, <3>2, <3>3
  <2>2. pipe'.attempt = {}
    BY <2>1 DEF Types, Cursor
  <2> QED
    BY <2>2 DEF ToRetry
<1>3. CASE Release \/ CountRetries \/ CountFails \/ RetryEscapes \/ RouteFails \/ Return \/ GiveUp
  <2>1. /\ pipe'.result = pipe.result
        /\ pipe'.attempt \in
              {pipe.attempt, {i \in Cmd : pipe.result[i].is \in ERRORS_ALLOW_RETRY}}
    BY <1>3, ToFinish
  <2> QED
    BY <2>1 DEF ToRetry
<1>4. CASE RetryOk \/ RetryFails
  <2>1. PICK v : /\ pipe'.attempt = pipe.attempt \ {Retried}
                 /\ pipe'.result = [pipe.result EXCEPT ![Retried] = v]
    BY <1>4, RetryOkFacts, RetryFailsFacts
  <2>2. pipe.result \in [Cmd -> Reply] /\ pipe.attempt \in SUBSET Cmd
    BY LocalsFacts DEF Types
  <2>3. \A i \in pipe'.attempt : i \in pipe.attempt /\ pipe'.result[i] = pipe.result[i]
    BY <2>1, <2>2
  <2> QED
    BY <2>3 DEF ToRetry
<1> QED
  BY <1>1, <1>2, <1>3, <1>4, Excluded
  DEF Next, Execute, vars, Done, RefreshTable, Serve, ServeLate, MigrateKey, FinishMigration
(* A step adds a command to the log at most, and not one that is in it.    *)
LEMMA LogStep ==
    ASSUME NoRepeats, Types, Wires, Answered, Once, [Next]_vars
    PROVE  log' = log \/ \E i \in Cmd : i \notin Range(log) /\ log' = Append(log, i)
<1>1. ASSUME NEW n \in Node, Serve(n)
      PROVE  log' = log \/ \E i \in Cmd : i \notin Range(log) /\ log' = Append(log, i)
  <2> DEFINE i == Head(wire[n].requests)
  <2>1. PICK is : /\ i \in Cmd /\ wire[n].requests # <<>>
                  /\ log' = IF is = "ok" THEN Append(log, i) ELSE log
    BY <1>1, ServeFacts DEF Types
  <2>2. i \notin Range(log)
    BY <2>1, RequestFresh DEF Once
  <2> QED
    BY <2>1, <2>2
<1>2. CASE RetryOk
  <2>1. Retried \in Cmd /\ Retried \notin Range(log)
    BY <1>2, RetriedFresh DEF Once, RetryOk
  <2> QED
    BY <1>2, <2>1 DEF RetryOk
<1>3. \A n \in Node : ~ServeLate(n)
  BY DEF Once, OnTime, ServeLate
<1> QED
  BY <1>1, <1>2, <1>3, Excluded
  DEF Next, Execute, Route, RouteFails, Write, ReadReply, ReadNothing, Release,
      CountRetries, RetryFails, RetryEscapes, Return, GiveUp,
      vars, servers, Done, RefreshTable, MigrateKey, FinishMigration

LEMMA AtMostOnceStep ==
    ASSUME NoRepeats, Types, Wires, Answered, Once, [Next]_vars
    PROVE  AtMostOnce'
<1>1. CASE log' = log
  BY <1>1 DEF Once, AtMostOnce
<1>2. ASSUME NEW i \in Cmd, i \notin Range(log), log' = Append(log, i) PROVE AtMostOnce'
  <2>1. log \in Seq(Cmd)
    BY DEF Types, TablesOK
  <2>2. /\ DOMAIN log' = 1 .. Len(log) + 1 /\ Len(log) \in Nat /\ DOMAIN log = 1 .. Len(log)
        /\ \A p \in DOMAIN log : log'[p] = log[p] /\ log[p] # i
        /\ log'[Len(log) + 1] = i
    BY <1>2, <2>1, AppendFacts, SeqFacts
  <2>3. \A p \in DOMAIN log' : p \in DOMAIN log \/ p = Len(log) + 1
    BY <2>2
  <2> QED
    BY <2>2, <2>3 DEF Once, AtMostOnce
<1> QED
  BY <1>1, <1>2, LogStep

LEMMA SameExecuted ==
    ASSUME Executed, log' = log, \A i \in Range(log) : pipe'.result[i] = pipe.result[i],
           \A n \in Node : wire'[n].replies = wire[n].replies
    PROVE  Executed'
BY DEF Executed, OnItsWay

LEMMA ServeExecuted ==
    ASSUME Types, Executed, NEW n \in Node, Serve(n)
    PROVE  Executed'
<1> DEFINE a == wire[n].replies
           b == wire'[n].replies
           i == Head(wire[n].requests)
<1>0. pipe' = pipe
  BY DEF Serve
<1>1. PICK is : /\ i \in Cmd
                /\ b = Append(a, [of |-> i, is |-> is])
                /\ [of |-> i, is |-> is] \in Answers
                /\ \A l \in Node \ {n} : wire'[l] = wire[l]
                /\ log' = IF is = "ok" THEN Append(log, i) ELSE log
  BY ServeFacts DEF Types
<1> DEFINE reply == [of |-> i, is |-> is]
<1>2. a \in Seq(Answers) /\ log \in Seq(Cmd)
  BY WireFacts DEF Types, TablesOK
<1>3. reply.of = i /\ reply.is = is
  OBVIOUS
<1> HIDE DEF reply, i
<1>4. /\ \A k \in DOMAIN a : k \in DOMAIN b /\ b[k] = a[k]
      /\ Len(a) + 1 \in DOMAIN b /\ b[Len(a) + 1] = reply
  BY <1>1, <1>2, AppendFacts, SeqFacts DEF reply
<1> HIDE DEF a, b
<1>5. \A m \in Node : \A k \in DOMAIN wire[m].replies :
          k \in DOMAIN wire'[m].replies /\ wire'[m].replies[k] = wire[m].replies[k]
  <2> SUFFICES ASSUME NEW m \in Node, NEW k \in DOMAIN wire[m].replies
               PROVE  k \in DOMAIN wire'[m].replies /\ wire'[m].replies[k] = wire[m].replies[k]
    OBVIOUS
  <2>1. CASE m = n
    BY <1>4, <2>1 DEF a, b
  <2>2. CASE m # n
    BY <1>1, <2>2
  <2> QED
    BY <2>1, <2>2
<1>6. ASSUME NEW j, OnItsWay(j)
      PROVE  \E m \in Node : \E k \in DOMAIN wire'[m].replies :
                wire'[m].replies[k].of = j /\ wire'[m].replies[k].is = "ok"
  <2>1. PICK m \in Node : \E k \in DOMAIN wire[m].replies :
            wire[m].replies[k].of = j /\ wire[m].replies[k].is = "ok"
    BY <1>6 DEF OnItsWay
  <2>2. PICK k \in DOMAIN wire[m].replies :
            wire[m].replies[k].of = j /\ wire[m].replies[k].is = "ok"
    BY <2>1
  <2> QED
    BY <1>5, <2>2
<1>7. is = "ok" => \E m \in Node : \E k \in DOMAIN wire'[m].replies :
                      wire'[m].replies[k].of = i /\ wire'[m].replies[k].is = "ok"
  BY <1>3, <1>4 DEF b
<1>8. \A j \in Range(log') : j \in Range(log) \/ (j = i /\ is = "ok")
  <2>1. Range(Append(log, i)) = Range(log) \cup {i}
    BY <1>1, <1>2, AppendFacts
  <2> QED
    BY <1>1, <2>1
<1> QED
  BY <1>0, <1>6, <1>7, <1>8 DEF Executed, OnItsWay

LEMMA ReadExecuted ==
    ASSUME Types, Wires, Executed, ReadReply
    PROVE  Executed'
<1> DEFINE a == wire[Current].replies
           b == wire'[Current].replies
           reply == Head(a)
<1>1. pipe.pc = "read" /\ a # <<>> /\ log' = log
  BY DEF ReadReply, servers
<1>2. ToRead \in Cmd /\ Current \in Node /\ wire[Current] \in Wire
  BY <1>1, CurrentFacts
<1>3. pipe'.result = [pipe.result EXCEPT ![ToRead] = reply] /\ pipe.result \in [Cmd -> Reply]
  BY ReadReplyFacts, LocalsFacts DEF Types
<1>4. reply.of = ToRead
  BY ReadReplyWires
<1>5. b = Tail(a) /\ \A m \in Node \ {Current} : wire'[m] = wire[m]
  BY ReadWire
<1>6. /\ reply = a[1] /\ 1 \in DOMAIN a /\ Len(a) \in Nat /\ DOMAIN a = 1 .. Len(a)
      /\ DOMAIN b = 1 .. Len(a) - 1 /\ \A k \in DOMAIN b : b[k] = a[k + 1]
  BY <1>1, <1>2, <1>5, WireFacts, SeqFacts
<1> SUFFICES ASSUME NEW i \in Range(log), pipe'.result[i].is # "ok"
             PROVE  \E m \in Node : \E k \in DOMAIN wire'[m].replies :
                       wire'[m].replies[k].of = i /\ wire'[m].replies[k].is = "ok"
  BY <1>1 DEF Executed, OnItsWay
<1>7. i \in Cmd
  BY SeqFacts DEF Types, TablesOK
<1>8. i # ToRead
  <2> SUFFICES ASSUME i = ToRead PROVE FALSE
    OBVIOUS
  <2>1. pipe'.result[i] = reply
    BY <1>2, <1>3
  <2>2. a[1].is # "ok" /\ a[1].of = i
    BY <1>4, <1>6, <2>1
  <2> QED
    BY <1>2, <1>6, <2>2, ErrorFresh
<1>9. pipe'.result[i] = pipe.result[i]
  BY <1>3, <1>7, <1>8
<1>10. OnItsWay(i)
  BY <1>9 DEF Executed
<1>11. PICK m \in Node : \E k \in DOMAIN wire[m].replies :
            wire[m].replies[k].of = i /\ wire[m].replies[k].is = "ok"
  BY <1>10 DEF OnItsWay
<1>12. PICK k \in DOMAIN wire[m].replies :
            wire[m].replies[k].of = i /\ wire[m].replies[k].is = "ok"
  BY <1>11
<1>13. CASE m # Current
  <2>1. wire'[m] = wire[m]
    BY <1>5, <1>13
  <2> QED
    BY <1>12, <2>1
<1>14. CASE m = Current
  <2>1. k \in DOMAIN a /\ a[k].of = i /\ a[k].is = "ok"
    BY <1>12, <1>14
  <2>2. k # 1
    BY <1>4, <1>6, <1>8, <2>1
  <2> HIDE DEF a, b, reply
  <2>3. k - 1 \in DOMAIN b /\ b[k - 1] = a[k]
    BY <1>6, <2>1, <2>2
  <2> QED
    BY <1>2, <2>1, <2>3 DEF b
<1> QED
  BY <1>13, <1>14

LEMMA WriteExecuted ==
    ASSUME Types, Wires, Executed, Unwritten, Write
    PROVE  Executed'
<1>1. pipe.pc = "write" /\ log' = log
  BY DEF Write, servers
<1>2. \A i \in Range(log) : i \in Cmd /\ i \notin Range(Batch)
  BY <1>1, BatchFresh, SeqFacts DEF Types, TablesOK
<1>3. pipe'.result = All("none")
  BY WriteFacts
<1>4. "none" \in Outcome /\ pipe \in Locals
  BY DEF Outcome, Types
<1>5. \A i \in Range(log) : pipe'.result[i] = pipe.result[i]
  BY <1>2, <1>3, <1>4, AllIs
<1>6. \A n \in Node : wire'[n].replies = wire[n].replies
  <2> SUFFICES ASSUME NEW n \in Node PROVE wire'[n].replies = wire[n].replies
    OBVIOUS
  <2> QED
    BY WriteWire
<1> QED
  BY <1>1, <1>5, <1>6, SameExecuted

LEMMA RetryExecuted ==
    ASSUME Types, Wires, Executed, ToRetry, RetryOk \/ RetryFails
    PROVE  Executed'
<1>1. Retrying /\ wire' = wire
  BY DEF RetryOk, RetryFails
<1>2. Retried \in Cmd /\ Retried \notin Range(log)
  BY <1>1, RetriedFresh
<1>3. pipe.result \in [Cmd -> Reply] /\ log \in Seq(Cmd)
  BY LocalsFacts DEF Types, TablesOK
<1>4. PICK v : pipe'.result = [pipe.result EXCEPT ![Retried] = v]
  BY RetryOkFacts, RetryFailsFacts
<1>5. \A i \in Range(log) : pipe'.result[i] = pipe.result[i]
  <2>1. \A i \in Range(log) : i \in Cmd /\ i # Retried
    BY <1>2, <1>3, SeqFacts
  <2> QED
    BY <1>3, <1>4, <2>1
<1>6. CASE RetryOk
  <2>1. pipe'.result[Retried].is = "ok"
    <3>1. pipe'.result[Retried] = [of |-> Retried, is |-> "ok"]
      BY <1>2, <1>3, <1>6, RetryOkFacts
    <3> QED
      BY <3>1
  <2>2. Range(log') = Range(log) \cup {Retried}
    BY <1>2, <1>3, <1>6, AppendFacts DEF RetryOk
  <2> QED
    BY <1>1, <1>5, <2>1, <2>2 DEF Executed, OnItsWay
<1>7. CASE RetryFails
  <2>1. log' = log
    BY <1>7 DEF RetryFails, servers
  <2> QED
    BY <1>1, <1>5, <2>1, SameExecuted
<1> QED
  BY <1>6, <1>7

LEMMA ExecutedStep ==
    ASSUME NoRepeats, Types, Wires, Answered, Once, [Next]_vars
    PROVE  Executed'
<1>0. Executed /\ Unwritten /\ ToRetry /\ \A n \in Node : ~ServeLate(n)
  BY DEF Once, OnTime, ServeLate
<1>1. CASE wire' = wire /\ log' = log /\ pipe'.result = pipe.result
  BY <1>0, <1>1, SameExecuted
<1>2. ASSUME NEW n \in Node, Serve(n) PROVE Executed'
  BY <1>0, <1>2, ServeExecuted
<1>3. CASE Write
  BY <1>0, <1>3, WriteExecuted
<1>4. CASE ReadReply
  BY <1>0, <1>4, ReadExecuted
<1>5. CASE RetryOk \/ RetryFails
  BY <1>0, <1>5, RetryExecuted
<1>6. CASE Route
  <2>1. pipe'.result = pipe.result /\ log' = log
    BY <1>6, RouteFacts DEF Route, servers
  <2>2. \A n \in Node : wire'[n].replies = wire[n].replies
    BY <1>6, RouteWire
  <2> QED
    BY <1>0, <2>1, <2>2, SameExecuted
<1>7. CASE ReadNothing
  BY <1>1, <1>7, ReadNothingFacts DEF ReadNothing, servers
<1>8. CASE Release \/ CountRetries \/ CountFails \/ RetryEscapes \/ RouteFails \/ Return \/ GiveUp
  <2>1. pipe'.result = pipe.result
    BY <1>8, ToFinish
  <2>2. wire' = wire /\ log' = log
    BY <1>8 DEF Release, CountRetries, CountFails, RetryEscapes, RouteFails, Return, GiveUp, servers
  <2> QED
    BY <1>1, <2>1, <2>2
<1> QED
  BY <1>0, <1>1, <1>2, <1>3, <1>4, <1>5, <1>6, <1>7, <1>8, Excluded
  DEF Next, Execute, vars, servers, Done, RefreshTable, MigrateKey, FinishMigration

LEMMA OnceStep ==
    ASSUME NoRepeats
    PROVE  IInv /\ Once /\ [Next]_vars => Once'
<1> SUFFICES ASSUME IInv, Once, [Next]_vars PROVE Once'
  OBVIOUS
<1>1. Types /\ Wires /\ Answered /\ Types'
  BY TypesStep DEF IInv
<1>2. OnTime'
  BY <1>1, OnTimeStep DEF Once, OnTime
<1>3. Unwritten' /\ ToRetry'
  BY <1>1, UnwrittenStep, ToRetryStep DEF Once
<1>4. Executed' /\ AtMostOnce'
  BY <1>1, ExecutedStep, AtMostOnceStep
<1> QED
  BY <1>2, <1>3, <1>4 DEF Once

LEMMA OnceInit == Init => Once
<1> SUFFICES ASSUME Init PROVE Once
  OBVIOUS
<1>1. log = <<>> /\ Range(<<>>) = {} /\ DOMAIN <<>> = {} /\ OnTime
  BY DEF Init, OnTime, Range
<1>2. pipe.pc = "route" /\ pipe.attempt = {}
  BY DEF Init, Start
<1>3. \A i \in Cmd : pipe.result[i] = [of |-> i, is |-> "none"]
  BY DEF Init, Start
<1>4. ASSUME NEW i \in Cmd PROVE pipe.result[i].is = "none"
  <2>1. pipe.result[i] = [of |-> i, is |-> "none"]
    BY <1>3
  <2> QED
    BY <2>1
<1> QED
  BY <1>1, <1>2, <1>4 DEF Once, Unwritten, ToRetry, Executed, AtMostOnce

(* "If we have to run through it again, we only retry the commands that    *)
(* failed": as long as no connection fails and the pipeline is not done    *)
(* again for a CLUSTERDOWN, execute of pipeline.py has no command executed *)
(* twice, whatever moves, which tables it starts with, which nodes it      *)
(* reads from and which commands are wrong.                                *)
THEOREM PipelineAtMostOnce ==
    ASSUME NoRepeats
    PROVE  Spec => []AtMostOnce
<1>1. Init => IInv /\ Once
  BY TypesInit, WiresInit, AnsweredInit, OnceInit DEF IInv
<1>2. IInv /\ Once /\ [Next]_vars => IInv' /\ Once'
  <2>1. IInv /\ [Next]_vars => IInv'
    BY TypesStep, WiresStep, AnsweredStep DEF IInv
  <2> QED
    BY <2>1, OnceStep
<1>3. Once => AtMostOnce
  BY DEF Once
<1> QED
  BY <1>1, <1>2, <1>3, PTL DEF Spec
-----------------------------------------------------------------------------
(* Commands of one key are executed in order.                              *)

Shared(i, j) == Keys[i] \cap Keys[j] # {}

(* All that is needed for it: a slot's commands go to one node, to which   *)
(* the slot does not come while they are executed; and who finds the keys  *)
(* of a command finds those of the commands before it with which it shares *)
(* one, as when each command has one key.                                  *)
OneWay ==
    /\ NoRepeats /\ ~ReadFromReplicas /\ ~OtherThreads
    /\ \A tb \in Tables : \A s \in Slot : tb[s] # Importer[s]
    /\ \A i, j \in Cmd : i < j /\ Shared(i, j) => Keys[i] \subseteq Keys[j]

(* A slot's commands are in the batch of one node. *)
BySlot ==
    /\ \A n \in Node : wire[n].readonly = FALSE
    /\ pipe.pc = "route" =>
          /\ \A s \in Slot : table[s] # Importer[s]
          /\ \A n \in Node : \A i \in Range(pipe.batch[n]) : table[SlotOfCmd(i)] = n
    /\ \A n, m \in Node : \A i \in Range(pipe.batch[n]), j \in Range(pipe.batch[m]) :
          SlotOfCmd(i) = SlotOfCmd(j) => n = m
    /\ \A n \in Node : \A i \in Range(pipe.batch[n]) : Importer[SlotOfCmd(i)] # n

(* A node has refused the command, or it has been refused and not yet sent *)
(* again.                                                                  *)
Refused(j) ==
    \/ pipe.result[j].is \in ERRORS_ALLOW_RETRY
    \/ \E n \in Node : \E k \in DOMAIN wire[n].replies :
          wire[n].replies[k].of = j /\ wire[n].replies[k].is \in ERRORS_ALLOW_RETRY

NotThere(j, n) == owner[SlotOfCmd(j)] # n \/ Keys[j] \cap moved # {}

(* Keys do not come back to a node that has refused a command for them. *)
Left == \A n \in Node : \A j \in Range(pipe.batch[n]) : Refused(j) => NotThere(j, n)

InAttempt ==
    pipe.pc \in {"count", "retry"} =>
        \A j \in Cmd : pipe.result[j].is \in ERRORS_ALLOW_RETRY => j \in pipe.attempt

(* Nothing overtakes a command that was refused. *)
InOrder == \A i, j \in Cmd : j < i /\ Shared(i, j) /\ Refused(j) => i \notin Range(log)

Ordered == BySlot /\ Left /\ InAttempt /\ InOrder /\ KeyOrder

LEMMA SharedSlot ==
    ASSUME NEW i \in Cmd, NEW j \in Cmd, Shared(i, j)
    PROVE  SlotOfCmd(i) = SlotOfCmd(j) /\ Shared(j, i)
BY KeyFacts DEF Shared

LEMMA BatchOf ==
    ASSUME Types, NEW n \in Node
    PROVE  /\ pipe.batch[n] \in Seq(Cmd) /\ Range(pipe.batch[n]) \subseteq Cmd
           /\ \A i \in Range(pipe.batch[n]) : i \in Nat
BY LocalsFacts, SeqFacts, CmdFacts DEF Types

LEMMA HeadFacts ==
    ASSUME Types, Wires, NEW n \in Node, wire[n].requests # <<>>
    PROVE  /\ Head(wire[n].requests) = wire[n].requests[1] /\ 1 \in DOMAIN wire[n].requests
           /\ Head(wire[n].requests) \in Range(pipe.batch[n])
           /\ pipe.pc \in {"write", "read"}
           /\ \A i \in Cmd : \E m \in Node : i \in Range(pipe.batch[m])
<1>1. Head(wire[n].requests) = wire[n].requests[1] /\ 1 \in DOMAIN wire[n].requests
  <2>1. wire[n] \in Wire
    BY DEF Types, TablesOK
  <2> QED
    BY <2>1, WireFacts, SeqFacts
<1>2. pipe.pc \in {"write", "read"}
  BY ServedIsListed
<1>3. \A i \in Cmd : \E m \in Node : i \in Range(pipe.batch[m])
  BY <1>2 DEF Types, Grouped
<1> QED
  BY <1>1, <1>2, <1>3, WireOwes

(* A request is served before what comes after it with one of its keys.    *)
LEMMA ServedFirst ==
    ASSUME Types, Wires, Executed, BySlot, NEW n \in Node, wire[n].requests # <<>>,
           NEW i \in Cmd, Head(wire[n].requests) < i, Shared(Head(wire[n].requests), i)
    PROVE  i \notin Range(log)
<1> DEFINE j == Head(wire[n].requests)
<1>1. /\ j = wire[n].requests[1] /\ 1 \in DOMAIN wire[n].requests
      /\ j \in Range(pipe.batch[n]) /\ j \in Cmd
  BY HeadFacts, BatchOf
<1>2. PICK m \in Node : i \in Range(pipe.batch[m])
  BY HeadFacts
<1>3. SlotOfCmd(j) = SlotOfCmd(i)
  BY <1>1, SharedSlot
<1>4. m = n
  BY <1>1, <1>2, <1>3 DEF BySlot
<1>5. pipe.result[i].is = "none"
  BY <1>1, <1>2, <1>4, WireOwes
<1> SUFFICES ASSUME OnItsWay(i) PROVE FALSE
  BY <1>5 DEF Executed
<1>6. PICK l \in Node : \E k \in DOMAIN wire[l].replies : wire[l].replies[k].of = i
  BY DEF OnItsWay
<1>7. PICK k \in DOMAIN wire[l].replies : wire[l].replies[k].of = i
  BY <1>6
<1>8. i \in Range(pipe.batch[l])
  BY <1>7, WireOwes
<1>9. l = n
  BY <1>2, <1>4, <1>8 DEF Types, Grouped
<1>10. i < j
  BY <1>1, <1>7, <1>9, WireOwes
<1>11. i \in Nat /\ j \in Nat
  BY <1>1, CmdFacts
<1> QED
  BY <1>10, <1>11

LEMMA AnswerNotOk ==
    ASSUME NEW n, NEW j \in Cmd, Answer(n, j) # "ok"
    PROVE  NotThere(j, n)
<1>1. Keys[j] # {}
  BY KeyFacts
<1> QED
  BY <1>1 DEF Answer, NotThere

LEMMA AnswerOk ==
    ASSUME NEW n \in Node, NEW i \in Cmd, ~wire[n].readonly, Answer(n, i) = "ok"
    PROVE  owner[SlotOfCmd(i)] = n /\ Keys[i] \cap moved = {}
<1>1. Keys[i] # {}
  BY KeyFacts
<1> QED
  BY <1>1 DEF Answer

(* A command becomes a refused one by a node's answer only.                *)
LEMMA RefusedStep ==
    ASSUME NoRepeats, Types, Wires, Answered, [Next]_vars, NEW j \in Cmd, Refused(j)'
    PROVE  \/ Refused(j)
           \/ \E n \in Node : /\ Serve(n) /\ wire[n].requests # <<>>
                              /\ j = Head(wire[n].requests) /\ Answer(n, j) # "ok"
<1>1. CASE /\ pipe'.result[j] = pipe.result[j]
           /\ \A n \in Node : wire'[n].replies = wire[n].replies
  BY <1>1 DEF Refused
<1>2. ASSUME NEW n \in Node, Serve(n)
      PROVE  Refused(j) \/ (wire[n].requests # <<>> /\ j = Head(wire[n].requests)
                            /\ Answer(n, j) # "ok")
  <2> DEFINE a == wire[n].replies
             b == wire'[n].replies
             i == Head(wire[n].requests)
  <2>1. PICK is : /\ i \in Cmd /\ wire[n].requests # <<>>
                  /\ b = Append(a, [of |-> i, is |-> is])
                  /\ [of |-> i, is |-> is] \in Answers
                  /\ \A l \in Node \ {n} : wire'[l] = wire[l]
                  /\ is = Answer(n, i) \/ is \in {"down", "error"}
    BY <1>2, ServeFacts DEF Types
  <2>2. pipe' = pipe
    BY <1>2 DEF Serve
  <2> SUFFICES ASSUME ~Refused(j) PROVE j = i /\ Answer(n, j) # "ok"
    BY <2>1
  <2>3. PICK m \in Node : \E k \in DOMAIN wire'[m].replies :
            wire'[m].replies[k].of = j /\ wire'[m].replies[k].is \in ERRORS_ALLOW_RETRY
    BY <2>2 DEF Refused
  <2>4. PICK k \in DOMAIN wire'[m].replies :
            wire'[m].replies[k].of = j /\ wire'[m].replies[k].is \in ERRORS_ALLOW_RETRY
    BY <2>3
  <2>5. m = n
    BY <2>1, <2>4 DEF Refused
  <2> DEFINE reply == [of |-> i, is |-> is]
  <2>6. reply.of = i /\ reply.is = is
    OBVIOUS
  <2> HIDE DEF reply, i
  <2>7. /\ a \in Seq(Answers) /\ DOMAIN a = 1 .. Len(a) /\ Len(a) \in Nat
        /\ DOMAIN b = 1 .. Len(a) + 1
        /\ \A l \in DOMAIN a : b[l] = a[l]
        /\ b[Len(a) + 1] = reply
    <3>1. a \in Seq(Answers)
      BY WireFacts DEF Types, TablesOK
    <3> QED
      BY <2>1, <3>1, AppendFacts, SeqFacts DEF reply
  <2>8. k \in DOMAIN a \/ k = Len(a) + 1
    BY <2>4, <2>5, <2>7
  <2>9. k \notin DOMAIN a
    <3> SUFFICES ASSUME k \in DOMAIN a PROVE FALSE
      OBVIOUS
    <3>1. a[k].of = j /\ a[k].is \in ERRORS_ALLOW_RETRY
      BY <2>4, <2>5, <2>7
    <3> QED
      BY <3>1 DEF Refused
  <2>10. i = j /\ is \in ERRORS_ALLOW_RETRY
    BY <2>4, <2>5, <2>6, <2>7, <2>8, <2>9
  <2> QED
    BY <2>1, <2>10 DEF ERRORS_ALLOW_RETRY
<1>3. CASE Write
  <2>1. /\ \A n \in Node : wire'[n].replies = wire[n].replies
        /\ pipe'.result = All("none")
    <3>1. ASSUME NEW n \in Node PROVE wire'[n].replies = wire[n].replies
      BY <1>3, WriteWire
    <3> QED
      BY <1>3, <3>1, WriteFacts
  <2>2. "none" \in Outcome /\ pipe \in Locals /\ "none" \notin ERRORS_ALLOW_RETRY
    BY DEF Outcome, Types, ERRORS_ALLOW_RETRY
  <2>3. pipe'.result[j] = pipe.result[j] \/ pipe'.result[j].is = "none"
    BY <2>1, <2>2, AllIs
  <2> QED
    BY <2>1, <2>2, <2>3 DEF Refused
<1>4. CASE ReadReply
  <2> DEFINE a == wire[Current].replies
             b == wire'[Current].replies
             reply == Head(a)
  <2>1. pipe.pc = "read" /\ a # <<>>
    BY <1>4 DEF ReadReply
  <2>2. ToRead \in Cmd /\ Current \in Node /\ wire[Current] \in Wire
    BY <2>1, CurrentFacts
  <2>3. pipe'.result = [pipe.result EXCEPT ![ToRead] = reply] /\ pipe.result \in [Cmd -> Reply]
    BY <1>4, ReadReplyFacts, LocalsFacts DEF Types
  <2>4. reply.of = ToRead
    BY <1>4, ReadReplyWires
  <2>5. b = Tail(a) /\ \A m \in Node \ {Current} : wire'[m] = wire[m]
    BY <1>4, ReadWire
  <2>6. /\ reply = a[1] /\ 1 \in DOMAIN a
        /\ \A k \in DOMAIN b : k + 1 \in DOMAIN a /\ b[k] = a[k + 1]
    BY <2>1, <2>2, <2>5, WireFacts, SeqFacts
  <2>7. CASE pipe'.result[j].is \in ERRORS_ALLOW_RETRY
    <3>1. CASE j = ToRead
      <4>1. pipe'.result[j] = a[1]
        BY <2>2, <2>3, <2>6, <3>1
      <4> QED
        BY <2>2, <2>4, <2>6, <2>7, <3>1, <4>1 DEF Refused
    <3>2. CASE j # ToRead
      BY <2>3, <2>7, <3>2 DEF Refused
    <3> QED
      BY <3>1, <3>2
  <2>8. CASE pipe'.result[j].is \notin ERRORS_ALLOW_RETRY
    <3>1. PICK m \in Node : \E k \in DOMAIN wire'[m].replies :
              wire'[m].replies[k].of = j /\ wire'[m].replies[k].is \in ERRORS_ALLOW_RETRY
      BY <2>8 DEF Refused
    <3>2. PICK k \in DOMAIN wire'[m].replies :
              wire'[m].replies[k].of = j /\ wire'[m].replies[k].is \in ERRORS_ALLOW_RETRY
      BY <3>1
    <3>3. CASE m = Current
      BY <2>2, <2>6, <3>2, <3>3 DEF Refused
    <3>4. CASE m # Current
      BY <2>5, <3>2, <3>4 DEF Refused
    <3> QED
      BY <3>3, <3>4
  <2> QED
    BY <2>7, <2>8
<1>5. CASE RetryOk \/ RetryFails
  <2>1. PICK is \in {"ok", "down", "error"} :
            pipe'.result = [pipe.result EXCEPT ![Retried] = [of |-> Retried, is |-> is]]
    BY <1>5, RetryOkFacts, RetryFailsFacts
  <2>2. pipe.result \in [Cmd -> Reply] /\ wire' = wire
    BY <1>5, LocalsFacts DEF Types, RetryOk, RetryFails
  <2>3. CASE j # Retried
    <3>1. pipe'.result[j] = pipe.result[j]
      BY <2>1, <2>2, <2>3
    <3> QED
      BY <1>1, <2>2, <3>1
  <2>4. CASE j = Retried
    <3>1. pipe'.result[j] = [of |-> Retried, is |-> is]
      BY <2>1, <2>2, <2>4
    <3>2. pipe'.result[j].is = is
      BY <3>1
    <3>3. pipe'.result[j].is \notin ERRORS_ALLOW_RETRY
      BY <3>2 DEF ERRORS_ALLOW_RETRY
    <3> QED
      BY <2>2, <3>3 DEF Refused
  <2> QED
    BY <2>3, <2>4
<1>6. CASE Route
  BY <1>1, <1>6, RouteFacts, RouteWire
<1>7. CASE ReadNothing
  BY <1>1, <1>7, ReadNothingFacts DEF ReadNothing
<1>8. CASE Release \/ CountRetries \/ CountFails \/ RetryEscapes \/ RouteFails \/ Return \/ GiveUp
  <2>1. pipe'.result = pipe.result
    BY <1>8, ToFinish
  <2>2. wire' = wire
    BY <1>8 DEF Release, CountRetries, CountFails, RetryEscapes, RouteFails, Return, GiveUp
  <2> QED
    BY <1>1, <2>1, <2>2
<1> QED
  BY <1>1, <1>2, <1>3, <1>4, <1>5, <1>6, <1>7, <1>8, Excluded
  DEF Next, Execute, vars, Done, RefreshTable, ServeLate, MigrateKey, FinishMigration
(* Keys leave a node, and its slots with them.                             *)
LEMMA NotThereStays ==
    ASSUME Types, [Next]_vars, NEW j \in Cmd, NEW n \in Node, Importer[SlotOfCmd(j)] # n,
           NotThere(j, n)
    PROVE  NotThere(j, n)'
<1>1. CASE owner' = owner /\ moved \subseteq moved'
  BY <1>1 DEF NotThere
<1>2. ASSUME NEW s \in Slot, FinishMigration(s) PROVE NotThere(j, n)'
  <2>0. owner \in [Slot -> Node] /\ SlotOfCmd(j) \in Slot
    BY KeyFacts DEF Types, TablesOK
  <2>1. CASE s = SlotOfCmd(j)
    BY <1>2, <2>0, <2>1 DEF FinishMigration, NotThere
  <2>2. CASE s # SlotOfCmd(j)
    <3>1. \A k \in Keys[j] : k \notin KeysOf(s)
      BY <2>2, KeyFacts DEF KeysOf
    <3> QED
      BY <1>2, <2>0, <2>2, <3>1 DEF FinishMigration, NotThere
  <2> QED
    BY <2>1, <2>2
<1> QED
  BY <1>1, <1>2
  DEF Next, Execute, Route, RouteFails, Write, WriteFails, ReadReply, ReadNothing, ReadFails, Release,
      CountRetries, CountFails, RetryOk, RetryRepeats, RetryFails, RetryEscapes, Return, Resend,
      GiveUp, vars, servers, Done, RefreshTable, Serve, ServeLate, MigrateKey

LEMMA ReadonlyStep ==
    ASSUME OneWay, Types, Answered, [Next]_vars, \A n \in Node : wire[n].readonly = FALSE,
           NEW n \in Node
    PROVE  wire'[n].readonly = FALSE
<1>0. ReadFromReplicas = FALSE /\ NoRepeats
  BY ClusterPipelineAssumption, Zenon DEF OneWay
<1>1. CASE wire' = wire
  BY <1>1
<1>2. ASSUME NEW m \in Node, Serve(m) PROVE wire'[n].readonly = FALSE
  <2>1. wire'[m].readonly = wire[m].readonly /\ \A l \in Node \ {m} : wire'[l] = wire[l]
    BY <1>2, ServeFacts DEF Types
  <2>2. n = m \/ wire'[n] = wire[n]
    BY <2>1
  <2>3. wire[n].readonly = FALSE /\ wire[m].readonly = FALSE
    OBVIOUS
  <2> QED
    BY <2>1, <2>2, <2>3
<1>3. CASE Write
  <2>1. wire'[n].readonly = wire[n].readonly
    BY <1>3, WriteWire
  <2> QED
    BY <2>1
<1>4. CASE ReadReply
  <2>1. wire'[n].readonly = wire[n].readonly
    BY <1>4, ReadWire
  <2> QED
    BY <2>1
<1>5. CASE Route
  <2>1. wire'[n].readonly \in {wire[n].readonly, FALSE, ReadFromReplicas}
    BY <1>5, RouteWire
  <2>2. wire[n].readonly = FALSE
    OBVIOUS
  <2> QED
    BY <1>0, <2>1, <2>2
<1> QED
  BY <1>0, <1>1, <1>2, <1>3, <1>4, <1>5, Excluded
  DEF Next, Execute, RouteFails, ReadNothing, Release, CountRetries, RetryOk, RetryFails,
      RetryEscapes, Return, GiveUp, vars, Done, RefreshTable, ServeLate, MigrateKey, FinishMigration

(* Nothing is put into batches once they are written.                      *)
LEMMA BatchesStay ==
    ASSUME NoRepeats, Types, Answered, [Next]_vars, ~Route, ~RefreshTable
    PROVE  /\ pipe'.batch = pipe.batch
           /\ pipe'.pc = "route" => pipe.pc = "route" /\ table' = table
<1>1. CASE pipe' = pipe /\ table' = table
  BY <1>1
<1>2. CASE Write \/ ReadReply \/ ReadNothing
  <2>1. pipe'.batch = pipe.batch
    BY <1>2, WriteFacts, ReadReplyFacts, ReadNothingFacts
  <2>2. CASE Write
    BY <2>1, <2>2, WriteFacts DEF Write, NextNodeIs
  <2>3. CASE ReadReply
    BY <2>1, <2>3, ReadReplyFacts DEF ReadReply, NextReadIs, NextNodeIs
  <2>4. CASE ReadNothing
    BY <2>1, <2>4, ReadNothingFacts DEF ReadNothing, NextReadIs, NextNodeIs
  <2> QED
    BY <1>2, <2>2, <2>3, <2>4
<1>3. CASE Release \/ CountRetries \/ CountFails \/ RetryEscapes \/ RouteFails \/ Return \/ GiveUp
           \/ RetryOk \/ RetryFails
  <2>1. Later
    BY <1>3, ToFinish, RetryOkFacts, RetryFailsFacts
  <2> QED
    BY <2>1 DEF Later, Single
<1> QED
  BY <1>1, <1>2, <1>3, Excluded
  DEF Next, Execute, vars, Done, Serve, ServeLate, MigrateKey, FinishMigration

LEMMA BySlotStep ==
    ASSUME OneWay, Types, Answered, BySlot, [Next]_vars
    PROVE  BySlot'
<1>0. NoRepeats /\ ~RefreshTable /\ ReadFromReplicas = FALSE
  BY ClusterPipelineAssumption, Zenon DEF OneWay, RefreshTable
<1>1. \A n \in Node : wire'[n].readonly = FALSE
  BY ReadonlyStep DEF BySlot
<1>2. CASE ~Route
  <2>1. /\ pipe'.batch = pipe.batch
        /\ pipe'.pc = "route" => pipe.pc = "route" /\ table' = table
    BY <1>0, <1>2, BatchesStay
  <2> QED
    BY <1>1, <2>1 DEF BySlot
<1>3. CASE Route
  <2> DEFINE i == pipe.next
             s == SlotOfCmd(i)
  <2>1. pipe.pc = "route" /\ table' = table /\ i \in Cmd /\ pipe \in Locals
    BY <1>3 DEF Route, Types, Cursor
  <2>2. PICK n \in Node : n \in Candidates(i) /\ pipe'.batch = Batched(n)
    BY <1>3, RouteFacts
  <2>3. n = table[s]
    BY <1>0, <2>2 DEF Candidates
  <2>4. \A m \in Node : \A k \in Range(pipe'.batch[m]) :
            k \in Range(pipe.batch[m]) \/ (m = n /\ k = i)
    <3>1. /\ Range(Batched(n)[n]) = Range(pipe.batch[n]) \cup {i}
          /\ \A m \in Node \ {n} : Batched(n)[m] = pipe.batch[m]
      BY <2>1, BatchedFacts
    <3> SUFFICES ASSUME NEW m \in Node, NEW k \in Range(Batched(n)[m])
                 PROVE  k \in Range(pipe.batch[m]) \/ (m = n /\ k = i)
      BY <2>2
    <3>2. CASE m = n
      BY <3>1, <3>2
    <3>3. CASE m # n
      BY <3>1, <3>3
    <3> QED
      BY <3>2, <3>3
  <2>5. /\ \A m \in Node : \A k \in Range(pipe.batch[m]) : table[SlotOfCmd(k)] = m
        /\ \A t \in Slot : table[t] # Importer[t]
    BY <2>1 DEF BySlot
  <2>6. s \in Slot
    BY <2>1, KeyFacts
  <2> HIDE DEF i
  <2>7. \A m \in Node : \A k \in Range(pipe'.batch[m]) : table[SlotOfCmd(k)] = m
    BY <2>3, <2>4, <2>5
  <2>8. \A m \in Node : \A k \in Range(pipe'.batch[m]) : SlotOfCmd(k) \in Slot
    <3>1. \A m \in Node : \A k \in Range(pipe.batch[m]) : k \in Cmd
      BY BatchOf
    <3> QED
      BY <2>1, <2>4, <3>1, KeyFacts
  <2>9. \A m \in Node : \A k \in Range(pipe'.batch[m]) : Importer[SlotOfCmd(k)] # m
    <3> SUFFICES ASSUME NEW m \in Node, NEW k \in Range(pipe'.batch[m])
                 PROVE  Importer[SlotOfCmd(k)] # m
      OBVIOUS
    <3>1. table[SlotOfCmd(k)] = m /\ SlotOfCmd(k) \in Slot
      BY <2>7, <2>8
    <3> QED
      BY <2>5, <3>1
  <2>10. \A l, m \in Node : \A j \in Range(pipe'.batch[l]), k \in Range(pipe'.batch[m]) :
            SlotOfCmd(j) = SlotOfCmd(k) => l = m
    <3> SUFFICES ASSUME NEW l \in Node, NEW m \in Node,
                        NEW j \in Range(pipe'.batch[l]), NEW k \in Range(pipe'.batch[m]),
                        SlotOfCmd(j) = SlotOfCmd(k)
                 PROVE  l = m
      OBVIOUS
    <3>1. table[SlotOfCmd(j)] = l /\ table[SlotOfCmd(k)] = m
      BY <2>7
    <3> QED
      BY <3>1
  <2> QED
    BY <1>1, <2>1, <2>5, <2>7, <2>9, <2>10 DEF BySlot
<1> QED
  BY <1>2, <1>3

LEMMA LeftStep ==
    ASSUME OneWay, Types, Wires, Answered, Unwritten, BySlot, Left, [Next]_vars
    PROVE  Left'
<1>0. NoRepeats /\ ~RefreshTable
  BY DEF OneWay, RefreshTable
<1>1. CASE Route
  <2>1. pipe.pc = "route"
    BY <1>1 DEF Route
  <2>2. ASSUME NEW j \in Cmd, Refused(j)' PROVE FALSE
    <3>1. ~Refused(j)
      <4>1. pipe.result[j].is = "none"
        BY <2>1 DEF Unwritten
      <4>2. \A n \in Node : wire[n].replies = <<>>
        BY <2>1, SilentBefore DEF Silent
      <4> QED
        BY <4>1, <4>2 DEF Refused, ERRORS_ALLOW_RETRY
    <3>2. \A n \in Node : wire[n].requests = <<>>
      BY <2>1, SilentBefore DEF Silent
    <3> QED
      BY <1>0, <2>2, <3>1, <3>2, RefusedStep
  <2>3. \A n \in Node : Range(pipe'.batch[n]) \subseteq Cmd
    <3>1. pipe' \in Locals
      BY <1>1, RouteTypes
    <3> QED
      BY <3>1, LocalsFacts, SeqFacts
  <2> QED
    BY <2>2, <2>3 DEF Left
<1>2. CASE ~Route
  <2>1. pipe'.batch = pipe.batch
    BY <1>0, <1>2, BatchesStay
  <2> SUFFICES ASSUME NEW n \in Node, NEW j \in Range(pipe.batch[n]), Refused(j)'
               PROVE  NotThere(j, n)'
    BY <2>1 DEF Left
  <2>2. j \in Cmd /\ Importer[SlotOfCmd(j)] # n
    BY BatchOf DEF BySlot
  <2>3. CASE Refused(j)
    BY <2>2, <2>3, NotThereStays DEF Left
  <2>4. ASSUME NEW m \in Node, wire[m].requests # <<>>, j = Head(wire[m].requests),
               Answer(m, j) # "ok"
        PROVE  NotThere(j, n)'
    <3>1. j \in Range(pipe.batch[m])
      BY <2>4, HeadFacts
    <3>2. m = n
      BY <3>1 DEF Types, Grouped
    <3>3. NotThere(j, n)
      BY <2>2, <2>4, <3>2, AnswerNotOk
    <3> QED
      BY <2>2, <3>3, NotThereStays
  <2> QED
    BY <1>0, <2>2, <2>3, <2>4, RefusedStep
<1> QED
  BY <1>1, <1>2
LEMMA InAttemptStep ==
    ASSUME NoRepeats, Types, Types', Answered, InAttempt, [Next]_vars
    PROVE  InAttempt'
<1>1. CASE pipe' = pipe
  BY <1>1 DEF InAttempt
<1>2. CASE Route \/ Write \/ ReadReply \/ ReadNothing
  <2>1. CASE Route
    BY <2>1, RouteFacts DEF InAttempt
  <2>2. CASE Write
    BY <2>2, WriteFacts DEF NextNodeIs, Write, InAttempt
  <2>3. CASE ReadReply
    BY <2>3, ReadReplyFacts DEF NextReadIs, NextNodeIs, ReadReply, InAttempt
  <2>4. CASE ReadNothing
    BY <2>4, ReadNothingFacts DEF NextReadIs, NextNodeIs, ReadNothing, InAttempt
  <2> QED
    BY <1>2, <2>1, <2>2, <2>3, <2>4
<1>3. CASE Release \/ CountRetries \/ CountFails \/ RetryEscapes \/ RouteFails \/ Return \/ GiveUp
  <2> DEFINE again == {i \in Cmd : pipe.result[i].is \in ERRORS_ALLOW_RETRY}
  <2>1. pipe'.result = pipe.result /\ pipe'.attempt \in {pipe.attempt, again}
    BY <1>3, ToFinish
  <2>2. pipe.pc # "raised"
    BY <1>3
    DEF Release, CountRetries, CountFails, RetryEscapes, RouteFails, Return, GiveUp, Retrying
  <2>3. CASE pipe'.attempt = again
    BY <2>1, <2>3 DEF InAttempt
  <2>4. CASE pipe'.attempt = pipe.attempt
    <3> SUFFICES ASSUME pipe'.pc \in {"count", "retry"} PROVE pipe.pc \in {"count", "retry"}
      BY <2>1, <2>4 DEF InAttempt
    <3>1. pipe'.attempt # {}
      BY DEF Types, Cursor
    <3> QED
      BY <2>2, <2>4, <3>1 DEF Types, Cursor
  <2> QED
    BY <2>1, <2>3, <2>4
<1>4. CASE RetryOk \/ RetryFails
  <2>1. PICK is \in {"ok", "down", "error"} :
            /\ pipe'.attempt = pipe.attempt \ {Retried}
            /\ pipe'.result = [pipe.result EXCEPT ![Retried] = [of |-> Retried, is |-> is]]
    BY <1>4, RetryOkFacts, RetryFailsFacts
  <2>2. pipe.result \in [Cmd -> Reply] /\ pipe.pc = "retry"
    BY <1>4, LocalsFacts DEF Types, RetryOk, RetryFails, Retrying
  <2> SUFFICES ASSUME NEW j \in Cmd, pipe'.result[j].is \in ERRORS_ALLOW_RETRY
               PROVE  j \in pipe'.attempt
    BY DEF InAttempt
  <2>3. CASE j = Retried
    <3>1. pipe'.result[j] = [of |-> Retried, is |-> is]
      BY <2>1, <2>2, <2>3
    <3>2. pipe'.result[j].is = is
      BY <3>1
    <3> QED
      BY <3>2 DEF ERRORS_ALLOW_RETRY
  <2>4. CASE j # Retried
    <3>1. pipe'.result[j] = pipe.result[j]
      BY <2>1, <2>2, <2>4
    <3> QED
      BY <2>1, <2>2, <2>4, <3>1 DEF InAttempt
  <2> QED
    BY <2>3, <2>4
<1> QED
  BY <1>1, <1>2, <1>3, <1>4, Excluded
  DEF Next, Execute, vars, Done, RefreshTable, Serve, ServeLate, MigrateKey, FinishMigration

(* What is executed comes after all that shares a key with it and was      *)
(* queued before, except what is never executed.                           *)
LEMMA NothingOvertaken ==
    ASSUME OneWay, IInv, Once, Ordered, [Next]_vars, log' # log
    PROVE  \E i \in Cmd : /\ log' = Append(log, i)
                          /\ \A j \in Cmd : i < j /\ Shared(i, j) => j \notin Range(log)
                          /\ \A j \in Cmd : j < i /\ Shared(j, i) => ~Refused(j)
<1>0. /\ NoRepeats /\ Types /\ Wires /\ Answered /\ Executed /\ ToRetry
      /\ BySlot /\ Left /\ InAttempt /\ InOrder
  BY DEF OneWay, IInv, Once, Ordered
<1>1. ASSUME NEW n \in Node, Serve(n)
      PROVE  \E i \in Cmd : /\ log' = Append(log, i)
                            /\ \A j \in Cmd : i < j /\ Shared(i, j) => j \notin Range(log)
                            /\ \A j \in Cmd : j < i /\ Shared(j, i) => ~Refused(j)
  <2> DEFINE i == Head(wire[n].requests)
  <2>1. PICK is : /\ i \in Cmd /\ wire[n].requests # <<>>
                  /\ log' = IF is = "ok" THEN Append(log, i) ELSE log
                  /\ is = "ok" => Answer(n, i) = "ok"
    BY <1>0, <1>1, ServeFacts DEF Types
  <2>2. log' = Append(log, i) /\ Answer(n, i) = "ok"
    BY <2>1
  <2>3. owner[SlotOfCmd(i)] = n /\ Keys[i] \cap moved = {}
    <3>1. ~wire[n].readonly
      BY <1>0 DEF BySlot
    <3> QED
      BY <2>1, <2>2, <3>1, AnswerOk
  <2>4. ASSUME NEW j \in Cmd, i < j, Shared(i, j) PROVE j \notin Range(log)
    BY <1>0, <2>1, <2>4, ServedFirst
  <2>5. ASSUME NEW j \in Cmd, j < i, Shared(j, i), Refused(j) PROVE FALSE
    <3>1. i \in Range(pipe.batch[n])
      BY <1>0, <2>1, HeadFacts
    <3>2. PICK m \in Node : j \in Range(pipe.batch[m])
      BY <1>0, <2>1, HeadFacts
    <3>3. SlotOfCmd(j) = SlotOfCmd(i)
      BY <2>1, <2>5, SharedSlot
    <3>4. m = n
      BY <1>0, <3>1, <3>2, <3>3 DEF BySlot
    <3>5. NotThere(j, n)
      BY <1>0, <2>5, <3>2, <3>4 DEF Left
    <3>6. Keys[j] \subseteq Keys[i]
      BY <2>1, <2>5 DEF OneWay
    <3> QED
      BY <2>3, <3>3, <3>5, <3>6 DEF NotThere
  <2> HIDE DEF i
  <2> QED
    BY <2>1, <2>2, <2>4, <2>5
<1>2. CASE RetryOk
  <2>1. Retrying /\ log' = Append(log, Retried)
    BY <1>2 DEF RetryOk
  <2>2. Retried \in Cmd /\ Retried \in pipe.attempt /\ \A j \in pipe.attempt : Retried <= j
    BY <1>0, <2>1, RetriedFacts
  <2>3. Refused(Retried)
    BY <1>0, <2>2 DEF ToRetry, Refused
  <2>4. ASSUME NEW j \in Cmd, Retried < j, Shared(Retried, j) PROVE j \notin Range(log)
    <3>1. Shared(j, Retried)
      BY <2>2, <2>4, SharedSlot
    <3> QED
      BY <1>0, <2>2, <2>3, <2>4, <3>1 DEF InOrder
  <2>5. ASSUME NEW j \in Cmd, j < Retried, Refused(j) PROVE FALSE
    <3>1. \A n \in Node : wire[n].replies = <<>>
      BY <1>0, <2>1, SilentBefore DEF Retrying, Silent
    <3>2. pipe.result[j].is \in ERRORS_ALLOW_RETRY
      BY <2>5, <3>1 DEF Refused
    <3>3. j \in pipe.attempt
      BY <1>0, <2>1, <3>2 DEF InAttempt, Retrying
    <3>4. Retried <= j /\ j \in Nat /\ Retried \in Nat
      BY <2>2, <3>3, CmdFacts
    <3> QED
      BY <2>5, <3>4
  <2> QED
    BY <2>1, <2>2, <2>4, <2>5
<1>3. \A n \in Node : ~ServeLate(n)
  BY DEF Once, OnTime, ServeLate
<1> QED
  BY <1>0, <1>1, <1>2, <1>3, Excluded
  DEF Next, Execute, Route, RouteFails, Write, ReadReply, ReadNothing, Release,
      CountRetries, RetryFails, RetryEscapes, Return, GiveUp,
      vars, servers, Done, RefreshTable, MigrateKey, FinishMigration

LEMMA InOrderStep ==
    ASSUME OneWay, IInv, Once, Ordered, [Next]_vars
    PROVE  InOrder'
<1>0. /\ NoRepeats /\ Types /\ Wires /\ Answered /\ Executed /\ BySlot /\ InOrder
      /\ log \in Seq(Cmd)
  BY DEF OneWay, IInv, Once, Ordered, Types, TablesOK
<1> SUFFICES ASSUME NEW i \in Cmd, NEW j \in Cmd, j < i, Shared(i, j), Refused(j)', i \in Range(log')
             PROVE  FALSE
  BY DEF InOrder
<1>1. Shared(j, i)
  BY SharedSlot
<1>2. i \notin Range(log)
  <2>1. CASE Refused(j)
    BY <1>0, <2>1 DEF InOrder
  <2>2. ASSUME NEW n \in Node, wire[n].requests # <<>>, j = Head(wire[n].requests)
        PROVE  i \notin Range(log)
    BY <1>0, <1>1, <2>2, ServedFirst
  <2> QED
    BY <1>0, <2>1, <2>2, RefusedStep
<1>3. log' # log
  BY <1>2
<1>4. PICK l \in Cmd : /\ log' = Append(log, l)
                       /\ \A k \in Cmd : k < l /\ Shared(k, l) => ~Refused(k)
  BY <1>3, NothingOvertaken
<1>5. i = l
  BY <1>0, <1>2, <1>4, AppendFacts
<1>6. ~Refused(j)
  BY <1>1, <1>4, <1>5
<1>7. PICK n \in Node : Serve(n) /\ j = Head(wire[n].requests) /\ Answer(n, j) # "ok"
  BY <1>0, <1>6, RefusedStep
<1>8. log' = log
  <2>1. PICK is : /\ log' = IF is = "ok" THEN Append(log, j) ELSE log
                  /\ is = "ok" => Answer(n, j) = "ok"
    BY <1>0, <1>7, ServeFacts DEF Types
  <2> QED
    BY <1>7, <2>1
<1> QED
  BY <1>3, <1>8

LEMMA KeyOrderStep ==
    ASSUME OneWay, IInv, Once, Ordered, [Next]_vars
    PROVE  KeyOrder'
<1>0. KeyOrder /\ log \in Seq(Cmd)
  BY DEF IInv, Types, TablesOK, Ordered
<1>1. CASE log' = log
  BY <1>0, <1>1 DEF KeyOrder
<1>2. CASE log' # log
  <2>1. PICK i \in Cmd : /\ log' = Append(log, i)
                         /\ \A j \in Cmd : i < j /\ Shared(i, j) => j \notin Range(log)
    BY <1>2, NothingOvertaken
  <2>2. /\ DOMAIN log' = 1 .. Len(log) + 1 /\ Len(log) \in Nat /\ DOMAIN log = 1 .. Len(log)
        /\ \A p \in DOMAIN log : log'[p] = log[p] /\ log[p] \in Cmd /\ log[p] \in Range(log)
        /\ log'[Len(log) + 1] = i
    BY <1>0, <2>1, AppendFacts, SeqFacts
  <2> SUFFICES ASSUME NEW p \in DOMAIN log', NEW q \in DOMAIN log', p < q,
                      Shared(log'[p], log'[q])
               PROVE  log'[p] <= log'[q]
    BY DEF KeyOrder, Shared
  <2>3. p \in DOMAIN log
    BY <2>2
  <2>4. CASE q \in DOMAIN log
    BY <1>0, <2>2, <2>3, <2>4 DEF KeyOrder, Shared
  <2>5. CASE q = Len(log) + 1
    <3>1. log'[q] = i /\ log'[p] \in Cmd /\ log'[p] \in Range(log)
      BY <2>2, <2>3, <2>5
    <3>2. Shared(i, log'[p])
      BY <3>1, SharedSlot
    <3>3. ~(i < log'[p])
      BY <2>1, <3>1, <3>2
    <3> QED
      BY <3>1, <3>3, CmdFacts
  <2> QED
    BY <2>2, <2>4, <2>5
<1> QED
  BY <1>1, <1>2

LEMMA OrderedInit ==
    ASSUME OneWay
    PROVE  Init => Ordered
<1> SUFFICES ASSUME Init PROVE Ordered
  OBVIOUS
<1>1. pipe.pc = "route" /\ pipe.batch = NoBatch /\ log = <<>>
  BY DEF Init, Start
<1>2. Range(<<>>) = {} /\ DOMAIN <<>> = {}
  BY DEF Range
<1>3. \A n \in Node : pipe.batch[n] = <<>> /\ wire[n].readonly = FALSE
  BY <1>1 DEF NoBatch, Init, Closed
<1>4. \A s \in Slot : table[s] # Importer[s]
  BY DEF Init, OneWay
<1>5. BySlot /\ Left
  BY <1>2, <1>3, <1>4 DEF BySlot, Left
<1>6. InAttempt /\ InOrder /\ KeyOrder
  BY <1>1, <1>2 DEF InAttempt, InOrder, KeyOrder
<1> QED
  BY <1>5, <1>6 DEF Ordered

(* "For each slot/key the order is valid": commands of one key are executed *)
(* in the order in which they were queued, while their slot migrates too,  *)
(* under the conditions of OneWay.                                         *)
THEOREM PipelineKeyOrder ==
    ASSUME OneWay
    PROVE  Spec => []KeyOrder
<1>1. Init => IInv /\ Once /\ Ordered
  BY TypesInit, WiresInit, AnsweredInit, OnceInit, OrderedInit DEF IInv
<1>2. IInv /\ Once /\ Ordered /\ [Next]_vars => IInv' /\ Once' /\ Ordered'
  <2> SUFFICES ASSUME IInv, Once, Ordered, [Next]_vars PROVE IInv' /\ Once' /\ Ordered'
    OBVIOUS
  <2>1. IInv'
    BY TypesStep, WiresStep, AnsweredStep DEF IInv
  <2>2. Once'
    BY OnceStep DEF OneWay
  <2>3. BySlot' /\ Left' /\ InAttempt'
    BY <2>1, BySlotStep, LeftStep, InAttemptStep DEF OneWay, IInv, Once, Ordered
  <2>4. InOrder' /\ KeyOrder'
    BY InOrderStep, KeyOrderStep
  <2> QED
    BY <2>1, <2>2, <2>3, <2>4 DEF Ordered
<1>3. Ordered => KeyOrder
  BY DEF Ordered
<1> QED
  BY <1>1, <1>2, <1>3, PTL DEF Spec
=============================================================================
