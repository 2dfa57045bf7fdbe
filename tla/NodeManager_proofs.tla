-------------------------- MODULE NodeManager_proofs --------------------------
(***************************************************************************)
(* What initialize leaves behind, for any hosts, ports, slots, answers and *)
(* rules: AllOrNothing, CoversWhatIsRequired, SlotsAreOfNodes and          *)
(* RowsAreNotMixed.                                                        *)
(***************************************************************************)
EXTENDS NodeManager, FiniteSetTheorems, SequenceTheorems, TLAPS

(* The fields of the record `run` that the proofs follow are there.        *)
HasLocals == {"before", "outcome", "needed", "tmp"} \subseteq DOMAIN run

LEMMA Locals == Spec => []HasLocals
<1>1. Init => HasLocals
  BY DEF Init, HasLocals, Over
<1>2. HasLocals /\ [Next]_vars => HasLocals'
  <2> SUFFICES ASSUME HasLocals, [Next]_vars PROVE HasLocals'
    OBVIOUS
  <2> USE DEF HasLocals
  <2>1. CASE NodesChange \/ SwapSlots \/ UNCHANGED vars
    BY <2>1 DEF NodesChange, SwapSlots, vars
  <2>2. CASE Start
    BY <2>2 DEF Start, Fresh, Over
  <2>3. CASE Visit
    BY <2>3 DEF Visit, OutOfReach, AnswerIsDown, AnswerIsError, Raise, Over, Answer
  <2>4. CASE ParseRow \/ EndRow
    BY <2>4 DEF ParseRow, EndRow
  <2>5. CASE ParseSlot
    BY <2>5 DEF ParseSlot, ParseNewSlot, WithNewSlot, ParseKnownSlot, TooManyDisagreements,
                Raise, Over
  <2>6. CASE CheckCoverage \/ SwapNodes
    BY <2>6 DEF CheckCoverage, SwapNodes, Over
  <2>7. CASE CoverageIsError \/ GiveUp
    BY <2>7 DEF CoverageIsError, GiveUp, Raise, Over
  <2> QED
    BY <2>1, <2>2, <2>3, <2>4, <2>5, <2>6, <2>7 DEF Next, Initialize
<1> QED
  BY <1>1, <1>2, PTL DEF Spec

-----------------------------------------------------------------------------
(* The tables of the call's beginning are there until SwapSlots, after     *)
(* which nothing raises.                                                   *)
Untouched ==
    /\ pc \in {"visit", "rows", "slots", "swap_slots"} => <<slots, nodes>> = run.before
    /\ pc = "idle" /\ run.outcome # "ok" => <<slots, nodes>> = run.before

LEMMA RaiseUntouched ==
    ASSUME HasLocals, Untouched, NEW o, Raise(o), pc \in {"visit", "rows", "slots"}
    PROVE  Untouched'
  BY DEF HasLocals, Untouched, Raise, Over

(* An initialize that raises leaves the tables as it found them, whichever *)
(* startup nodes, rows or checks it had been through.                      *)
THEOREM InitializeAllOrNothing == Spec => []AllOrNothing
<1>1. Init => Untouched
  BY DEF Init, Untouched, Over
<1>2. HasLocals /\ Untouched /\ [Next]_vars => Untouched'
  <2> SUFFICES ASSUME HasLocals, Untouched, [Next]_vars PROVE Untouched'
    OBVIOUS
  <2>1. CASE NodesChange \/ UNCHANGED vars
    BY <2>1 DEF NodesChange, vars, Untouched
  <2>2. CASE Start
    BY <2>2 DEF Start, Fresh, Over, Untouched
  <2>3. CASE Visit
    <3>1. CASE \E n \in run.left : AnswerIsError(n)
      BY <3>1, RaiseUntouched DEF AnswerIsError
    <3>2. CASE \E n \in run.left : \/ OutOfReach(n) \/ AnswerIsDown(n)
                                  \/ \E rows \in Answers[n.addr] : Answer(n, rows)
      <4>1. pc = "visit" /\ pc' \in {"visit", "rows"} /\ UNCHANGED <<slots, nodes>>
        BY <3>2 DEF OutOfReach, AnswerIsDown, Answer
      <4>2. run'.before = run.before
        BY <3>2 DEF OutOfReach, AnswerIsDown, Answer, HasLocals
      <4> QED
        BY <4>1, <4>2 DEF Untouched
    <3> QED
      BY <2>3, <3>1, <3>2 DEF Visit
  <2>4. CASE ParseRow \/ EndRow
    BY <2>4 DEF ParseRow, EndRow, HasLocals, Untouched
  <2>5. CASE ParseSlot
    <3>1. ASSUME NEW i \in Slot, TooManyDisagreements(i) PROVE Untouched'
      BY <3>1, RaiseUntouched DEF TooManyDisagreements, NextSlot
    <3>2. ASSUME NEW i \in Slot, ParseNewSlot(i) \/ ParseKnownSlot(i) PROVE Untouched'
      <4>1. pc = "slots" /\ UNCHANGED <<slots, nodes, pc>> /\ run'.before = run.before
        BY <3>2 DEF ParseNewSlot, WithNewSlot, ParseKnownSlot, NextSlot, HasLocals
      <4> QED
        BY <4>1 DEF Untouched
    <3> QED
      BY <2>5, <3>1, <3>2 DEF ParseSlot
  <2>6. CASE CheckCoverage
    BY <2>6 DEF CheckCoverage, HasLocals, Untouched
  <2>7. CASE CoverageIsError \/ GiveUp
    BY <2>7, RaiseUntouched DEF CoverageIsError, GiveUp
  <2>8. CASE SwapSlots \/ SwapNodes
    BY <2>8 DEF SwapSlots, SwapNodes, Over, Untouched
  <2> QED
    BY <2>1, <2>2, <2>3, <2>4, <2>5, <2>6, <2>7, <2>8 DEF Next, Initialize
<1>3. Untouched => AllOrNothing
  BY DEF Untouched, AllOrNothing
<1> QED
  BY <1>1, <1>2, <1>3, Locals, PTL DEF Spec

-----------------------------------------------------------------------------
(* The coverage found by CheckCoverage is that of the table which the two  *)
(* assignments then publish.                                               *)
Covering ==
    /\ pc \in {"swap_slots", "swap_nodes"} /\ run.needed => DOMAIN run.tmp = Slot
    /\ pc = "swap_nodes" => slots = run.tmp
    /\ pc = "idle" /\ run.outcome = "ok" /\ run.needed => DOMAIN slots = Slot

(* When the servers require full coverage, no table with a hole in it is   *)
(* published, however many startup nodes it was put together from.         *)
THEOREM PublishedTableCovers == Spec => []CoversWhatIsRequired
<1>1. Init => Covering
  BY DEF Init, Covering, Over
<1>2. HasLocals /\ Covering /\ [Next]_vars => Covering'
  <2> SUFFICES ASSUME HasLocals, Covering, [Next]_vars PROVE Covering'
    OBVIOUS
  <2> USE DEF HasLocals, Covering
  <2>1. CASE NodesChange \/ UNCHANGED vars
    BY <2>1 DEF NodesChange, vars
  <2>2. CASE Start
    BY <2>2 DEF Start
  <2>3. CASE Visit
    BY <2>3 DEF Visit, OutOfReach, AnswerIsDown, AnswerIsError, Raise, Over, Answer
  <2>4. CASE ParseRow \/ EndRow
    BY <2>4 DEF ParseRow, EndRow
  <2>5. CASE ParseSlot
    BY <2>5 DEF ParseSlot, ParseNewSlot, ParseKnownSlot, TooManyDisagreements, Raise, Over,
                NextSlot
  <2>6. CASE CheckCoverage
    BY <2>6 DEF CheckCoverage
  <2>7. CASE CoverageIsError \/ GiveUp
    BY <2>7 DEF CoverageIsError, GiveUp, Raise, Over
  <2>8. CASE SwapSlots
    BY <2>8 DEF SwapSlots
  <2>9. CASE SwapNodes
    BY <2>9 DEF SwapNodes, Over
  <2> QED
    BY <2>1, <2>2, <2>3, <2>4, <2>5, <2>6, <2>7, <2>8, <2>9 DEF Next, Initialize
<1>3. Covering => CoversWhatIsRequired
  BY DEF Covering, CoversWhatIsRequired, Published
<1> QED
  BY <1>1, <1>2, <1>3, Locals, PTL DEF Spec

-----------------------------------------------------------------------------
(* Types.  The locals that TypeOK leaves out: the rows still to parse and  *)
(* the answers heard are sequences of rows, a row is parsed with a host to *)
(* stand for '', and what is left of it has the master's address.          *)
RunFields == {"left", "rows", "row", "host", "tmp", "cache", "clashes", "reachable", "covered",
              "rebound", "heard", "needed", "refused", "before", "outcome"}
HeardAnswer == [from : Addr, rows : Seq(Row)]
InHand == [slots : SUBSET Slot, master : Addr, replicas : SUBSET Addr]

RunOK ==
    /\ DOMAIN run = RunFields
    /\ run.rows \in Seq(Row)
    /\ run.heard \in Seq(HeardAnswer)
    /\ pc = "rows" \/ pc = "slots" => run.host \in Host
    /\ pc = "slots" => run.row \in InHand

LEMMA RemapTypes ==
    ASSUME NEW a \in Addr
    PROVE  Remap(a) \in Addr
<1> DEFINE first == {i \in DOMAIN Rules : /\ Applies(Rules[i], a)
                                          /\ \A j \in 1 .. i - 1 : ~Applies(Rules[j], a)}
<1>1. CASE first = {}
  BY <1>1 DEF Remap
<1>2. CASE first # {}
  <2> DEFINE rule == Rules[CHOOSE i \in first : TRUE]
  <2>1. \E i \in DOMAIN Rules : rule = Rules[i]
    BY <1>2
  <2>2. Remap(a) = << IF "from_host" \in DOMAIN rule THEN rule.to_host ELSE a[1],
                      IF "from_port" \in DOMAIN rule THEN rule.to_port ELSE a[2] >>
    BY <1>2 DEF Remap
  <2>3. /\ "from_host" \in DOMAIN rule => rule.to_host \in Host
        /\ "from_port" \in DOMAIN rule => rule.to_port \in Port
    BY <2>1, NodeManagerAssumption
  <2> HIDE DEF rule
  <2>4. a[1] \in Host /\ a[2] \in Port
    BY DEF Addr
  <2> QED
    BY <2>2, <2>3, <2>4 DEF Addr
<1> QED
  BY <1>1, <1>2

LEMMA UpdateFacts ==
    ASSUME NEW dict, NEW new
    PROVE  /\ DOMAIN Update(dict, new) = DOMAIN dict \cup DOMAIN new
           /\ \A x \in DOMAIN new : Update(dict, new)[x] = new[x]
           /\ \A x \in DOMAIN dict \ DOMAIN new : Update(dict, new)[x] = dict[x]
  BY DEF Update

LEMMA UpdateTypes ==
    ASSUME NEW dict, NEW new
    PROVE  /\ Tables(dict) /\ Tables(new) => Tables(Update(dict, new))
           /\ Caches(dict) /\ Caches(new) => Caches(Update(dict, new))
<1> DEFINE all == Update(dict, new)
<1>1. /\ DOMAIN all = DOMAIN dict \cup DOMAIN new
      /\ \A x \in DOMAIN new : all[x] = new[x]
      /\ \A x \in DOMAIN dict \ DOMAIN new : all[x] = dict[x]
  BY UpdateFacts
<1> HIDE DEF all
<1>2. ASSUME NEW x \in DOMAIN all
      PROVE  (x \in DOMAIN new /\ all[x] = new[x]) \/ (x \in DOMAIN dict /\ all[x] = dict[x])
  BY <1>1
<1>3. Tables(dict) /\ Tables(new) => Tables(all)
  BY <1>1, <1>2 DEF Tables
<1>4. Caches(dict) /\ Caches(new) => Caches(all)
  BY <1>1, <1>2 DEF Caches
<1> QED
  BY <1>3, <1>4 DEF all

(* The master of a row, and what populate_startup_nodes adds.              *)
LEMMA RowFacts ==
    ASSUME TypeOK, RunOK
    PROVE  /\ pc = "rows" => \A row \in Row : Master(row) \in Addr
           /\ \A addrs \in SUBSET Addr : Remapped(addrs) \subseteq Addr
           /\ Populated \subseteq NodeObj /\ StillLeft \subseteq NodeObj
<1>1. ASSUME pc = "rows", NEW row \in Row
      PROVE  Master(row) \in Addr
  <2>1. <<IF row.host = Unnamed THEN run.host ELSE row.host, row.port>> \in Addr
    BY <1>1 DEF RunOK, Row, Addr
  <2> QED
    BY <2>1, RemapTypes DEF Master
<1>2. \A addrs \in SUBSET Addr : Remapped(addrs) \subseteq Addr
  BY RemapTypes DEF Remapped
<1>3. Populated \subseteq NodeObj
  <2>1. Objects(nodes) \subseteq NodeObj
    BY DEF Objects, TypeOK, Caches, NodeObj, Type
  <2> QED
    BY <2>1 DEF Populated, TypeOK
<1>4. StillLeft \subseteq NodeObj
  BY <1>3 DEF StillLeft, TypeOK
<1> QED
  BY <1>1, <1>2, <1>3, <1>4

(* What ParseRow makes of the locals, field by field.                      *)
LEMMA RowFields ==
    ASSUME TypeOK, RunOK, ParseRow
    PROVE  LET row == Head(run.rows) IN
           /\ pc = "rows" /\ pc' = "slots" /\ UNCHANGED <<slots, nodes, startup>>
           /\ run.rows # <<>> /\ row \in Row /\ Master(row) \in Addr
           /\ DOMAIN run' = RunFields /\ run'.rows = Tail(run.rows) /\ run'.host = Master(row)[1]
           /\ run'.row \in InHand /\ run'.row.slots = row.slots
           /\ run'.row.master = Master(row) /\ run'.row.replicas = row.replicas
           /\ Caches(run'.cache)
           /\ DOMAIN run'.cache = DOMAIN run.cache \cup {Master(row)}
           /\ run'.tmp = run.tmp /\ run'.clashes = run.clashes
           /\ run'.left = run.left /\ run'.heard = run.heard
<1> DEFINE row == Head(run.rows)
           one == [a \in {Master(row)} |-> "master"]
<1>1. pc = "rows" /\ pc' = "slots" /\ UNCHANGED <<slots, nodes, startup>> /\ run.rows # <<>>
  BY DEF ParseRow
<1>2. row \in Row /\ Master(row) \in Addr
  <2>1. row \in Row
    BY <1>1 DEF RunOK
  <2> QED
    BY <1>1, <2>1, RowFacts
<1>3. /\ DOMAIN run' = RunFields /\ run'.rows = Tail(run.rows) /\ run'.host = Master(row)[1]
      /\ run'.row = [slots |-> row.slots, master |-> Master(row), replicas |-> row.replicas]
      /\ run'.cache = Update(run.cache, one)
      /\ run'.tmp = run.tmp /\ run'.clashes = run.clashes
      /\ run'.left = run.left /\ run'.heard = run.heard
  BY DEF ParseRow, RunOK, RunFields
<1>4. Caches(one) /\ DOMAIN one = {Master(row)}
  BY <1>2 DEF Caches
<1> HIDE DEF one, row
<1>5. Caches(run'.cache) /\ DOMAIN run'.cache = DOMAIN run.cache \cup {Master(row)}
  <2>1. Caches(Update(run.cache, one))
    BY <1>4, UpdateTypes DEF TypeOK
  <2>2. DOMAIN Update(run.cache, one) = DOMAIN run.cache \cup DOMAIN one
    BY UpdateFacts
  <2> QED
    BY <1>3, <1>4, <2>1, <2>2
<1>6. run'.row \in InHand
  BY <1>2, <1>3 DEF InHand, Row
<1>7. run'.row.slots = row.slots /\ run'.row.master = Master(row) /\ run'.row.replicas = row.replicas
  BY <1>3
<1> QED
  BY <1>1, <1>2, <1>3, <1>5, <1>6, <1>7 DEF row

(* A new slot gets the master and the replicas, which are remapped on the  *)
(* way and stay so in what is left of the row.                             *)
LEMMA NewSlotFields ==
    ASSUME TypeOK, RunOK, NEW i \in Slot, ParseNewSlot(i)
    PROVE  LET replicas == Remapped(run.row.replicas) IN
           /\ pc = "slots" /\ UNCHANGED <<slots, nodes, startup, pc>>
           /\ run.row \in InHand /\ replicas \subseteq Addr
           /\ i \in run.row.slots /\ i \notin DOMAIN run.tmp
           /\ \A j \in run.row.slots : i <= j
           /\ DOMAIN run' = RunFields
           /\ run'.row \in InHand /\ run'.row.slots = run.row.slots \ {i}
           /\ run'.row.master = run.row.master /\ run'.row.replicas = replicas
           /\ Tables(run'.tmp) /\ DOMAIN run'.tmp = DOMAIN run.tmp \cup {i}
           /\ run'.tmp[i].master = run.row.master /\ run'.tmp[i].replicas = replicas
           /\ \A s \in DOMAIN run.tmp : run'.tmp[s] = run.tmp[s]
           /\ Caches(run'.cache) /\ DOMAIN run'.cache = DOMAIN run.cache \cup replicas
           /\ run'.rows = run.rows /\ run'.host = run.host /\ run'.clashes = run.clashes
           /\ run'.left = run.left /\ run'.heard = run.heard
<1> DEFINE replicas == Remapped(run.row.replicas)
           entry == [master |-> run.row.master, replicas |-> replicas]
           new == [s \in {i} |-> entry]
           others == [a \in replicas |-> "slave"]
<1>1. /\ pc = "slots" /\ UNCHANGED <<slots, nodes, startup, pc>>
      /\ i \in run.row.slots /\ i \notin DOMAIN run.tmp
      /\ \A j \in run.row.slots : i <= j
  BY DEF ParseNewSlot, NextSlot
<1>2. run.row \in InHand
  BY <1>1 DEF RunOK
<1>3. replicas \subseteq Addr
  BY <1>2, RowFacts DEF InHand
<1>4. /\ DOMAIN run' = RunFields
      /\ run'.row = [run.row EXCEPT !.slots = run.row.slots \ {i}, !.replicas = replicas]
      /\ run'.tmp = Update(run.tmp, new) /\ run'.cache = Update(run.cache, others)
      /\ run'.rows = run.rows /\ run'.host = run.host /\ run'.clashes = run.clashes
      /\ run'.left = run.left /\ run'.heard = run.heard
  <2> DEFINE row == [run.row EXCEPT !.slots = run.row.slots \ {i}, !.replicas = replicas]
             tmp == Update(run.tmp, new)
             cache == Update(run.cache, others)
  <2>1. /\ DOMAIN run = RunFields
        /\ run' = [run EXCEPT !.row = row, !.tmp = tmp, !.cache = cache]
    BY DEF ParseNewSlot, WithNewSlot, RunOK
  <2> HIDE DEF row, tmp, cache
  <2>2. /\ DOMAIN run' = RunFields /\ run'.row = row /\ run'.tmp = tmp /\ run'.cache = cache
        /\ run'.rows = run.rows /\ run'.host = run.host /\ run'.clashes = run.clashes
        /\ run'.left = run.left /\ run'.heard = run.heard
    BY ONLY <2>1 DEF RunFields
  <2> QED
    BY <2>2 DEF row, tmp, cache
<1> HIDE DEF replicas
<1>5. /\ run'.row \in InHand /\ run'.row.slots = run.row.slots \ {i}
      /\ run'.row.master = run.row.master /\ run'.row.replicas = replicas
  BY <1>2, <1>3, <1>4 DEF InHand
<1>6. entry \in Table /\ entry.master = run.row.master /\ entry.replicas = replicas
  BY <1>2, <1>3 DEF Table, InHand
<1> HIDE DEF entry
<1>7. Tables(new) /\ DOMAIN new = {i} /\ new[i] = entry
  BY <1>6 DEF Tables
<1>8. Caches(others) /\ DOMAIN others = replicas
  BY <1>3 DEF Caches
<1> HIDE DEF new, others
<1>9. /\ Tables(run'.tmp) /\ DOMAIN run'.tmp = DOMAIN run.tmp \cup {i}
      /\ run'.tmp[i] = entry
      /\ \A s \in DOMAIN run.tmp : run'.tmp[s] = run.tmp[s]
  <2> DEFINE all == Update(run.tmp, new)
  <2>1. Tables(all)
    BY <1>7, UpdateTypes DEF TypeOK
  <2>2. /\ DOMAIN all = DOMAIN run.tmp \cup DOMAIN new
        /\ \A s \in DOMAIN new : all[s] = new[s]
        /\ \A s \in DOMAIN run.tmp \ DOMAIN new : all[s] = run.tmp[s]
    BY UpdateFacts
  <2>3. run'.tmp = all
    BY <1>4
  <2> HIDE DEF all
  <2> QED
    BY <1>1, <1>7, <2>1, <2>2, <2>3
<1>10. Caches(run'.cache) /\ DOMAIN run'.cache = DOMAIN run.cache \cup replicas
  <2>1. Caches(Update(run.cache, others))
    BY <1>8, UpdateTypes DEF TypeOK
  <2>2. DOMAIN Update(run.cache, others) = DOMAIN run.cache \cup DOMAIN others
    BY UpdateFacts
  <2> QED
    BY <1>4, <1>8, <2>1, <2>2
<1> QED
  BY <1>1, <1>2, <1>3, <1>4, <1>5, <1>6, <1>9, <1>10 DEF replicas

(* A known slot, and the end of the row.                                   *)
LEMMA KnownSlotFields ==
    ASSUME TypeOK, RunOK, NEW i \in Slot, ParseKnownSlot(i)
    PROVE  /\ pc = "slots" /\ UNCHANGED <<slots, nodes, startup, pc>>
           /\ DOMAIN run' = RunFields
           /\ run'.row \in InHand /\ run'.row.slots = run.row.slots \ {i}
           /\ run'.row.master = run.row.master /\ run'.row.replicas = run.row.replicas
           /\ run'.clashes \in 0 .. MaxDisagreements
           /\ run'.tmp = run.tmp /\ run'.cache = run.cache /\ run'.rows = run.rows
           /\ run'.host = run.host /\ run'.left = run.left /\ run'.heard = run.heard
<1>1. /\ pc = "slots" /\ UNCHANGED <<slots, nodes, startup, pc>>
      /\ Clashes(i) <= MaxDisagreements
  BY DEF ParseKnownSlot, NextSlot
<1>2. run.row \in InHand
  BY <1>1 DEF RunOK
<1>3. /\ DOMAIN run' = RunFields
      /\ run'.row = [run.row EXCEPT !.slots = run.row.slots \ {i}]
      /\ run'.clashes = Clashes(i)
      /\ run'.tmp = run.tmp /\ run'.cache = run.cache /\ run'.rows = run.rows
      /\ run'.host = run.host /\ run'.left = run.left /\ run'.heard = run.heard
  <2> DEFINE row == [run.row EXCEPT !.slots = run.row.slots \ {i}]
  <2>1. DOMAIN run = RunFields /\ run' = [run EXCEPT !.row = row, !.clashes = Clashes(i)]
    BY DEF ParseKnownSlot, RunOK
  <2> HIDE DEF row
  <2>2. /\ DOMAIN run' = RunFields /\ run'.row = row /\ run'.clashes = Clashes(i)
        /\ run'.tmp = run.tmp /\ run'.cache = run.cache /\ run'.rows = run.rows
        /\ run'.host = run.host /\ run'.left = run.left /\ run'.heard = run.heard
    BY ONLY <2>1 DEF RunFields
  <2> QED
    BY <2>2 DEF row
<1>4. /\ run'.row \in InHand /\ run'.row.slots = run.row.slots \ {i}
      /\ run'.row.master = run.row.master /\ run'.row.replicas = run.row.replicas
  BY <1>2, <1>3 DEF InHand
<1>5. Clashes(i) \in 0 .. MaxDisagreements
  <2>1. run.clashes \in Nat /\ Clashes(i) \in {run.clashes, run.clashes + 1}
    BY NodeManagerAssumption DEF TypeOK, Clashes
  <2> QED
    BY <1>1, <2>1, NodeManagerAssumption
<1> QED
  BY <1>1, <1>3, <1>4, <1>5

LEMMA EndRowFields ==
    ASSUME TypeOK, RunOK, EndRow
    PROVE  /\ pc' = "rows" /\ startup' \subseteq NodeObj /\ UNCHANGED <<slots, nodes>>
           /\ DOMAIN run' = RunFields /\ run'.left \subseteq NodeObj
           /\ run'.tmp = run.tmp /\ run'.cache = run.cache /\ run'.rows = run.rows
           /\ run'.host = run.host /\ run'.host \in Host
           /\ run'.clashes = run.clashes /\ run'.heard = run.heard
<1>1. pc = "slots" /\ pc' = "rows" /\ startup' = Populated /\ UNCHANGED <<slots, nodes>>
  BY DEF EndRow
<1>2. /\ DOMAIN run' = RunFields /\ run'.left = StillLeft
      /\ run'.tmp = run.tmp /\ run'.cache = run.cache /\ run'.rows = run.rows
      /\ run'.host = run.host /\ run'.clashes = run.clashes /\ run'.heard = run.heard
  BY DEF EndRow, RunOK, RunFields
<1> QED
  BY <1>1, <1>2, RowFacts DEF RunOK

LEMMA TypesOfParse ==
    ASSUME TypeOK, RunOK,
           ParseRow \/ EndRow \/ \E i \in Slot : ParseNewSlot(i) \/ ParseKnownSlot(i)
    PROVE  TypeOK' /\ RunOK'
<1>1. CASE ParseRow
  <2>1. run'.rows \in Seq(Row)
    <3>1. run.rows \in Seq(Row) /\ run.rows # <<>> /\ run'.rows = Tail(run.rows)
      BY <1>1, RowFields DEF RunOK
    <3> QED
      BY <3>1
  <2>2. run'.host \in Host
    BY <1>1, RowFields DEF Addr
  <2>3. TypeOK'
    BY <1>1, RowFields DEF TypeOK
  <2>4. RunOK'
    BY <1>1, <2>1, <2>2, RowFields DEF RunOK
  <2> QED
    BY <2>3, <2>4
<1>2. CASE EndRow
  <2>1. TypeOK'
    BY <1>2, EndRowFields DEF TypeOK
  <2>2. RunOK'
    BY <1>2, EndRowFields DEF RunOK
  <2> QED
    BY <2>1, <2>2
<1>3. ASSUME NEW i \in Slot, ParseNewSlot(i)
      PROVE  TypeOK' /\ RunOK'
  <2>1. TypeOK'
    BY <1>3, NewSlotFields DEF TypeOK
  <2>2. RunOK'
    BY <1>3, NewSlotFields DEF RunOK
  <2> QED
    BY <2>1, <2>2
<1>4. ASSUME NEW i \in Slot, ParseKnownSlot(i)
      PROVE  TypeOK' /\ RunOK'
  <2>1. TypeOK'
    BY <1>4, KnownSlotFields DEF TypeOK
  <2>2. RunOK'
    BY <1>4, KnownSlotFields DEF RunOK
  <2> QED
    BY <2>1, <2>2
<1> QED
  BY <1>1, <1>2, <1>3, <1>4

(* Answer puts the node's rows, or the one row with the host filled in,    *)
(* before the loop.                                                        *)
LEMMA AnswerFields ==
    ASSUME TypeOK, RunOK, NEW n \in run.left, NEW rows \in Answers[n.addr], Answer(n, rows)
    PROVE  /\ n \in NodeObj /\ n.addr[1] \in Host /\ rows \in Seq(Row)
           /\ pc' = "rows" /\ DOMAIN run' = RunFields
           /\ run'.left = run.left \ {n} /\ run'.host = n.addr[1]
           /\ run'.heard = Append(run.heard, [from |-> n.addr, rows |-> rows])
           /\ run'.tmp = run.tmp /\ run'.cache = run.cache /\ run'.clashes = run.clashes
           /\ run'.needed = run.needed /\ run'.outcome = run.outcome
           /\ \/ run'.rows = rows
              \/ /\ OnlyServer(rows)
                 /\ \E h \in Host : run'.rows = <<[rows[1] EXCEPT !.host = h]>>
           /\ UNCHANGED <<slots, nodes, startup, dead>>
<1>1. n \in NodeObj /\ n.addr \in Addr /\ n.addr[1] \in Host
  BY DEF TypeOK, NodeObj, Addr
<1>2. rows \in Seq(Row)
  BY <1>1, NodeManagerAssumption
<1> DEFINE m == (CHOOSE m \in startup : TRUE).addr[1]
           parse == IF OnlyServer(rows) THEN <<[rows[1] EXCEPT !.host = m]>> ELSE rows
<1>3. run' = [run EXCEPT !.left = run.left \ {n}, !.reachable = TRUE, !.covered = TRUE,
                         !.host = n.addr[1], !.rows = parse,
                         !.heard = Append(run.heard, [from |-> n.addr, rows |-> rows])]
  BY DEF Answer
<1>4. parse = rows \/ (OnlyServer(rows) /\ \E h \in Host : parse = <<[rows[1] EXCEPT !.host = h]>>)
  <2>1. CASE OnlyServer(rows)
    <3>1. startup # {}
      BY <2>1, FS_EmptySet DEF OnlyServer
    <3>2. (CHOOSE k \in startup : TRUE) \in NodeObj
      BY <3>1 DEF TypeOK
    <3>3. m \in Host
      BY <3>2 DEF NodeObj, Addr
    <3> HIDE DEF m
    <3> QED
      BY <2>1, <3>3
  <2> QED
    BY <2>1
<1> HIDE DEF parse
<1>5. /\ DOMAIN run' = RunFields /\ run'.left = run.left \ {n} /\ run'.host = n.addr[1]
      /\ run'.rows = parse /\ run'.heard = Append(run.heard, [from |-> n.addr, rows |-> rows])
      /\ run'.tmp = run.tmp /\ run'.cache = run.cache /\ run'.clashes = run.clashes
      /\ run'.needed = run.needed /\ run'.outcome = run.outcome
  BY <1>3 DEF RunOK, RunFields
<1>6. pc' = "rows" /\ UNCHANGED <<slots, nodes, startup, dead>>
  BY DEF Answer
<1> QED
  BY <1>1, <1>2, <1>4, <1>5, <1>6

LEMMA TypesOfAnswer ==
    ASSUME TypeOK, RunOK, NEW n \in run.left, NEW rows \in Answers[n.addr], Answer(n, rows)
    PROVE  TypeOK' /\ RunOK'
<1>1. run'.rows \in Seq(Row)
  <2>1. CASE run'.rows = rows
    BY <2>1, AnswerFields
  <2>2. ASSUME OnlyServer(rows), NEW h \in Host, run'.rows = <<[rows[1] EXCEPT !.host = h]>>
        PROVE  run'.rows \in Seq(Row)
    <3>1. rows[1] \in Row
      <4>1. rows \in Seq(Row) /\ Len(rows) = 1
        BY <2>2, AnswerFields DEF OnlyServer
      <4>2. 1 \in 1 .. Len(rows)
        BY <4>1
      <4> QED
        BY <4>1, <4>2, ElementOfSeq
    <3>2. [rows[1] EXCEPT !.host = h] \in Row
      BY <3>1 DEF Row
    <3> QED
      BY <2>2, <3>2
  <2> QED
    BY <2>1, <2>2, AnswerFields
<1>2. run'.heard \in Seq(HeardAnswer)
  <2> DEFINE e == [from |-> n.addr, rows |-> rows]
  <2>1. e \in HeardAnswer
    BY AnswerFields DEF HeardAnswer, NodeObj
  <2>2. run'.heard = Append(run.heard, e)
    BY AnswerFields
  <2> HIDE DEF e
  <2> QED
    BY <2>1, <2>2 DEF RunOK
<1>3. RunOK'
  BY <1>1, <1>2, AnswerFields DEF RunOK
<1>4. TypeOK'
  BY AnswerFields DEF TypeOK
<1> QED
  BY <1>3, <1>4

(* The steps that assign a field or two.                                   *)
LEMMA TypesOfOthers ==
    ASSUME TypeOK, RunOK,
           \/ \E n \in run.left : OutOfReach(n) \/ AnswerIsDown(n) \/ AnswerIsError(n)
           \/ \E i \in Slot : TooManyDisagreements(i)
           \/ NodesChange \/ Start \/ CoverageIsError \/ CheckCoverage
           \/ GiveUp \/ SwapSlots \/ SwapNodes \/ UNCHANGED vars
    PROVE  TypeOK' /\ RunOK'
<1>1. ASSUME NEW n \in run.left, OutOfReach(n) \/ AnswerIsDown(n)
      PROVE  TypeOK' /\ RunOK'
  <2>1. /\ DOMAIN run' = RunFields /\ run'.left = run.left \ {n} /\ pc = "visit"
        /\ run'.rows = run.rows /\ run'.heard = run.heard /\ run'.tmp = run.tmp
        /\ run'.cache = run.cache /\ run'.clashes = run.clashes
        /\ UNCHANGED <<slots, nodes, startup, pc>>
    BY <1>1 DEF OutOfReach, AnswerIsDown, RunOK, RunFields
  <2> QED
    BY <2>1 DEF TypeOK, RunOK
<1>2. ASSUME NEW o, Raise(o)
      PROVE  TypeOK' /\ RunOK'
  <2>1. /\ DOMAIN run' = RunFields /\ run'.left = {} /\ pc' = "idle"
        /\ run'.rows = <<>> /\ run'.heard = <<>> /\ run'.tmp = <<>>
        /\ run'.cache = <<>> /\ run'.clashes = 0
        /\ UNCHANGED <<slots, nodes, startup>>
    BY <1>2 DEF Raise, Over, RunFields
  <2> QED
    BY <2>1, NodeManagerAssumption DEF TypeOK, RunOK, Tables, Caches
<1>3. CASE Start
  <2>1. (IF FollowCluster THEN startup ELSE Given(Orig)) \subseteq NodeObj
    BY NodeManagerAssumption DEF Given, NodeObj, Type, TypeOK
  <2>2. /\ DOMAIN run' = RunFields /\ run'.left \subseteq NodeObj /\ pc' = "visit"
        /\ run'.rows = <<>> /\ run'.heard = <<>> /\ run'.tmp = <<>>
        /\ run'.cache = <<>> /\ run'.clashes = 0
        /\ UNCHANGED <<slots, nodes, startup>>
    BY <1>3, <2>1 DEF Start, Fresh, Over, RunFields
  <2> QED
    BY <2>2, NodeManagerAssumption DEF TypeOK, RunOK, Tables, Caches
<1>4. CASE CheckCoverage
  <2>1. /\ DOMAIN run' = RunFields /\ run'.left = run.left /\ pc' \in {"swap_slots", "visit"}
        /\ run'.rows = run.rows /\ run'.heard = run.heard /\ run'.tmp = run.tmp
        /\ run'.cache = run.cache /\ run'.clashes = run.clashes
        /\ UNCHANGED <<slots, nodes, startup>>
    BY <1>4 DEF CheckCoverage, RunOK, RunFields
  <2> QED
    BY <2>1 DEF TypeOK, RunOK
<1>5. CASE SwapSlots \/ NodesChange \/ UNCHANGED vars
  BY <1>5 DEF SwapSlots, NodesChange, vars, TypeOK, RunOK
<1>6. CASE SwapNodes
  <2>1. /\ DOMAIN run' = RunFields /\ run'.left = {} /\ pc' = "idle" /\ nodes' = run.cache
        /\ run'.rows = <<>> /\ run'.heard = run.heard /\ run'.tmp = <<>>
        /\ run'.cache = <<>> /\ run'.clashes = 0
        /\ UNCHANGED <<slots, startup>>
    BY <1>6 DEF SwapNodes, Over, RunFields
  <2> QED
    BY <2>1, NodeManagerAssumption DEF TypeOK, RunOK, Tables, Caches
<1> QED
  BY <1>1, <1>2, <1>3, <1>4, <1>5, <1>6
     DEF AnswerIsError, TooManyDisagreements, CoverageIsError, GiveUp

LEMMA RunTypes == Spec => [](TypeOK /\ RunOK)
<1>1. Init => TypeOK /\ RunOK
  <2> SUFFICES ASSUME Init PROVE TypeOK /\ RunOK
    OBVIOUS
  <2>1. Given(Orig) \subseteq NodeObj
    BY NodeManagerAssumption DEF Given, NodeObj, Type
  <2>2. /\ DOMAIN run = RunFields /\ run.left = {}
        /\ run.rows = <<>> /\ run.heard = <<>> /\ run.tmp = <<>>
        /\ run.cache = <<>> /\ run.clashes = 0
    BY DEF Init, Over, RunFields
  <2> QED
    BY <2>1, <2>2, NodeManagerAssumption DEF Init, TypeOK, RunOK, Tables, Caches
<1>2. TypeOK /\ RunOK /\ [Next]_vars => TypeOK' /\ RunOK'
  BY TypesOfParse, TypesOfAnswer, TypesOfOthers DEF Next, Initialize, Visit, ParseSlot
<1> QED
  BY <1>1, <1>2, PTL DEF Spec

(* The tables hold addresses under slots and addresses, whatever rows the  *)
(* nodes answer and whatever the rules make of their addresses.            *)
THEOREM NodeManagerTypes == Spec => []TypeOK
  BY RunTypes, PTL

-----------------------------------------------------------------------------
(* The two tables under construction: an address enters cache no later     *)
(* than tmp, and the tables published are those two.                       *)
OfNodes(table, cache) ==
    \A s \in DOMAIN table : {table[s].master} \cup table[s].replicas \subseteq DOMAIN cache

NodesInv ==
    /\ OfNodes(run.tmp, run.cache)
    /\ pc = "slots" => run.row.master \in DOMAIN run.cache
    /\ pc = "swap_nodes" => slots = run.tmp
    /\ Published => OfNodes(slots, nodes)

(* The steps that touch neither what has been parsed nor what has been     *)
(* heard, and publish nothing.                                             *)
LEMMA VisitingSteps ==
    ASSUME TypeOK, RunOK,
           (\E n \in run.left : OutOfReach(n) \/ AnswerIsDown(n)) \/ CheckCoverage
    PROVE  /\ run'.tmp = run.tmp /\ run'.cache = run.cache /\ run'.heard = run.heard
           /\ run'.rows = run.rows /\ pc' \notin {"slots", "swap_nodes"} /\ ~Published'
<1>1. CASE CheckCoverage
  BY <1>1 DEF CheckCoverage, RunOK, RunFields, Published
<1>2. CASE \E n \in run.left : OutOfReach(n) \/ AnswerIsDown(n)
  BY <1>2 DEF OutOfReach, AnswerIsDown, RunOK, RunFields, Published
<1> QED
  BY <1>1, <1>2

(* ... and those that forget it.                                           *)
LEMMA RaisingSteps ==
    ASSUME \/ \E n \in run.left : AnswerIsError(n)
           \/ \E i \in Slot : TooManyDisagreements(i)
           \/ CoverageIsError \/ GiveUp
    PROVE  /\ run'.tmp = <<>> /\ run'.cache = <<>> /\ run'.rows = <<>>
           /\ pc' = "idle" /\ ~Published'
<1>1. ASSUME NEW o \in {"error", "disagreement", "uncovered", "unreachable"}, Raise(o)
      PROVE  /\ run'.tmp = <<>> /\ run'.cache = <<>> /\ run'.rows = <<>>
             /\ pc' = "idle" /\ run'.outcome = o
  BY <1>1 DEF Raise, Over
<1> QED
  BY <1>1 DEF AnswerIsError, TooManyDisagreements, CoverageIsError, GiveUp, Published

LEMMA NodesOfParse ==
    ASSUME TypeOK, RunOK, NodesInv,
           ParseRow \/ EndRow \/ \E i \in Slot : ParseNewSlot(i) \/ ParseKnownSlot(i)
    PROVE  NodesInv'
<1>1. CASE ParseRow
  BY <1>1, RowFields DEF NodesInv, OfNodes, Published
<1>2. CASE EndRow
  BY <1>2, EndRowFields DEF NodesInv, Published
<1>3. ASSUME NEW i \in Slot, ParseNewSlot(i)
      PROVE  NodesInv'
  <2>1. OfNodes(run'.tmp, run'.cache)
    <3> SUFFICES ASSUME NEW s \in DOMAIN run'.tmp
                 PROVE  {run'.tmp[s].master} \cup run'.tmp[s].replicas \subseteq DOMAIN run'.cache
      BY DEF OfNodes
    <3>1. CASE s = i
      BY <1>3, <3>1, NewSlotFields DEF NodesInv
    <3>2. CASE s # i
      <4>1. s \in DOMAIN run.tmp /\ run'.tmp[s] = run.tmp[s]
        BY <1>3, <3>2, NewSlotFields
      <4>2. {run.tmp[s].master} \cup run.tmp[s].replicas \subseteq DOMAIN run.cache
        BY <4>1 DEF NodesInv, OfNodes
      <4> QED
        BY <1>3, <4>1, <4>2, NewSlotFields
    <3> QED
      BY <3>1, <3>2
  <2> QED
    BY <1>3, <2>1, NewSlotFields DEF NodesInv, Published
<1>4. ASSUME NEW i \in Slot, ParseKnownSlot(i)
      PROVE  NodesInv'
  BY <1>4, KnownSlotFields DEF NodesInv, Published
<1> QED
  BY <1>1, <1>2, <1>3, <1>4

(* A master or replica of the slots table is never missing from the nodes  *)
(* table published with it, also after the replicas of a row have been     *)
(* remapped more than once.                                                *)
THEOREM PublishedSlotsAreOfNodes == Spec => []SlotsAreOfNodes
<1>1. Init => NodesInv
  BY DEF Init, Over, NodesInv, OfNodes, Published
<1>2. TypeOK /\ RunOK /\ NodesInv /\ [Next]_vars => NodesInv'
  <2> SUFFICES ASSUME TypeOK, RunOK, NodesInv, [Next]_vars PROVE NodesInv'
    OBVIOUS
  <2>1. CASE (\E n \in run.left : OutOfReach(n) \/ AnswerIsDown(n)) \/ CheckCoverage
    BY <2>1, VisitingSteps DEF NodesInv
  <2>2. CASE \/ \E n \in run.left : AnswerIsError(n)
             \/ \E i \in Slot : TooManyDisagreements(i)
             \/ CoverageIsError \/ GiveUp
    BY <2>2, RaisingSteps DEF NodesInv, OfNodes
  <2>3. ASSUME NEW n \in run.left, NEW rows \in Answers[n.addr], Answer(n, rows)
        PROVE  NodesInv'
    BY <2>3, AnswerFields DEF NodesInv, Published
  <2>4. CASE ParseRow \/ EndRow \/ \E i \in Slot : ParseNewSlot(i) \/ ParseKnownSlot(i)
    BY <2>4, NodesOfParse
  <2>5. CASE Start
    BY <2>5 DEF Start, Fresh, Over, NodesInv, OfNodes, Published
  <2>6. CASE NodesChange \/ UNCHANGED vars
    BY <2>6 DEF NodesChange, vars, NodesInv, OfNodes, Published
  <2>7. CASE SwapSlots
    BY <2>7 DEF SwapSlots, NodesInv, OfNodes, Published
  <2>8. CASE SwapNodes
    BY <2>8 DEF SwapNodes, Over, NodesInv, OfNodes, Published
  <2> QED
    BY <2>1, <2>2, <2>3, <2>4, <2>5, <2>6, <2>7, <2>8 DEF Next, Initialize, Visit, ParseSlot
<1>3. NodesInv => SlotsAreOfNodes
  BY DEF NodesInv, OfNodes, SlotsAreOfNodes
<1> QED
  BY <1>1, <1>2, <1>3, RunTypes, PTL DEF Spec

-----------------------------------------------------------------------------
(* Where a row, what is left of a row, and an entry of the table come      *)
(* from.  The row of the only server is parsed with another host than it   *)
(* was heard with.                                                         *)
RowsOf(heard) == UNION {Range(heard[i].rows) : i \in DOMAIN heard}

RowKnown(heard, r) ==
    \E row \in RowsOf(heard) : /\ r.slots = row.slots /\ r.replicas = row.replicas
                               /\ Named(row) => r.host = row.host /\ r.port = row.port

(* The replicas in hand are the row's own until a slot is taken from it,   *)
(* then those of the last one taken, which is below all that are left.     *)
LeftOf(hand, row, table, from) ==
    /\ hand.slots \subseteq row.slots
    /\ Named(row) => hand.master = NamedMaster(row)
    /\ \/ hand.replicas = row.replicas
       \/ \E r \in DOMAIN table : /\ from[r] = row /\ hand.replicas = table[r].replicas
                                  /\ \A s \in hand.slots : r < s

TableKnown(table, heard) == \E from \in [DOMAIN table -> RowsOf(heard)] : Taken(table, from)

RowsInv ==
    /\ \A j \in DOMAIN run.rows : RowKnown(run.heard, run.rows[j])
    /\ \E from \in [DOMAIN run.tmp -> RowsOf(run.heard)] :
          /\ Taken(run.tmp, from)
          /\ pc = "slots" => \E row \in RowsOf(run.heard) : LeftOf(run.row, row, run.tmp, from)
    /\ pc = "swap_nodes" => slots = run.tmp
    /\ Published => TableKnown(slots, run.heard)

LEMMA EmptyTable ==
    ASSUME NEW heard
    PROVE  \E from \in [DOMAIN <<>> -> RowsOf(heard)] : Taken(<<>>, from)
<1>1. <<>> \in [DOMAIN <<>> -> RowsOf(heard)]
  OBVIOUS
<1>2. Taken(<<>>, <<>>)
  BY DEF Taken
<1> QED
  BY <1>1, <1>2

LEMMA RowsOfParseRow ==
    ASSUME TypeOK, RunOK, RowsInv, ParseRow
    PROVE  RowsInv'
<1> DEFINE head == Head(run.rows)
<1>1. /\ pc' = "slots" /\ run.rows # <<>> /\ run'.rows = Tail(run.rows)
      /\ run'.tmp = run.tmp /\ run'.heard = run.heard
      /\ run'.row.slots = head.slots /\ run'.row.replicas = head.replicas
      /\ run'.row.master = Master(head)
  BY RowFields
<1>2. run.rows \in Seq(Row)
  BY DEF RunOK
<1>3. RowKnown(run.heard, head)
  <2>1. 1 \in DOMAIN run.rows /\ head = run.rows[1]
    BY <1>1, <1>2
  <2> QED
    BY <2>1 DEF RowsInv
<1>4. \A j \in DOMAIN run'.rows : RowKnown(run'.heard, run'.rows[j])
  <2>1. ASSUME NEW j \in DOMAIN Tail(run.rows)
        PROVE  j + 1 \in DOMAIN run.rows /\ Tail(run.rows)[j] = run.rows[j + 1]
    BY <1>1, <1>2
  <2> QED
    BY <1>1, <2>1 DEF RowsInv
<1> HIDE DEF head
<1>5. PICK row \in RowsOf(run.heard) :
         /\ head.slots = row.slots /\ head.replicas = row.replicas
         /\ Named(row) => head.host = row.host /\ head.port = row.port
  BY <1>3 DEF RowKnown
<1>6. Named(row) => Master(head) = NamedMaster(row)
  BY <1>5 DEF Named, NamedMaster, Master
<1>7. \A from : LeftOf(run'.row, row, run'.tmp, from)
  BY <1>1, <1>5, <1>6 DEF LeftOf
<1>8. PICK from \in [DOMAIN run.tmp -> RowsOf(run.heard)] : Taken(run.tmp, from)
  BY DEF RowsInv
<1>9. \E f \in [DOMAIN run'.tmp -> RowsOf(run'.heard)] :
         /\ Taken(run'.tmp, f)
         /\ \E r \in RowsOf(run'.heard) : LeftOf(run'.row, r, run'.tmp, f)
  BY <1>1, <1>5, <1>7, <1>8
<1> QED
  BY <1>1, <1>4, <1>9 DEF RowsInv, Published

(* The slot is taken from the row in hand, and the replicas that stay in   *)
(* hand are its own.                                                       *)
LEMMA RowsOfNewSlot ==
    ASSUME TypeOK, RunOK, RowsInv, NEW i \in Slot, ParseNewSlot(i)
    PROVE  RowsInv'
<1>1. pc = "slots" /\ pc' = "slots" /\ run'.heard = run.heard /\ run'.rows = run.rows
  BY NewSlotFields
<1>2. PICK from \in [DOMAIN run.tmp -> RowsOf(run.heard)] :
         /\ Taken(run.tmp, from)
         /\ \E row \in RowsOf(run.heard) : LeftOf(run.row, row, run.tmp, from)
  BY <1>1 DEF RowsInv
<1>3. PICK row \in RowsOf(run.heard) : LeftOf(run.row, row, run.tmp, from)
  BY <1>2
<1> DEFINE f == [s \in DOMAIN run'.tmp |-> IF s = i THEN row ELSE from[s]]
<1>4. /\ DOMAIN run'.tmp = DOMAIN run.tmp \cup {i} /\ i \notin DOMAIN run.tmp
      /\ run'.tmp[i].master = run.row.master
      /\ run'.tmp[i].replicas = Remapped(run.row.replicas)
      /\ \A s \in DOMAIN run.tmp : run'.tmp[s] = run.tmp[s]
      /\ i \in run.row.slots /\ run'.row.slots = run.row.slots \ {i}
      /\ run'.row.master = run.row.master /\ run'.row.replicas = Remapped(run.row.replicas)
  BY NewSlotFields
<1>5. \A s \in run'.row.slots : i < s
  <2>1. run.row.slots \subseteq Slot /\ \A j \in run.row.slots : i <= j
    BY NewSlotFields DEF InHand
  <2> QED
    BY <1>4, <2>1, NodeManagerAssumption
<1>6. f \in [DOMAIN run'.tmp -> RowsOf(run'.heard)] /\ f[i] = row
      /\ \A s \in DOMAIN run.tmp : f[s] = from[s]
  BY <1>1, <1>4
<1> HIDE DEF f
<1>7. ASSUME NEW s \in DOMAIN run.tmp
      PROVE  /\ s \in f[s].slots
             /\ Named(f[s]) => run'.tmp[s].master = NamedMaster(f[s])
             /\ \/ run'.tmp[s].replicas = Remapped(f[s].replicas)
                \/ \E r \in DOMAIN run'.tmp :
                      /\ r < s /\ f[r] = f[s]
                      /\ run'.tmp[s].replicas = Remapped(run'.tmp[r].replicas)
  BY <1>2, <1>4, <1>6 DEF Taken
<1>8. /\ i \in f[i].slots
      /\ Named(f[i]) => run'.tmp[i].master = NamedMaster(f[i])
      /\ \/ run'.tmp[i].replicas = Remapped(f[i].replicas)
         \/ \E r \in DOMAIN run'.tmp :
               /\ r < i /\ f[r] = f[i]
               /\ run'.tmp[i].replicas = Remapped(run'.tmp[r].replicas)
  BY <1>3, <1>4, <1>6 DEF LeftOf
<1>9. Taken(run'.tmp, f)
  BY <1>4, <1>7, <1>8 DEF Taken
<1>10. LeftOf(run'.row, row, run'.tmp, f)
  BY <1>3, <1>4, <1>5, <1>6 DEF LeftOf
<1>11. \E g \in [DOMAIN run'.tmp -> RowsOf(run'.heard)] :
          /\ Taken(run'.tmp, g)
          /\ \E r \in RowsOf(run'.heard) : LeftOf(run'.row, r, run'.tmp, g)
  BY <1>1, <1>3, <1>6, <1>9, <1>10
<1> QED
  BY <1>1, <1>11 DEF RowsInv, Published

LEMMA RowsOfKnownSlot ==
    ASSUME TypeOK, RunOK, RowsInv, NEW i \in Slot, ParseKnownSlot(i)
    PROVE  RowsInv'
<1>1. /\ pc = "slots" /\ pc' = "slots" /\ run'.heard = run.heard /\ run'.rows = run.rows
      /\ run'.tmp = run.tmp /\ run'.row.slots \subseteq run.row.slots
      /\ run'.row.master = run.row.master /\ run'.row.replicas = run.row.replicas
  BY KnownSlotFields
<1>2. PICK from \in [DOMAIN run.tmp -> RowsOf(run.heard)] :
         /\ Taken(run.tmp, from)
         /\ \E row \in RowsOf(run.heard) : LeftOf(run.row, row, run.tmp, from)
  BY <1>1 DEF RowsInv
<1>3. \A row : LeftOf(run.row, row, run.tmp, from) => LeftOf(run'.row, row, run'.tmp, from)
  BY <1>1 DEF LeftOf
<1> QED
  BY <1>1, <1>2, <1>3 DEF RowsInv, Published

(* What is appended to heard is known from then on, as is what was.        *)
LEMMA RowsOfAnswer ==
    ASSUME TypeOK, RunOK, RowsInv,
           NEW n \in run.left, NEW rows \in Answers[n.addr], Answer(n, rows)
    PROVE  RowsInv'
<1> DEFINE e == [from |-> n.addr, rows |-> rows]
<1>1. rows \in Seq(Row) /\ run.heard \in Seq(HeardAnswer) /\ run'.heard = Append(run.heard, e)
  BY AnswerFields DEF RunOK
<1>2. e \in HeardAnswer /\ e.rows = rows
  BY AnswerFields DEF HeardAnswer, NodeObj
<1> HIDE DEF e
<1>3. RowsOf(run.heard) \subseteq RowsOf(run'.heard)
  <2> SUFFICES ASSUME NEW row \in RowsOf(run.heard) PROVE row \in RowsOf(run'.heard)
    OBVIOUS
  <2>1. PICK i \in DOMAIN run.heard : row \in Range(run.heard[i].rows)
    BY DEF RowsOf
  <2>2. i \in DOMAIN run'.heard /\ run'.heard[i] = run.heard[i]
    BY <1>1, <1>2, <2>1
  <2> QED
    BY <2>1, <2>2 DEF RowsOf
<1>4. \A j \in DOMAIN rows : rows[j] \in RowsOf(run'.heard)
  <2>1. Len(run.heard) + 1 \in DOMAIN run'.heard /\ run'.heard[Len(run.heard) + 1] = e
    BY <1>1, <1>2
  <2>2. \A j \in DOMAIN rows : rows[j] \in Range(e.rows)
    BY <1>2 DEF Range
  <2> QED
    BY <2>1, <2>2 DEF RowsOf
<1>5. \A j \in DOMAIN run'.rows : RowKnown(run'.heard, run'.rows[j])
  <2>1. CASE run'.rows = rows
    BY <1>4, <2>1 DEF RowKnown
  <2>2. ASSUME OnlyServer(rows), NEW h \in Host, run'.rows = <<[rows[1] EXCEPT !.host = h]>>
        PROVE  \A j \in DOMAIN run'.rows : RowKnown(run'.heard, run'.rows[j])
    <3> DEFINE r == [rows[1] EXCEPT !.host = h]
    <3>1. Len(rows) = 1 /\ ~Named(rows[1])
      BY <2>2 DEF OnlyServer, Named
    <3>2. 1 \in DOMAIN rows
      BY <1>1, <3>1
    <3>3. r.slots = rows[1].slots /\ r.replicas = rows[1].replicas
      BY <1>1, <3>2 DEF Row
    <3> HIDE DEF r
    <3>4. RowKnown(run'.heard, r)
      BY <1>4, <3>1, <3>2, <3>3 DEF RowKnown
    <3>5. run'.rows = <<r>>
      BY <2>2 DEF r
    <3> QED
      BY <3>4, <3>5
  <2> QED
    BY <2>1, <2>2, AnswerFields
<1>6. pc' = "rows" /\ run'.tmp = run.tmp
  BY AnswerFields
<1>7. \E from \in [DOMAIN run'.tmp -> RowsOf(run'.heard)] : Taken(run'.tmp, from)
  <2>1. PICK from \in [DOMAIN run.tmp -> RowsOf(run.heard)] : Taken(run.tmp, from)
    BY DEF RowsInv
  <2>2. from \in [DOMAIN run.tmp -> RowsOf(run'.heard)]
    BY <1>3
  <2> QED
    BY <1>6, <2>1, <2>2
<1> QED
  BY <1>5, <1>6, <1>7 DEF RowsInv, Published

(* The table published gives a slot the master of one row of one answer    *)
(* and that row's replicas, remapped once for each new slot of the row,    *)
(* however many answers it was put together from.                          *)
THEOREM PublishedRowsAreNotMixed == Spec => []RowsAreNotMixed
<1>1. Init => RowsInv
  <2> SUFFICES ASSUME Init PROVE RowsInv
    OBVIOUS
  <2>1. run.rows = <<>> /\ run.tmp = <<>> /\ pc = "idle" /\ run.outcome = "none"
    BY DEF Init, Over
  <2> QED
    BY <2>1, EmptyTable DEF RowsInv, Published
<1>2. TypeOK /\ RunOK /\ RowsInv /\ [Next]_vars => RowsInv'
  <2> SUFFICES ASSUME TypeOK, RunOK, RowsInv, [Next]_vars PROVE RowsInv'
    OBVIOUS
  <2>1. CASE (\E n \in run.left : OutOfReach(n) \/ AnswerIsDown(n)) \/ CheckCoverage
    BY <2>1, VisitingSteps DEF RowsInv
  <2>2. CASE \/ \E n \in run.left : AnswerIsError(n)
             \/ \E i \in Slot : TooManyDisagreements(i)
             \/ CoverageIsError \/ GiveUp
    BY <2>2, RaisingSteps, EmptyTable DEF RowsInv
  <2>3. ASSUME NEW n \in run.left, NEW rows \in Answers[n.addr], Answer(n, rows)
        PROVE  RowsInv'
    BY <2>3, RowsOfAnswer
  <2>4. CASE ParseRow \/ \E i \in Slot : ParseNewSlot(i) \/ ParseKnownSlot(i)
    BY <2>4, RowsOfParseRow, RowsOfNewSlot, RowsOfKnownSlot
  <2>5. CASE EndRow
    BY <2>5, EndRowFields DEF RowsInv, Published
  <2>6. CASE Start
    <3>1. run'.rows = <<>> /\ run'.tmp = <<>> /\ pc' = "visit"
      BY <2>6 DEF Start, Fresh, Over
    <3> QED
      BY <3>1, EmptyTable DEF RowsInv, Published
  <2>7. CASE NodesChange \/ UNCHANGED vars
    BY <2>7 DEF NodesChange, vars, RowsInv, Published
  <2>8. CASE SwapSlots
    BY <2>8 DEF SwapSlots, RowsInv, Published
  <2>9. CASE SwapNodes
    <3>1. /\ pc = "swap_nodes" /\ pc' = "idle" /\ slots' = slots
          /\ run'.rows = <<>> /\ run'.tmp = <<>> /\ run'.heard = run.heard
      BY <2>9 DEF SwapNodes, Over
    <3>2. TableKnown(slots', run'.heard)
      BY <3>1 DEF RowsInv, TableKnown
    <3> QED
      BY <3>1, <3>2, EmptyTable DEF RowsInv
  <2> QED
    BY <2>1, <2>2, <2>3, <2>4, <2>5, <2>6, <2>7, <2>8, <2>9 DEF Next, Initialize, Visit, ParseSlot
<1>3. RowsInv => RowsAreNotMixed
  BY DEF RowsInv, TableKnown, RowsOf, RowsAreNotMixed, HeardRows, Heard
<1> QED
  BY <1>1, <1>2, <1>3, RunTypes, PTL DEF Spec
=============================================================================
