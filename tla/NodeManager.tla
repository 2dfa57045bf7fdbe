----------------------------- MODULE NodeManager -----------------------------
(***************************************************************************)
(* rediscluster/nodemanager.py: how initialize builds the slots and nodes  *)
(* tables from what the startup nodes answer to CLUSTER SLOTS, node after  *)
(* node, row after row and slot after slot, and what becomes of            *)
(* startup_nodes meanwhile.                                                *)
(*                                                                         *)
(* One caller runs at a time; RedisCluster has the concurrent ones.  The   *)
(* answers are arbitrary: nodes of a cluster in motion disagree, know only *)
(* part of it, or do not know their own host.                              *)
(***************************************************************************)
EXTENDS Integers, Sequences, FiniteSets, SequencesExt

CONSTANTS
    Host, Port, Slot,
    Unnamed,             \* the host '' of a row about the answering node
    Orig,                \* the addresses of orig_startup_nodes
    Answers,             \* what each address may answer to CLUSTER SLOTS
    Rules,               \* host_port_remap
    RequireFull,         \* the servers' cluster-require-full-coverage
    SkipCoverageCheck,   \* skip_full_coverage_check
    FollowCluster,       \* nodemanager_follow_cluster
    MaxDisagreements     \* 5

Addr == Host \X Port
Type == {"none", "master", "slave"}     \* "none": given by the user, no server_type
NodeObj == [addr : Addr, type : Type]

(* A row of CLUSTER SLOTS: slots, the master's host and port, replicas.    *)
Row == [slots : SUBSET Slot, host : Host \cup {Unnamed}, port : Port, replicas : SUBSET Addr]

(* What _validate_host_port_remap accepts: from and to go together.        *)
RuleFields == {{}, {"from_host", "to_host"}, {"from_port", "to_port"},
               {"from_host", "to_host", "from_port", "to_port"}}

ASSUME NodeManagerAssumption ==
    /\ Unnamed \notin Host
    /\ Slot \subseteq Nat
    /\ Rules \in Seq(UNION {[fields -> Host \cup Port] : fields \in RuleFields})
    /\ \A i \in DOMAIN Rules :
          /\ "from_host" \in DOMAIN Rules[i] => Rules[i].to_host \in Host
          /\ "from_port" \in DOMAIN Rules[i] => Rules[i].to_port \in Port
    /\ Orig \subseteq Addr /\ Orig # {}
    /\ Answers \in [Addr -> SUBSET Seq(Row)]
    /\ RequireFull \in BOOLEAN /\ SkipCoverageCheck \in BOOLEAN /\ FollowCluster \in BOOLEAN
    /\ MaxDisagreements \in Nat

VARIABLES
    slots, nodes, startup,   \* the attributes of the NodeManager
    pc, run,                 \* initialize: its next statement and its locals
    dead                     \* the addresses that do not answer

vars == <<slots, nodes, startup, pc, run, dead>>

Given(addrs) == {[addr |-> a, type |-> "none"] : a \in addrs}
Objects(table) == {[addr |-> a, type |-> table[a]] : a \in DOMAIN table}

(* A from_port given as a string matches no port.  A host that is a name   *)
(* is not compared here: _ips_equal raises ValueError for it, out of       *)
(* initialize.                                                             *)
Applies(rule, a) ==
    /\ DOMAIN rule \cap {"from_host", "from_port"} # {}
    /\ "from_host" \in DOMAIN rule => rule.from_host = a[1]
    /\ "from_port" \in DOMAIN rule => rule.from_port = a[2]

(* The first rule that matches the address replaces what it names.         *)
Remap(a) ==
    LET first == {i \in DOMAIN Rules : /\ Applies(Rules[i], a)
                                       /\ \A j \in 1 .. i - 1 : ~Applies(Rules[j], a)} IN
    IF first = {} THEN a
    ELSE LET rule == Rules[CHOOSE i \in first : TRUE] IN
         << IF "from_host" \in DOMAIN rule THEN rule.to_host ELSE a[1],
            IF "from_port" \in DOMAIN rule THEN rule.to_port ELSE a[2] >>

(* dict.update. *)
Update(dict, new) ==
    [x \in DOMAIN dict \cup DOMAIN new |-> IF x \in DOMAIN new THEN new[x] ELSE dict[x]]

(* The locals of initialize.  `host` is that of the variable `node`, which *)
(* the loop over the rows rebinds; `row` is what is left of the row being  *)
(* parsed.  For the properties, `heard` records the answers taken and      *)
(* `before` the tables at the call; of a call that is over only what they  *)
(* need is kept.                                                           *)
Over == [left |-> {}, rows |-> <<>>, row |-> <<>>, host |-> Unnamed, tmp |-> <<>>, cache |-> <<>>,
         clashes |-> 0, reachable |-> FALSE, covered |-> FALSE, rebound |-> FALSE, heard |-> <<>>,
         needed |-> FALSE, refused |-> FALSE, before |-> <<<<>>, <<>>>>, outcome |-> "none"]

Fresh == [Over EXCEPT !.left = IF FollowCluster THEN startup ELSE Given(Orig),
                      !.before = <<slots, nodes>>]

Init ==
    /\ slots = <<>> /\ nodes = <<>>
    /\ startup = Given(Orig)
    /\ pc = "idle"
    /\ run = Over
    /\ dead \in SUBSET Addr

(* Nodes die and come back between two calls. *)
NodesChange ==
    /\ pc = "idle"
    /\ dead' \in SUBSET Addr
    /\ UNCHANGED <<slots, nodes, startup, pc, run>>

Start ==
    /\ pc = "idle"
    /\ pc' = "visit"
    /\ run' = Fresh
    /\ UNCHANGED <<slots, nodes, startup, dead>>

Raise(outcome) ==
    /\ pc' = "idle"
    /\ run' = [Over EXCEPT !.before = run.before, !.outcome = outcome]
    /\ UNCHANGED <<slots, nodes, startup, dead>>

-----------------------------------------------------------------------------
(* Asking the next startup node.  They are visited in any order: that of   *)
(* the user's list, or of the set populate_startup_nodes made of it.       *)

(* Seeded bug: a node that cannot be reached is tried until it can. *)
OutOfReachRetries(n) ==
    /\ pc = "visit" /\ n \in run.left /\ n.addr \in dead
    /\ UNCHANGED vars

OutOfReach(n) ==
    /\ pc = "visit" /\ n \in run.left /\ n.addr \in dead
    /\ run' = [run EXCEPT !.left = @ \ {n}]
    /\ UNCHANGED <<slots, nodes, startup, pc, dead>>

(* CLUSTERDOWN or MASTERDOWN. *)
AnswerIsDown(n) ==
    /\ pc = "visit" /\ n \in run.left /\ n.addr \notin dead
    /\ run' = [run EXCEPT !.left = @ \ {n}, !.refused = TRUE]
    /\ UNCHANGED <<slots, nodes, startup, pc, dead>>

AnswerIsError(n) ==
    /\ pc = "visit" /\ n \in run.left /\ n.addr \notin dead
    /\ Raise("error")

(* If there is only one server in the cluster, its host is ''. *)
OnlyServer(rows) == Len(rows) = 1 /\ rows[1].host = Unnamed /\ Cardinality(startup) = 1

Answer(n, rows) ==
    /\ pc = "visit" /\ n \in run.left /\ n.addr \notin dead
    /\ pc' = "rows"
    /\ run' = [run EXCEPT
                  !.left = @ \ {n}, !.reachable = TRUE, !.covered = TRUE, !.host = n.addr[1],
                  !.rows = IF OnlyServer(rows)
                           THEN <<[rows[1] EXCEPT !.host = (CHOOSE m \in startup : TRUE).addr[1]]>>
                           ELSE rows,
                  !.heard = Append(@, [from |-> n.addr, rows |-> rows])]
    /\ UNCHANGED <<slots, nodes, startup, dead>>

-----------------------------------------------------------------------------
(* Parsing a row: its master, then slot after slot, and at its end         *)
(* populate_startup_nodes.                                                 *)

Master(row) == Remap(<<IF row.host = Unnamed THEN run.host ELSE row.host, row.port>>)

ParseRow ==
    /\ pc = "rows" /\ run.rows # <<>>
    /\ pc' = "slots"
    /\ LET row == Head(run.rows) IN
       run' = [run EXCEPT
                  !.rows = Tail(@), !.host = Master(row)[1],
                  !.row = [slots |-> row.slots, master |-> Master(row), replicas |-> row.replicas],
                  !.cache = Update(@, [a \in {Master(row)} |-> "master"])]
    /\ UNCHANGED <<slots, nodes, startup, dead>>

(* The slots of the row are gone through in ascending order.               *)
NextSlot(i) == pc = "slots" /\ i \in run.row.slots /\ \A j \in run.row.slots : i <= j

(* The rules are applied to the row itself, which is not parsed again but  *)
(* is read again for the next new slot: its replicas are remapped further. *)
Remapped(addrs) == {Remap(a) : a \in addrs}

WithNewSlot(i) ==
    LET replicas == Remapped(run.row.replicas)
        entry == [master |-> run.row.master, replicas |-> replicas] IN
    [run EXCEPT !.row = [run.row EXCEPT !.slots = run.row.slots \ {i}, !.replicas = replicas],
                !.tmp = Update(run.tmp, [s \in {i} |-> entry]),
                !.cache = Update(run.cache, [a \in replicas |-> "slave"])]

(* Seeded bug: the slots table is filled in as the rows are parsed. *)
ParseNewSlotInPlace(i) ==
    /\ NextSlot(i) /\ i \notin DOMAIN run.tmp
    /\ run' = WithNewSlot(i)
    /\ slots' = WithNewSlot(i).tmp
    /\ UNCHANGED <<nodes, startup, pc, dead>>

ParseNewSlot(i) ==
    /\ NextSlot(i) /\ i \notin DOMAIN run.tmp
    /\ run' = WithNewSlot(i)
    /\ UNCHANGED <<slots, nodes, startup, pc, dead>>

(* A slot known from another row keeps its entry.  If the masters are not  *)
(* the same it is a disagreement.                                          *)
Clashes(i) == run.clashes + IF run.tmp[i].master = run.row.master THEN 0 ELSE 1

(* Seeded bug: the replicas are taken of every row, not of the first only. *)
ParseKnownSlotMixes(i) ==
    /\ NextSlot(i) /\ i \in DOMAIN run.tmp
    /\ Clashes(i) <= MaxDisagreements
    /\ run' = [run EXCEPT !.row.slots = @ \ {i}, !.clashes = Clashes(i),
                          !.tmp[i].replicas = @ \cup Remapped(run.row.replicas)]
    /\ UNCHANGED <<slots, nodes, startup, pc, dead>>

ParseKnownSlot(i) ==
    /\ NextSlot(i) /\ i \in DOMAIN run.tmp
    /\ Clashes(i) <= MaxDisagreements
    /\ run' = [run EXCEPT !.row = [run.row EXCEPT !.slots = run.row.slots \ {i}],
                          !.clashes = Clashes(i)]
    /\ UNCHANGED <<slots, nodes, startup, pc, dead>>

TooManyDisagreements(i) ==
    /\ NextSlot(i) /\ i \in DOMAIN run.tmp
    /\ Clashes(i) > MaxDisagreements
    /\ Raise("disagreement")

(* populate_startup_nodes adds what `nodes` holds, the table of the call   *)
(* before.  The first time it appends to the very list a following manager *)
(* is iterating over; then it is a new list.                               *)
Populated == startup \cup Objects(nodes)
StillLeft == IF FollowCluster /\ ~run.rebound THEN run.left \cup (Populated \ startup)
             ELSE run.left

EndRow ==
    /\ pc = "slots" /\ run.row.slots = {}
    /\ pc' = "rows"
    /\ run' = [run EXCEPT !.row = <<>>, !.left = StillLeft, !.rebound = TRUE]
    /\ startup' = Populated
    /\ UNCHANGED <<slots, nodes, dead>>

ParseSlot == \E i \in Slot : ParseNewSlot(i) \/ ParseKnownSlot(i) \/ TooManyDisagreements(i)

-----------------------------------------------------------------------------
(* Is what the answers cover enough?                                       *)

(* cluster_require_full_coverage asks every node parsed so far, those of   *)
(* the old table if there is none; one that is dead does not require it.   *)
NeedFull ==
    /\ ~SkipCoverageCheck /\ RequireFull
    /\ \E a \in DOMAIN (IF run.cache = <<>> THEN nodes ELSE run.cache) : a \notin dead

CoverageIsError ==
    /\ pc = "rows" /\ run.rows = <<>> /\ ~SkipCoverageCheck
    /\ Raise("error")

(* Seeded bug: slots that are missing do not clear all_slots_covered. *)
CheckCoverageKeeps ==
    /\ pc = "rows" /\ run.rows = <<>>
    /\ run' = [run EXCEPT !.needed = NeedFull]
    /\ pc' = "swap_slots"
    /\ UNCHANGED <<slots, nodes, startup, dead>>

CheckCoverage ==
    /\ pc = "rows" /\ run.rows = <<>>
    /\ LET covered == ~NeedFull \/ DOMAIN run.tmp = Slot IN
       /\ run' = [run EXCEPT !.covered = covered, !.needed = NeedFull]
       /\ pc' = IF covered THEN "swap_slots" ELSE "visit"
    /\ UNCHANGED <<slots, nodes, startup, dead>>

GiveUp ==
    /\ pc = "visit" /\ run.left = {}
    /\ Raise(IF run.reachable THEN "uncovered" ELSE "unreachable")

-----------------------------------------------------------------------------
(* Success: the two tables are replaced.                                   *)

SwapSlots ==
    /\ pc = "swap_slots"
    /\ slots' = run.tmp
    /\ pc' = "swap_nodes"
    /\ UNCHANGED <<nodes, startup, run, dead>>

(* Seeded bug: only the first initialize sets nodes. *)
SwapNodesOnce ==
    /\ pc = "swap_nodes"
    /\ nodes' = IF nodes = <<>> THEN run.cache ELSE nodes
    /\ pc' = "idle"
    /\ run' = [Over EXCEPT !.heard = run.heard, !.needed = run.needed, !.outcome = "ok"]
    /\ UNCHANGED <<slots, startup, dead>>

SwapNodes ==
    /\ pc = "swap_nodes"
    /\ nodes' = run.cache
    /\ pc' = "idle"
    /\ run' = [Over EXCEPT !.heard = run.heard, !.needed = run.needed, !.outcome = "ok"]
    /\ UNCHANGED <<slots, startup, dead>>

Visit == \E n \in run.left : \/ OutOfReach(n) \/ AnswerIsDown(n) \/ AnswerIsError(n)
                             \/ \E rows \in Answers[n.addr] : Answer(n, rows)

Initialize == \/ Visit \/ ParseRow \/ ParseSlot \/ EndRow \/ CoverageIsError
              \/ CheckCoverage \/ GiveUp \/ SwapSlots \/ SwapNodes

Next == NodesChange \/ Start \/ Initialize

Spec == Init /\ [][Next]_vars

FairSpec == Spec /\ WF_vars(Initialize)

-----------------------------------------------------------------------------
Table == [master : Addr, replicas : SUBSET Addr]
Tables(table) == DOMAIN table \subseteq Slot /\ \A s \in DOMAIN table : table[s] \in Table
Caches(cache) == DOMAIN cache \subseteq Addr /\ \A a \in DOMAIN cache : cache[a] \in {"master", "slave"}

(* The tables, published or being parsed, hold addresses under slots and   *)
(* addresses.                                                              *)
TypeOK ==
    /\ Tables(slots) /\ Tables(run.tmp)
    /\ Caches(nodes) /\ Caches(run.cache)
    /\ startup \subseteq NodeObj /\ run.left \subseteq NodeObj
    /\ pc \in {"idle", "visit", "rows", "slots", "swap_slots", "swap_nodes"}
    /\ run.clashes \in 0 .. MaxDisagreements

Published == pc = "idle" /\ run.outcome = "ok"

(* An initialize that raises, wherever that is, leaves the two tables as   *)
(* they were.                                                              *)
AllOrNothing ==
    pc = "idle" /\ run.outcome # "ok" => <<slots, nodes>> = run.before

(* Every address in the slots table is in the nodes table, where ASK and   *)
(* the commands for all nodes look for it.                                 *)
SlotsAreOfNodes ==
    Published => \A s \in DOMAIN slots :
                    {slots[s].master} \cup slots[s].replicas \subseteq DOMAIN nodes

(* The table published covers every slot if a node that could be asked     *)
(* requires it.                                                            *)
CoversWhatIsRequired == Published /\ run.needed => DOMAIN slots = Slot

(* The rows of the i-th answer, and the master a row names.                *)
Heard(i) == Range(run.heard[i].rows)
Named(row) == row.host # Unnamed
NamedMaster(row) == Remap(<<row.host, row.port>>)

(* Every slot is taken from one row of one answer: its master is what the  *)
(* row names, and its replicas are the row's, remapped once, or those of a *)
(* lower slot taken from the row, remapped once more.                      *)
HeardRows == UNION {Heard(i) : i \in DOMAIN run.heard}

Taken(table, from) ==
    \A s \in DOMAIN table :
        /\ s \in from[s].slots
        /\ Named(from[s]) => table[s].master = NamedMaster(from[s])
        /\ \/ table[s].replicas = Remapped(from[s].replicas)
           \/ \E r \in DOMAIN table : /\ r < s /\ from[r] = from[s]
                                     /\ table[s].replicas = Remapped(table[r].replicas)

(* Never one row's master with another's replicas, whichever answers the   *)
(* table was put together from and however the rules chain.                *)
RowsAreNotMixed == Published => \E from \in [DOMAIN slots -> HeardRows] : Taken(slots, from)

(* A replica is remapped by the first rule that matches it and by no other. *)
RemappedOnce ==
    Published => \A s \in DOMAIN slots : \E row \in HeardRows :
                    s \in row.slots /\ slots[s].replicas = Remapped(row.replicas)

(* The answers the table was built from differ from it on no more than     *)
(* MaxDisagreements slots, counted once for each answer.                   *)
Disputes(i) == {s \in Slot : \E row \in Heard(i) :
                   s \in row.slots /\ Named(row) /\ slots[s].master # NamedMaster(row)}

FewDisagreements ==
    Published => Cardinality(UNION {{i} \X Disputes(i) : i \in DOMAIN run.heard})
                    <= MaxDisagreements

(* What one answer says of a slot's master is what another says.           *)
AnswersAgree ==
    Published => \A i, k \in DOMAIN run.heard : \A one \in Heard(i), two \in Heard(k) :
                    one.slots \cap two.slots # {} /\ Named(one) /\ Named(two)
                        => NamedMaster(one) = NamedMaster(two)

(* A row with the host '' is about the node that answered.                 *)
UnnamedIsTheAnswerer ==
    Published /\ Len(run.heard) = 1 =>
        \A row \in Heard(1), s \in Slot :
            s \in row.slots /\ ~Named(row)
                => slots[s].master = Remap(<<run.heard[1].from[1], row.port>>)

(* startup_nodes holds no node twice.                                      *)
StartupNodesUnique == \A m, n \in startup : m.addr = n.addr => m = n

(* A manager that follows the cluster loses touch with it only when all    *)
(* the nodes it was operating on are out of reach.                         *)
FollowsItsNodes ==
    FollowCluster /\ pc = "visit" /\ run.left = {} /\ ~run.reachable /\ ~run.refused
        => DOMAIN nodes \subseteq dead

(* Every initialize returns or raises. *)
Terminates == pc # "idle" ~> pc = "idle"
=============================================================================
