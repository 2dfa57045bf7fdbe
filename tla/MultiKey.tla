------------------------------- MODULE MultiKey -------------------------------
(***************************************************************************)
(* The commands on several keys that RedisCluster (rediscluster/client.py) *)
(* makes out of commands on one key: a method sends a request, waits for   *)
(* its reply and decides on the next one, while other clients do the same  *)
(* and keys expire.  A request may be executed more than once, because the *)
(* loop of _execute_command sends it again when its reply is lost, and it  *)
(* may raise, which leaves the method where it is.                         *)
(*                                                                         *)
(* A method is the sequence of its requests; those that depend on earlier  *)
(* replies take them from `got`.  LeavesEarly has its early returns.       *)
(***************************************************************************)
EXTENDS Integers, Sequences, FiniteSets, SequencesExt, Functions

CONSTANTS
    Client,
    Key,
    SlotOf,      \* the slot of each key, as the client has it
    ServerSlot,  \* and as the servers have it
    Atom,        \* what strings are made of; the elements of lists and sets
    Empty,       \* the string of no characters, one of Atom
    Temp,        \* the keys that pfmerge makes up, a sequence for each client
    Loads,       \* what the servers hold at first and what clients then call
    MaxFaults    \* requests that fail, replies that are lost, keys that expire (bound)

(* Values and replies.  A string is the set of the atoms that a HyperLogLog *)
(* has counted, or of one atom.                                            *)
Datum(kind, items) == [kind |-> kind, items |-> items]
None    == Datum("none", {})
Error   == Datum("error", {})
Num(n)  == Datum("int", n)
Entry(kind, items, ttl) == [kind |-> kind, items |-> items, ttl |-> ttl]
Missing == Entry("none", {}, FALSE)
Plain(e) == Datum(e.kind, e.items)
Exists(e) == e.kind # "none"
Truthy(r) == r \notin {None, Datum("string", {Empty})}

(* What a key may hold: no list and no set is empty.                       *)
Held ==
    {Missing} \cup [kind : {"string"}, items : SUBSET Atom, ttl : BOOLEAN]
              \cup [kind : {"list"}, items : Seq(Atom) \ {<<>>}, ttl : BOOLEAN]
              \cup [kind : {"set"}, items : (SUBSET Atom) \ {{}}, ttl : BOOLEAN]

Command == {"mget", "mset", "msetnx", "delete", "rename", "renamenx", "rpoplpush", "brpoplpush",
            "smove", "sdiff", "sinter", "sunion", "sdiffstore", "sinterstore", "sunionstore",
            "pfmerge"}
Moving  == {"rpoplpush", "brpoplpush", "smove"}

(* The calls that get as far as a request: rename raises at once when its  *)
(* keys are the same, and an empty list of keys is not for these methods.  *)
(* mset takes a dict; pfmerge makes up a key for every source, for dest    *)
(* and for the result.                                                     *)
Callable(c) ==
    /\ c.cmd \in Command /\ c.keys \in Seq(Key) \ {<<>>} /\ c.dst \in Key
    /\ c.arg \in Seq([kind : {"string"}, items : SUBSET Atom])
    /\ c.cmd \in {"mset", "msetnx"} => IsInjective(c.keys) /\ Len(c.arg) = Len(c.keys)
    /\ c.cmd = "smove" => c.arg # <<>> /\ \E e \in Atom : c.arg[1].items = {e}
    /\ c.cmd \in {"rename", "renamenx"} \cup Moving => Len(c.keys) = 1
    /\ c.cmd \in {"rename", "renamenx"} => Head(c.keys) # c.dst
    /\ c.cmd = "pfmerge" =>
           \A p \in Client : /\ Len(Temp[p]) > Len(c.keys) + 1
                             /\ Range(Temp[p]) \cap (Range(c.keys) \cup {c.dst}) = {}

OneSlot(keys) == \A j, k \in keys : ServerSlot[j] = ServerSlot[k]

ASSUME MultiKeyAssumption ==
    /\ Empty \in Atom /\ IsFiniteSet(Key) /\ IsFiniteSet(Client)
    /\ Temp \in [Client -> Seq(Key)]
    /\ \A p \in Client : IsInjective(Temp[p]) /\ OneSlot(Range(Temp[p]))
    /\ \A l \in Loads : l.db \in [Key -> Held] /\ \A c \in l.calls : Callable(c)
    /\ MaxFaults \in Nat

VARIABLES
    load,      \* one of Loads
    db,        \* what the servers hold
    call,      \* what each client is executing, or has executed
    faults

vars == <<load, db, call, faults>>

(* `got` are the replies so far.  For the properties, `before` is what    *)
(* its keys were when the method was called, `alone` says that nobody else  *)
(* has changed its keys since, and `smooth` that no reply was lost and no  *)
(* request failed.                                                         *)
Idle == [pc |-> "idle", cmd |-> "none", keys |-> <<>>, dst |-> "none", arg |-> <<>>, temp |-> <<>>,
         got |-> <<>>, result |-> None, before |-> <<>>, alone |-> TRUE, smooth |-> TRUE]

Init ==
    /\ load \in Loads
    /\ db = load.db
    /\ call = [p \in Client |-> Idle]
    /\ faults = 0

KeysOf(c) == IF c.pc = "idle" THEN {} ELSE Range(c.keys) \cup {c.dst} \cup Range(c.temp)

-----------------------------------------------------------------------------
(* The methods, as requests; Got(c, i) is the i-th reply.                  *)

Ask(op, k)    == [op |-> op, key |-> k, arg |-> None]
Put(op, k, v) == [op |-> op, key |-> k, arg |-> v]
Each(op, keys) == [i \in DOMAIN keys |-> Ask(op, keys[i])]

Got(c, i) == IF i \in DOMAIN c.got THEN c.got[i] ELSE None
Src(c) == Head(c.keys)

mget(c)   == Each("GET", c.keys)
mset(c)   == [i \in DOMAIN c.keys |-> Put("SET", c.keys[i], c.arg[i])]
msetnx(c) == Each("GET", c.keys) \o mset(c)
delete(c) == Each("DEL", c.keys)

(* `n` is the number of replies that renamenx got before.  Seeded bug: src *)
(* is deleted before dst is restored.                                      *)
Restored(c, n) == [data |-> Got(c, n + 1), ttl |-> Got(c, n + 2)]

RenameDeletesFirst(c, n) ==
    <<Ask("DUMP", Src(c)), Ask("PTTL", Src(c)), Ask("DEL", c.dst), Ask("DEL", Src(c)),
      Put("RESTORE", c.dst, Restored(c, n))>>
CrossSlotRename(c, n) ==
    <<Ask("DUMP", Src(c)), Ask("PTTL", Src(c)), Ask("DEL", c.dst),
      Put("RESTORE", c.dst, Restored(c, n)), Ask("DEL", Src(c))>>

rename(c, n) ==
    IF SlotOf[Src(c)] = SlotOf[c.dst] THEN <<Put("RENAME", Src(c), c.dst)>>
    ELSE CrossSlotRename(c, n)
renamenx(c)  == <<Ask("EXISTS", c.dst)>> \o rename(c, 1)

rpoplpush(c)  == <<Ask("RPOP", Src(c)), Put("LPUSH", c.dst, Got(c, 1))>>
brpoplpush(c) == <<Ask("BRPOP", Src(c)), Put("LPUSH", c.dst, Got(c, 1))>>
smove(c)      == <<Put("SREM", Src(c), c.arg[1]), Put("SADD", c.dst, c.arg[1])>>

Smembers(c) == Each("SMEMBERS", c.keys)
Combined(cmd, sets) ==
    CASE cmd \in {"sdiff", "sdiffstore"}   -> Head(sets) \ UNION Range(Tail(sets))
      [] cmd \in {"sinter", "sinterstore"} -> {x \in Head(sets) : \A s \in Range(sets) : x \in s}
      [] cmd \in {"sunion", "sunionstore"} -> UNION Range(sets)
res(c) == Combined(c.cmd, [i \in DOMAIN c.keys |-> Got(c, i).items])
Store(c) == Smembers(c) \o <<Ask("DEL", c.dst), Put("SADD", c.dst, Datum("set", res(c)))>>

(* Every source, and dest when it holds something, goes into a temporary   *)
(* key of one slot; PFMERGE merges these into the last one.                *)
all_hll_objects(c) ==
    LET n == Len(c.keys)
    IN  [i \in 1 .. IF Truthy(Got(c, n + 1)) THEN n + 1 ELSE n |-> Got(c, i)]

pfmerge(c) ==
    LET hlls  == all_hll_objects(c)
        all_k == SubSeq(c.temp, 1, Len(hlls))
        tmp_dest == Last(c.temp)
    IN  Each("GET", Append(c.keys, c.dst))
            \o [i \in DOMAIN hlls |-> Put("SET", all_k[i], hlls[i])]
            \o <<Put("PFMERGE", tmp_dest, all_k), Ask("GET", tmp_dest),
                 Put("SET", c.dst, Got(c, Len(c.keys) + Len(hlls) + 3)), Ask("DEL", tmp_dest)>>
            \o Each("DEL", all_k)

Requests(c) ==
    CASE c.cmd = "mget" -> mget(c)             [] c.cmd = "mset" -> mset(c)
      [] c.cmd = "msetnx" -> msetnx(c)         [] c.cmd = "delete" -> delete(c)
      [] c.cmd = "rename" -> rename(c, 0)      [] c.cmd = "renamenx" -> renamenx(c)
      [] c.cmd = "rpoplpush" -> rpoplpush(c)   [] c.cmd = "brpoplpush" -> brpoplpush(c)
      [] c.cmd = "smove" -> smove(c)           [] c.cmd = "pfmerge" -> pfmerge(c)
      [] c.cmd \in {"sdiff", "sinter", "sunion"} -> Smembers(c)
      [] c.cmd \in {"sdiffstore", "sinterstore", "sunionstore"} -> Store(c)

(* Seeded bugs: smove adds what it has not removed, and an empty           *)
(* difference or intersection is stored too.                               *)
AddsAnyway(op, r) == FALSE
NotRemoved(op, r) == op = "SREM" /\ r # Num(1)

StoresAnyway(c, op) == FALSE
NothingToStore(c, op) == c.cmd \in {"sdiffstore", "sinterstore"} /\ op = "DEL" /\ res(c) = {}

(* The method returns or raises when `op` is answered with `r`.            *)
LeavesEarly(c, op, r) ==
    \/ r = Error \/ NotRemoved(op, r) \/ NothingToStore(c, op)
    \/ c.cmd = "msetnx" /\ op = "GET" /\ Truthy(r)
    \/ op = "EXISTS" /\ r = Num(1)
    \/ op \in {"DUMP", "BRPOP"} /\ r = None
    \/ op = "RPOP" /\ ~Truthy(r)
EarlyResult(op, r) ==
    IF op = "DUMP" \/ r = Error THEN Error ELSE IF op \in {"RPOP", "BRPOP"} THEN None ELSE Num(0)

(* The result of a method that gets to its end.                            *)
Result(c) ==
    CASE c.cmd = "mget" -> Datum("many", c.got)
      [] c.cmd = "delete" -> Num(Cardinality({i \in DOMAIN c.got : c.got[i] = Num(1)}))
      [] c.cmd \in Moving -> Head(c.got)
      [] c.cmd \in {"sdiff", "sinter", "sunion"} -> Datum("set", res(c))
      [] c.cmd \in {"sdiffstore", "sunionstore"} -> Last(c.got)
      [] c.cmd = "sinterstore" -> Num(Cardinality(res(c)))
      [] c.cmd \in {"mset", "msetnx", "rename", "renamenx", "pfmerge"} -> Num(1)

-----------------------------------------------------------------------------
(* The servers: what a request is answered with and what it changes.       *)

Expects == [GET |-> "string", RPOP |-> "list", BRPOP |-> "list", LPUSH |-> "list",
            SMEMBERS |-> "set", SADD |-> "set", SREM |-> "set"]

(* The third is a DataError of the client, the fourth BUSYKEY, the sixth   *)
(* and the seventh CROSSSLOT.                                              *)
Refused(d, r) ==
    \/ r.op \in DOMAIN Expects /\ d[r.key].kind \notin {"none", Expects[r.op]}
    \/ r.op = "PFMERGE" /\ \E k \in {r.key} \cup Range(r.arg) : d[k].kind \notin {"none", "string"}
    \/ r.op = "SET" /\ r.arg = None
    \/ r.op = "RESTORE" /\ Exists(d[r.key])
    \/ r.op = "RENAME" /\ ~Exists(d[r.key])
    \/ r.op = "RENAME" /\ ~OneSlot({r.key, r.arg})
    \/ r.op = "PFMERGE" /\ ~OneSlot({r.key} \cup Range(r.arg))
    \/ r.op = "SADD" /\ r.arg.items = {}

Only(s) == CHOOSE x \in s : TRUE

Served(d, r) ==
    LET e == d[r.key]
        Says(reply) == [reply |-> reply, db |-> d]
        Sets(reply, new) == [reply |-> reply, db |-> [d EXCEPT ![r.key] = new]]
        Has(test) == Num(IF test THEN 1 ELSE 0)
        Items(kind) == IF Exists(e) THEN e.items ELSE IF kind = "list" THEN <<>> ELSE {}
    IN  CASE r.op \in {"GET", "DUMP"} -> Says(Plain(e))
          [] r.op = "EXISTS" -> Says(Has(Exists(e)))
          [] r.op = "PTTL" -> Says(Has(e.ttl))
          [] r.op = "SMEMBERS" -> Says(Datum("set", Items("set")))
          [] r.op = "SET" -> Sets(Num(1), Entry("string", r.arg.items, FALSE))
          [] r.op = "DEL" -> Sets(Has(Exists(e)), Missing)
          [] r.op = "RESTORE" -> Sets(Num(1), Entry(r.arg.data.kind, r.arg.data.items, r.arg.ttl = Num(1)))
          [] r.op = "RENAME" -> [Sets(Num(1), Missing) EXCEPT !.db[r.arg] = e]
          [] r.op \in {"RPOP", "BRPOP"} ->
                 IF Exists(e) THEN Sets(Datum("string", {Last(e.items)}),
                                          IF Len(e.items) = 1 THEN Missing
                                          ELSE Entry("list", Front(e.items), e.ttl))
                 ELSE Says(None)
          [] r.op = "LPUSH" -> Sets(Num(1), Entry("list", <<Only(r.arg.items)>> \o Items("list"), e.ttl))
          [] r.op = "SREM" -> Sets(Has(r.arg.items \subseteq Items("set")),
                                   IF Items("set") \subseteq r.arg.items THEN Missing
                                   ELSE Entry("set", e.items \ r.arg.items, e.ttl))
          [] r.op = "SADD" -> Sets(Num(Cardinality(r.arg.items \ Items("set"))),
                                   Entry("set", Items("set") \cup r.arg.items, e.ttl))
          [] r.op = "PFMERGE" -> Sets(Num(1), Entry("string", UNION {d[k].items : k \in Range(r.arg)}, FALSE))

-----------------------------------------------------------------------------
(* The clients.  A step of p leaves the others to find out, for `alone`,   *)
(* whether it changed one of their keys.                                   *)

Takes(p, c) ==
    call' = [q \in Client |->
                IF q = p THEN c
                ELSE [call[q] EXCEPT !.alone = @ /\ \A k \in KeysOf(call[q]) : db'[k] = db[k]]]

Call(p) ==
    /\ call[p].pc = "idle"
    /\ \E c \in load.calls :
           (* The temporary keys of a call are random, and new. *)
           /\ c.cmd = "pfmerge" => \A k \in Range(Temp[p]) : ~Exists(db[k])
           /\ LET started == [Idle EXCEPT !.pc = "busy", !.cmd = c.cmd, !.keys = c.keys, !.dst = c.dst,
                                 !.arg = c.arg, !.temp = IF c.cmd = "pfmerge" THEN Temp[p] ELSE <<>>]
              IN  call' = [call EXCEPT ![p] =
                              [started EXCEPT !.before = [k \in KeysOf(started) |-> db[k]]]]
    /\ UNCHANGED <<load, db, faults>>

NextRequest(c) == Requests(c)[Len(c.got) + 1]

Done(result) == [Idle EXCEPT !.result = result]

Execute(p) ==
    LET c  == call[p]
        r  == NextRequest(c)
        s  == IF Refused(db, r) THEN [reply |-> Error, db |-> db] ELSE Served(db, r)
        after == [c EXCEPT !.got = Append(@, s.reply)]
    IN  /\ c.pc = "busy"
        /\ db' = s.db
        /\ Takes(p, IF LeavesEarly(c, r.op, s.reply) THEN Done(EarlyResult(r.op, s.reply))
                    ELSE IF Len(after.got) = Len(Requests(after)) THEN Done(Result(after))
                    ELSE after)
        /\ UNCHANGED <<load, faults>>

Trouble == faults < MaxFaults /\ faults' = faults + 1 /\ UNCHANGED load

(* The request is executed, its reply is lost and the request sent again.  *)
LoseReply(p) ==
    /\ Trouble
    /\ call[p].pc = "busy" /\ ~Refused(db, NextRequest(call[p]))
    /\ db' = Served(db, NextRequest(call[p])).db
    /\ Takes(p, [call[p] EXCEPT !.smooth = FALSE])

(* The request is never executed, or not again, and raises.                *)
Fail(p) ==
    /\ Trouble
    /\ call[p].pc = "busy"
    /\ call' = [call EXCEPT ![p] = Done(Error)]
    /\ UNCHANGED db

Expire(k) ==
    /\ Trouble
    /\ db[k].ttl
    /\ db' = [db EXCEPT ![k] = Missing]
    /\ call' = [q \in Client |-> [call[q] EXCEPT !.alone = @ /\ k \notin KeysOf(call[q])]]

Next ==
    \/ \E p \in Client : Call(p) \/ Execute(p) \/ LoseReply(p) \/ Fail(p)
    \/ \E k \in Key : Expire(k)

Spec == Init /\ [][Next]_vars

-----------------------------------------------------------------------------
(* What Redis' own command would answer and leave, in one step.            *)

Native(c, d) ==
    LET values == [i \in DOMAIN c.keys |-> d[c.keys[i]]]
        src    == Head(values)
        Stored(new) == [k \in DOMAIN d |-> IF k = c.dst THEN new ELSE d[k]]
        All(new) == [k \in DOMAIN d |-> IF k \in Range(c.keys) THEN new[k] ELSE d[k]]
        Wrong(e, kind) == e.kind \notin {"none", kind}
        Stays(reply) == <<reply, d>>
        Renamed == <<Num(1), [Stored(src) EXCEPT ![Src(c)] = Missing]>>
        Given == [k \in Range(c.keys) |->
                     Entry("string", c.arg[CHOOSE i \in DOMAIN c.keys : c.keys[i] = k].items, FALSE)]
        Gone  == [k \in Range(c.keys) |-> Missing]
        Whole == Combined(c.cmd, [i \in DOMAIN values |-> values[i].items])
        Popped == Served(d, Ask("RPOP", Src(c)))
        Taken  == Served(d, Put("SREM", Src(c), c.arg[1]))
    IN  CASE c.cmd = "mget" -> Stays(Datum("many", [i \in DOMAIN values |-> Plain(values[i])]))
          [] c.cmd = "mset" -> <<Num(1), All(Given)>>
          [] c.cmd = "msetnx" -> IF \E k \in Range(c.keys) : Exists(d[k]) THEN Stays(Num(0))
                                 ELSE <<Num(1), All(Given)>>
          [] c.cmd = "delete" -> <<Num(Cardinality({k \in Range(c.keys) : Exists(d[k])})), All(Gone)>>
          [] c.cmd \in {"rename", "renamenx"} ->
                 IF ~Exists(src) THEN Stays(Error)
                 ELSE IF c.cmd = "renamenx" /\ Exists(d[c.dst]) THEN Stays(Num(0)) ELSE Renamed
          [] c.cmd \in {"rpoplpush", "brpoplpush"} ->
                 IF Wrong(src, "list") THEN Stays(Error) ELSE IF ~Exists(src) THEN Stays(None)
                 ELSE IF Wrong(d[c.dst], "list") THEN Stays(Error)
                 ELSE <<Popped.reply, Served(Popped.db, Put("LPUSH", c.dst, Popped.reply)).db>>
          [] c.cmd = "smove" ->
                 IF Wrong(src, "set") \/ (Exists(src) /\ Wrong(d[c.dst], "set")) THEN Stays(Error)
                 ELSE IF Taken.reply = Num(0) THEN Stays(Num(0))
                 ELSE <<Num(1), Served(Taken.db, Put("SADD", c.dst, c.arg[1])).db>>
          [] c.cmd \in {"sdiff", "sinter", "sunion"} ->
                 IF \E e \in Range(values) : Wrong(e, "set") THEN Stays(Error) ELSE Stays(Datum("set", Whole))
          [] c.cmd \in {"sdiffstore", "sinterstore", "sunionstore"} ->
                 IF \E e \in Range(values) : Wrong(e, "set") THEN Stays(Error)
                 ELSE <<Num(Cardinality(Whole)),
                        Stored(IF Whole = {} THEN Missing ELSE Entry("set", Whole, FALSE))>>
          [] c.cmd = "pfmerge" ->
                 LET merged == Range(values) \cup {d[c.dst]}
                 IN  IF \E e \in merged : Wrong(e, "string") THEN Stays(Error)
                     ELSE <<Num(1), Stored(Entry("string", UNION {e.items : e \in merged}, FALSE))>>

(* The calls of which that is true, from what their keys hold.  Others:    *)
(* mget and msetnx raise when a key is no string, and msetnx overwrites '';*)
(* rename trusts the client's slots, and renamenx looks at dst first; what *)
(* has been taken from src is lost when dst cannot have it, or when        *)
(* rpoplpush has taken ''; SINTER may stop at a key that is missing;        *)
(* sunionstore of nothing and pfmerge of a source that is missing raise,   *)
(* and pfmerge takes a dest that is '' for a missing one.                  *)
Ordinary(c) ==
    LET Fits(k, kind) == c.before[k].kind \in {"none", kind}
        Blank(k) == c.before[k].kind = "string" /\ c.before[k].items = {Empty}
        taken == c.before[Src(c)]
    IN  /\ c.cmd \in {"mget", "msetnx"} => \A k \in Range(c.keys) : Fits(k, "string")
        /\ c.cmd = "msetnx" => \A k \in Range(c.keys) : ~Blank(k)
        /\ c.cmd \in {"rename", "renamenx"} =>
               (SlotOf[Src(c)] = SlotOf[c.dst] => ServerSlot[Src(c)] = ServerSlot[c.dst])
        /\ c.cmd = "renamenx" => Exists(taken) \/ ~Exists(c.before[c.dst])
        /\ c.cmd \in {"rpoplpush", "brpoplpush"} => Fits(c.dst, "list")
        /\ c.cmd = "rpoplpush" /\ taken.kind = "list" => Last(taken.items) # Empty
        /\ c.cmd = "smove" => Fits(c.dst, "set")
        /\ c.cmd \in {"sinter", "sinterstore"} => \A k \in Range(c.keys) : Fits(k, "set")
        /\ c.cmd = "sunionstore" => \E k \in Range(c.keys) : Exists(c.before[k])
        /\ c.cmd = "pfmerge" => ~Blank(c.dst) /\ \A k \in Range(c.keys) : Exists(c.before[k])

-----------------------------------------------------------------------------
(* Properties.                                                             *)

(* Keys hold what servers can hold, and a method that has not returned has *)
(* a request left to send.                                                 *)
TypeOK ==
    /\ load \in Loads
    /\ db \in [Key -> Held]
    /\ faults \in 0 .. MaxFaults
    /\ \A p \in Client : call[p].pc = "busy" => Len(call[p].got) < Len(Requests(call[p]))

(* A method that nobody disturbs answers, and leaves its keys, temporary   *)
(* ones included, as the command of Redis that it stands for, unless it is *)
(* one of the calls that are known not to.                                 *)
Undisturbed(p) ==
    call[p].pc = "busy" /\ call'[p].pc = "idle" /\ call[p].alone /\ call[p].smooth /\ faults' = faults
AsNative(p) ==
    <<call'[p].result, [k \in KeysOf(call[p]) |-> db'[k]]>> = Native(call[p], call[p].before)
AloneIsAtomic == [][\A p \in Client : Undisturbed(p) /\ Ordinary(call[p]) => AsNative(p)]_vars

(* Whatever is lost or fails, what a rename is moving stays at one of its  *)
(* keys, unless somebody else changes them: dst is not restored before it  *)
(* is deleted, and src not deleted before dst is restored.                 *)
RenameNeverLoses ==
    [][\A p \in Client :
        LET c == call[p]
        IN  /\ c.cmd \in {"rename", "renamenx"} /\ c.alone /\ call'[p].alone
            /\ Exists(c.before[Src(c)])
            => Plain(c.before[Src(c)]) \in {Plain(db'[Src(c)]), Plain(db'[c.dst])}]_vars

(* Where an element is: at places of lists, in sets, and with the clients, *)
(* between two requests.                                                   *)
At(k, entry, e) ==
    CASE entry.kind = "list" -> {<<k, i>> : i \in {i \in DOMAIN entry.items : entry.items[i] = e}}
      [] entry.kind = "set"  -> IF e \in entry.items THEN {<<k, 1>>} ELSE {}
      [] OTHER -> {}
Places(d, e) == UNION {At(k, d[k], e) : k \in Key}
Copies(d, e) == Cardinality(Places(d, e))

Holds(c, e) ==
    /\ c.pc = "busy" /\ Len(c.got) = 1
    /\ e \in IF c.cmd = "smove" THEN c.arg[1].items ELSE c.got[1].items
InHands(e) == Cardinality({p \in Client : Holds(call[p], e)})

(* A load of moves only: of elements of lists, none of which is '', or of  *)
(* elements that are each in one set, one at a time.                       *)
MovesInLists(l) ==
    /\ \A c \in l.calls : c.cmd \in {"rpoplpush", "brpoplpush"}
    /\ \A k \in Key : l.db[k].kind \in {"none", "list"} /\ At(k, l.db[k], Empty) = {}
MovesInSets(l) ==
    /\ \A c \in l.calls : c.cmd = "smove" /\ \E e \in Atom : c.arg[1].items = {e}
    /\ \A k \in Key : l.db[k].kind \in {"none", "set"}
    /\ \A j, k \in Key : j # k => l.db[j].items \cap l.db[k].items = {}

(* Clients that move elements at the same time neither lose nor double     *)
(* one, as long as no request fails and no reply is lost.                  *)
MovesKeepElements ==
    faults = 0 /\ (MovesInLists(load) \/ MovesInSets(load))
        => \A e \in Atom : Copies(db, e) + InHands(e) = Copies(load.db, e)
=============================================================================
