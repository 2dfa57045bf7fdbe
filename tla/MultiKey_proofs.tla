---------------------------- MODULE MultiKey_proofs ----------------------------
(***************************************************************************)
(* Proofs about the commands on several keys.                              *)
(***************************************************************************)
EXTENDS MultiKey, TLAPS, FiniteSetTheorems

(* A sequence, whatever its elements are. *)
Sequence(s) == s \in Seq(Range(s))

LEMMA MembersOf ==
    ASSUME NEW S, NEW s \in Seq(S)
    PROVE  \A i \in 1 .. Len(s) : s[i] \in S
OBVIOUS

LEMMA AppendIs ==
    ASSUME NEW s, Sequence(s), NEW x
    PROVE  /\ Sequence(Append(s, x))
           /\ Len(s) \in Nat /\ Len(Append(s, x)) = Len(s) + 1
           /\ \A i \in 1 .. Len(s) : Append(s, x)[i] = s[i]
           /\ Append(s, x)[Len(s) + 1] = x
<1> DEFINE S == Range(s) \cup {x}
           t == Append(s, x)
<1>1. s \in Seq(S) /\ x \in S
    BY DEF Sequence
<1>2. /\ t \in Seq(S) /\ Len(s) \in Nat /\ Len(t) = Len(s) + 1
      /\ \A i \in 1 .. Len(s) : t[i] = s[i]
      /\ t[Len(s) + 1] = x
    BY <1>1
<1>3. t \in Seq(Range(t))
    BY <1>2 DEF Range
<1> QED  BY <1>2, <1>3 DEF Sequence

LEMMA JoinIs ==
    ASSUME NEW s, Sequence(s), NEW t, Sequence(t)
    PROVE  /\ Sequence(s \o t)
           /\ Len(s) \in Nat /\ Len(t) \in Nat
           /\ Len(s \o t) = Len(s) + Len(t)
           /\ \A i \in 1 .. Len(s) : (s \o t)[i] = s[i]
           /\ \A i \in 1 .. Len(t) : (s \o t)[Len(s) + i] = t[i]
<1> DEFINE S == Range(s) \cup Range(t)
           u == s \o t
<1>1. s \in Seq(S) /\ t \in Seq(S)
    BY DEF Sequence
<1>2. /\ u \in Seq(S) /\ Len(s) \in Nat /\ Len(t) \in Nat /\ Len(u) = Len(s) + Len(t)
      /\ \A i \in 1 .. Len(s) : u[i] = s[i]
      /\ \A i \in 1 .. Len(t) : u[Len(s) + i] = t[i]
    BY <1>1
<1>3. u \in Seq(Range(u))
    <2> HIDE DEF S, u
    <2>1. \A i \in 1 .. Len(u) : u[i] \in Range(u)
        BY <1>2 DEF Range
    <2> QED  BY <1>2, <2>1
<1> QED  BY <1>2, <1>3 DEF Sequence

LEMMA EachIs ==
    ASSUME NEW op, NEW keys, Sequence(keys)
    PROVE  /\ Sequence(Each(op, keys)) /\ Len(Each(op, keys)) = Len(keys) /\ Len(keys) \in Nat
           /\ \A i \in 1 .. Len(keys) : Each(op, keys)[i] = Ask(op, keys[i])
<1>1. DOMAIN keys = 1 .. Len(keys) /\ Len(keys) \in Nat
    BY DEF Sequence
<1>2. DOMAIN Each(op, keys) = 1 .. Len(keys) /\ \A i \in 1 .. Len(keys) : Each(op, keys)[i] = Ask(op, keys[i])
    BY <1>1 DEF Each
<1>3. Each(op, keys) \in Seq(Range(Each(op, keys)))
    <2> DEFINE e == Each(op, keys)
    <2>1. e = [i \in 1 .. Len(keys) |-> Ask(op, keys[i])]
        BY <1>1 DEF Each
    <2>2. \A i \in 1 .. Len(keys) : e[i] \in Range(e)
        BY <1>2 DEF Range
    <2> QED  BY <1>1, <2>1, <2>2
<1> QED  BY <1>1, <1>2, <1>3 DEF Sequence
-----------------------------------------------------------------------------
(* The requests of each method.                                            *)

LEMMA CallableKeys ==
    ASSUME NEW c, Callable(c)
    PROVE  /\ Sequence(c.keys) /\ Len(c.keys) \in Nat /\ Len(c.keys) > 0 /\ DOMAIN c.keys = 1 .. Len(c.keys)
           /\ (\A i \in 1 .. Len(c.keys) : c.keys[i] \in Key) /\ Src(c) \in Key /\ Src(c) = c.keys[1] /\ c.dst \in Key
<1>1. c.keys \in Seq(Key) /\ c.keys # <<>> /\ c.dst \in Key
    BY DEF Callable
<1>2. Len(c.keys) \in Nat /\ Len(c.keys) > 0 /\ DOMAIN c.keys = 1 .. Len(c.keys)
    BY <1>1
<1>3. \A i \in 1 .. Len(c.keys) : c.keys[i] \in Key /\ c.keys[i] \in Range(c.keys)
    BY <1>1, <1>2 DEF Range
<1>4. c.keys \in Seq(Range(c.keys))
    BY <1>1, <1>2, <1>3
<1>5. Src(c) = c.keys[1]
    BY <1>1, <1>2 DEF Src
<1> QED  BY <1>1, <1>2, <1>3, <1>4, <1>5 DEF Sequence

Reading == {"mget", "delete", "sdiff", "sinter", "sunion"}
ReadOp(cmd) == CASE cmd = "mget" -> "GET" [] cmd = "delete" -> "DEL" [] OTHER -> "SMEMBERS"

LEMMA ReadingShape ==
    ASSUME NEW c, Callable(c), c.cmd \in Reading
    PROVE  /\ Requests(c) = Each(ReadOp(c.cmd), c.keys)
           /\ Sequence(Requests(c)) /\ Len(Requests(c)) = Len(c.keys)
           /\ \A i \in 1 .. Len(c.keys) : Requests(c)[i] = Ask(ReadOp(c.cmd), c.keys[i])
<1>1. Requests(c) = Each(ReadOp(c.cmd), c.keys)
    BY DEF Requests, Reading, ReadOp, mget, delete, Smembers
<1> QED  BY <1>1, CallableKeys, EachIs

LEMMA MsetIs ==
    ASSUME NEW c, Callable(c), c.cmd \in {"mset", "msetnx"}
    PROVE  /\ Sequence(mset(c)) /\ Len(mset(c)) = Len(c.keys)
           /\ \A i \in 1 .. Len(c.keys) : mset(c)[i] = Put("SET", c.keys[i], c.arg[i])
<1>1. Len(c.keys) \in Nat /\ DOMAIN c.keys = 1 .. Len(c.keys)
    BY CallableKeys
<1> DEFINE n == Len(c.keys)
           m == [i \in 1 .. n |-> Put("SET", c.keys[i], c.arg[i])]
<1>2. mset(c) = m
    BY <1>1 DEF mset
<1>3. \A i \in 1 .. n : m[i] = Put("SET", c.keys[i], c.arg[i]) /\ m[i] \in Range(m)
    BY DEF Range
<1>4. m \in Seq(Range(m)) /\ Len(m) = n
    <2>1. DOMAIN m = 1 .. n
        OBVIOUS
    <2>2. \A i \in 1 .. n : m[i] \in Range(m)
        BY <1>3
    <2>3. m = [i \in 1 .. n |-> m[i]]
        OBVIOUS
    <2> HIDE DEF m
    <2> QED  BY <1>1, <2>1, <2>2, <2>3
<1> QED  BY <1>2, <1>3, <1>4 DEF Sequence

LEMMA MsetShape ==
    ASSUME NEW c, Callable(c), c.cmd = "mset"
    PROVE  /\ Sequence(Requests(c)) /\ Len(Requests(c)) = Len(c.keys)
           /\ \A i \in 1 .. Len(c.keys) : Requests(c)[i] = Put("SET", c.keys[i], c.arg[i])
<1>1. Requests(c) = mset(c)
    BY DEF Requests
<1> QED  BY <1>1, MsetIs

LEMMA MsetnxShape ==
    ASSUME NEW c, Callable(c), c.cmd = "msetnx"
    PROVE  /\ Sequence(Requests(c)) /\ Len(Requests(c)) = 2 * Len(c.keys)
           /\ \A i \in 1 .. Len(c.keys) : Requests(c)[i] = Ask("GET", c.keys[i])
           /\ \A i \in 1 .. Len(c.keys) : Requests(c)[Len(c.keys) + i] = Put("SET", c.keys[i], c.arg[i])
<1>1. Requests(c) = Each("GET", c.keys) \o mset(c)
    BY DEF Requests, msetnx
<1>2. /\ Sequence(Each("GET", c.keys)) /\ Len(Each("GET", c.keys)) = Len(c.keys) /\ Len(c.keys) \in Nat
      /\ \A i \in 1 .. Len(c.keys) : Each("GET", c.keys)[i] = Ask("GET", c.keys[i])
    BY CallableKeys, EachIs
<1>3. /\ Sequence(mset(c)) /\ Len(mset(c)) = Len(c.keys)
      /\ \A i \in 1 .. Len(c.keys) : mset(c)[i] = Put("SET", c.keys[i], c.arg[i])
    BY MsetIs
<1> DEFINE s == Each("GET", c.keys)
           t == mset(c)
<1>4. /\ Sequence(s \o t) /\ Len(s \o t) = Len(s) + Len(t)
      /\ \A i \in 1 .. Len(s) : (s \o t)[i] = s[i]
      /\ \A i \in 1 .. Len(t) : (s \o t)[Len(s) + i] = t[i]
    <2>1. Sequence(s) /\ Sequence(t)
        BY <1>2, <1>3
    <2> HIDE DEF s, t
    <2> QED  BY <2>1, JoinIs
<1>5. Requests(c) = s \o t
    BY <1>1
<1>6. Len(s) = Len(c.keys) /\ Len(t) = Len(c.keys) /\ Len(c.keys) \in Nat
    BY <1>2, <1>3
<1>7. \A i \in 1 .. Len(c.keys) : (s \o t)[i] = s[i] /\ s[i] = Ask("GET", c.keys[i])
    BY <1>2, <1>4, <1>6
<1>8. \A i \in 1 .. Len(c.keys) : (s \o t)[Len(c.keys) + i] = t[i] /\ t[i] = Put("SET", c.keys[i], c.arg[i])
    BY <1>3, <1>4, <1>6
<1> HIDE DEF s, t
<1> QED  BY <1>4, <1>5, <1>6, <1>7, <1>8

LEMMA StoreShape ==
    ASSUME NEW c, Callable(c), c.cmd \in {"sdiffstore", "sinterstore", "sunionstore"}
    PROVE  /\ Sequence(Requests(c)) /\ Len(Requests(c)) = Len(c.keys) + 2
           /\ \A i \in 1 .. Len(c.keys) : Requests(c)[i] = Ask("SMEMBERS", c.keys[i])
           /\ Requests(c)[Len(c.keys) + 1] = Ask("DEL", c.dst)
           /\ Requests(c)[Len(c.keys) + 2] = Put("SADD", c.dst, Datum("set", res(c)))
<1> DEFINE t == <<Ask("DEL", c.dst), Put("SADD", c.dst, Datum("set", res(c)))>>
<1>1. Requests(c) = Each("SMEMBERS", c.keys) \o t
    BY DEF Requests, Store, Smembers
<1>2. /\ Sequence(Each("SMEMBERS", c.keys)) /\ Len(Each("SMEMBERS", c.keys)) = Len(c.keys) /\ Len(c.keys) \in Nat
      /\ \A i \in 1 .. Len(c.keys) : Each("SMEMBERS", c.keys)[i] = Ask("SMEMBERS", c.keys[i])
    BY CallableKeys, EachIs
<1>3. Sequence(t) /\ Len(t) = 2 /\ t[1] = Ask("DEL", c.dst) /\ t[2] = Put("SADD", c.dst, Datum("set", res(c)))
    <2>1. Len(t) = 2 /\ DOMAIN t = 1 .. 2
        OBVIOUS
    <2>2. t \in Seq(Range(t))
        BY <2>1 DEF Range
    <2> QED  BY <2>1, <2>2 DEF Sequence
<1> DEFINE s == Each("SMEMBERS", c.keys)
<1> HIDE DEF t
<1>4. /\ Sequence(s \o t) /\ Len(s \o t) = Len(s) + Len(t)
      /\ \A i \in 1 .. Len(s) : (s \o t)[i] = s[i]
      /\ \A i \in 1 .. Len(t) : (s \o t)[Len(s) + i] = t[i]
    <2>1. Sequence(s) /\ Sequence(t)
        BY <1>2, <1>3
    <2> HIDE DEF s, t
    <2> QED  BY <2>1, JoinIs
<1>5. 1 \in 1 .. Len(t) /\ 2 \in 1 .. Len(t)
    BY <1>3
<1> QED  BY <1>1, <1>2, <1>3, <1>4, <1>5

LEMMA MoveShape ==
    ASSUME NEW c, Callable(c), c.cmd \in Moving
    PROVE  /\ Sequence(Requests(c)) /\ Len(Requests(c)) = 2
           /\ c.cmd = "rpoplpush" => Requests(c)[1] = Ask("RPOP", Src(c)) /\ Requests(c)[2] = Put("LPUSH", c.dst, Got(c, 1))
           /\ c.cmd = "brpoplpush" => Requests(c)[1] = Ask("BRPOP", Src(c)) /\ Requests(c)[2] = Put("LPUSH", c.dst, Got(c, 1))
           /\ c.cmd = "smove" => Requests(c)[1] = Put("SREM", Src(c), c.arg[1]) /\ Requests(c)[2] = Put("SADD", c.dst, c.arg[1])
<1>1. \A a, b : Sequence(<<a, b>>) /\ Len(<<a, b>>) = 2 /\ <<a, b>>[1] = a /\ <<a, b>>[2] = b
    <2> TAKE a, b
    <2>1. DOMAIN <<a, b>> = 1 .. 2
        OBVIOUS
    <2>2. <<a, b>> \in Seq(Range(<<a, b>>))
        BY <2>1 DEF Range
    <2> QED  BY <2>2 DEF Sequence
<1>2. c.cmd = "rpoplpush" => Requests(c) = <<Ask("RPOP", Src(c)), Put("LPUSH", c.dst, Got(c, 1))>>
    BY DEF Requests, rpoplpush
<1>3. c.cmd = "brpoplpush" => Requests(c) = <<Ask("BRPOP", Src(c)), Put("LPUSH", c.dst, Got(c, 1))>>
    BY DEF Requests, brpoplpush
<1>4. c.cmd = "smove" => Requests(c) = <<Put("SREM", Src(c), c.arg[1]), Put("SADD", c.dst, c.arg[1])>>
    BY DEF Requests, smove
<1> QED  BY <1>1, <1>2, <1>3, <1>4 DEF Moving
(* The number of replies that renamenx gets before it renames. *)
Offset(c) == IF c.cmd = "renamenx" THEN 1 ELSE 0
Near(c) == SlotOf[Src(c)] = SlotOf[c.dst]

LEMMA RenameShape ==
    ASSUME NEW c, Callable(c), c.cmd \in {"rename", "renamenx"}
    PROVE  /\ Sequence(Requests(c)) /\ Len(Requests(c)) = Offset(c) + (IF Near(c) THEN 1 ELSE 5)
           /\ c.cmd = "renamenx" => Requests(c)[1] = Ask("EXISTS", c.dst)
           /\ Near(c) => Requests(c)[Offset(c) + 1] = Put("RENAME", Src(c), c.dst)
           /\ ~Near(c) => /\ Requests(c)[Offset(c) + 1] = Ask("DUMP", Src(c))
                          /\ Requests(c)[Offset(c) + 2] = Ask("PTTL", Src(c))
                          /\ Requests(c)[Offset(c) + 3] = Ask("DEL", c.dst)
                          /\ Requests(c)[Offset(c) + 4] = Put("RESTORE", c.dst, Restored(c, Offset(c)))
                          /\ Requests(c)[Offset(c) + 5] = Ask("DEL", Src(c))
<1> DEFINE n == Offset(c)
           r == rename(c, n)
<1>1. /\ Sequence(r) /\ Len(r) = IF Near(c) THEN 1 ELSE 5
      /\ Near(c) => r[1] = Put("RENAME", Src(c), c.dst)
      /\ ~Near(c) => /\ r[1] = Ask("DUMP", Src(c)) /\ r[2] = Ask("PTTL", Src(c)) /\ r[3] = Ask("DEL", c.dst)
                     /\ r[4] = Put("RESTORE", c.dst, Restored(c, n)) /\ r[5] = Ask("DEL", Src(c))
    <2>1. CASE Near(c)
        <3> DEFINE a == Put("RENAME", Src(c), c.dst)
        <3>1. r = <<a>>
            BY <2>1 DEF rename, Near
        <3> HIDE DEF r, a
        <3>2. Len(r) = 1 /\ r[1] = a /\ DOMAIN r = 1 .. 1
            BY <3>1
        <3>3. a \in Range(r)
            BY <3>2 DEF Range
        <3>4. r \in Seq(Range(r))
            BY <3>1, <3>3
        <3> QED  BY <2>1, <3>2, <3>4 DEF Sequence, a
    <2>2. CASE ~Near(c)
        <3>1. r = CrossSlotRename(c, n)
            BY <2>2 DEF rename, Near
        <3>2. \A a1, a2, a3, a4, a5 : LET s == <<a1, a2, a3, a4, a5>> IN
                  /\ Len(s) = 5 /\ s[1] = a1 /\ s[2] = a2 /\ s[3] = a3 /\ s[4] = a4 /\ s[5] = a5
                  /\ Sequence(s)
            <4> TAKE a1, a2, a3, a4, a5
            <4> DEFINE s == <<a1, a2, a3, a4, a5>>
            <4>1. Len(s) = 5 /\ s[1] = a1 /\ s[2] = a2 /\ s[3] = a3 /\ s[4] = a4 /\ s[5] = a5 /\ DOMAIN s = 1 .. 5
                OBVIOUS
            <4>2. s \in Seq({a1, a2, a3, a4, a5})
                OBVIOUS
            <4>3. {a1, a2, a3, a4, a5} \subseteq Range(s)
                BY <4>1 DEF Range
            <4>4. s \in Seq(Range(s))
                <5> HIDE DEF s
                <5> QED  BY <4>2, <4>3
            <4> QED  BY <4>1, <4>4 DEF Sequence
        <3> QED  BY <2>2, <3>1, <3>2 DEF CrossSlotRename
    <2> QED  BY <2>1, <2>2
<1>2. CASE c.cmd = "rename"
    <2>1. Requests(c) = r /\ n = 0
        BY <1>2 DEF Requests, Offset
    <2> HIDE DEF r
    <2> QED  BY <1>1, <1>2, <2>1
<1>3. CASE c.cmd = "renamenx"
    <2> DEFINE e == <<Ask("EXISTS", c.dst)>>
    <2>1. Requests(c) = e \o r /\ n = 1
        BY <1>3 DEF Requests, Offset, renamenx
    <2>2. Len(e) = 1 /\ e[1] = Ask("EXISTS", c.dst) /\ Sequence(e)
        <3>1. Len(e) = 1 /\ e[1] = Ask("EXISTS", c.dst) /\ DOMAIN e = 1 .. 1
            OBVIOUS
        <3>2. e \in Seq({Ask("EXISTS", c.dst)})
            OBVIOUS
        <3>3. Ask("EXISTS", c.dst) \in Range(e)
            BY <3>1 DEF Range
        <3>4. e \in Seq(Range(e))
            <4> HIDE DEF e
            <4> QED  BY <3>2, <3>3
        <3> QED  BY <3>1, <3>4 DEF Sequence
    <2>3. /\ Sequence(e \o r) /\ Len(e \o r) = Len(e) + Len(r)
          /\ \A i \in 1 .. Len(e) : (e \o r)[i] = e[i]
          /\ \A i \in 1 .. Len(r) : (e \o r)[Len(e) + i] = r[i]
        <3>1. Sequence(e) /\ Sequence(r)
            BY <1>1, <2>2
        <3> HIDE DEF e, r
        <3> QED  BY <3>1, JoinIs
    <2>4. Len(e \o r) = 1 + Len(r) /\ (e \o r)[1] = Ask("EXISTS", c.dst) /\ \A i \in 1 .. Len(r) : (e \o r)[1 + i] = r[i]
        <3> HIDE DEF e, r
        <3> QED  BY <2>2, <2>3
    <2>5. \A i \in 1 .. Len(r) : Requests(c)[1 + i] = r[i]
        BY <2>1, <2>4
    <2>6. /\ 1 \in 1 .. Len(r) /\ Requests(c)[2] = r[1]
          /\ ~Near(c) => /\ Requests(c)[3] = r[2] /\ Requests(c)[4] = r[3] /\ Requests(c)[5] = r[4] /\ Requests(c)[6] = r[5]
        <3>1. /\ 1 \in 1 .. Len(r)
              /\ ~Near(c) => 2 \in 1 .. Len(r) /\ 3 \in 1 .. Len(r) /\ 4 \in 1 .. Len(r) /\ 5 \in 1 .. Len(r)
            BY <1>1
        <3> HIDE DEF r
        <3>2. 1 + 1 = 2 /\ 1 + 2 = 3 /\ 1 + 3 = 4 /\ 1 + 4 = 5 /\ 1 + 5 = 6
            OBVIOUS
        <3> QED  BY <2>5, <3>1, <3>2
    <2> HIDE DEF e, r
    <2> QED  BY <1>1, <1>3, <2>1, <2>3, <2>4, <2>6
<1> QED  BY <1>2, <1>3
(* The objects that pfmerge merges, and the temporary keys they go into. *)
Merged(c) == IF Truthy(Got(c, Len(c.keys) + 1)) THEN Len(c.keys) + 1 ELSE Len(c.keys)
all_k(c)  == SubSeq(c.temp, 1, Merged(c))

LEMMA PfmergeShape ==
    ASSUME NEW c, Callable(c), c.cmd = "pfmerge", c.temp \in Seq(Key), Len(c.temp) > Len(c.keys)
    PROVE  LET n == Len(c.keys)
               h == Merged(c)
           IN  /\ n \in Nat /\ h \in n .. n + 1
               /\ Sequence(all_k(c)) /\ Len(all_k(c)) = h /\ Range(all_k(c)) \subseteq Key
               /\ Sequence(Requests(c)) /\ Len(Requests(c)) = n + 5 + 2 * h
               /\ \A i \in 1 .. n : Requests(c)[i] = Ask("GET", c.keys[i])
               /\ Requests(c)[n + 1] = Ask("GET", c.dst)
               /\ \A i \in 1 .. h : Requests(c)[n + 1 + i] = Put("SET", c.temp[i], Got(c, i))
               /\ Requests(c)[n + h + 2] = Put("PFMERGE", Last(c.temp), all_k(c))
               /\ Requests(c)[n + h + 3] = Ask("GET", Last(c.temp))
               /\ Requests(c)[n + h + 4] = Put("SET", c.dst, Got(c, n + h + 3))
               /\ Requests(c)[n + h + 5] = Ask("DEL", Last(c.temp))
               /\ \A i \in 1 .. h : Requests(c)[n + h + 5 + i] = Ask("DEL", c.temp[i])
               /\ \A i \in 1 .. h : c.temp[i] \in Key /\ all_k(c)[i] = c.temp[i]
               /\ Last(c.temp) \in Key
<1> DEFINE n == Len(c.keys)
           h == Merged(c)
           hlls == all_hll_objects(c)
           ks == all_k(c)
           w1 == Put("PFMERGE", Last(c.temp), ks)
           w2 == Ask("GET", Last(c.temp))
           w3 == Put("SET", c.dst, Got(c, n + h + 3))
           w4 == Ask("DEL", Last(c.temp))
           s1 == Each("GET", Append(c.keys, c.dst))
           s2 == [i \in 1 .. h |-> Put("SET", c.temp[i], Got(c, i))]
           s3 == <<w1, w2, w3, w4>>
           s4 == Each("DEL", ks)
<1>1. n \in Nat /\ h \in n .. n + 1 /\ n > 0 /\ h \in Nat /\ h <= Len(c.temp) /\ Len(c.temp) \in Nat
    BY CallableKeys DEF Merged
<1>2. /\ Sequence(ks) /\ Len(ks) = h /\ Range(ks) \subseteq Key /\ DOMAIN ks = 1 .. h
      /\ \A i \in 1 .. h : c.temp[i] \in Key /\ ks[i] = c.temp[i]
    <2>1. /\ ks \in Seq(Key) /\ Len(ks) = h /\ DOMAIN ks = 1 .. h
          /\ \A i \in 1 .. h : c.temp[i] \in Key /\ ks[i] = c.temp[i]
        BY <1>1 DEF all_k
    <2> HIDE DEF ks, h
    <2>2. Range(ks) \subseteq Key /\ \A i \in 1 .. h : ks[i] \in Range(ks)
        BY <2>1 DEF Range
    <2>3. ks \in Seq(Range(ks))
        BY <2>1, <2>2
    <2> QED  BY <2>1, <2>2, <2>3 DEF Sequence
<1>3. Last(c.temp) \in Key
    BY <1>1 DEF Last
<1>4. /\ Sequence(s1) /\ Len(s1) = n + 1
      /\ \A i \in 1 .. n : s1[i] = Ask("GET", c.keys[i])
      /\ s1[n + 1] = Ask("GET", c.dst)
    <2> DEFINE a == Append(c.keys, c.dst)
    <2>1. Sequence(a) /\ Len(a) = n + 1 /\ (\A i \in 1 .. n : a[i] = c.keys[i]) /\ a[n + 1] = c.dst
        BY CallableKeys, AppendIs
    <2> HIDE DEF a
    <2>2. Sequence(Each("GET", a)) /\ Len(Each("GET", a)) = Len(a) /\ \A i \in 1 .. Len(a) : Each("GET", a)[i] = Ask("GET", a[i])
        BY <2>1, EachIs
    <2>3. (\A i \in 1 .. n : i \in 1 .. n + 1) /\ n + 1 \in 1 .. n + 1
        BY <1>1
    <2>4. s1 = Each("GET", a)
        BY DEF a
    <2> HIDE DEF n, s1
    <2> QED  BY <2>1, <2>2, <2>3, <2>4
<1>5. /\ Sequence(s2) /\ Len(s2) = h
      /\ \A i \in 1 .. h : s2[i] = Put("SET", c.temp[i], Got(c, i))
    <2> HIDE DEF h
    <2>1. DOMAIN s2 = 1 .. h /\ (\A i \in 1 .. h : s2[i] = Put("SET", c.temp[i], Got(c, i))) /\ s2 = [i \in 1 .. h |-> s2[i]]
        OBVIOUS
    <2> HIDE DEF s2
    <2>2. \A i \in 1 .. h : s2[i] \in Range(s2)
        BY <2>1 DEF Range
    <2>3. s2 \in Seq(Range(s2)) /\ Len(s2) = h
        BY <1>1, <2>1, <2>2
    <2> QED  BY <2>1, <2>3 DEF Sequence
<1>6. Sequence(s3) /\ Len(s3) = 4 /\ s3[1] = w1 /\ s3[2] = w2 /\ s3[3] = w3 /\ s3[4] = w4
    <2> HIDE DEF w1, w2, w3, w4
    <2>1. Len(s3) = 4 /\ s3[1] = w1 /\ s3[2] = w2 /\ s3[3] = w3 /\ s3[4] = w4 /\ DOMAIN s3 = 1 .. 4
        OBVIOUS
    <2>2. s3 \in Seq({w1, w2, w3, w4})
        OBVIOUS
    <2>3. {w1, w2, w3, w4} \subseteq Range(s3)
        BY <2>1 DEF Range
    <2>4. s3 \in Seq(Range(s3))
        <3> HIDE DEF s3
        <3> QED  BY <2>2, <2>3
    <2> QED  BY <2>1, <2>4 DEF Sequence
<1>7. /\ Sequence(s4) /\ Len(s4) = h
      /\ \A i \in 1 .. h : s4[i] = Ask("DEL", c.temp[i])
    <2>1. Sequence(s4) /\ Len(s4) = Len(ks) /\ \A i \in 1 .. Len(ks) : s4[i] = Ask("DEL", ks[i])
        BY <1>2, EachIs
    <2> HIDE DEF s4, ks, h
    <2> QED  BY <1>2, <2>1
<1>8. Requests(c) = ((s1 \o s2) \o s3) \o s4
    <2>1. Requests(c) = pfmerge(c)
        BY DEF Requests
    <2>2. DOMAIN hlls = 1 .. h /\ Len(hlls) = h /\ \A i \in 1 .. h : hlls[i] = Got(c, i)
        BY <1>1 DEF all_hll_objects, Merged
    <2>3. s2 = [i \in DOMAIN hlls |-> Put("SET", SubSeq(c.temp, 1, Len(hlls))[i], hlls[i])]
        <3> HIDE DEF hlls, h
        <3>1. SubSeq(c.temp, 1, Len(hlls)) = ks
            BY <2>2 DEF all_k, h
        <3> HIDE DEF ks
        <3> QED  BY <1>2, <2>2, <3>1
    <2>4. ks = SubSeq(c.temp, 1, Len(hlls))
        BY <2>2 DEF all_k
    <2> HIDE DEF hlls, h
    <2> QED  BY <2>1, <2>2, <2>3, <2>4 DEF pfmerge, hlls
<1> HIDE DEF n, h, ks, s1, s2, s3, s4, w1, w2, w3, w4
<1> DEFINE t2 == s1 \o s2
           t3 == t2 \o s3
           t4 == t3 \o s4
<1>9. /\ Sequence(t2) /\ Len(t2) = Len(s1) + Len(s2)
      /\ \A i \in 1 .. Len(s1) : t2[i] = s1[i]
      /\ \A i \in 1 .. Len(s2) : t2[Len(s1) + i] = s2[i]
    <2>1. Sequence(s1) /\ Sequence(s2)
        BY <1>4, <1>5
    <2> QED  BY <2>1, JoinIs
<1> HIDE DEF t2
<1>10. /\ Sequence(t3) /\ Len(t3) = Len(t2) + Len(s3)
       /\ \A i \in 1 .. Len(t2) : t3[i] = t2[i]
       /\ \A i \in 1 .. Len(s3) : t3[Len(t2) + i] = s3[i]
    <2>1. Sequence(t2) /\ Sequence(s3)
        BY <1>9, <1>6
    <2> QED  BY <2>1, JoinIs
<1> HIDE DEF t3
<1>11. /\ Sequence(t4) /\ Len(t4) = Len(t3) + Len(s4)
       /\ \A i \in 1 .. Len(t3) : t4[i] = t3[i]
       /\ \A i \in 1 .. Len(s4) : t4[Len(t3) + i] = s4[i]
    <2>1. Sequence(t3) /\ Sequence(s4)
        BY <1>10, <1>7
    <2> QED  BY <2>1, JoinIs
<1> HIDE DEF t4
<1>12. Requests(c) = t4
    BY <1>8 DEF t2, t3, t4
<1>13. Len(t2) = n + 1 + h /\ Len(t3) = n + h + 5 /\ Len(t4) = n + 5 + 2 * h
    BY <1>1, <1>4, <1>5, <1>6, <1>7, <1>9, <1>10, <1>11
<1>14. /\ \A i \in 1 .. n + 1 : t4[i] = s1[i]
       /\ \A i \in 1 .. h : t4[n + 1 + i] = s2[i]
       /\ \A i \in 1 .. 4 : t4[n + 1 + h + i] = s3[i]
       /\ \A i \in 1 .. h : t4[n + h + 5 + i] = s4[i]
    <2>1. ASSUME NEW i \in 1 .. n + 1 PROVE t4[i] = s1[i]
        BY <1>1, <1>4, <1>9, <1>10, <1>11, <1>13
    <2>2. ASSUME NEW i \in 1 .. h PROVE t4[n + 1 + i] = s2[i]
        <3>1. n + 1 + i \in 1 .. Len(t2) /\ n + 1 + i \in 1 .. Len(t3) /\ i \in 1 .. Len(s2)
            BY <1>1, <1>5, <1>13
        <3> QED  BY <1>4, <1>9, <1>10, <1>11, <3>1
    <2>3. ASSUME NEW i \in 1 .. 4 PROVE t4[n + 1 + h + i] = s3[i]
        <3>1. n + 1 + h + i \in 1 .. Len(t3) /\ i \in 1 .. Len(s3)
            BY <1>1, <1>6, <1>13
        <3> QED  BY <1>13, <1>10, <1>11, <3>1
    <2>4. ASSUME NEW i \in 1 .. h PROVE t4[n + h + 5 + i] = s4[i]
        BY <1>7, <1>11, <1>13
    <2> QED  BY <2>1, <2>2, <2>3, <2>4
<1>15. t4[n + h + 2] = w1 /\ t4[n + h + 3] = w2 /\ t4[n + h + 4] = w3 /\ t4[n + h + 5] = w4
    <2>1. n + 1 + h + 1 = n + h + 2 /\ n + 1 + h + 2 = n + h + 3 /\ n + 1 + h + 3 = n + h + 4 /\ n + 1 + h + 4 = n + h + 5
        BY <1>1
    <2> QED  BY <1>6, <1>14, <2>1
<1>16. /\ \A i \in 1 .. n : t4[i] = Ask("GET", c.keys[i])
       /\ t4[n + 1] = Ask("GET", c.dst)
    <2>1. (\A i \in 1 .. n : i \in 1 .. n + 1) /\ n + 1 \in 1 .. n + 1
        BY <1>1
    <2> QED  BY <1>4, <1>14, <2>1
<1>17. \A i \in 1 .. h : /\ t4[n + 1 + i] = Put("SET", c.temp[i], Got(c, i))
                         /\ t4[n + h + 5 + i] = Ask("DEL", c.temp[i])
    BY <1>5, <1>7, <1>14
<1> QED  BY <1>1, <1>2, <1>3, <1>11, <1>12, <1>13, <1>15, <1>16, <1>17 DEF n, h, ks, w1, w2, w3, w4
LEMMA RequestsAre ==
    ASSUME NEW c, Callable(c), c.cmd = "pfmerge" => c.temp \in Seq(Key) /\ Len(c.temp) > Len(c.keys)
    PROVE  Sequence(Requests(c)) /\ Len(Requests(c)) \in Nat /\ Len(Requests(c)) > 0
<1>1. Sequence(Requests(c))
    <2>1. CASE c.cmd \in Reading
        BY <2>1, ReadingShape
    <2>2. CASE c.cmd \in {"mset", "msetnx"}
        BY <2>2, MsetShape, MsetnxShape
    <2>3. CASE c.cmd \in {"sdiffstore", "sinterstore", "sunionstore"}
        BY <2>3, StoreShape
    <2>4. CASE c.cmd \in {"rename", "renamenx"}
        BY <2>4, RenameShape
    <2>5. CASE c.cmd \in Moving
        BY <2>5, MoveShape
    <2>6. CASE c.cmd = "pfmerge"
        BY <2>6, PfmergeShape
    <2> QED  BY <2>1, <2>2, <2>3, <2>4, <2>5, <2>6 DEF Callable, Command, Reading, Moving
<1>2. Len(Requests(c)) > 0
    <2>0. Len(c.keys) \in Nat /\ Len(c.keys) > 0
        BY CallableKeys
    <2>1. CASE c.cmd \in Reading
        BY <2>0, <2>1, ReadingShape
    <2>2. CASE c.cmd \in {"mset", "msetnx"}
        BY <2>0, <2>2, MsetShape, MsetnxShape
    <2>3. CASE c.cmd \in {"sdiffstore", "sinterstore", "sunionstore"}
        BY <2>0, <2>3, StoreShape
    <2>4. CASE c.cmd \in {"rename", "renamenx"}
        BY <2>4, RenameShape DEF Offset
    <2>5. CASE c.cmd \in Moving
        BY <2>5, MoveShape
    <2>6. CASE c.cmd = "pfmerge"
        <3>1. /\ Merged(c) \in Len(c.keys) .. Len(c.keys) + 1
              /\ Len(Requests(c)) = Len(c.keys) + 5 + 2 * Merged(c)
            BY <2>6, PfmergeShape
        <3> QED  BY <2>0, <3>1
    <2> QED  BY <2>1, <2>2, <2>3, <2>4, <2>5, <2>6 DEF Callable, Command, Reading, Moving
<1> QED  BY <1>1, <1>2 DEF Sequence

-----------------------------------------------------------------------------
(* What the servers hold and answer.                                       *)

Text   == {Datum("string", s) : s \in SUBSET Atom}
Dumped == {Plain(e) : e \in Held \ {Missing}}
Op == {"GET", "DUMP", "EXISTS", "PTTL", "SMEMBERS", "SET", "DEL", "RESTORE", "RENAME", "RPOP",
       "BRPOP", "LPUSH", "SREM", "SADD", "PFMERGE"}

(* A request that a method sends, and what it goes on with.                *)
Sent(r) ==
    /\ r.op \in Op /\ r.key \in Key
    /\ r.op = "SET" => r.arg \in Text \cup {None}
    /\ r.op = "RESTORE" => r.arg.data \in Dumped
    /\ r.op = "RENAME" => r.arg \in Key
    /\ r.op = "LPUSH" => \E x \in Atom : r.arg = Datum("string", {x})
    /\ r.op \in {"SREM", "SADD"} => r.arg.items \in SUBSET Atom
    /\ r.op = "PFMERGE" => Range(r.arg) \subseteq Key
Answers(op, reply) ==
    /\ op = "GET" => reply \in Text \cup {None}
    /\ op = "DUMP" => reply \in Dumped \cup {None}
    /\ op = "SMEMBERS" => \E s \in SUBSET Atom : reply = Datum("set", s)
    /\ op \in {"RPOP", "BRPOP"} => reply = None \/ \E x \in Atom : reply = Datum("string", {x})

LEMMA HeldIs ==
    ASSUME NEW e \in Held
    PROVE  /\ e.kind \in {"none", "string", "list", "set"} /\ e.ttl \in BOOLEAN
           /\ e = Entry(e.kind, e.items, e.ttl)
           /\ e.kind = "none" <=> e = Missing
           /\ e.kind = "none" => e.items = {}
           /\ e.kind = "string" => e.items \in SUBSET Atom
           /\ e.kind = "list" => e.items \in Seq(Atom) /\ Len(e.items) \in Nat /\ Len(e.items) > 0
           /\ e.kind = "set" => e.items \in SUBSET Atom /\ e.items # {}
<1>1. CASE e = Missing
    BY <1>1 DEF Missing, Entry
<1>2. CASE e \in [kind : {"string"}, items : SUBSET Atom, ttl : BOOLEAN]
    BY <1>2 DEF Missing, Entry
<1>3. CASE e \in [kind : {"list"}, items : Seq(Atom) \ {<<>>}, ttl : BOOLEAN]
    BY <1>3 DEF Missing, Entry
<1>4. CASE e \in [kind : {"set"}, items : (SUBSET Atom) \ {{}}, ttl : BOOLEAN]
    BY <1>4 DEF Missing, Entry
<1> QED  BY <1>1, <1>2, <1>3, <1>4 DEF Held

LEMMA HeldHas ==
    ASSUME NEW t \in BOOLEAN
    PROVE  /\ Missing \in Held
           /\ \A s \in SUBSET Atom : Entry("string", s, t) \in Held
           /\ \A s \in Seq(Atom) : s # <<>> => Entry("list", s, t) \in Held
           /\ \A s \in SUBSET Atom : s # {} => Entry("set", s, t) \in Held
<1>1. \A s \in Seq(Atom) : s # <<>> => Entry("list", s, t) \in [kind : {"list"}, items : Seq(Atom) \ {<<>>}, ttl : BOOLEAN]
    BY DEF Entry
<1>2. \A s \in SUBSET Atom : s # {} => Entry("set", s, t) \in [kind : {"set"}, items : (SUBSET Atom) \ {{}}, ttl : BOOLEAN]
    BY DEF Entry
<1>3. \A s \in SUBSET Atom : Entry("string", s, t) \in [kind : {"string"}, items : SUBSET Atom, ttl : BOOLEAN]
    BY DEF Entry
<1> QED  BY <1>1, <1>2, <1>3 DEF Held

LEMMA AnswersTyped ==
    ASSUME NEW d \in [Key -> Held], NEW r, Sent(r), ~Refused(d, r)
    PROVE  Answers(r.op, Served(d, r).reply)
<1>0. r.key \in Key /\ d[r.key] \in Held
    BY DEF Sent
<1> DEFINE e == d[r.key]
<1>1. CASE r.op = "GET"
    <2>1. e.kind \in {"none", "string"}
        BY <1>1 DEF Refused, Expects
    <2>2. Served(d, r).reply = Plain(e)
        BY <1>1 DEF Served
    <2>3. Plain(e) \in Text \cup {None}
        BY <1>0, <2>1, HeldIs DEF Plain, Text, None, Datum
    <2> QED  BY <1>1, <2>2, <2>3 DEF Answers
<1>2. CASE r.op = "DUMP"
    <2>1. Served(d, r).reply = Plain(e)
        BY <1>2 DEF Served
    <2>2. Plain(e) \in Dumped \cup {None}
        <3>1. CASE e = Missing
            BY <3>1 DEF Plain, Missing, Entry, None, Datum
        <3>2. CASE e # Missing
            BY <1>0, <3>2 DEF Dumped
        <3> QED  BY <3>1, <3>2
    <2> QED  BY <1>2, <2>1, <2>2 DEF Answers
<1>3. CASE r.op = "SMEMBERS"
    <2>1. e.kind \in {"none", "set"}
        BY <1>3 DEF Refused, Expects
    <2>2. Served(d, r).reply = Datum("set", IF Exists(e) THEN e.items ELSE {})
        BY <1>3 DEF Served
    <2>3. (IF Exists(e) THEN e.items ELSE {}) \in SUBSET Atom
        BY <1>0, <2>1, HeldIs DEF Exists
    <2> QED  BY <1>3, <2>2, <2>3 DEF Answers
<1>4. CASE r.op \in {"RPOP", "BRPOP"}
    <2>1. e.kind \in {"none", "list"}
        BY <1>4 DEF Refused, Expects
    <2>2. Served(d, r).reply = IF Exists(e) THEN Datum("string", {Last(e.items)}) ELSE None
        BY <1>4 DEF Served
    <2>3. Exists(e) => Last(e.items) \in Atom
        BY <1>0, <2>1, HeldIs DEF Exists, Last
    <2> QED  BY <1>4, <2>2, <2>3 DEF Answers
<1> QED  BY <1>1, <1>2, <1>3, <1>4 DEF Answers

LEMMA ServedTyped ==
    ASSUME NEW d \in [Key -> Held], NEW r, Sent(r), ~Refused(d, r)
    PROVE  Served(d, r).db \in [Key -> Held]
<1>0. r.key \in Key /\ d[r.key] \in Held /\ r.op \in Op
    BY DEF Sent
<1> DEFINE e == d[r.key]
<1>e. /\ e.ttl \in BOOLEAN /\ e.kind \in {"none", "string", "list", "set"}
      /\ e.kind = "none" => e.items = {}
      /\ e.kind = "list" => e.items \in Seq(Atom) /\ Len(e.items) \in Nat /\ Len(e.items) > 0
      /\ e.kind = "set" => e.items \in SUBSET Atom /\ e.items # {}
    BY <1>0, HeldIs
<1>s. \A new \in Held : [d EXCEPT ![r.key] = new] \in [Key -> Held]
    BY <1>0
<1>1. CASE r.op \in {"GET", "DUMP", "EXISTS", "PTTL", "SMEMBERS"}
    <2>1. Served(d, r).db = d
        BY <1>1 DEF Served
    <2> QED  BY <2>1
<1>2. CASE r.op = "SET"
    <2>1. r.arg \in Text
        BY <1>2 DEF Sent, Refused
    <2>2. r.arg.items \in SUBSET Atom
        BY <2>1 DEF Text, Datum
    <2>3. Served(d, r).db = [d EXCEPT ![r.key] = Entry("string", r.arg.items, FALSE)]
        BY <1>2 DEF Served
    <2> QED  BY <1>s, <2>2, <2>3, HeldHas
<1>3. CASE r.op = "DEL"
    <2>1. Served(d, r).db = [d EXCEPT ![r.key] = Missing]
        BY <1>3 DEF Served
    <2> QED  BY <1>s, <2>1, HeldHas
<1>4. CASE r.op = "RESTORE"
    <2> DEFINE new == Entry(r.arg.data.kind, r.arg.data.items, r.arg.ttl = Num(1))
    <2>1. Served(d, r).db = [d EXCEPT ![r.key] = new]
        BY <1>4 DEF Served
    <2>2. PICK o \in Held \ {Missing} : r.arg.data = Plain(o)
        BY <1>4 DEF Sent, Dumped
    <2>3. r.arg.data.kind = o.kind /\ r.arg.data.items = o.items
        BY <2>2 DEF Plain, Datum
    <2>4. /\ o.kind \in {"string", "list", "set"}
          /\ o.kind = "string" => o.items \in SUBSET Atom
          /\ o.kind = "list" => o.items \in Seq(Atom) /\ Len(o.items) \in Nat /\ Len(o.items) > 0
          /\ o.kind = "set" => o.items \in SUBSET Atom /\ o.items # {}
        BY <2>2, HeldIs
    <2>5. o.kind = "list" => o.items # <<>>
        BY <2>4
    <2>6. (r.arg.ttl = Num(1)) \in BOOLEAN
        OBVIOUS
    <2>7. new \in Held
        BY <2>3, <2>4, <2>5, <2>6, HeldHas
    <2> HIDE DEF new
    <2> QED  BY <1>s, <2>1, <2>7
<1>5. CASE r.op = "RENAME"
    <2>1. r.arg \in Key
        BY <1>5 DEF Sent
    <2>2. Served(d, r).db = [[d EXCEPT ![r.key] = Missing] EXCEPT ![r.arg] = e]
        BY <1>5 DEF Served
    <2>3. Missing \in Held
        BY HeldHas
    <2> QED  BY <1>0, <2>1, <2>2, <2>3
<1>6. CASE r.op \in {"RPOP", "BRPOP"}
    <2>1. e.kind \in {"none", "list"}
        BY <1>6 DEF Refused, Expects
    <2>2. CASE ~Exists(e)
        <3>1. Served(d, r).db = d
            BY <1>6, <2>2 DEF Served
        <3> QED  BY <3>1
    <2>3. CASE Exists(e)
        <3> DEFINE new == IF Len(e.items) = 1 THEN Missing ELSE Entry("list", Front(e.items), e.ttl)
        <3>1. Served(d, r).db = [d EXCEPT ![r.key] = new]
            BY <1>6, <2>3 DEF Served
        <3>2. e.items \in Seq(Atom) /\ Len(e.items) \in Nat /\ Len(e.items) > 0
            BY <1>e, <2>1, <2>3 DEF Exists
        <3>3. Len(e.items) # 1 => Front(e.items) \in Seq(Atom) /\ Front(e.items) # <<>>
            <4> DEFINE l == e.items
            <4> HIDE DEF l
            <4>1. l \in Seq(Atom) /\ Len(l) \in Nat /\ Len(l) > 0
                BY <3>2 DEF l
            <4>2. \A m \in Nat : m <= Len(l) => SubSeq(l, 1, m) \in Seq(Atom) /\ Len(SubSeq(l, 1, m)) = m
                BY <4>1
            <4>3. Len(l) # 1 => Len(l) - 1 \in Nat /\ Len(l) - 1 <= Len(l) /\ Len(l) - 1 # 0
                BY <4>1
            <4>4. Len(l) # 1 => Front(l) \in Seq(Atom) /\ Len(Front(l)) # 0
                BY <4>2, <4>3 DEF Front
            <4>5. Len(<<>>) = 0
                OBVIOUS
            <4> QED  BY <4>4, <4>5 DEF l
        <3>4. new \in Held
            BY <1>e, <3>3, HeldHas
        <3> HIDE DEF new
        <3> QED  BY <1>s, <3>1, <3>4
    <2> QED  BY <2>2, <2>3
<1>7. CASE r.op = "LPUSH"
    <2>1. e.kind \in {"none", "list"}
        BY <1>7 DEF Refused, Expects
    <2> DEFINE old == IF Exists(e) THEN e.items ELSE <<>>
               items == <<Only(r.arg.items)>> \o old
    <2>2. Served(d, r).db = [d EXCEPT ![r.key] = Entry("list", items, e.ttl)]
        BY <1>7 DEF Served
    <2>3. Only(r.arg.items) \in Atom
        <3>1. PICK x \in Atom : r.arg = Datum("string", {x})
            BY <1>7 DEF Sent
        <3>2. r.arg.items = {x}
            BY <3>1 DEF Datum
        <3>3. Only({x}) \in {x}
            BY DEF Only
        <3> QED  BY <3>2, <3>3
    <2>4. old \in Seq(Atom)
        BY <1>e, <2>1 DEF Exists
    <2>5. items \in Seq(Atom) /\ items # <<>>
        <3> HIDE DEF old
        <3>1. <<Only(r.arg.items)>> \in Seq(Atom) /\ Len(<<Only(r.arg.items)>>) = 1
            BY <2>3
        <3>2. items \in Seq(Atom) /\ Len(items) = 1 + Len(old) /\ Len(old) \in Nat
            BY <2>4, <3>1
        <3> QED  BY <3>2
    <2> HIDE DEF items
    <2> QED  BY <1>e, <1>s, <2>2, <2>5, HeldHas
<1>8. CASE r.op = "SREM"
    <2>1. e.kind \in {"none", "set"}
        BY <1>8 DEF Refused, Expects
    <2> DEFINE old == IF Exists(e) THEN e.items ELSE {}
               new == IF old \subseteq r.arg.items THEN Missing ELSE Entry("set", e.items \ r.arg.items, e.ttl)
    <2>2. Served(d, r).db = [d EXCEPT ![r.key] = new]
        BY <1>8 DEF Served
    <2>3. ~(old \subseteq r.arg.items) => e.items \ r.arg.items \in SUBSET Atom /\ e.items \ r.arg.items # {}
        BY <1>e, <2>1 DEF Exists
    <2>4. new \in Held
        <3> HIDE DEF old
        <3> QED  BY <1>e, <2>3, HeldHas
    <2> HIDE DEF new
    <2> QED  BY <1>s, <2>2, <2>4
<1>9. CASE r.op = "SADD"
    <2>1. e.kind \in {"none", "set"}
        BY <1>9 DEF Refused, Expects
    <2> DEFINE items == (IF Exists(e) THEN e.items ELSE {}) \cup r.arg.items
    <2>2. Served(d, r).db = [d EXCEPT ![r.key] = Entry("set", items, e.ttl)]
        BY <1>9 DEF Served
    <2>3. r.arg.items # {} /\ r.arg.items \in SUBSET Atom
        BY <1>9 DEF Refused, Sent
    <2>4. items \in SUBSET Atom /\ items # {}
        BY <1>e, <2>1, <2>3 DEF Exists
    <2> HIDE DEF items
    <2> QED  BY <1>e, <1>s, <2>2, <2>4, HeldHas
<1>10. CASE r.op = "PFMERGE"
    <2> DEFINE items == UNION {d[k].items : k \in Range(r.arg)}
    <2>1. Served(d, r).db = [d EXCEPT ![r.key] = Entry("string", items, FALSE)]
        BY <1>10 DEF Served
    <2>2. \A k \in Range(r.arg) : k \in Key /\ d[k].kind \in {"none", "string"}
        BY <1>10 DEF Refused, Sent
    <2>3. \A k \in Range(r.arg) : d[k].items \in SUBSET Atom
        BY <2>2, HeldIs
    <2>4. items \in SUBSET Atom
        BY <2>3
    <2> HIDE DEF items
    <2> QED  BY <1>s, <2>1, <2>4, HeldHas
<1> QED  BY <1>0, <1>1, <1>2, <1>3, <1>4, <1>5, <1>6, <1>7, <1>8, <1>9, <1>10 DEF Op
-----------------------------------------------------------------------------
(* A method with requests left, and the one it sends next.                 *)

Replied(c) ==
    /\ Sequence(c.got) /\ Len(c.got) < Len(Requests(c))
    /\ \A i \in 1 .. Len(c.got) : /\ Answers(Requests(c)[i].op, c.got[i])
                                  /\ Requests(c)[i].op \in {"DUMP", "RPOP", "BRPOP"} => c.got[i] # None
Busy(p, c) ==
    /\ Callable(c)
    /\ c.temp = IF c.cmd = "pfmerge" THEN Temp[p] ELSE <<>>
    /\ Replied(c)

LEMMA GotIs ==
    ASSUME NEW c, Sequence(c.got)
    PROVE  /\ Len(c.got) \in Nat /\ DOMAIN c.got = 1 .. Len(c.got)
           /\ \A i \in 1 .. Len(c.got) : Got(c, i) = c.got[i]
<1>1. Len(c.got) \in Nat /\ DOMAIN c.got = 1 .. Len(c.got)
    BY DEF Sequence
<1> QED  BY <1>1 DEF Got

LEMMA TempIs ==
    ASSUME NEW p \in Client, NEW c, Busy(p, c), c.cmd = "pfmerge"
    PROVE  c.temp \in Seq(Key) /\ Len(c.temp) > Len(c.keys) /\ c.temp = Temp[p]
BY MultiKeyAssumption DEF Busy, Callable

LEMMA ResIs ==
    ASSUME NEW c, Callable(c), Sequence(c.got), Len(c.got) >= Len(c.keys),
           c.cmd \in {"sdiff", "sinter", "sunion", "sdiffstore", "sinterstore", "sunionstore"},
           \A i \in 1 .. Len(c.keys) : \E s \in SUBSET Atom : c.got[i] = Datum("set", s)
    PROVE  res(c) \in SUBSET Atom
<1> DEFINE n == Len(c.keys)
           sets == [i \in DOMAIN c.keys |-> Got(c, i).items]
<1>1. n \in Nat /\ n > 0 /\ DOMAIN c.keys = 1 .. n
    BY CallableKeys
<1>2. \A i \in 1 .. n : i \in 1 .. Len(c.got)
    BY <1>1, GotIs
<1>3. \A i \in 1 .. n : sets[i] \in SUBSET Atom
    <2> TAKE i \in 1 .. n
    <2>1. PICK s \in SUBSET Atom : c.got[i] = Datum("set", s)
        OBVIOUS
    <2>2. sets[i] = c.got[i].items
        BY <1>1, <1>2, GotIs
    <2> QED  BY <2>1, <2>2 DEF Datum
<1>4. sets = [i \in 1 .. n |-> sets[i]]
    BY <1>1
<1>5. sets \in Seq(SUBSET Atom) /\ Len(sets) = n
    <2> HIDE DEF sets
    <2> QED  BY <1>1, <1>3, <1>4
<1>6. Head(sets) \in SUBSET Atom /\ UNION Range(sets) \in SUBSET Atom
    <2>1. Head(sets) = sets[1] /\ 1 \in 1 .. n
        <3> HIDE DEF sets
        <3> QED  BY <1>1, <1>5
    <2>2. Range(sets) \subseteq SUBSET Atom
        <3> HIDE DEF sets
        <3> QED  BY <1>3, <1>5 DEF Range
    <2> HIDE DEF sets
    <2> QED  BY <1>3, <2>1, <2>2
<1>7. res(c) = Combined(c.cmd, sets)
    BY DEF res
<1> HIDE DEF sets
<1> QED  BY <1>6, <1>7 DEF Combined

LEMMA NextIsSent ==
    ASSUME NEW p \in Client, NEW c, Busy(p, c)
    PROVE  Sent(NextRequest(c))
<1> DEFINE g == Len(c.got)
           n == Len(c.keys)
           r == NextRequest(c)
<1>0. Callable(c) /\ Sequence(c.got) /\ g \in Nat /\ g < Len(Requests(c)) /\ r = Requests(c)[g + 1]
    BY GotIs DEF Busy, Replied, NextRequest
<1>1. n \in Nat /\ n > 0 /\ (\A i \in 1 .. n : c.keys[i] \in Key) /\ Src(c) \in Key /\ c.dst \in Key
    BY <1>0, CallableKeys
<1>2. \A i \in 1 .. g : /\ Got(c, i) = c.got[i] /\ Answers(Requests(c)[i].op, c.got[i])
                        /\ Requests(c)[i].op \in {"DUMP", "RPOP", "BRPOP"} => c.got[i] # None
    BY <1>0, GotIs DEF Busy, Replied
<1>3. c.cmd \in Command
    BY <1>0 DEF Callable
<1>a. \A op, k : Ask(op, k).op = op /\ Ask(op, k).key = k
    BY DEF Ask
<1>b. \A op, k, v : Put(op, k, v).op = op /\ Put(op, k, v).key = k /\ Put(op, k, v).arg = v
    BY DEF Put
<1>c. \A op \in {"GET", "DUMP", "EXISTS", "PTTL", "SMEMBERS", "DEL", "RPOP", "BRPOP"} : \A k \in Key : Sent(Ask(op, k))
    BY <1>a DEF Sent, Op
<1> HIDE DEF g, n, r
<1>4. CASE c.cmd \in Reading
    <2>1. g + 1 \in 1 .. n /\ r = Ask(ReadOp(c.cmd), c.keys[g + 1])
        BY <1>0, <1>1, <1>4, ReadingShape DEF n
    <2>2. ReadOp(c.cmd) \in {"GET", "DEL", "SMEMBERS"}
        BY DEF ReadOp
    <2>3. c.keys[g + 1] \in Key
        BY <1>1, <2>1
    <2> QED  BY <1>c, <2>1, <2>2, <2>3 DEF r
<1>5. CASE c.cmd \in {"mset", "msetnx"}
    <2>1. \A i \in 1 .. n : c.arg[i] \in Text
        <3>1. c.arg \in Seq([kind : {"string"}, items : SUBSET Atom]) /\ Len(c.arg) = n
            BY <1>0, <1>5 DEF Callable, n
        <3>2. \A v \in [kind : {"string"}, items : SUBSET Atom] : v \in Text
            BY DEF Text, Datum
        <3>3. \A i \in 1 .. n : c.arg[i] \in [kind : {"string"}, items : SUBSET Atom]
            BY <3>1, MembersOf
        <3> QED  BY <3>2, <3>3
    <2>2. \A i \in 1 .. n : Sent(Put("SET", c.keys[i], c.arg[i]))
        BY <1>1, <1>b, <2>1 DEF Sent, Op
    <2>3. CASE c.cmd = "mset"
        <3>1. g + 1 \in 1 .. n /\ r = Put("SET", c.keys[g + 1], c.arg[g + 1])
            BY <1>0, <1>1, <2>3, MsetShape DEF n
        <3> QED  BY <2>2, <3>1 DEF r
    <2>4. CASE c.cmd = "msetnx"
        <3>0. /\ Len(Requests(c)) = 2 * n
              /\ \A i \in 1 .. n : Requests(c)[i] = Ask("GET", c.keys[i])
              /\ \A i \in 1 .. n : Requests(c)[n + i] = Put("SET", c.keys[i], c.arg[i])
            BY <1>0, <2>4, MsetnxShape DEF n
        <3>1. CASE g < n
            <4>1. g + 1 \in 1 .. n
                BY <1>0, <1>1, <3>1
            <4> QED  BY <1>0, <1>1, <1>c, <3>0, <4>1 DEF r
        <3>2. CASE g >= n
            <4> DEFINE i == g + 1 - n
            <4>1. i \in 1 .. n /\ n + i = g + 1
                BY <1>0, <1>1, <3>0, <3>2
            <4> HIDE DEF i
            <4>2. r = Put("SET", c.keys[i], c.arg[i])
                BY <1>0, <3>0, <4>1
            <4> QED  BY <2>2, <4>1, <4>2 DEF r
        <3> QED  BY <1>0, <1>1, <3>1, <3>2
    <2> QED  BY <1>5, <2>3, <2>4
<1>6. CASE c.cmd \in {"sdiffstore", "sinterstore", "sunionstore"}
    <2>0. /\ Len(Requests(c)) = n + 2
          /\ \A i \in 1 .. n : Requests(c)[i] = Ask("SMEMBERS", c.keys[i])
          /\ Requests(c)[n + 1] = Ask("DEL", c.dst)
          /\ Requests(c)[n + 2] = Put("SADD", c.dst, Datum("set", res(c)))
        BY <1>0, <1>6, StoreShape DEF n
    <2>1. CASE g < n
        <3>1. g + 1 \in 1 .. n
            BY <1>0, <1>1, <2>1
        <3> QED  BY <1>0, <1>1, <1>c, <2>0, <3>1 DEF r
    <2>2. CASE g = n
        BY <1>0, <1>1, <1>c, <2>0, <2>2 DEF r
    <2>3. CASE g = n + 1
        <3>1. r = Put("SADD", c.dst, Datum("set", res(c)))
            <4>1. g + 1 = n + 2
                BY <1>1, <2>3
            <4> QED  BY <1>0, <2>0, <4>1
        <3>2. \A i \in 1 .. n : i \in 1 .. g
            BY <1>1, <2>3
        <3>3. \A i \in 1 .. n : \E s \in SUBSET Atom : c.got[i] = Datum("set", s)
            <4> TAKE i \in 1 .. n
            <4>1. Answers("SMEMBERS", c.got[i])
                BY <1>2, <1>a, <2>0, <3>2
            <4> QED  BY <4>1 DEF Answers
        <3>4. res(c) \in SUBSET Atom
            BY <1>0, <1>1, <1>6, <2>3, <3>3, ResIs DEF g, n
        <3>5. Datum("set", res(c)).items = res(c)
            BY DEF Datum
        <3>6. r.op = "SADD" /\ r.key = c.dst /\ r.arg.items = res(c)
            BY <1>b, <3>1, <3>5
        <3> QED  BY <1>1, <3>4, <3>6 DEF Sent, Op, r
    <2> QED  BY <1>0, <1>1, <2>0, <2>1, <2>2, <2>3
<1>7. CASE c.cmd \in {"rename", "renamenx"}
    <2> DEFINE o == Offset(c)
    <2>0. /\ o \in {0, 1} /\ (o = 1 <=> c.cmd = "renamenx")
          /\ Len(Requests(c)) = o + (IF Near(c) THEN 1 ELSE 5)
          /\ o = 1 => Requests(c)[1] = Ask("EXISTS", c.dst)
          /\ Near(c) => Requests(c)[o + 1] = Put("RENAME", Src(c), c.dst)
          /\ ~Near(c) => /\ Requests(c)[o + 1] = Ask("DUMP", Src(c))
                         /\ Requests(c)[o + 2] = Ask("PTTL", Src(c))
                         /\ Requests(c)[o + 3] = Ask("DEL", c.dst)
                         /\ Requests(c)[o + 4] = Put("RESTORE", c.dst, Restored(c, o))
                         /\ Requests(c)[o + 5] = Ask("DEL", Src(c))
        BY <1>0, <1>7, RenameShape DEF Offset
    <2> HIDE DEF o
    <2>1. CASE g < o
        <3>1. g + 1 = 1 /\ o = 1
            BY <1>0, <2>0, <2>1
        <3> QED  BY <1>0, <1>1, <1>c, <2>0, <3>1 DEF r
    <2>2. CASE g >= o /\ Near(c)
        <3>1. g = o
            BY <1>0, <2>0, <2>2
        <3>2. r = Put("RENAME", Src(c), c.dst)
            BY <1>0, <2>0, <2>2, <3>1
        <3> QED  BY <1>1, <1>b, <3>2 DEF Sent, Op, r
    <2>3. CASE g >= o /\ ~Near(c)
        <3>1. g \in {o, o + 1, o + 2, o + 3, o + 4}
            BY <1>0, <2>0, <2>3
        <3>2. CASE g = o + 3
            <4>1. r = Put("RESTORE", c.dst, Restored(c, o))
                <5>1. g + 1 = o + 4
                    BY <2>0, <3>2
                <5> QED  BY <1>0, <2>0, <2>3, <5>1
            <4>2. o + 1 \in 1 .. g
                BY <2>0, <3>2
            <4>3. Answers("DUMP", c.got[o + 1]) /\ c.got[o + 1] # None /\ Got(c, o + 1) = c.got[o + 1]
                BY <1>2, <1>a, <2>0, <2>3, <4>2
            <4>4. Restored(c, o).data \in Dumped
                BY <4>3 DEF Answers, Restored
            <4>5. r.op = "RESTORE" /\ r.key = c.dst /\ r.arg.data \in Dumped
                BY <1>b, <4>1, <4>4
            <4> QED  BY <1>1, <4>5 DEF Sent, Op, r
        <3>3. CASE g # o + 3
            <4>1. r \in {Ask("DUMP", Src(c)), Ask("PTTL", Src(c)), Ask("DEL", c.dst), Ask("DEL", Src(c))}
                <5>1. g + 1 \in {o + 1, o + 2, o + 3, o + 5}
                    BY <2>0, <3>1, <3>3
                <5> QED  BY <1>0, <2>0, <2>3, <5>1
            <4> QED  BY <1>1, <1>c, <4>1 DEF r
        <3> QED  BY <3>2, <3>3
    <2> QED  BY <1>0, <2>0, <2>1, <2>2, <2>3
<1>8. CASE c.cmd \in Moving
    <2>0. /\ Len(Requests(c)) = 2
          /\ c.cmd = "rpoplpush" => Requests(c)[1] = Ask("RPOP", Src(c)) /\ Requests(c)[2] = Put("LPUSH", c.dst, Got(c, 1))
          /\ c.cmd = "brpoplpush" => Requests(c)[1] = Ask("BRPOP", Src(c)) /\ Requests(c)[2] = Put("LPUSH", c.dst, Got(c, 1))
          /\ c.cmd = "smove" => Requests(c)[1] = Put("SREM", Src(c), c.arg[1]) /\ Requests(c)[2] = Put("SADD", c.dst, c.arg[1])
        BY <1>0, <1>8, MoveShape
    <2>1. g \in {0, 1} /\ g + 1 \in {1, 2}
        BY <1>0, <2>0
    <2>2. CASE c.cmd = "smove"
        <3>1. c.arg[1].items \in SUBSET Atom
            <4>1. c.arg \in Seq([kind : {"string"}, items : SUBSET Atom]) /\ c.arg # <<>>
                BY <1>0, <2>2 DEF Callable
            <4>2. Len(c.arg) \in Nat /\ Len(c.arg) > 0
                BY <4>1
            <4>3. \A i \in 1 .. Len(c.arg) : c.arg[i] \in [kind : {"string"}, items : SUBSET Atom]
                BY <4>1, MembersOf
            <4> QED  BY <4>2, <4>3
        <3>2. r \in {Put("SREM", Src(c), c.arg[1]), Put("SADD", c.dst, c.arg[1])}
            BY <1>0, <2>0, <2>1, <2>2
        <3> QED  BY <1>1, <1>b, <3>1, <3>2 DEF Sent, Op, r
    <2>3. CASE c.cmd # "smove" /\ g = 0
        <3>1. r \in {Ask("RPOP", Src(c)), Ask("BRPOP", Src(c))}
            BY <1>0, <1>8, <2>0, <2>3 DEF Moving
        <3> QED  BY <1>1, <1>c, <3>1 DEF r
    <2>4. CASE c.cmd # "smove" /\ g = 1
        <3>1. 1 \in 1 .. g /\ g + 1 = 2
            BY <2>4
        <3>2. r = Put("LPUSH", c.dst, Got(c, 1)) /\ Requests(c)[1].op \in {"RPOP", "BRPOP"}
            BY <1>0, <1>8, <1>a, <2>0, <2>4, <3>1 DEF Moving
        <3>3. Got(c, 1) = c.got[1] /\ Answers(Requests(c)[1].op, c.got[1]) /\ c.got[1] # None
            BY <1>2, <3>1, <3>2
        <3>4. \E x \in Atom : Got(c, 1) = Datum("string", {x})
            BY <3>2, <3>3 DEF Answers
        <3>5. r.op = "LPUSH" /\ r.key = c.dst /\ r.arg = Got(c, 1)
            BY <1>b, <3>2
        <3>6. \E x \in Atom : r.arg = Datum("string", {x})
            BY <3>4, <3>5
        <3> QED  BY <1>1, <3>5, <3>6 DEF Sent, Op, r
    <2> QED  BY <2>1, <2>2, <2>3, <2>4
<1>9. CASE c.cmd = "pfmerge"
    <2> DEFINE h == Merged(c)
    <2>0. /\ h \in n .. n + 1 /\ Range(all_k(c)) \subseteq Key
          /\ Len(Requests(c)) = n + 5 + 2 * h
          /\ \A i \in 1 .. n : Requests(c)[i] = Ask("GET", c.keys[i])
          /\ Requests(c)[n + 1] = Ask("GET", c.dst)
          /\ \A i \in 1 .. h : Requests(c)[n + 1 + i] = Put("SET", c.temp[i], Got(c, i))
          /\ Requests(c)[n + h + 2] = Put("PFMERGE", Last(c.temp), all_k(c))
          /\ Requests(c)[n + h + 3] = Ask("GET", Last(c.temp))
          /\ Requests(c)[n + h + 4] = Put("SET", c.dst, Got(c, n + h + 3))
          /\ Requests(c)[n + h + 5] = Ask("DEL", Last(c.temp))
          /\ \A i \in 1 .. h : Requests(c)[n + h + 5 + i] = Ask("DEL", c.temp[i])
          /\ \A i \in 1 .. h : c.temp[i] \in Key
          /\ Last(c.temp) \in Key
        <3>1. c.temp \in Seq(Key) /\ Len(c.temp) > Len(c.keys)
            BY <1>9, TempIs
        <3> QED  BY <1>0, <1>9, <3>1, PfmergeShape DEF n
    <2> HIDE DEF h
    <2>1. h \in Nat
        BY <1>1, <2>0
    <2>v. ASSUME NEW i \in 1 .. g, Requests(c)[i].op = "GET", NEW k \in Key, r = Put("SET", k, Got(c, i))
          PROVE  Sent(r)
        <3>1. Got(c, i) \in Text \cup {None}
            BY <1>2, <2>v DEF Answers
        <3> QED  BY <1>b, <2>v, <3>1 DEF Sent, Op
    <2>2. CASE g < n
        <3>1. g + 1 \in 1 .. n
            BY <1>0, <1>1, <2>2
        <3> QED  BY <1>0, <1>1, <1>c, <2>0, <3>1 DEF r
    <2>3. CASE g = n
        BY <1>0, <1>1, <1>c, <2>0, <2>3 DEF r
    <2>4. CASE g > n /\ g <= n + h
        <3> DEFINE i == g - n
        <3>1. i \in 1 .. h /\ n + 1 + i = g + 1 /\ i \in 1 .. g /\ i \in 1 .. n + 1
            <4>1. h <= n + 1
                BY <1>1, <2>0
            <4> QED  BY <1>0, <1>1, <2>1, <2>4, <4>1
        <3> HIDE DEF i
        <3>2. r = Put("SET", c.temp[i], Got(c, i)) /\ c.temp[i] \in Key
            BY <1>0, <2>0, <3>1
        <3>3. Requests(c)[i].op = "GET"
            <4>1. i \in 1 .. n \/ i = n + 1
                BY <1>1, <3>1
            <4> QED  BY <1>a, <2>0, <4>1
        <3> QED  BY <2>v, <3>1, <3>2, <3>3 DEF r
    <2>5. CASE g = n + h + 1
        <3>1. g + 1 = n + h + 2
            BY <1>1, <2>1, <2>5
        <3>2. r = Put("PFMERGE", Last(c.temp), all_k(c))
            BY <1>0, <2>0, <3>1
        <3> QED  BY <1>b, <2>0, <3>2 DEF Sent, Op, r
    <2>6. CASE g = n + h + 2
        <3>1. g + 1 = n + h + 3
            BY <1>1, <2>1, <2>6
        <3> QED  BY <1>0, <1>c, <2>0, <3>1 DEF r
    <2>7. CASE g = n + h + 3
        <3>1. g + 1 = n + h + 4 /\ n + h + 3 \in 1 .. g
            BY <1>1, <2>1, <2>7
        <3>2. r = Put("SET", c.dst, Got(c, n + h + 3)) /\ Requests(c)[n + h + 3].op = "GET"
            BY <1>0, <1>a, <2>0, <3>1
        <3> QED  BY <1>1, <2>v, <3>1, <3>2 DEF r
    <2>8. CASE g = n + h + 4
        <3>1. g + 1 = n + h + 5
            BY <1>1, <2>1, <2>8
        <3> QED  BY <1>0, <1>c, <2>0, <3>1 DEF r
    <2>9. CASE g > n + h + 4
        <3> DEFINE i == g - (n + h + 4)
        <3>1. i \in 1 .. h /\ n + h + 5 + i = g + 1
            BY <1>0, <1>1, <2>0, <2>1, <2>9
        <3> HIDE DEF i
        <3>2. r = Ask("DEL", c.temp[i]) /\ c.temp[i] \in Key
            BY <1>0, <2>0, <3>1
        <3> QED  BY <1>c, <3>2 DEF r
    <2> QED  BY <1>0, <1>1, <2>1, <2>2, <2>3, <2>4, <2>5, <2>6, <2>7, <2>8, <2>9
<1> QED  BY <1>3, <1>4, <1>5, <1>6, <1>7, <1>8, <1>9 DEF Command, Reading, Moving
(* With one more reply the method is the same, and its next requests are   *)
(* there: what is sent may depend on the reply, but not the number of      *)
(* requests, except for pfmerge, which has more when dest holds something. *)
Same(a, c) == a.cmd = c.cmd /\ a.keys = c.keys /\ a.dst = c.dst /\ a.arg = c.arg /\ a.temp = c.temp

LEMMA PfmergeOpsStay ==
    ASSUME NEW p \in Client, NEW c, Busy(p, c), NEW x, NEW a, Same(a, c), a.got = Append(c.got, x),
           c.cmd = "pfmerge"
    PROVE  /\ Len(Requests(a)) \in Nat /\ Len(Requests(a)) >= Len(Requests(c))
           /\ \A i \in 1 .. Len(a.got) : Requests(a)[i].op = Requests(c)[i].op
<1> DEFINE g == Len(c.got)
           n == Len(c.keys)
<1>0. Callable(c) /\ Callable(a) /\ Sequence(c.got) /\ g \in Nat /\ g < Len(Requests(c)) /\ Len(a.got) = g + 1
    <2>1. Callable(c) /\ Sequence(c.got) /\ g < Len(Requests(c))
        BY DEF Busy, Replied
    <2>2. Callable(a)
        BY <2>1 DEF Callable, Same
    <2> QED  BY <2>1, <2>2, AppendIs
<1>1. n \in Nat /\ Len(a.keys) = n /\ Src(a) = Src(c)
    BY <1>0, CallableKeys DEF Same, Src
<1>2. c.cmd \in Command /\ a.cmd = c.cmd /\ a.dst = c.dst /\ a.keys = c.keys
    BY <1>0 DEF Callable, Same
<1>a. \A op, k, v : Put(op, k, v).op = op /\ Ask(op, k).op = op
    BY DEF Ask, Put
<1> HIDE DEF g, n
<1>4. c.temp \in Seq(Key) /\ Len(c.temp) > Len(c.keys) /\ a.temp = c.temp
    BY TempIs DEF Same
<1> DEFINE h == Merged(c)
           k == Merged(a)
<1>5. /\ h \in n .. n + 1
      /\ Len(Requests(c)) = n + 5 + 2 * h
      /\ \A i \in 1 .. n : Requests(c)[i] = Ask("GET", c.keys[i])
      /\ Requests(c)[n + 1] = Ask("GET", c.dst)
      /\ \A i \in 1 .. h : Requests(c)[n + 1 + i] = Put("SET", c.temp[i], Got(c, i))
      /\ Requests(c)[n + h + 2] = Put("PFMERGE", Last(c.temp), all_k(c))
      /\ Requests(c)[n + h + 3] = Ask("GET", Last(c.temp))
      /\ Requests(c)[n + h + 4] = Put("SET", c.dst, Got(c, n + h + 3))
      /\ Requests(c)[n + h + 5] = Ask("DEL", Last(c.temp))
      /\ \A i \in 1 .. h : Requests(c)[n + h + 5 + i] = Ask("DEL", c.temp[i])
    BY <1>0, <1>4, PfmergeShape DEF n
<1>6. /\ k \in n .. n + 1
      /\ Len(Requests(a)) = n + 5 + 2 * k
      /\ \A i \in 1 .. n : Requests(a)[i] = Ask("GET", a.keys[i])
      /\ Requests(a)[n + 1] = Ask("GET", a.dst)
      /\ \A i \in 1 .. k : Requests(a)[n + 1 + i] = Put("SET", a.temp[i], Got(a, i))
      /\ Requests(a)[n + k + 2] = Put("PFMERGE", Last(a.temp), all_k(a))
      /\ Requests(a)[n + k + 3] = Ask("GET", Last(a.temp))
      /\ Requests(a)[n + k + 4] = Put("SET", a.dst, Got(a, n + k + 3))
      /\ Requests(a)[n + k + 5] = Ask("DEL", Last(a.temp))
      /\ \A i \in 1 .. k : Requests(a)[n + k + 5 + i] = Ask("DEL", a.temp[i])
    <2>1. a.temp \in Seq(Key) /\ Len(a.temp) > Len(a.keys) /\ a.cmd = "pfmerge"
        BY <1>2, <1>4
    <2>2. n = Len(a.keys)
        BY <1>1
    <2> QED  BY <1>0, <2>1, <2>2, PfmergeShape
<1>7. g >= n + 1 => h = k
    <2>1. ASSUME g >= n + 1 PROVE Got(a, n + 1) = Got(c, n + 1)
        <3>1. n + 1 \in 1 .. g /\ Sequence(a.got) /\ n + 1 \in 1 .. Len(a.got)
            BY <1>0, <1>1, <2>1, AppendIs
        <3>2. c.got[n + 1] = a.got[n + 1]
            BY <1>0, <3>1, AppendIs DEF g
        <3> QED  BY <1>0, <3>1, <3>2, GotIs DEF g
    <2> QED  BY <1>1, <2>1 DEF Merged, n
<1>8. g <= n => h = n
    <2>1. ASSUME g <= n PROVE Got(c, n + 1) = None
        <3>1. n + 1 \notin DOMAIN c.got
            BY <1>0, <1>1, <2>1, GotIs DEF g
        <3> QED  BY <3>1 DEF Got
    <2>2. ~Truthy(None)
        BY DEF Truthy
    <2> QED  BY <2>1, <2>2 DEF Merged, n
<1> HIDE DEF h, k
<1>9. h \in Nat /\ k \in Nat /\ h <= k
    BY <1>0, <1>1, <1>5, <1>6, <1>7, <1>8
<1>10. Len(Requests(a)) \in Nat /\ Len(Requests(a)) >= Len(Requests(c))
    BY <1>1, <1>5, <1>6, <1>9
<1>11. ASSUME NEW i \in 1 .. g + 1 PROVE Requests(a)[i].op = Requests(c)[i].op
    <2>1. CASE i \in 1 .. n
        BY <1>a, <1>5, <1>6, <2>1
    <2>2. CASE i = n + 1
        BY <1>a, <1>5, <1>6, <2>2
    <2>3. CASE i > n + 1
        <3>0. h = k /\ i \in Nat /\ i <= n + 5 + 2 * h
            BY <1>0, <1>1, <1>5, <1>7, <1>11, <2>3
        <3>1. CASE i <= n + 1 + h
            <4> DEFINE j == i - (n + 1)
            <4>1. j \in 1 .. h /\ n + 1 + j = i
                BY <1>1, <1>9, <2>3, <3>0, <3>1
            <4> HIDE DEF j
            <4>2. Requests(c)[i] = Put("SET", c.temp[j], Got(c, j)) /\ Requests(a)[i] = Put("SET", a.temp[j], Got(a, j))
                BY <1>5, <1>6, <3>0, <4>1
            <4> QED  BY <1>a, <4>2
        <3>2. CASE i = n + h + 2
            BY <1>a, <1>5, <1>6, <3>0, <3>2
        <3>3. CASE i = n + h + 3
            BY <1>a, <1>5, <1>6, <3>0, <3>3
        <3>4. CASE i = n + h + 4
            BY <1>a, <1>5, <1>6, <3>0, <3>4
        <3>5. CASE i = n + h + 5
            BY <1>a, <1>5, <1>6, <3>0, <3>5
        <3>6. CASE i > n + h + 5
            <4> DEFINE j == i - (n + h + 5)
            <4>1. j \in 1 .. h /\ n + h + 5 + j = i
                BY <1>1, <1>9, <3>0, <3>6
            <4> HIDE DEF j
            <4>2. Requests(c)[i] = Ask("DEL", c.temp[j]) /\ Requests(a)[i] = Ask("DEL", a.temp[j])
                BY <1>5, <1>6, <3>0, <4>1
            <4> QED  BY <1>a, <4>2
        <3> QED  BY <1>1, <1>9, <3>0, <3>1, <3>2, <3>3, <3>4, <3>5, <3>6
    <2> QED  BY <1>0, <1>1, <2>1, <2>2, <2>3
<1> QED  BY <1>0, <1>10, <1>11

LEMMA OtherOpsStay ==
    ASSUME NEW p \in Client, NEW c, Busy(p, c), NEW x, NEW a, Same(a, c), a.got = Append(c.got, x),
           c.cmd # "pfmerge"
    PROVE  /\ Len(Requests(a)) = Len(Requests(c)) /\ Len(Requests(a)) \in Nat
           /\ \A i \in 1 .. Len(Requests(c)) : Requests(a)[i].op = Requests(c)[i].op
<1> DEFINE g == Len(c.got)
           n == Len(c.keys)
<1>0. Callable(c) /\ Callable(a) /\ Sequence(c.got) /\ g \in Nat /\ g < Len(Requests(c)) /\ Len(a.got) = g + 1
    <2>1. Callable(c) /\ Sequence(c.got) /\ g < Len(Requests(c))
        BY DEF Busy, Replied
    <2>2. Callable(a)
        BY <2>1 DEF Callable, Same
    <2> QED  BY <2>1, <2>2, AppendIs
<1>1. n \in Nat /\ Len(a.keys) = n /\ Src(a) = Src(c)
    BY <1>0, CallableKeys DEF Same, Src
<1>2. c.cmd \in Command /\ a.cmd = c.cmd /\ a.dst = c.dst /\ a.keys = c.keys
    BY <1>0 DEF Callable, Same
<1>a. \A op, k, v : Put(op, k, v).op = op /\ Ask(op, k).op = op
    BY DEF Ask, Put
<1> HIDE DEF g, n
<1>4. CASE c.cmd \in Reading
    <2>1. Len(Requests(c)) = n /\ \A i \in 1 .. n : Requests(c)[i] = Ask(ReadOp(c.cmd), c.keys[i])
        BY <1>0, <1>4, ReadingShape DEF n
    <2>2. Len(Requests(a)) = n /\ \A i \in 1 .. n : Requests(a)[i] = Ask(ReadOp(c.cmd), a.keys[i])
        BY <1>0, <1>1, <1>2, <1>4, ReadingShape
    <2> QED  BY <1>1, <1>a, <2>1, <2>2
<1>5. CASE c.cmd = "mset"
    <2>1. Len(Requests(c)) = n /\ \A i \in 1 .. n : Requests(c)[i] = Put("SET", c.keys[i], c.arg[i])
        BY <1>0, <1>5, MsetShape DEF n
    <2>2. Len(Requests(a)) = n /\ \A i \in 1 .. n : Requests(a)[i] = Put("SET", a.keys[i], a.arg[i])
        BY <1>0, <1>1, <1>2, <1>5, MsetShape
    <2> QED  BY <1>1, <1>a, <2>1, <2>2
<1>6. CASE c.cmd = "msetnx"
    <2>1. /\ Len(Requests(c)) = 2 * n /\ \A i \in 1 .. n : Requests(c)[i] = Ask("GET", c.keys[i])
          /\ \A i \in 1 .. n : Requests(c)[n + i] = Put("SET", c.keys[i], c.arg[i])
        BY <1>0, <1>6, MsetnxShape DEF n
    <2>2. /\ Len(Requests(a)) = 2 * n /\ \A i \in 1 .. n : Requests(a)[i] = Ask("GET", a.keys[i])
          /\ \A i \in 1 .. n : Requests(a)[n + i] = Put("SET", a.keys[i], a.arg[i])
        BY <1>0, <1>1, <1>2, <1>6, MsetnxShape
    <2>3. ASSUME NEW i \in 1 .. 2 * n PROVE Requests(a)[i].op = Requests(c)[i].op
        <3>1. CASE i <= n
            <4>1. i \in 1 .. n
                BY <1>1, <3>1
            <4> QED  BY <1>a, <2>1, <2>2, <4>1
        <3>2. CASE i > n
            <4> DEFINE j == i - n
            <4>1. j \in 1 .. n /\ n + j = i
                BY <1>1, <3>2
            <4> HIDE DEF j
            <4> QED  BY <1>a, <2>1, <2>2, <4>1
        <3> QED  BY <1>1, <3>1, <3>2
    <2> QED  BY <1>1, <2>1, <2>2, <2>3
<1>7. CASE c.cmd \in {"sdiffstore", "sinterstore", "sunionstore"}
    <2>1. /\ Len(Requests(c)) = n + 2 /\ \A i \in 1 .. n : Requests(c)[i] = Ask("SMEMBERS", c.keys[i])
          /\ Requests(c)[n + 1] = Ask("DEL", c.dst) /\ Requests(c)[n + 2] = Put("SADD", c.dst, Datum("set", res(c)))
        BY <1>0, <1>7, StoreShape DEF n
    <2>2. /\ Len(Requests(a)) = n + 2 /\ \A i \in 1 .. n : Requests(a)[i] = Ask("SMEMBERS", a.keys[i])
          /\ Requests(a)[n + 1] = Ask("DEL", a.dst) /\ Requests(a)[n + 2] = Put("SADD", a.dst, Datum("set", res(a)))
        BY <1>0, <1>1, <1>2, <1>7, StoreShape
    <2>3. \A i \in 1 .. n + 2 : i \in 1 .. n \/ i = n + 1 \/ i = n + 2
        BY <1>1
    <2> QED  BY <1>1, <1>a, <2>1, <2>2, <2>3
<1>8. CASE c.cmd \in {"rename", "renamenx"}
    <2> DEFINE o == Offset(c)
    <2>1. o \in {0, 1} /\ (o = 1 <=> c.cmd = "renamenx") /\ Offset(a) = o /\ (Near(a) <=> Near(c))
        BY <1>1, <1>2, <1>8 DEF Offset, Near
    <2>2. /\ Len(Requests(c)) = o + (IF Near(c) THEN 1 ELSE 5)
          /\ o = 1 => Requests(c)[1].op = "EXISTS"
          /\ Near(c) => Requests(c)[o + 1].op = "RENAME"
          /\ ~Near(c) => /\ Requests(c)[o + 1].op = "DUMP" /\ Requests(c)[o + 2].op = "PTTL"
                         /\ Requests(c)[o + 3].op = "DEL" /\ Requests(c)[o + 4].op = "RESTORE"
                         /\ Requests(c)[o + 5].op = "DEL"
        BY SMTT(30), <1>0, <1>8, <1>a, <2>1, RenameShape
    <2>3. /\ Len(Requests(a)) = o + (IF Near(c) THEN 1 ELSE 5)
          /\ o = 1 => Requests(a)[1].op = "EXISTS"
          /\ Near(c) => Requests(a)[o + 1].op = "RENAME"
          /\ ~Near(c) => /\ Requests(a)[o + 1].op = "DUMP" /\ Requests(a)[o + 2].op = "PTTL"
                         /\ Requests(a)[o + 3].op = "DEL" /\ Requests(a)[o + 4].op = "RESTORE"
                         /\ Requests(a)[o + 5].op = "DEL"
        <3>1. a.cmd \in {"rename", "renamenx"}
            BY <1>2, <1>8
        <3>2. /\ Len(Requests(a)) = Offset(a) + (IF Near(a) THEN 1 ELSE 5)
              /\ a.cmd = "renamenx" => Requests(a)[1].op = "EXISTS"
              /\ Near(a) => Requests(a)[Offset(a) + 1].op = "RENAME"
              /\ ~Near(a) => /\ Requests(a)[Offset(a) + 1].op = "DUMP" /\ Requests(a)[Offset(a) + 2].op = "PTTL"
                             /\ Requests(a)[Offset(a) + 3].op = "DEL" /\ Requests(a)[Offset(a) + 4].op = "RESTORE"
                             /\ Requests(a)[Offset(a) + 5].op = "DEL"
            BY <1>0, <1>a, <3>1, RenameShape
        <3> HIDE DEF o
        <3> QED  BY <1>2, <2>1, <3>2
    <2> HIDE DEF o
    <2>4. CASE Near(c)
        <3>1. \A i \in 1 .. o + 1 : i = o + 1 \/ (i = 1 /\ o = 1)
            BY <2>1
        <3> QED  BY <2>1, <2>2, <2>3, <2>4, <3>1
    <2>5. CASE ~Near(c)
        <3>1. \A i \in 1 .. o + 5 : i \in {o + 1, o + 2, o + 3, o + 4, o + 5} \/ (i = 1 /\ o = 1)
            BY <2>1
        <3> QED  BY <2>1, <2>2, <2>3, <2>5, <3>1
    <2> QED  BY <2>4, <2>5
<1>9. CASE c.cmd \in Moving
    <2>1. /\ Len(Requests(c)) = 2
          /\ c.cmd = "rpoplpush" => Requests(c)[1].op = "RPOP" /\ Requests(c)[2].op = "LPUSH"
          /\ c.cmd = "brpoplpush" => Requests(c)[1].op = "BRPOP" /\ Requests(c)[2].op = "LPUSH"
          /\ c.cmd = "smove" => Requests(c)[1].op = "SREM" /\ Requests(c)[2].op = "SADD"
        BY <1>0, <1>9, <1>a, MoveShape
    <2>2. /\ Len(Requests(a)) = 2
          /\ c.cmd = "rpoplpush" => Requests(a)[1].op = "RPOP" /\ Requests(a)[2].op = "LPUSH"
          /\ c.cmd = "brpoplpush" => Requests(a)[1].op = "BRPOP" /\ Requests(a)[2].op = "LPUSH"
          /\ c.cmd = "smove" => Requests(a)[1].op = "SREM" /\ Requests(a)[2].op = "SADD"
        BY <1>0, <1>2, <1>9, <1>a, MoveShape
    <2>3. \A i \in 1 .. 2 : i \in {1, 2}
        OBVIOUS
    <2> QED  BY <1>9, <2>1, <2>2, <2>3 DEF Moving
<1> QED  BY <1>2, <1>4, <1>5, <1>6, <1>7, <1>8, <1>9 DEF Command, Reading, Moving

LEMMA OpsStay ==
    ASSUME NEW p \in Client, NEW c, Busy(p, c), NEW x, NEW a, Same(a, c), a.got = Append(c.got, x)
    PROVE  /\ Len(Requests(a)) \in Nat /\ Len(Requests(a)) >= Len(Requests(c))
           /\ \A i \in 1 .. Len(a.got) : Requests(a)[i].op = Requests(c)[i].op
<1>1. CASE c.cmd = "pfmerge"
    BY <1>1, PfmergeOpsStay
<1>2. CASE c.cmd # "pfmerge"
    <2>1. /\ Len(Requests(a)) = Len(Requests(c)) /\ Len(Requests(a)) \in Nat
          /\ \A i \in 1 .. Len(Requests(c)) : Requests(a)[i].op = Requests(c)[i].op
        BY ZenonT(30), <1>2, OtherOpsStay
    <2>2. Len(c.got) \in Nat /\ Len(c.got) < Len(Requests(c)) /\ Len(a.got) = Len(c.got) + 1
        BY AppendIs DEF Busy, Replied
    <2>3. \A i \in 1 .. Len(a.got) : i \in 1 .. Len(Requests(c))
        BY <2>1, <2>2
    <2> QED  BY <2>1, <2>3
<1> QED  BY <1>1, <1>2
LEMMA RequestsSame ==
    ASSUME NEW c, NEW a, Same(a, c), a.got = c.got
    PROVE  Requests(a) = Requests(c)
<1>1. \A i : Got(a, i) = Got(c, i)
    BY DEF Got
<1>2. Src(a) = Src(c) /\ \A n : Restored(a, n) = Restored(c, n)
    BY <1>1 DEF Same, Src, Restored
<1>3. mget(a) = mget(c) /\ mset(a) = mset(c) /\ msetnx(a) = msetnx(c) /\ delete(a) = delete(c) /\ Smembers(a) = Smembers(c)
    BY DEF Same, mget, mset, msetnx, delete, Smembers
<1>4. \A n : rename(a, n) = rename(c, n)
    BY <1>2 DEF Same, rename, CrossSlotRename
<1>5. rpoplpush(a) = rpoplpush(c) /\ brpoplpush(a) = brpoplpush(c) /\ smove(a) = smove(c)
    BY <1>1, <1>2 DEF Same, rpoplpush, brpoplpush, smove
<1>6. Store(a) = Store(c)
    <2>1. [i \in DOMAIN a.keys |-> Got(a, i).items] = [i \in DOMAIN c.keys |-> Got(c, i).items]
        BY <1>1 DEF Same
    <2>2. res(a) = res(c)
        BY <2>1 DEF Same, res
    <2> QED  BY <1>3, <2>2 DEF Same, Store
<1>7. pfmerge(a) = pfmerge(c)
    <2>1. all_hll_objects(a) = all_hll_objects(c)
        BY <1>1 DEF Same, all_hll_objects
    <2> QED  BY <1>1, <2>1 DEF Same, pfmerge
<1> QED  BY <1>3, <1>4, <1>5, <1>6, <1>7 DEF Same, Requests, renamenx

LEMMA BusySame ==
    ASSUME NEW p, NEW c, Busy(p, c), NEW a, Same(a, c), a.got = c.got
    PROVE  Busy(p, a)
<1>1. Requests(a) = Requests(c)
    BY RequestsSame
<1>2. Callable(a) /\ a.temp = IF a.cmd = "pfmerge" THEN Temp[p] ELSE <<>>
    BY DEF Busy, Callable, Same
<1>3. Replied(a)
    BY <1>1 DEF Busy, Replied
<1> QED  BY <1>2, <1>3 DEF Busy

(* The method that gets a reply and goes on. *)
LEMMA BusyOn ==
    ASSUME NEW p \in Client, NEW c, Busy(p, c), NEW x, NEW a, Same(a, c), a.got = Append(c.got, x),
           Answers(NextRequest(c).op, x), NextRequest(c).op \in {"DUMP", "RPOP", "BRPOP"} => x # None,
           Len(a.got) # Len(Requests(a))
    PROVE  Busy(p, a)
<1> DEFINE g == Len(c.got)
<1>1. Callable(c) /\ Sequence(c.got) /\ g \in Nat /\ g < Len(Requests(c)) /\ NextRequest(c) = Requests(c)[g + 1]
    BY GotIs DEF Busy, Replied, NextRequest
<1>2. Callable(a) /\ a.temp = IF a.cmd = "pfmerge" THEN Temp[p] ELSE <<>>
    BY DEF Busy, Callable, Same
<1>3. /\ Len(Requests(a)) \in Nat /\ Len(Requests(a)) >= Len(Requests(c))
      /\ \A i \in 1 .. Len(a.got) : Requests(a)[i].op = Requests(c)[i].op
    BY OpsStay
<1>4. Sequence(a.got) /\ Len(a.got) = g + 1 /\ a.got[g + 1] = x /\ \A i \in 1 .. g : a.got[i] = c.got[i]
    BY <1>1, AppendIs
<1>5. Len(Requests(c)) \in Nat
    <2>1. Sequence(Requests(c))
        BY <1>1, RequestsAre, TempIs DEF Busy
    <2> QED  BY <2>1 DEF Sequence
<1>6. Len(a.got) < Len(Requests(a))
    BY <1>1, <1>3, <1>4, <1>5
<1>7. ASSUME NEW i \in 1 .. Len(a.got)
      PROVE  /\ Answers(Requests(a)[i].op, a.got[i])
             /\ Requests(a)[i].op \in {"DUMP", "RPOP", "BRPOP"} => a.got[i] # None
    <2>1. Requests(a)[i].op = Requests(c)[i].op
        BY <1>3
    <2>2. CASE i \in 1 .. g
        BY <1>4, <2>1, <2>2 DEF Busy, Replied
    <2>3. CASE i = g + 1
        BY <1>1, <1>4, <2>1, <2>3
    <2> QED  BY <1>1, <1>4, <2>2, <2>3
<1> QED  BY <1>2, <1>4, <1>6, <1>7 DEF Busy, Replied
-----------------------------------------------------------------------------
(* The type invariant.                                                     *)

Shaped(c) ==
    c = [pc |-> c.pc, cmd |-> c.cmd, keys |-> c.keys, dst |-> c.dst, arg |-> c.arg, temp |-> c.temp,
         got |-> c.got, result |-> c.result, before |-> c.before, alone |-> c.alone, smooth |-> c.smooth]
Well(p, c) ==
    /\ Shaped(c) /\ c.alone \in BOOLEAN
    /\ (c.pc = "idle" /\ c.cmd = "none") \/ (c.pc = "busy" /\ Busy(p, c))

TypeInv ==
    /\ load \in Loads
    /\ db \in [Key -> Held]
    /\ faults \in 0 .. MaxFaults
    /\ call = [p \in Client |-> call[p]]
    /\ \A p \in Client : Well(p, call[p])

LEMMA GotAnother ==
    ASSUME NEW c, Shaped(c), NEW got
    PROVE  LET a == [c EXCEPT !.got = got] IN
               /\ Shaped(a) /\ Same(a, c) /\ a.pc = c.pc /\ a.got = got /\ a.result = c.result
               /\ a.before = c.before /\ a.alone = c.alone /\ a.smooth = c.smooth
BY DEF Shaped, Same

LEMMA AfterIs ==
    ASSUME NEW c, Shaped(c), NEW x, NEW a, a = [c EXCEPT !.got = Append(c.got, x)]
    PROVE  /\ Shaped(a) /\ Same(a, c) /\ a.pc = c.pc /\ a.got = Append(c.got, x)
           /\ a.before = c.before
<1> DEFINE got == Append(c.got, x)
<1> HIDE DEF got
<1>1. a = [c EXCEPT !.got = got]
    BY DEF got
<1>2. Shaped(a) /\ Same(a, c) /\ a.pc = c.pc /\ a.got = got /\ a.before = c.before
    BY <1>1 DEF Shaped, Same
<1> QED  BY <1>2 DEF got

LEMMA DoneIs ==
    ASSUME NEW p, NEW result
    PROVE  /\ Well(p, Done(result)) /\ Done(result).pc = "idle" /\ Done(result).cmd = "none"
           /\ Done(result).result = result
<1>1. Shaped(Idle)
    BY DEF Shaped, Idle
<1>2. Done(result) = [Idle EXCEPT !.result = result]
    BY DEF Done
<1>3. Shaped(Done(result))
    BY <1>1, <1>2 DEF Shaped
<1>4. Done(result).pc = "idle" /\ Done(result).cmd = "none" /\ Done(result).result = result
    BY DEF Done, Idle
<1>5. Done(result).alone = TRUE
    BY DEF Done, Idle
<1> QED  BY <1>3, <1>4, <1>5 DEF Well

LEMMA StrangerIs ==
    ASSUME NEW p, NEW c, Well(p, c), NEW b \in BOOLEAN
    PROVE  LET a == [c EXCEPT !.alone = b] IN
               /\ Well(p, a) /\ Same(a, c) /\ a.pc = c.pc /\ a.got = c.got /\ a.result = c.result
               /\ a.before = c.before /\ a.smooth = c.smooth /\ a.alone = b
<1> DEFINE a == [c EXCEPT !.alone = b]
<1>1. /\ Shaped(a) /\ Same(a, c) /\ a.pc = c.pc /\ a.got = c.got /\ a.result = c.result
      /\ a.before = c.before /\ a.smooth = c.smooth /\ a.alone = b
    BY DEF Well, Shaped, Same
<1> HIDE DEF a
<1>2. c.pc = "busy" /\ Busy(p, c) => Busy(p, a)
    BY <1>1, BusySame
<1>3. Well(p, a)
    <2>1. a.alone \in BOOLEAN
        BY <1>1
    <2>2. (a.pc = "idle" /\ a.cmd = "none") \/ (a.pc = "busy" /\ Busy(p, a))
        <3>1. (c.pc = "idle" /\ c.cmd = "none") \/ (c.pc = "busy" /\ Busy(p, c))
            BY DEF Well
        <3>2. a.cmd = c.cmd
            BY <1>1 DEF Same
        <3> QED  BY <1>1, <1>2, <3>1, <3>2
    <2> QED  BY <1>1, <2>1, <2>2 DEF Well
<1> QED  BY <1>1, <1>3 DEF a

LEMMA TakesIs ==
    ASSUME TypeInv, NEW p \in Client, NEW c, Takes(p, c)
    PROVE  /\ call' = [q \in Client |-> call'[q]] /\ call'[p] = c
           /\ \A q \in Client : q # p =>
                  call'[q] = [call[q] EXCEPT !.alone = call[q].alone /\ \A k \in KeysOf(call[q]) : db'[k] = db[k]]
BY DEF Takes

LEMMA StrangersAreWell ==
    ASSUME TypeInv, NEW p \in Client, NEW c, Takes(p, c), Well(p, c)
    PROVE  call' = [q \in Client |-> call'[q]] /\ \A q \in Client : Well(q, call'[q])
<1>1. ASSUME NEW q \in Client PROVE Well(q, call'[q])
    <2>1. CASE q = p
        BY <2>1, TakesIs
    <2>2. CASE q # p
        <3> DEFINE b == call[q].alone /\ \A k \in KeysOf(call[q]) : db'[k] = db[k]
        <3>1. call'[q] = [call[q] EXCEPT !.alone = b]
            BY <2>2, TakesIs
        <3>2. b \in BOOLEAN /\ Well(q, call[q])
            BY DEF TypeInv
        <3> HIDE DEF b
        <3> QED  BY <3>1, <3>2, StrangerIs
    <2> QED  BY <2>1, <2>2
<1> QED  BY <1>1, TakesIs

(* What a request that is executed leaves its own method with. *)
Reply(d, r) == IF Refused(d, r) THEN Error ELSE Served(d, r).reply
Outcome(c, reply) ==
    LET after == [c EXCEPT !.got = Append(c.got, reply)]
        r     == NextRequest(c)
    IN  IF LeavesEarly(c, r.op, reply) THEN Done(EarlyResult(r.op, reply))
        ELSE IF Len(after.got) = Len(Requests(after)) THEN Done(Result(after)) ELSE after

LEMMA ExecuteIs ==
    ASSUME NEW p \in Client, Execute(p)
    PROVE  LET r == NextRequest(call[p]) IN
           /\ call[p].pc = "busy" /\ UNCHANGED <<load, faults>>
           /\ db' = IF Refused(db, r) THEN db ELSE Served(db, r).db
           /\ Takes(p, Outcome(call[p], Reply(db, r)))
<1> DEFINE r == NextRequest(call[p])
           s == IF Refused(db, r) THEN [reply |-> Error, db |-> db] ELSE Served(db, r)
<1>1. s.reply = Reply(db, r) /\ s.db = IF Refused(db, r) THEN db ELSE Served(db, r).db
    BY DEF Reply
<1>2. /\ call[p].pc = "busy" /\ UNCHANGED <<load, faults>> /\ db' = s.db
      /\ Takes(p, Outcome(call[p], s.reply))
    BY DEF Execute, Outcome
<1> HIDE DEF s, r
<1> QED  BY <1>1, <1>2 DEF r

LEMMA OutcomeIsWell ==
    ASSUME TypeInv, NEW p \in Client, call[p].pc = "busy"
    PROVE  Well(p, Outcome(call[p], Reply(db, NextRequest(call[p]))))
<1> DEFINE c == call[p]
           r == NextRequest(c)
           x == Reply(db, r)
           after == [c EXCEPT !.got = Append(c.got, x)]
<1>1. Well(p, c) /\ Busy(p, c) /\ db \in [Key -> Held]
    BY DEF TypeInv, Well
<1>2. Sent(r)
    BY <1>1, NextIsSent
<1>3. SUFFICES ASSUME ~LeavesEarly(c, r.op, x), Len(after.got) # Len(Requests(after))
               PROVE  Well(p, after)
    <2>1. Outcome(c, x) = IF LeavesEarly(c, r.op, x) THEN Done(EarlyResult(r.op, x))
                          ELSE IF Len(after.got) = Len(Requests(after)) THEN Done(Result(after)) ELSE after
        BY DEF Outcome
    <2> HIDE DEF after, x, r, c
    <2>2. Well(p, Done(EarlyResult(r.op, x))) /\ Well(p, Done(Result(after)))
        BY DoneIs
    <2>3. Well(p, Outcome(c, x))
        BY <1>3, <2>1, <2>2
    <2> QED  BY <2>3 DEF x, r, c
<1>4. Shaped(after) /\ after.alone = c.alone /\ after.pc = c.pc /\ Same(after, c) /\ after.got = Append(c.got, x)
    <2>1. Shaped(c)
        BY <1>1 DEF Well
    <2> QED  BY ZenonT(30), <2>1, GotAnother
<1>5. x # Error /\ ~Refused(db, r)
    BY <1>3 DEF LeavesEarly, Reply
<1>6. Answers(r.op, x)
    BY <1>1, <1>2, <1>5, AnswersTyped DEF Reply
<1>7. r.op \in {"DUMP", "RPOP", "BRPOP"} => x # None
    BY <1>3 DEF LeavesEarly, Truthy
<1> HIDE DEF after, x
<1>8. Busy(p, after)
    BY <1>1, <1>3, <1>4, <1>6, <1>7, BusyOn
<1> QED  BY <1>1, <1>4, <1>8 DEF Well
(* The method that has just been called. *)
Started(p, m) ==
    [Idle EXCEPT !.pc = "busy", !.cmd = m.cmd, !.keys = m.keys, !.dst = m.dst,
                 !.arg = m.arg, !.temp = IF m.cmd = "pfmerge" THEN Temp[p] ELSE <<>>]
Begun(p, m, d) == [Started(p, m) EXCEPT !.before = [k \in KeysOf(Started(p, m)) |-> d[k]]]

LEMMA BegunIs ==
    ASSUME NEW p, NEW m, NEW d, NEW c, c = Begun(p, m, d)
    PROVE  /\ Shaped(c) /\ c.pc = "busy" /\ c.cmd = m.cmd /\ c.keys = m.keys
           /\ c.dst = m.dst /\ c.arg = m.arg /\ c.got = <<>>
           /\ m.cmd = "pfmerge" => c.temp = Temp[p]
           /\ m.cmd # "pfmerge" => c.temp = <<>>
           /\ DOMAIN c.before = KeysOf(c) /\ \A k \in KeysOf(c) : c.before[k] = d[k]
<1> DEFINE s == Started(p, m)
           temp == IF m.cmd = "pfmerge" THEN Temp[p] ELSE <<>>
           before == [k \in KeysOf(s) |-> d[k]]
<1>1. s = [pc |-> "busy", cmd |-> m.cmd, keys |-> m.keys, dst |-> m.dst, arg |-> m.arg, temp |-> temp,
           got |-> <<>>, result |-> None, before |-> <<>>, alone |-> TRUE, smooth |-> TRUE]
    <2>1. s = [Idle EXCEPT !.pc = "busy", !.cmd = m.cmd, !.keys = m.keys, !.dst = m.dst,
                           !.arg = m.arg, !.temp = temp]
        BY DEF Started
    <2> HIDE DEF s, temp
    <2> QED  BY <2>1 DEF Idle
<1> HIDE DEF temp
<1>2. c = [s EXCEPT !.before = before]
    BY DEF Begun
<1> HIDE DEF s, before
<1>3. c = [pc |-> "busy", cmd |-> m.cmd, keys |-> m.keys, dst |-> m.dst, arg |-> m.arg, temp |-> temp,
           got |-> <<>>, result |-> None, before |-> before, alone |-> TRUE, smooth |-> TRUE]
    BY <1>1, <1>2
<1>4. /\ c.pc = "busy" /\ c.cmd = m.cmd /\ c.keys = m.keys /\ c.dst = m.dst /\ c.arg = m.arg
      /\ c.temp = temp /\ c.got = <<>> /\ c.before = before
    BY <1>3
<1>6. Shaped(c)
    BY <1>3 DEF Shaped
<1>7. KeysOf(s) = KeysOf(c)
    <2>1. s.pc = "busy" /\ s.keys = c.keys /\ s.dst = c.dst /\ s.temp = c.temp
        BY <1>1, <1>4
    <2> QED  BY <1>4, <2>1 DEF KeysOf
<1>8. (m.cmd = "pfmerge" => temp = Temp[p]) /\ (m.cmd # "pfmerge" => temp = <<>>)
    BY DEF temp
<1>9. DOMAIN c.before = KeysOf(c) /\ \A k \in KeysOf(c) : c.before[k] = d[k]
    BY <1>4, <1>7 DEF before
<1> QED  BY <1>4, <1>6, <1>8, <1>9

LEMMA BegunAlone ==
    ASSUME NEW p, NEW m, NEW d
    PROVE  Begun(p, m, d).alone = TRUE /\ Begun(p, m, d).smooth = TRUE
<1> DEFINE s == Started(p, m)
           before == [k \in KeysOf(s) |-> d[k]]
           temp == IF m.cmd = "pfmerge" THEN Temp[p] ELSE <<>>
<1>1. s = [Idle EXCEPT !.pc = "busy", !.cmd = m.cmd, !.keys = m.keys, !.dst = m.dst,
                       !.arg = m.arg, !.temp = temp]
    BY DEF Started
<1>2. Begun(p, m, d) = [s EXCEPT !.before = before]
    BY DEF Begun
<1> HIDE DEF s, before, temp
<1>3. s.alone = TRUE /\ s.smooth = TRUE
    BY <1>1 DEF Idle
<1> QED  BY <1>2, <1>3, <1>1 DEF Idle

LEMMA CallIs ==
    ASSUME NEW p \in Client, Call(p)
    PROVE  /\ call[p].pc = "idle" /\ UNCHANGED <<load, db, faults>>
           /\ \E m \in load.calls : call' = [call EXCEPT ![p] = Begun(p, m, db)]
BY ZenonT(30) DEF Call, Begun, Started

LEMMA BegunIsWell ==
    ASSUME NEW p \in Client, NEW m, Callable(m), NEW d
    PROVE  Well(p, Begun(p, m, d))
<1> DEFINE c == Begun(p, m, d)
<1>0. c = Begun(p, m, d)
    OBVIOUS
<1> HIDE DEF c
<1>1. /\ Shaped(c) /\ c.pc = "busy" /\ c.cmd = m.cmd /\ c.keys = m.keys
      /\ c.dst = m.dst /\ c.arg = m.arg
    BY <1>0, BegunIs
<1>t. c.temp = (IF m.cmd = "pfmerge" THEN Temp[p] ELSE <<>>) /\ c.got = <<>>
    BY <1>0, BegunIs
<1>2. c.alone = TRUE
    BY <1>0, BegunAlone
<1>3. Callable(c)
    BY <1>1 DEF Callable
<1>4. c.cmd = "pfmerge" => c.temp \in Seq(Key) /\ Len(c.temp) > Len(c.keys)
    BY <1>1, <1>t, <1>3, MultiKeyAssumption DEF Callable
<1>5. Len(Requests(c)) \in Nat /\ Len(Requests(c)) > 0
    BY <1>3, <1>4, RequestsAre
<1>6. Sequence(c.got) /\ Len(c.got) = 0
    BY <1>t DEF Sequence
<1>7. Replied(c)
    BY <1>5, <1>6 DEF Replied
<1> QED  BY <1>1, <1>t, <1>2, <1>3, <1>7 DEF Well, Busy, c

LEMMA TypeInit == Init => TypeInv
<1> SUFFICES ASSUME Init PROVE TypeInv
    OBVIOUS
<1>1. load \in Loads /\ db \in [Key -> Held] /\ faults \in 0 .. MaxFaults
    BY MultiKeyAssumption DEF Init
<1>2. call = [p \in Client |-> call[p]] /\ \A p \in Client : call[p] = Idle
    BY DEF Init
<1>3. \A p : Well(p, Idle)
    <2> TAKE p
    <2>1. Shaped(Idle) /\ Idle.pc = "idle" /\ Idle.cmd = "none"
        BY DEF Shaped, Idle
    <2>2. Idle.alone = TRUE
        BY DEF Idle
    <2> QED  BY <2>1, <2>2 DEF Well
<1> QED  BY <1>1, <1>2, <1>3 DEF TypeInv

LEMMA LostIs ==
    ASSUME TypeInv, NEW p \in Client, LoseReply(p)
    PROVE  LET r == NextRequest(call[p])
               c == [call[p] EXCEPT !.smooth = FALSE]
           IN  /\ load' = load /\ faults' = faults + 1 /\ faults < MaxFaults /\ call[p].pc = "busy"
               /\ ~Refused(db, r) /\ db' = Served(db, r).db
               /\ Takes(p, c) /\ Well(p, c) /\ Same(c, call[p]) /\ c.pc = "busy" /\ c.got = call[p].got
               /\ c.before = call[p].before /\ c.alone = call[p].alone
<1> DEFINE c == [call[p] EXCEPT !.smooth = FALSE]
           o == call[p]
<1>1. Well(p, o)
    BY DEF TypeInv
<1>2. o.pc = "busy" /\ Takes(p, c)
    BY DEF LoseReply
<1>3. Busy(p, o) /\ Shaped(o) /\ o.alone \in BOOLEAN
    BY <1>1, <1>2 DEF Well
<1>4. c = [o EXCEPT !.smooth = FALSE]
    OBVIOUS
<1> HIDE DEF c, o
<1>5. /\ Shaped(c) /\ Same(c, o) /\ c.pc = o.pc /\ c.got = o.got /\ c.before = o.before
      /\ c.alone = o.alone
    BY <1>3, <1>4 DEF Shaped, Same
<1>6. Busy(p, c)
    BY <1>3, <1>5, BusySame
<1>7. Well(p, c)
    BY <1>2, <1>3, <1>5, <1>6 DEF Well
<1> QED  BY <1>2, <1>5, <1>7 DEF LoseReply, Trouble, c, o

LEMMA ExpireIs ==
    ASSUME TypeInv, NEW k \in Key, Expire(k)
    PROVE  /\ load' = load /\ faults' = faults + 1 /\ faults < MaxFaults /\ db' = [db EXCEPT ![k] = Missing]
           /\ call' = [q \in Client |-> call'[q]]
           /\ \A q \in Client : call'[q] = [call[q] EXCEPT !.alone = call[q].alone /\ k \notin KeysOf(call[q])]
BY DEF Expire, Trouble

LEMMA TypeNext == TypeInv /\ [Next]_vars => TypeInv'
<1> SUFFICES ASSUME TypeInv, [Next]_vars PROVE TypeInv'
    OBVIOUS
<1>0. /\ load \in Loads /\ db \in [Key -> Held] /\ faults \in 0 .. MaxFaults /\ MaxFaults \in Nat
      /\ call = [p \in Client |-> call[p]] /\ \A p \in Client : Well(p, call[p])
    BY MultiKeyAssumption DEF TypeInv
<1>1. ASSUME NEW p \in Client, Call(p) PROVE TypeInv'
    <2>1. PICK m \in load.calls : call' = [call EXCEPT ![p] = Begun(p, m, db)]
        BY <1>1, CallIs
    <2>2. Callable(m)
        BY <1>0, MultiKeyAssumption
    <2>3. Well(p, Begun(p, m, db))
        BY <2>2, BegunIsWell
    <2>4. call' = [q \in Client |-> call'[q]] /\ \A q \in Client : call'[q] = IF q = p THEN Begun(p, m, db) ELSE call[q]
        BY <1>0, <2>1
    <2>5. \A q \in Client : Well(q, call'[q])
        BY <1>0, <2>3, <2>4
    <2>6. UNCHANGED <<load, db, faults>>
        BY <1>1, CallIs
    <2> QED  BY <1>0, <2>4, <2>5, <2>6 DEF TypeInv
<1>2. ASSUME NEW p \in Client, Execute(p) PROVE TypeInv'
    <2> DEFINE c == call[p]
               r == NextRequest(c)
               o == Outcome(c, Reply(db, r))
    <2>1. c.pc = "busy" /\ load' = load /\ faults' = faults /\ Takes(p, o)
          /\ db' = IF Refused(db, r) THEN db ELSE Served(db, r).db
        BY <1>2, ExecuteIs
    <2>2. Well(p, o)
        BY <2>1, OutcomeIsWell
    <2>3. Sent(r)
        BY <1>0, <2>1, NextIsSent DEF Well
    <2>4. db' \in [Key -> Held]
        BY <1>0, <2>1, <2>3, ServedTyped
    <2> HIDE DEF o
    <2>5. call' = [q \in Client |-> call'[q]] /\ \A q \in Client : Well(q, call'[q])
        BY <2>1, <2>2, StrangersAreWell
    <2> QED  BY <1>0, <2>1, <2>4, <2>5 DEF TypeInv
<1>3. ASSUME NEW p \in Client, LoseReply(p) PROVE TypeInv'
    <2> DEFINE r == NextRequest(call[p])
               o == [call[p] EXCEPT !.smooth = FALSE]
    <2>1. /\ load' = load /\ faults' = faults + 1 /\ faults < MaxFaults /\ call[p].pc = "busy"
          /\ ~Refused(db, r) /\ db' = Served(db, r).db /\ Takes(p, o) /\ Well(p, o)
        BY <1>3, LostIs
    <2>2. Sent(r)
        BY <1>0, <2>1, NextIsSent DEF Well
    <2>3. db' \in [Key -> Held]
        BY <1>0, <2>1, <2>2, ServedTyped
    <2> HIDE DEF o, r
    <2>4. call' = [q \in Client |-> call'[q]] /\ \A q \in Client : Well(q, call'[q])
        BY <2>1, StrangersAreWell
    <2>5. faults' \in 0 .. MaxFaults
        BY <1>0, <2>1
    <2> QED  BY <1>0, <2>1, <2>3, <2>4, <2>5 DEF TypeInv
<1>4. ASSUME NEW p \in Client, Fail(p) PROVE TypeInv'
    <2>1. load' = load /\ faults' = faults + 1 /\ faults < MaxFaults /\ db' = db
          /\ call' = [call EXCEPT ![p] = Done(Error)]
        BY <1>4 DEF Fail, Trouble
    <2>2. Well(p, Done(Error))
        BY DoneIs
    <2>3. call' = [q \in Client |-> call'[q]] /\ \A q \in Client : call'[q] = IF q = p THEN Done(Error) ELSE call[q]
        BY <1>0, <2>1
    <2>4. \A q \in Client : Well(q, call'[q])
        BY <1>0, <2>2, <2>3
    <2>5. faults' \in 0 .. MaxFaults
        BY <1>0, <2>1
    <2> QED  BY <1>0, <2>1, <2>3, <2>4, <2>5 DEF TypeInv
<1>5. ASSUME NEW k \in Key, Expire(k) PROVE TypeInv'
    <2>1. /\ load' = load /\ faults' = faults + 1 /\ faults < MaxFaults /\ db' = [db EXCEPT ![k] = Missing]
          /\ call' = [q \in Client |-> call'[q]]
          /\ \A q \in Client : call'[q] = [call[q] EXCEPT !.alone = call[q].alone /\ k \notin KeysOf(call[q])]
        BY <1>5, ExpireIs
    <2>2. \A q \in Client : Well(q, call'[q])
        <3> TAKE q \in Client
        <3> DEFINE b == call[q].alone /\ k \notin KeysOf(call[q])
        <3>1. b \in BOOLEAN /\ Well(q, call[q]) /\ call'[q] = [call[q] EXCEPT !.alone = b]
            BY <1>0, <2>1
        <3> HIDE DEF b
        <3> QED  BY <3>1, StrangerIs
    <2>3. db' \in [Key -> Held]
        <3>1. Missing \in Held
            BY HeldHas
        <3> QED  BY <1>0, <2>1, <3>1
    <2>4. faults' \in 0 .. MaxFaults
        BY <1>0, <2>1
    <2> QED  BY <1>0, <2>1, <2>2, <2>3, <2>4 DEF TypeInv
<1>6. CASE UNCHANGED vars
    BY <1>0, <1>6 DEF TypeInv, vars
<1> QED  BY <1>1, <1>2, <1>3, <1>4, <1>5, <1>6 DEF Next

LEMMA TypeAlways == Spec => []TypeInv
BY TypeInit, TypeNext, PTL DEF Spec

(* Keys never hold what a server cannot hold, and a method in progress has *)
(* a request left, whatever was lost, raised or expired: each reply that a *)
(* method goes on with is one that its next request can be made of.        *)
THEOREM Types == Spec => []TypeOK
<1>1. TypeInv => TypeOK
    BY DEF TypeInv, TypeOK, Well, Busy, Replied
<1> QED  BY <1>1, TypeAlways, PTL
-----------------------------------------------------------------------------
(* Where the value is that a rename is moving.  In one slot, at src until  *)
(* the servers have moved it to dst, which they do once, as src is then    *)
(* gone.  Otherwise at src until the last request, before which it is at   *)
(* dst; the dump that is restored there is of src as it was.               *)

Renaming(c) == c.pc = "busy" /\ c.cmd \in {"rename", "renamenx"} /\ Exists(c.before[Src(c)])
Moved(c) == Plain(c.before[Src(c)])

Kept(c, d) ==
    /\ Near(c) => \/ Plain(d[Src(c)]) = Moved(c)
                  \/ ~Exists(d[Src(c)]) /\ Plain(d[c.dst]) = Moved(c)
    /\ ~Near(c) => /\ Len(c.got) <= Offset(c) + 3 => Plain(d[Src(c)]) = Moved(c)
                   /\ Len(c.got) > Offset(c) => c.got[Offset(c) + 1] = Moved(c)
                   /\ Len(c.got) = Offset(c) + 4 => Plain(d[c.dst]) = Moved(c)

RenameInv == \A p \in Client : Renaming(call[p]) /\ call[p].alone => Kept(call[p], db)

LEMMA KeptSame ==
    ASSUME NEW c, NEW a, Same(a, c), a.got = c.got, a.before = c.before, a.pc = c.pc, NEW d, NEW e,
           Renaming(a), Renaming(c) => Kept(c, d), e[Src(c)] = d[Src(c)], e[c.dst] = d[c.dst]
    PROVE  Kept(a, e)
<1>1. Src(a) = Src(c) /\ Offset(a) = Offset(c) /\ (Near(a) <=> Near(c)) /\ Moved(a) = Moved(c) /\ a.dst = c.dst
    BY DEF Same, Src, Offset, Near, Moved
<1>2. Kept(c, d)
    BY <1>1 DEF Renaming, Same
<1> QED  BY <1>1, <1>2 DEF Kept

LEMMA KeysOfIs ==
    ASSUME NEW p, NEW c, Busy(p, c), c.pc = "busy"
    PROVE  Src(c) \in KeysOf(c) /\ c.dst \in KeysOf(c) /\ Src(c) \in Key /\ c.dst \in Key
<1>1. Src(c) \in Range(c.keys) /\ Src(c) \in Key /\ c.dst \in Key
    BY CallableKeys DEF Busy, Range
<1> QED  BY <1>1 DEF KeysOf

LEMMA PlainIs ==
    ASSUME NEW e
    PROVE  /\ Plain(e).kind = e.kind /\ Plain(e).items = e.items
           /\ \A t : Plain(Entry(Plain(e).kind, Plain(e).items, t)) = Plain(e)
           /\ \A f : Plain(f) = Plain(e) => f.kind = e.kind /\ f.items = e.items
BY DEF Plain, Datum, Entry

(* What the next request of a rename does to its two keys.                 *)
LEMMA RenameStep ==
    ASSUME NEW p \in Client, NEW c, Busy(p, c), Renaming(c), NEW d \in [Key -> Held], Kept(c, d),
           ~Refused(d, NextRequest(c))
    PROVE  LET e == Served(d, NextRequest(c)).db
               x == Served(d, NextRequest(c)).reply
           IN  /\ Kept(c, e)
               /\ Moved(c) \in {Plain(e[Src(c)]), Plain(e[c.dst])}
               /\ Len(c.got) = Offset(c) /\ ~Near(c) => x = Moved(c)
               /\ Len(c.got) = Offset(c) + 3 /\ ~Near(c) => Plain(e[c.dst]) = Moved(c)
<1> DEFINE g == Len(c.got)
           o == Offset(c)
           r == NextRequest(c)
           e == Served(d, r).db
           x == Served(d, r).reply
           src == Src(c)
           dst == c.dst
           v == Moved(c)
<1>1. Callable(c) /\ Sequence(c.got) /\ g \in Nat /\ g < Len(Requests(c)) /\ r = Requests(c)[g + 1]
    BY GotIs DEF Busy, Replied, NextRequest
<1>2. src # dst /\ src \in Key /\ dst \in Key
    BY <1>1, CallableKeys DEF Callable, Renaming, Src
<1>3. /\ o \in {0, 1} /\ (o = 1 <=> c.cmd = "renamenx")
      /\ Len(Requests(c)) = o + (IF Near(c) THEN 1 ELSE 5)
      /\ o = 1 => Requests(c)[1] = Ask("EXISTS", dst)
      /\ Near(c) => Requests(c)[o + 1] = Put("RENAME", src, dst)
      /\ ~Near(c) => /\ Requests(c)[o + 1] = Ask("DUMP", src)
                     /\ Requests(c)[o + 2] = Ask("PTTL", src)
                     /\ Requests(c)[o + 3] = Ask("DEL", dst)
                     /\ Requests(c)[o + 4] = Put("RESTORE", dst, Restored(c, o))
                     /\ Requests(c)[o + 5] = Ask("DEL", src)
    BY <1>1, RenameShape DEF Offset, Renaming
<1>4. v = Plain(c.before[src]) /\ v.kind # "none"
    BY PlainIs DEF Moved, Renaming, Exists
<1>5. \A op, k, w : /\ Ask(op, k).op = op /\ Ask(op, k).key = k
                    /\ Put(op, k, w).op = op /\ Put(op, k, w).key = k /\ Put(op, k, w).arg = w
    BY DEF Ask, Put
<1>k. /\ Near(c) => \/ Plain(d[src]) = v
                    \/ ~Exists(d[src]) /\ Plain(d[dst]) = v
      /\ ~Near(c) => /\ g <= o + 3 => Plain(d[src]) = v
                     /\ g > o => c.got[o + 1] = v
                     /\ g = o + 4 => Plain(d[dst]) = v
    BY DEF Kept
<1>q. SUFFICES /\ Near(c) => \/ Plain(e[src]) = v
                             \/ ~Exists(e[src]) /\ Plain(e[dst]) = v
               /\ ~Near(c) => /\ g <= o + 3 => Plain(e[src]) = v
                              /\ g > o => c.got[o + 1] = v
                              /\ g = o + 4 => Plain(e[dst]) = v
                              /\ g = o => x = v
                              /\ g = o + 3 => Plain(e[dst]) = v
    <2>1. Kept(c, e)
        BY <1>q DEF Kept
    <2>2. v \in {Plain(e[src]), Plain(e[dst])}
        <3>1. ~Near(c) => g <= o + 3 \/ g = o + 4
            BY <1>1, <1>3
        <3> HIDE DEF v, e
        <3> QED  BY <1>q, <3>1
    <2> QED  BY <1>q, <2>1, <2>2
<1> HIDE DEF g, o, r, src, dst, v
<1>6. ASSUME r.op \in {"DUMP", "EXISTS", "PTTL"} PROVE e = d
    BY <1>6 DEF Served
<1>7. CASE g < o
    <2>1. g + 1 = 1 /\ o = 1 /\ g # o /\ g # o + 3 /\ g # o + 4
        BY <1>1, <1>3, <1>7
    <2>2. r.op = "EXISTS"
        BY <1>1, <1>3, <1>5, <2>1
    <2>3. e = d
        BY <1>6, <2>2
    <2> HIDE DEF e, x
    <2> QED  BY <1>k, <2>1, <2>3
<1>8. CASE g >= o /\ Near(c)
    <2>1. g = o
        BY <1>1, <1>3, <1>8
    <2>2. r = Put("RENAME", src, dst)
        BY <1>1, <1>3, <1>8, <2>1
    <2>3. r.op = "RENAME" /\ r.key = src /\ r.arg = dst
        BY <1>5, <2>2
    <2>4. Exists(d[src])
        BY <2>3 DEF Refused, r
    <2>5. e = [[d EXCEPT ![src] = Missing] EXCEPT ![dst] = d[src]]
        BY <2>3 DEF Served
    <2> HIDE DEF e
    <2>6. e[src] = Missing /\ e[dst] = d[src]
        BY <1>2, <2>5
    <2>7. ~Exists(Missing)
        BY DEF Exists, Missing, Entry
    <2> QED  BY <1>k, <1>8, <2>4, <2>6, <2>7
<1>9. CASE g >= o /\ ~Near(c)
    <2>1. g \in {o, o + 1, o + 2, o + 3, o + 4}
        BY <1>1, <1>3, <1>9
    <2>2. CASE g \in {o, o + 1}
        <3>1. g # o + 3 /\ g # o + 4
            BY <1>3, <2>2
        <3>2. r \in {Ask("DUMP", src), Ask("PTTL", src)} /\ (g = o => r = Ask("DUMP", src))
            <4>1. g = o => g + 1 = o + 1
                OBVIOUS
            <4>2. g = o + 1 => g + 1 = o + 2 /\ g # o
                BY <1>3
            <4> QED  BY <1>1, <1>3, <1>9, <2>2, <4>1, <4>2
        <3>3. r.op \in {"DUMP", "PTTL"} /\ (g = o => r.op = "DUMP" /\ r.key = src)
            BY <1>5, <3>2
        <3>4. e = d
            BY <1>6, <3>3
        <3>5. ASSUME g = o PROVE x = Plain(d[src])
            <4>1. r.op = "DUMP" /\ r.key = src
                BY <3>3, <3>5
            <4> QED  BY <4>1 DEF Served
        <3>6. g <= o + 3
            BY <1>3, <2>2
        <3> HIDE DEF e, x
        <3> QED  BY <1>k, <1>9, <3>1, <3>4, <3>5, <3>6
    <2>3. CASE g = o + 2
        <3>1. g + 1 = o + 3 /\ g # o /\ g # o + 3 /\ g # o + 4 /\ g <= o + 3
            BY <1>3, <2>3
        <3>2. r.op = "DEL" /\ r.key = dst
            BY <1>1, <1>3, <1>5, <1>9, <3>1
        <3>3. e = [d EXCEPT ![dst] = Missing]
            BY <3>2 DEF Served
        <3> HIDE DEF e, x
        <3>4. e[src] = d[src]
            BY <1>2, <3>3
        <3> QED  BY <1>k, <1>9, <3>1, <3>4
    <2>4. CASE g = o + 3
        <3>1. g + 1 = o + 4 /\ g # o /\ g # o + 4 /\ g <= o + 3 /\ g > o /\ o + 1 \in 1 .. g
            BY <1>3, <2>4
        <3>2. r = Put("RESTORE", dst, Restored(c, o))
            BY <1>1, <1>3, <1>9, <3>1
        <3>3. r.op = "RESTORE" /\ r.key = dst /\ r.arg = Restored(c, o)
            BY <1>5, <3>2
        <3>4. Got(c, o + 1) = c.got[o + 1]
            BY <1>1, <3>1, GotIs DEF g
        <3>5. r.arg.data = v
            BY <1>k, <1>9, <3>1, <3>3, <3>4 DEF Restored
        <3> DEFINE new == Entry(r.arg.data.kind, r.arg.data.items, r.arg.ttl = Num(1))
        <3>6. e = [d EXCEPT ![dst] = new]
            BY <3>3 DEF Served
        <3>7. Plain(new) = v
            BY SMTT(30), <1>4, <3>5, PlainIs
        <3> HIDE DEF e, x, new
        <3>8. e[src] = d[src] /\ e[dst] = new
            BY <1>2, <3>6
        <3> QED  BY <1>k, <1>9, <3>1, <3>7, <3>8
    <2>5. CASE g = o + 4
        <3>1. g + 1 = o + 5 /\ g # o /\ ~(g <= o + 3) /\ g # o + 3 /\ g > o
            BY <1>3, <2>5
        <3>2. r.op = "DEL" /\ r.key = src
            BY <1>1, <1>3, <1>5, <1>9, <3>1
        <3>3. e = [d EXCEPT ![src] = Missing]
            BY <3>2 DEF Served
        <3> HIDE DEF e, x
        <3>4. e[dst] = d[dst]
            BY <1>2, <3>3
        <3> QED  BY <1>k, <1>9, <2>5, <3>1, <3>4
    <2> QED  BY <2>1, <2>2, <2>3, <2>4, <2>5
<1> QED  BY <1>1, <1>3, <1>7, <1>8, <1>9
LEMMA KeptHas ==
    ASSUME NEW p \in Client, NEW c, Busy(p, c), Renaming(c), NEW d, Kept(c, d)
    PROVE  Moved(c) \in {Plain(d[Src(c)]), Plain(d[c.dst])}
<1>1. Callable(c) /\ Len(c.got) \in Nat /\ Len(c.got) < Len(Requests(c))
    BY GotIs DEF Busy, Replied
<1>2. Len(Requests(c)) = Offset(c) + (IF Near(c) THEN 1 ELSE 5) /\ Offset(c) \in {0, 1}
    BY <1>1, RenameShape DEF Renaming, Offset
<1>3. ~Near(c) => Len(c.got) <= Offset(c) + 3 \/ Len(c.got) = Offset(c) + 4
    BY <1>1, <1>2
<1> QED  BY <1>3 DEF Kept

(* What the next request leaves a rename with, when it goes on. *)
LEMMA KeptOn ==
    ASSUME NEW p \in Client, NEW c, Busy(p, c), Renaming(c), NEW d \in [Key -> Held], Kept(c, d),
           NEW a, Same(a, c), a.before = c.before,
           ~Refused(d, NextRequest(c)), a.got = Append(c.got, Served(d, NextRequest(c)).reply)
    PROVE  Kept(a, Served(d, NextRequest(c)).db)
<1> DEFINE g == Len(c.got)
           o == Offset(c)
           x == Served(d, NextRequest(c)).reply
           e == Served(d, NextRequest(c)).db
<1>1. /\ Kept(c, e)
      /\ g = o /\ ~Near(c) => x = Moved(c)
      /\ g = o + 3 /\ ~Near(c) => Plain(e[c.dst]) = Moved(c)
    BY RenameStep
<1>2. Sequence(c.got) /\ g \in Nat /\ o \in {0, 1}
    BY GotIs DEF Busy, Replied, Offset
<1>3. Len(a.got) = g + 1 /\ a.got[g + 1] = x /\ \A i \in 1 .. g : a.got[i] = c.got[i]
    BY <1>2, AppendIs
<1>4. Src(a) = Src(c) /\ Offset(a) = o /\ (Near(a) <=> Near(c)) /\ Moved(a) = Moved(c) /\ a.dst = c.dst
    BY DEF Same, Src, Offset, Near, Moved
<1> SUFFICES Kept(a, e)
    OBVIOUS
<1> HIDE DEF x, e
<1>5. CASE Near(c)
    <2>1. \/ Plain(e[Src(c)]) = Moved(c)
          \/ ~Exists(e[Src(c)]) /\ Plain(e[c.dst]) = Moved(c)
        BY <1>1, <1>5 DEF Kept
    <2>2. Near(a)
        BY <1>4, <1>5
    <2> QED  BY <1>4, <2>1, <2>2 DEF Kept
<1>6. CASE ~Near(c)
    <2>1. /\ g <= o + 3 => Plain(e[Src(c)]) = Moved(c)
          /\ g > o => c.got[o + 1] = Moved(c)
        BY <1>1, <1>6 DEF Kept
    <2>2. g + 1 > o => a.got[o + 1] = Moved(c)
        <3>1. CASE g = o
            BY <1>1, <1>3, <1>6, <3>1
        <3>2. CASE g > o
            <4>1. o + 1 \in 1 .. g
                BY <1>2, <3>2
            <4> QED  BY <1>3, <2>1, <3>2, <4>1
        <3> QED  BY <1>2, <3>1, <3>2
    <2>3. g + 1 <= o + 3 => g <= o + 3
        BY <1>2
    <2>4. g + 1 = o + 4 => g = o + 3
        BY <1>2
    <2>5. ~Near(a) /\ Len(a.got) = g + 1
        BY <1>3, <1>4, <1>6
    <2>6. g = o + 3 => Plain(e[c.dst]) = Moved(c)
        BY <1>1, <1>6
    <2> HIDE DEF g, o
    <2>7. /\ Len(a.got) <= Offset(a) + 3 => Plain(e[Src(a)]) = Moved(a)
          /\ Len(a.got) > Offset(a) => a.got[Offset(a) + 1] = Moved(a)
          /\ Len(a.got) = Offset(a) + 4 => Plain(e[a.dst]) = Moved(a)
        BY <1>4, <2>1, <2>2, <2>3, <2>4, <2>5, <2>6
    <2> QED  BY <2>5, <2>7 DEF Kept
<1> QED  BY <1>5, <1>6

(* What a step does to the rename of q. *)
StillThere(q) ==
    Renaming(call[q]) /\ call[q].alone /\ call'[q].alone
        => Moved(call[q]) \in {Plain(db'[Src(call[q])]), Plain(db'[call[q].dst])}
KeptThen(q) == Renaming(call'[q]) /\ call'[q].alone => Kept(call'[q], db')

LEMMA StrangerKeeps ==
    ASSUME TypeInv, RenameInv, NEW q \in Client, NEW b \in BOOLEAN, call'[q] = [call[q] EXCEPT !.alone = b],
           b => call[q].alone /\ \A k \in KeysOf(call[q]) : db'[k] = db[k]
    PROVE  StillThere(q) /\ KeptThen(q)
<1> DEFINE c == call[q]
           a == call'[q]
<1>1. Well(q, c) /\ (Renaming(c) /\ c.alone => Kept(c, db))
    BY DEF TypeInv, RenameInv
<1>2. Well(q, a) /\ Same(a, c) /\ a.pc = c.pc /\ a.got = c.got /\ a.before = c.before
    BY <1>1, StrangerIs
<1>3. a.alone = b
    BY <1>1, StrangerIs
<1>4. a.alone => b
    BY <1>3
<1>5. ASSUME Renaming(c), a.alone
      PROVE  /\ Kept(c, db) /\ Busy(q, c)
             /\ db'[Src(c)] = db[Src(c)] /\ db'[c.dst] = db[c.dst]
    <2>1. c.alone /\ \A k \in KeysOf(c) : db'[k] = db[k]
        BY <1>4, <1>5
    <2>2. c.pc = "busy" /\ Busy(q, c)
        BY <1>1, <1>5 DEF Renaming, Well
    <2>3. Src(c) \in KeysOf(c) /\ c.dst \in KeysOf(c)
        BY <2>2, KeysOfIs
    <2> QED  BY <1>1, <1>5, <2>1, <2>2, <2>3
<1>6. StillThere(q)
    <2>1. SUFFICES ASSUME Renaming(c), a.alone
                   PROVE  Moved(c) \in {Plain(db'[Src(c)]), Plain(db'[c.dst])}
        BY DEF StillThere
    <2>2. Moved(c) \in {Plain(db[Src(c)]), Plain(db[c.dst])}
        BY <1>5, <2>1, KeptHas
    <2> QED  BY <1>5, <2>1, <2>2
<1>7. KeptThen(q)
    <2>1. SUFFICES ASSUME Renaming(a), a.alone PROVE Kept(a, db')
        BY DEF KeptThen
    <2>2. Renaming(c)
        BY <1>2, <2>1 DEF Renaming, Same, Src
    <2>3. Kept(c, db) /\ db'[Src(c)] = db[Src(c)] /\ db'[c.dst] = db[c.dst]
        BY <1>5, <2>1, <2>2
    <2> HIDE DEF a, c
    <2> QED  BY <1>2, <2>1, <2>3, KeptSame
<1> QED  BY <1>6, <1>7
LEMMA RenameTakes ==
    ASSUME TypeInv, RenameInv, NEW p \in Client, NEW c, Takes(p, c), NEW q \in Client, q # p
    PROVE  StillThere(q) /\ KeptThen(q)
<1> DEFINE b == call[q].alone /\ \A k \in KeysOf(call[q]) : db'[k] = db[k]
<1>1. call'[q] = [call[q] EXCEPT !.alone = b]
    BY TakesIs
<1>2. b \in BOOLEAN /\ (b => call[q].alone /\ \A k \in KeysOf(call[q]) : db'[k] = db[k])
    BY DEF TypeInv, Well
<1> HIDE DEF b
<1> QED  BY <1>1, <1>2, StrangerKeeps

LEMMA RenameUntouched ==
    ASSUME TypeInv, RenameInv, NEW q \in Client, call'[q] = call[q], db' = db
    PROVE  StillThere(q) /\ KeptThen(q)
<1>1. ASSUME Renaming(call[q]), call[q].alone
      PROVE  Busy(q, call[q]) /\ Kept(call[q], db)
    BY <1>1 DEF TypeInv, RenameInv, Well, Renaming
<1> QED  BY <1>1, KeptHas DEF StillThere, KeptThen

LEMMA RenameCall ==
    ASSUME TypeInv, RenameInv, NEW p \in Client, Call(p), NEW q \in Client
    PROVE  StillThere(q) /\ KeptThen(q)
<1>1. PICK m \in load.calls : call' = [call EXCEPT ![p] = Begun(p, m, db)]
    BY CallIs
<1>2. call[p].pc = "idle" /\ db' = db
    BY CallIs
<1>3. CASE q # p
    <2>1. call'[q] = call[q]
        BY <1>1, <1>3 DEF TypeInv
    <2> QED  BY <1>2, <2>1, RenameUntouched
<1>4. CASE q = p
    <2> DEFINE c == Begun(p, m, db)
    <2>1. call'[p] = c
        BY <1>1 DEF TypeInv
    <2>2. StillThere(p)
        BY <1>2 DEF StillThere, Renaming
    <2>3. c = Begun(p, m, db) /\ Well(p, c)
        BY BegunIsWell, MultiKeyAssumption DEF TypeInv
    <2> HIDE DEF c
    <2>4. c.pc = "busy" /\ c.got = <<>> /\ \A k \in KeysOf(c) : c.before[k] = db[k]
        BY <2>3, BegunIs
    <2>5. Busy(p, c)
        BY <2>3, <2>4 DEF Well
    <2>6. c.before[Src(c)] = db[Src(c)]
        BY <2>4, <2>5, KeysOfIs
    <2>7. Offset(c) \in {0, 1} /\ Len(c.got) = 0
        BY <2>4 DEF Offset
    <2>8. Kept(c, db)
        <3>1. Plain(db[Src(c)]) = Moved(c)
            BY <2>6 DEF Moved
        <3>2. ~(Len(c.got) > Offset(c)) /\ Len(c.got) # Offset(c) + 4
            BY <2>7
        <3> QED  BY <3>1, <3>2 DEF Kept
    <2>9. KeptThen(p)
        BY <1>2, <2>1, <2>8 DEF KeptThen
    <2> QED  BY <1>4, <2>2, <2>9
<1> QED  BY <1>3, <1>4

LEMMA RenameExecute ==
    ASSUME TypeInv, RenameInv, NEW p \in Client, Execute(p), NEW q \in Client
    PROVE  StillThere(q) /\ KeptThen(q)
<1> DEFINE c == call[p]
           r == NextRequest(c)
           x == Reply(db, r)
           after == [c EXCEPT !.got = Append(c.got, x)]
<1>1. c.pc = "busy" /\ Takes(p, Outcome(c, x)) /\ db' = IF Refused(db, r) THEN db ELSE Served(db, r).db
    BY ExecuteIs
<1>2. call'[p] = Outcome(c, x) /\ Well(p, c) /\ Busy(p, c) /\ Shaped(c) /\ db \in [Key -> Held]
    BY <1>1, TakesIs DEF TypeInv, Well
<1>3. CASE q # p
    <2> HIDE DEF x, c
    <2> QED  BY <1>1, <1>3, RenameTakes
<1>4. CASE q = p
    <2>1. ASSUME Renaming(c), c.alone
          PROVE  Kept(c, db) /\ Moved(c) \in {Plain(db'[Src(c)]), Plain(db'[c.dst])}
        <3>1. Kept(c, db)
            BY <2>1 DEF RenameInv
        <3>2. Moved(c) \in {Plain(db[Src(c)]), Plain(db[c.dst])}
            BY <1>2, <2>1, <3>1, KeptHas
        <3>3. ASSUME ~Refused(db, r)
              PROVE  Moved(c) \in {Plain(db'[Src(c)]), Plain(db'[c.dst])}
            <4>1. db' = Served(db, r).db
                BY <1>1, <3>3
            <4> HIDE DEF c
            <4>2. Moved(c) \in {Plain(Served(db, r).db[Src(c)]), Plain(Served(db, r).db[c.dst])}
                BY <1>2, <2>1, <3>1, <3>3, RenameStep
            <4> QED  BY <4>1, <4>2
        <3> QED  BY <1>1, <3>1, <3>2, <3>3
    <2>2. StillThere(p)
        BY <2>1 DEF StillThere
    <2>3. \/ call'[p].pc = "idle"
          \/ ~Refused(db, r) /\ call'[p] = after
        <3>1. Refused(db, r) => LeavesEarly(c, r.op, x)
            BY DEF LeavesEarly, Reply
        <3>2. Outcome(c, x) = IF LeavesEarly(c, r.op, x) THEN Done(EarlyResult(r.op, x))
                              ELSE IF Len(after.got) = Len(Requests(after)) THEN Done(Result(after)) ELSE after
            BY DEF Outcome
        <3> HIDE DEF after, x, r, c
        <3>3. Done(EarlyResult(r.op, x)).pc = "idle" /\ Done(Result(after)).pc = "idle"
            BY DoneIs
        <3>4. Outcome(c, x).pc = "idle" \/ (~Refused(db, r) /\ Outcome(c, x) = after)
            BY <3>1, <3>2, <3>3
        <3> QED  BY <1>2, <3>4
    <2>4. CASE call'[p].pc = "idle"
        BY <2>2, <2>4, <1>4 DEF KeptThen, Renaming
    <2>5. CASE ~Refused(db, r) /\ call'[p] = after
        <3>2. after.alone = c.alone
            BY <1>2, GotAnother
        <3>3. x = Served(db, r).reply /\ db' = Served(db, r).db
            BY <1>1, <2>5 DEF Reply
        <3> HIDE DEF x, c
        <3>1. Same(after, c) /\ after.pc = c.pc /\ after.got = Append(c.got, x) /\ after.before = c.before
            BY <1>2, AfterIs
        <3> HIDE DEF after
        <3>4. ASSUME Renaming(after), after.alone PROVE Kept(after, db')
            <4>1. Renaming(c) /\ c.alone
                BY <3>1, <3>2, <3>4 DEF Renaming, Same, Src
            <4>2. Kept(after, Served(db, r).db)
                BY <1>2, <2>1, <2>5, <3>1, <3>3, <4>1, KeptOn
            <4> QED  BY <3>3, <4>2
        <3> QED  BY <1>4, <2>2, <2>5, <3>4 DEF KeptThen
    <2> QED  BY <2>3, <2>4, <2>5
<1> QED  BY <1>3, <1>4

LEMMA RenameLost ==
    ASSUME TypeInv, RenameInv, NEW p \in Client, LoseReply(p), NEW q \in Client
    PROVE  StillThere(q) /\ KeptThen(q)
<1> DEFINE c == call[p]
           r == NextRequest(c)
           a == [c EXCEPT !.smooth = FALSE]
<1>1. /\ c.pc = "busy" /\ ~Refused(db, r) /\ db' = Served(db, r).db
      /\ Takes(p, a) /\ Well(p, a) /\ Same(a, c) /\ a.pc = "busy" /\ a.got = c.got /\ a.before = c.before
    BY LostIs
<1>2. a.alone = c.alone
    BY LostIs
<1>3. call'[p] = a /\ Busy(p, c) /\ db \in [Key -> Held]
    BY <1>1, TakesIs DEF TypeInv, Well
<1>4. ASSUME Renaming(c), c.alone
      PROVE  Kept(c, db') /\ Moved(c) \in {Plain(db'[Src(c)]), Plain(db'[c.dst])}
    <2>1. Kept(c, db)
        BY <1>4 DEF RenameInv
    <2> HIDE DEF c
    <2>2. Kept(c, Served(db, r).db) /\ Moved(c) \in {Plain(Served(db, r).db[Src(c)]), Plain(Served(db, r).db[c.dst])}
        BY <1>1, <1>3, <1>4, <2>1, RenameStep
    <2> QED  BY <1>1, <2>2
<1>5. StillThere(p)
    BY <1>4 DEF StillThere
<1>6. KeptThen(p)
    <2> HIDE DEF a, c
    <2>1. ASSUME Renaming(a), a.alone PROVE Kept(a, db')
        <3>1. Renaming(c) /\ c.alone
            BY <1>1, <1>2, <2>1 DEF Renaming, Same, Src
        <3> QED  BY <1>1, <1>4, <2>1, <3>1, KeptSame
    <2> QED  BY <1>3, <2>1 DEF KeptThen
<1> HIDE DEF a
<1> QED  BY <1>1, <1>5, <1>6, RenameTakes

LEMMA RenameNext ==
    ASSUME TypeInv, RenameInv, [Next]_vars, NEW q \in Client
    PROVE  StillThere(q) /\ KeptThen(q)
<1>1. ASSUME NEW p \in Client, Fail(p) PROVE StillThere(q) /\ KeptThen(q)
    <2>1. db' = db /\ call' = [call EXCEPT ![p] = Done(Error)]
        BY <1>1 DEF Fail, Trouble
    <2>2. CASE q # p
        <3>1. call'[q] = call[q]
            BY <2>1, <2>2 DEF TypeInv
        <3> QED  BY <2>1, <3>1, RenameUntouched
    <2>3. CASE q = p
        <3>1. call'[q].pc = "idle"
            BY <2>1, <2>3, DoneIs DEF TypeInv
        <3>2. ASSUME Renaming(call[q]), call[q].alone
              PROVE  Moved(call[q]) \in {Plain(db[Src(call[q])]), Plain(db[call[q].dst])}
            BY <3>2, KeptHas DEF TypeInv, RenameInv, Well, Renaming
        <3> QED  BY <2>1, <3>1, <3>2 DEF StillThere, KeptThen, Renaming
    <2> QED  BY <2>2, <2>3
<1>2. ASSUME NEW k \in Key, Expire(k) PROVE StillThere(q) /\ KeptThen(q)
    <2> DEFINE b == call[q].alone /\ k \notin KeysOf(call[q])
    <2>1. call'[q] = [call[q] EXCEPT !.alone = b] /\ db' = [db EXCEPT ![k] = Missing]
        BY <1>2, ExpireIs
    <2>2. b \in BOOLEAN
        BY DEF TypeInv, Well
    <2>3. b => call[q].alone /\ \A j \in KeysOf(call[q]) : db'[j] = db[j]
        <3>1. b => call[q].alone /\ \A j \in KeysOf(call[q]) : j # k
            OBVIOUS
        <3>2. \A j : j # k => db'[j] = db[j]
            <4>1. db \in [Key -> Held]
                BY DEF TypeInv
            <4>2. \A j \in Key : j # k => db'[j] = db[j]
                BY <2>1, <4>1
            <4>3. DOMAIN db' = DOMAIN db
                BY <2>1
            <4> QED  BY <2>1, <4>2, <4>3
        <3> HIDE DEF b
        <3> QED  BY <3>1, <3>2
    <2> HIDE DEF b
    <2> QED  BY <2>1, <2>2, <2>3, StrangerKeeps
<1>3. CASE UNCHANGED vars
    BY <1>3, RenameUntouched DEF vars
<1> QED  BY <1>1, <1>2, <1>3, RenameCall, RenameExecute, RenameLost DEF Next

LEMMA RenameInductive == TypeInv /\ RenameInv /\ [Next]_vars => RenameInv'
BY RenameNext DEF RenameInv, KeptThen

LEMMA RenameAlways == Spec => []RenameInv
<1>1. Init => RenameInv
    BY DEF Init, Idle, RenameInv, Renaming
<1> QED  BY <1>1, TypeAlways, RenameInductive, PTL DEF Spec

(* Whatever is lost, refused or sent twice, at every step of a rename or    *)
(* renamenx, of keys of one slot or of two, the value being moved is at src *)
(* or at dst: until dst has it back, src is not deleted (client.py:1060).   *)
THEOREM RenamesKeepTheValue == Spec => RenameNeverLoses
<1> DEFINE A == \A p \in Client :
        LET c == call[p]
        IN  /\ c.cmd \in {"rename", "renamenx"} /\ c.alone /\ call'[p].alone
            /\ Exists(c.before[Src(c)])
            => Plain(c.before[Src(c)]) \in {Plain(db'[Src(c)]), Plain(db'[c.dst])}
<1>1. TypeInv /\ RenameInv /\ [Next]_vars => [A]_vars
    <2> SUFFICES ASSUME TypeInv, RenameInv, [Next]_vars PROVE A
        OBVIOUS
    <2> TAKE p \in Client
    <2>1. call[p].cmd \in {"rename", "renamenx"} => call[p].pc = "busy"
        BY DEF TypeInv, Well
    <2>2. StillThere(p)
        BY RenameNext
    <2> QED  BY <2>1, <2>2 DEF StillThere, Renaming, Moved
<1> QED  BY <1>1, TypeAlways, RenameAlways, PTL DEF Spec, RenameNeverLoses-----------------------------------------------------------------------------
(* Counting where an element is.  A list shows it at the indices Where;     *)
(* one more after it has been pushed, one fewer after it has been popped.  *)

Where(s, e) == {i \in DOMAIN s : s[i] = e}

LEMMA WhereIs ==
    ASSUME NEW s \in Seq(Atom), NEW e
    PROVE  IsFiniteSet(Where(s, e)) /\ Cardinality(Where(s, e)) \in Nat /\ Where(s, e) \subseteq 1 .. Len(s)
<1>1. Where(s, e) \subseteq 1 .. Len(s) /\ Len(s) \in Nat
    BY DEF Where
<1>2. IsFiniteSet(1 .. Len(s))
    BY <1>1, FS_Interval
<1> QED  BY <1>1, <1>2, FS_Subset, FS_CardinalityType

LEMMA WherePushed ==
    ASSUME NEW s \in Seq(Atom), NEW y \in Atom, NEW e
    PROVE  Cardinality(Where(<<y>> \o s, e)) = Cardinality(Where(s, e)) + (IF e = y THEN 1 ELSE 0)
<1> DEFINE S == Where(s, e)
           t == <<y>> \o s
           T == Where(t, e) \ {1}
           f == [i \in S |-> i + 1]
<1>1. S \subseteq 1 .. Len(s) /\ Len(s) \in Nat /\ IsFiniteSet(S) /\ Cardinality(S) \in Nat
    BY WhereIs
<1>2. t \in Seq(Atom) /\ Len(t) = Len(s) + 1 /\ t[1] = y /\ \A i \in 1 .. Len(s) : t[i + 1] = s[i]
    BY <1>1
<1>3. IsFiniteSet(Where(t, e)) /\ Cardinality(Where(t, e)) \in Nat /\ Where(t, e) \subseteq 1 .. Len(t)
    BY <1>2, WhereIs
<1>d. DOMAIN s = 1 .. Len(s) /\ DOMAIN t = 1 .. Len(t)
    BY <1>2
<1> HIDE DEF t
<1>4. f \in Bijection(S, T)
    <2>1. ASSUME NEW i \in S PROVE i + 1 \in T
        <3>1. i \in 1 .. Len(s) /\ s[i] = e
            BY <1>1 DEF Where
        <3>2. i + 1 \in 1 .. Len(t) /\ i + 1 # 1 /\ t[i + 1] = e
            BY <1>1, <1>2, <3>1
        <3> QED  BY <1>d, <3>2 DEF Where
    <2>2. ASSUME NEW j \in T PROVE \E i \in S : j = i + 1
        <3>1. j \in 1 .. Len(t) /\ j # 1 /\ t[j] = e
            BY <1>3 DEF Where
        <3>2. j - 1 \in 1 .. Len(s) /\ j = (j - 1) + 1
            BY <1>1, <1>2, <3>1
        <3>3. s[j - 1] = e
            BY <1>2, <3>1, <3>2
        <3> QED  BY <1>d, <3>2, <3>3 DEF Where
    <2>3. \A i, j \in S : i + 1 = j + 1 => i = j
        BY <1>1
    <2> HIDE DEF S, T
    <2>4. f \in [S -> T] /\ \A i \in S : f[i] = i + 1
        BY <2>1
    <2>5. f \in Injection(S, T)
        BY <2>3, <2>4 DEF Injection, IsInjective
    <2>6. f \in Surjection(S, T)
        BY <2>2, <2>4 DEF Surjection
    <2> QED  BY <2>5, <2>6 DEF Bijection
<1>5. Cardinality(T) = Cardinality(S)
    <2> HIDE DEF f, S, T
    <2>1. ExistsBijection(S, T)
        BY <1>4 DEF ExistsBijection
    <2> QED  BY <1>1, <2>1, FS_Bijection
<1>6. 1 \in Where(t, e) <=> e = y
    BY <1>1, <1>2, <1>d DEF Where
<1>7. Cardinality(T) = IF 1 \in Where(t, e) THEN Cardinality(Where(t, e)) - 1 ELSE Cardinality(Where(t, e))
    BY <1>3, FS_RemoveElement
<1> HIDE DEF T, S
<1>8. Cardinality(Where(t, e)) = Cardinality(S) + (IF e = y THEN 1 ELSE 0)
    BY <1>1, <1>3, <1>5, <1>6, <1>7
<1> QED  BY <1>8 DEF t, S

LEMMA WherePopped ==
    ASSUME NEW s \in Seq(Atom), Len(s) > 0, NEW e
    PROVE  /\ Front(s) \in Seq(Atom) /\ Len(Front(s)) = Len(s) - 1 /\ Last(s) \in Atom
           /\ Len(s) = 1 => Where(s, e) = IF e = Last(s) THEN {1} ELSE {}
           /\ Cardinality(Where(s, e)) = Cardinality(Where(Front(s), e)) + (IF e = Last(s) THEN 1 ELSE 0)
<1> DEFINE n == Len(s)
           t == Front(s)
<1>1. n \in Nat /\ n > 0 /\ DOMAIN s = 1 .. n /\ Last(s) = s[n] /\ n \in 1 .. n
    BY DEF Last
<1>2. t \in Seq(Atom) /\ Len(t) = n - 1 /\ \A i \in 1 .. (n - 1) : t[i] = s[i]
    BY <1>1 DEF Front
<1>3. DOMAIN t = 1 .. (n - 1)
    BY <1>1, <1>2
<1> HIDE DEF t
<1>4. Where(t, e) = Where(s, e) \ {n}
    <2>1. \A i : i \in 1 .. (n - 1) <=> i \in 1 .. n /\ i # n
        BY <1>1
    <2> HIDE DEF n
    <2> QED  BY <1>1, <1>2, <1>3, <2>1 DEF Where
<1>5. IsFiniteSet(Where(s, e)) /\ Cardinality(Where(s, e)) \in Nat
    BY WhereIs
<1>6. n \in Where(s, e) <=> e = Last(s)
    BY <1>1 DEF Where
<1>7. Cardinality(Where(t, e)) = IF n \in Where(s, e) THEN Cardinality(Where(s, e)) - 1 ELSE Cardinality(Where(s, e))
    BY <1>4, <1>5, FS_RemoveElement
<1>8. Cardinality(Where(s, e)) = Cardinality(Where(t, e)) + (IF e = Last(s) THEN 1 ELSE 0)
    BY <1>5, <1>6, <1>7
<1>9. n = 1 => Where(s, e) = IF e = Last(s) THEN {1} ELSE {}
    BY <1>1 DEF Where
<1>10. Last(s) \in Atom
    BY <1>1
<1> QED  BY <1>2, <1>8, <1>9, <1>10 DEF t

LEMMA AtIs ==
    ASSUME NEW k, NEW entry \in Held, NEW e
    PROVE  /\ IsFiniteSet(At(k, entry, e)) /\ Cardinality(At(k, entry, e)) \in Nat
           /\ \A x \in At(k, entry, e) : x[1] = k
           /\ entry.kind = "list" => Cardinality(At(k, entry, e)) = Cardinality(Where(entry.items, e))
           /\ entry.kind = "set" => Cardinality(At(k, entry, e)) = IF e \in entry.items THEN 1 ELSE 0
           /\ entry.kind \notin {"list", "set"} => Cardinality(At(k, entry, e)) = 0
<1> DEFINE A == At(k, entry, e)
<1>1. CASE entry.kind = "list"
    <2> DEFINE S == Where(entry.items, e)
               f == [i \in S |-> <<k, i>>]
    <2>1. IsFiniteSet(S) /\ Cardinality(S) \in Nat
        BY <1>1, HeldIs, WhereIs
    <2>2. A = {<<k, i>> : i \in S}
        BY <1>1 DEF At, Where
    <2> HIDE DEF A, S
    <2>3. f \in [S -> A] /\ \A i \in S : f[i] = <<k, i>>
        BY <2>2
    <2> HIDE DEF f
    <2>4. f \in Injection(S, A)
        BY <2>3 DEF Injection, IsInjective
    <2>5. f \in Surjection(S, A)
        BY <2>2, <2>3 DEF Surjection
    <2>6. ExistsBijection(S, A)
        BY <2>4, <2>5 DEF Bijection, ExistsBijection
    <2>7. IsFiniteSet(A) /\ Cardinality(A) = Cardinality(S)
        BY <2>1, <2>6, FS_Bijection
    <2>8. \A x \in A : x[1] = k
        BY <2>2
    <2> QED  BY <1>1, <2>1, <2>7, <2>8 DEF A, S
<1>2. CASE entry.kind = "set"
    <2>1. A = IF e \in entry.items THEN {<<k, 1>>} ELSE {}
        BY <1>2 DEF At
    <2>2. \A x \in A : x[1] = k
        BY <2>1
    <2> HIDE DEF A
    <2>3. IsFiniteSet(A) /\ Cardinality(A) = IF e \in entry.items THEN 1 ELSE 0
        BY <2>1, FS_Singleton, FS_EmptySet
    <2> QED  BY <1>2, <2>2, <2>3 DEF A
<1>3. CASE entry.kind \notin {"list", "set"}
    <2>1. A = {}
        BY <1>3 DEF At
    <2> QED  BY <1>3, <2>1, FS_EmptySet
<1> QED  BY <1>1, <1>2, <1>3

LEMMA AtNothing ==
    ASSUME NEW k, NEW entry \in Held, entry.kind = "none", NEW e
    PROVE  Cardinality(At(k, entry, e)) = 0
<1>1. entry.kind \notin {"list", "set"}
    OBVIOUS
<1> QED  BY <1>1, AtIs

LEMMA AtSet ==
    ASSUME NEW k, NEW entry \in Held, entry.kind = "set", NEW e
    PROVE  Cardinality(At(k, entry, e)) = IF e \in entry.items THEN 1 ELSE 0
BY AtIs

LEMMA PlacesFinite ==
    ASSUME NEW d \in [Key -> Held], NEW e, NEW K \in SUBSET Key
    PROVE  IsFiniteSet(UNION {At(k, d[k], e) : k \in K})
<1> DEFINE T == {At(k, d[k], e) : k \in K}
           f == [k \in K |-> At(k, d[k], e)]
<1>1. IsFiniteSet(K)
    BY MultiKeyAssumption, FS_Subset
<1>2. f \in Surjection(K, T)
    BY DEF Surjection
<1>3. IsFiniteSet(T)
    <2> HIDE DEF f, T
    <2> QED  BY <1>1, <1>2, FS_Surjection
<1>4. ASSUME NEW S \in T PROVE IsFiniteSet(S)
    <2>1. PICK k \in K : S = At(k, d[k], e)
        OBVIOUS
    <2>2. d[k] \in Held
        OBVIOUS
    <2> QED  BY <2>1, <2>2, AtIs
<1> HIDE DEF T
<1>5. IsFiniteSet(UNION T)
    BY <1>3, <1>4, FS_UNION
<1> QED  BY <1>5 DEF T

(* A step that touches one key changes the number of places by what it     *)
(* does there.                                                             *)
LEMMA CopiesIs ==
    ASSUME NEW d \in [Key -> Held], NEW e
    PROVE  Copies(d, e) \in Nat /\ \A k \in Key : At(k, d[k], e) \subseteq Places(d, e)
<1>1. IsFiniteSet(Places(d, e))
    BY PlacesFinite DEF Places
<1>2. \A k \in Key : At(k, d[k], e) \subseteq Places(d, e)
    BY DEF Places
<1> QED  BY <1>1, <1>2, FS_CardinalityType DEF Copies

LEMMA CopiesSplit ==
    ASSUME NEW d \in [Key -> Held], NEW e, NEW k \in Key
    PROVE  LET rest == UNION {At(j, d[j], e) : j \in Key \ {k}} IN
               /\ IsFiniteSet(rest) /\ Cardinality(rest) \in Nat
               /\ Copies(d, e) = Cardinality(rest) + Cardinality(At(k, d[k], e))
<1> DEFINE rest == UNION {At(j, d[j], e) : j \in Key \ {k}}
           here == At(k, d[k], e)
<1>1. IsFiniteSet(rest) /\ Cardinality(rest) \in Nat
    BY PlacesFinite, FS_CardinalityType
<1>2. IsFiniteSet(here) /\ Cardinality(here) \in Nat
    BY AtIs
<1>3. Places(d, e) = rest \cup here
    BY DEF Places
<1>4. rest \cap here = {}
    <2> SUFFICES ASSUME NEW x \in rest, x \in here PROVE FALSE
        OBVIOUS
    <2>1. PICK j \in Key \ {k} : x \in At(j, d[j], e)
        OBVIOUS
    <2> QED  BY <2>1, AtIs
<1> HIDE DEF rest, here
<1>5. Cardinality(rest \cup here) = Cardinality(rest) + Cardinality(here) - Cardinality(rest \cap here)
    BY <1>1, <1>2, FS_Union
<1>6. Cardinality(rest \cap here) = 0
    BY <1>4, FS_EmptySet
<1>7. Cardinality(rest \cup here) = Cardinality(rest) + Cardinality(here)
    BY <1>1, <1>2, <1>5, <1>6
<1> QED  BY <1>1, <1>3, <1>7 DEF Copies, rest, here

LEMMA CopiesChange ==
    ASSUME NEW d \in [Key -> Held], NEW f \in [Key -> Held], NEW k \in Key, \A j \in Key : j # k => f[j] = d[j], NEW e
    PROVE  Copies(f, e) + Cardinality(At(k, d[k], e)) = Copies(d, e) + Cardinality(At(k, f[k], e))
<1> DEFINE R(g) == UNION {At(j, g[j], e) : j \in Key \ {k}}
<1>1. R(f) = R(d)
    OBVIOUS
<1>2. /\ Cardinality(R(d)) \in Nat
      /\ Copies(d, e) = Cardinality(R(d)) + Cardinality(At(k, d[k], e))
      /\ Copies(f, e) = Cardinality(R(f)) + Cardinality(At(k, f[k], e))
    BY CopiesSplit
<1>3. Cardinality(At(k, d[k], e)) \in Nat /\ Cardinality(At(k, f[k], e)) \in Nat
    BY AtIs
<1> HIDE DEF R
<1> QED  BY <1>1, <1>2, <1>3
(* The clients that have an element in their hands. *)
Hands(f, e) == {q \in Client : Holds(f[q], e)}
Weight(c, e) == IF Holds(c, e) THEN 1 ELSE 0

LEMMA HandsChange ==
    ASSUME NEW f, NEW g, NEW p \in Client, NEW e, \A q \in Client : q # p => (Holds(g[q], e) <=> Holds(f[q], e))
    PROVE  /\ Cardinality(Hands(f, e)) \in Nat /\ Cardinality(Hands(g, e)) \in Nat
           /\ Cardinality(Hands(g, e)) + Weight(f[p], e) = Cardinality(Hands(f, e)) + Weight(g[p], e)
           /\ Holds(f[p], e) => Cardinality(Hands(f, e)) > 0
<1> DEFINE S == Hands(f, e)
           T == Hands(g, e)
           rest == S \ {p}
<1>1. IsFiniteSet(S) /\ IsFiniteSet(T)
    BY MultiKeyAssumption, FS_Subset DEF Hands
<1>2. Cardinality(S) \in Nat /\ Cardinality(T) \in Nat
    BY <1>1, FS_CardinalityType
<1>3. T \ {p} = S \ {p}
    BY DEF Hands
<1>4. (p \in S <=> Holds(f[p], e)) /\ (p \in T <=> Holds(g[p], e))
    BY DEF Hands
<1> HIDE DEF S, T
<1>5. /\ Cardinality(S \ {p}) = IF p \in S THEN Cardinality(S) - 1 ELSE Cardinality(S)
      /\ Cardinality(T \ {p}) = IF p \in T THEN Cardinality(T) - 1 ELSE Cardinality(T)
    BY <1>1, FS_RemoveElement
<1>6. IsFiniteSet(S \ {p}) /\ Cardinality(S \ {p}) \in Nat
    BY <1>1, FS_RemoveElement, FS_CardinalityType
<1>7. Weight(f[p], e) = (IF p \in S THEN 1 ELSE 0) /\ Weight(g[p], e) = (IF p \in T THEN 1 ELSE 0)
    BY <1>4 DEF Weight
<1>8. Cardinality(T) + Weight(f[p], e) = Cardinality(S) + Weight(g[p], e)
    <2> DEFINE m == Cardinality(S \ {p})
               u == Cardinality(S)
               v == Cardinality(T)
    <2>1. Cardinality(T \ {p}) = m
        BY <1>3
    <2>2. m = (IF p \in S THEN u - 1 ELSE u) /\ m = (IF p \in T THEN v - 1 ELSE v) /\ u \in Nat /\ v \in Nat
        BY <1>2, <1>5, <2>1
    <2> HIDE DEF m, u, v
    <2>3. v + (IF p \in S THEN 1 ELSE 0) = u + (IF p \in T THEN 1 ELSE 0)
        BY <2>2
    <2> QED  BY <1>7, <2>3 DEF u, v
<1>9. Holds(f[p], e) => Cardinality(S) > 0
    BY <1>2, <1>4, <1>5, <1>6
<1> QED  BY <1>2, <1>8, <1>9 DEF S, T

LEMMA OutcomeIs ==
    ASSUME NEW c, Shaped(c), NEW x
    PROVE  LET a == Outcome(c, x)
               after == [c EXCEPT !.got = Append(c.got, x)]
           IN  /\ \/ LeavesEarly(c, NextRequest(c).op, x) /\ a.pc = "idle"
                  \/ Len(after.got) = Len(Requests(after)) /\ a.pc = "idle"
                  \/ /\ ~LeavesEarly(c, NextRequest(c).op, x) /\ Len(after.got) # Len(Requests(after))
                     /\ a = after
               /\ Same(after, c) /\ after.pc = c.pc /\ after.got = Append(c.got, x)
<1> DEFINE after == [c EXCEPT !.got = Append(c.got, x)]
           r == NextRequest(c)
<1>1. Outcome(c, x) = IF LeavesEarly(c, r.op, x) THEN Done(EarlyResult(r.op, x))
                      ELSE IF Len(after.got) = Len(Requests(after)) THEN Done(Result(after)) ELSE after
    BY DEF Outcome
<1>2. Same(after, c) /\ after.pc = c.pc /\ after.got = Append(c.got, x)
    BY ZenonT(30), GotAnother
<1> HIDE DEF after, r
<1>3. Done(EarlyResult(r.op, x)).pc = "idle" /\ Done(Result(after)).pc = "idle"
    BY DoneIs
<1>4. \/ LeavesEarly(c, r.op, x) /\ Outcome(c, x).pc = "idle"
      \/ Len(after.got) = Len(Requests(after)) /\ Outcome(c, x).pc = "idle"
      \/ /\ ~LeavesEarly(c, r.op, x) /\ Len(after.got) # Len(Requests(after))
         /\ Outcome(c, x) = after
    BY <1>1, <1>3
<1> QED  BY <1>2, <1>4 DEF after, r

(* A move with its first request to send, and with its second.             *)
Leaves(d, r) == IF Refused(d, r) THEN d ELSE Served(d, r).db

LEMMA MoveIs ==
    ASSUME NEW p, NEW c, Busy(p, c), Shaped(c), c.pc = "busy", c.cmd \in Moving, NEW x
    PROVE  LET a == Outcome(c, x) IN
           /\ Len(c.got) \in {0, 1} /\ NextRequest(c) = Requests(c)[Len(c.got) + 1]
           /\ Src(c) \in Key /\ c.dst \in Key
           /\ a.pc = "idle" \/ (a.pc = "busy" /\ Same(a, c))
           /\ Len(c.got) = 0 => /\ \A e : ~Holds(c, e)
                                /\ a.pc = "idle" <=> LeavesEarly(c, NextRequest(c).op, x)
                                /\ a.pc # "idle" => a.got = <<x>>
           /\ Len(c.got) = 1 => a.pc = "idle" /\ Got(c, 1) = c.got[1]
<1> DEFINE a == Outcome(c, x)
           after == [c EXCEPT !.got = Append(c.got, x)]
<1>1. Callable(c) /\ Sequence(c.got) /\ Len(c.got) \in Nat /\ Len(c.got) < Len(Requests(c))
    BY GotIs DEF Busy, Replied
<1>2. Len(Requests(c)) = 2
    BY <1>1, MoveShape
<1>3. Len(c.got) \in {0, 1}
    <2> DEFINE g == Len(c.got)
    <2>1. g \in Nat /\ g < 2
        BY <1>1, <1>2
    <2> HIDE DEF g
    <2>2. g \in {0, 1}
        BY <2>1
    <2> QED  BY <2>2 DEF g
<1>4. Src(c) \in Key /\ c.dst \in Key
    BY <1>1, CallableKeys
<1>5. /\ \/ LeavesEarly(c, NextRequest(c).op, x) /\ a.pc = "idle"
         \/ Len(after.got) = Len(Requests(after)) /\ a.pc = "idle"
         \/ /\ ~LeavesEarly(c, NextRequest(c).op, x) /\ Len(after.got) # Len(Requests(after))
            /\ a = after
      /\ Same(after, c) /\ after.pc = c.pc /\ after.got = Append(c.got, x)
    BY OutcomeIs
<1> HIDE DEF after, a
<1>6. Callable(after) /\ after.cmd \in Moving
    BY <1>1, <1>5 DEF Callable, Same
<1>7. Len(Requests(after)) = 2
    BY <1>6, MoveShape
<1>8. Len(after.got) = Len(c.got) + 1
    BY <1>1, <1>5, AppendIs
<1>9. ASSUME Len(c.got) = 0
      PROVE  /\ \A e : ~Holds(c, e)
             /\ a.pc = "idle" <=> LeavesEarly(c, NextRequest(c).op, x)
             /\ a.pc # "idle" => a.got = <<x>>
    <2>1. Len(after.got) # Len(Requests(after))
        BY <1>7, <1>8, <1>9
    <2>2. c.got = <<>>
        BY <1>1, <1>9 DEF Sequence
    <2>3. Append(c.got, x) = <<x>>
        BY <2>2
    <2>4. \A e : ~Holds(c, e)
        BY <1>9 DEF Holds
    <2> QED  BY <1>5, <2>1, <2>3, <2>4
<1>10. ASSUME Len(c.got) = 1 PROVE a.pc = "idle" /\ Got(c, 1) = c.got[1]
    <2>1. Len(after.got) = Len(Requests(after))
        BY <1>7, <1>8, <1>10
    <2>2. 1 \in 1 .. Len(c.got)
        BY <1>10
    <2> QED  BY <1>1, <1>5, <2>1, <2>2, GotIs
<1>11. a.pc = "idle" \/ (a.pc = "busy" /\ Same(a, c))
    <2>1. a.pc = "idle" \/ a = after
        BY <1>5
    <2>2. after.pc = "busy" /\ Same(after, c)
        BY <1>5
    <2> QED  BY <2>1, <2>2
<1> QED  BY <1>3, <1>4, <1>9, <1>10, <1>11 DEF NextRequest, a

Kinds(d, kind) == \A k \in Key : d[k].kind \in {"none", kind}
Conserves(c, a, d, f) ==
    \E k \in Key : /\ \A j \in Key : j # k => f[j] = d[j]
                   /\ \A e \in Atom : Cardinality(At(k, f[k], e)) + Weight(a, e)
                                          = Cardinality(At(k, d[k], e)) + Weight(c, e)

LEMMA PopConserves ==
    ASSUME NEW p, NEW c, Busy(p, c), Shaped(c), c.pc = "busy", c.cmd \in {"rpoplpush", "brpoplpush"},
           Len(c.got) = 0, NEW d \in [Key -> Held], Kinds(d, "list"), \A k \in Key : At(k, d[k], Empty) = {}
    PROVE  LET r == NextRequest(c) IN
               /\ Kinds(Leaves(d, r), "list")
               /\ Conserves(c, Outcome(c, Reply(d, r)), d, Leaves(d, r))
<1> DEFINE r == NextRequest(c)
           k == Src(c)
           x == Reply(d, r)
           a == Outcome(c, x)
           f == Leaves(d, r)
<1>1. /\ k \in Key /\ r = Requests(c)[1] /\ (a.pc = "idle" \/ (a.pc = "busy" /\ Same(a, c)))
      /\ \A e : ~Holds(c, e)
      /\ a.pc = "idle" <=> LeavesEarly(c, r.op, x)
      /\ a.pc # "idle" => a.got = <<x>>
    <2>1. Len(c.got) + 1 = 1
        OBVIOUS
    <2> QED  BY <2>1, MoveIs DEF Moving
<1>2. r.op \in {"RPOP", "BRPOP"} /\ r.key = k
    <2>1. r \in {Ask("RPOP", k), Ask("BRPOP", k)}
        BY <1>1, MoveShape DEF Busy, Moving
    <2> HIDE DEF r, k
    <2> QED  BY <2>1 DEF Ask
<1>3. d[k].kind \in {"none", "list"} /\ d[k] \in Held
    BY <1>1 DEF Kinds
<1>4. ~Refused(d, r)
    BY <1>2, <1>3 DEF Refused, Expects
<1>5. f = Served(d, r).db /\ x = Served(d, r).reply
    BY <1>4 DEF Leaves, Reply
<1> DEFINE s == d[k].items
           popped == IF Len(s) = 1 THEN Missing ELSE Entry("list", Front(s), d[k].ttl)
<1>6. CASE d[k].kind = "none"
    <2>1. ~Exists(d[k])
        BY <1>6 DEF Exists
    <2>2. f = d /\ x = None
        BY <1>2, <1>5, <2>1 DEF Served
    <2>3. LeavesEarly(c, r.op, x)
        BY <1>2, <2>2 DEF LeavesEarly, Truthy
    <2> HIDE DEF f, x, a, r, k
    <2>4. \A e : ~Holds(a, e)
        BY <1>1, <2>3 DEF Holds
    <2>5. Conserves(c, a, d, f)
        BY <1>1, <2>2, <2>4 DEF Conserves, Weight
    <2> QED  BY <2>2, <2>5 DEF f, x, a, r
<1>7. CASE d[k].kind = "list"
    <2>1. Exists(d[k]) /\ s \in Seq(Atom) /\ Len(s) > 0 /\ d[k].ttl \in BOOLEAN
        BY <1>3, <1>7, HeldIs DEF Exists
    <2>2. f = [d EXCEPT ![k] = popped] /\ x = Datum("string", {Last(s)})
        BY <1>2, <1>5, <2>1 DEF Served
    <2>3. Last(s) \in Atom /\ Front(s) \in Seq(Atom) /\ Len(Front(s)) = Len(s) - 1
        BY <2>1, WherePopped
    <2>4. Last(s) # Empty
        <3>1. ASSUME Last(s) = Empty PROVE FALSE
            <4>1. Cardinality(At(k, d[k], Empty)) = Cardinality(Where(s, Empty))
                BY <1>3, <1>7, AtIs
            <4>2. Cardinality(At(k, d[k], Empty)) = 0
                BY <1>1, FS_EmptySet
            <4>3. Cardinality(Where(s, Empty)) = Cardinality(Where(Front(s), Empty)) + 1
                BY <2>1, <3>1, WherePopped
            <4> DEFINE v == Cardinality(Where(Front(s), Empty))
            <4>4. v \in Nat /\ v + 1 = 0
                BY <2>3, <4>1, <4>2, <4>3, WhereIs
            <4> HIDE DEF v
            <4> QED  BY <4>4
        <3> QED  BY <3>1
    <2>5. a.pc = "busy" /\ a.got = <<x>> /\ Same(a, c)
        <3>1. x.kind = "string" /\ x.items = {Last(s)}
            BY <2>2 DEF Datum
        <3>t. x # None /\ x # Error /\ x # Datum("string", {Empty})
            <4> HIDE DEF x, s
            <4>1. {Last(s)} # {Empty}
                BY <2>4
            <4> QED  BY SMTT(30), <3>1, <4>1 DEF Datum, None, Error
        <3>u. Truthy(x)
            BY <3>t DEF Truthy
        <3>2. ~LeavesEarly(c, r.op, x)
            BY <1>2, <3>t, <3>u DEF LeavesEarly, NotRemoved, NothingToStore
        <3> HIDE DEF a, x, r
        <3> QED  BY <1>1, <3>2
    <2>6. \A e : Holds(a, e) <=> e = Last(s)
        <3>1. x.items = {Last(s)}
            BY <2>2 DEF Datum
        <3>2. a.cmd # "smove"
            BY <2>5 DEF Same
        <3>3. Len(a.got) = 1 /\ a.got[1] = x
            BY <2>5
        <3> HIDE DEF a, x
        <3> QED  BY <2>5, <3>1, <3>2, <3>3 DEF Holds
    <2>7. popped \in Held /\ popped.kind \in {"none", "list"}
        <3>1. Len(s) # 1 => Front(s) # <<>>
            <4>1. Len(s) # 1 => Len(s) - 1 # 0
                BY <2>1
            <4> HIDE DEF s
            <4> QED  BY <2>3, <4>1
        <3>2. Missing \in Held /\ (Len(s) # 1 => Entry("list", Front(s), d[k].ttl) \in Held)
            BY <2>1, <2>3, <3>1, HeldHas
        <3> QED  BY <3>2 DEF Missing, Entry
    <2>8. ASSUME NEW e \in Atom
          PROVE  Cardinality(At(k, popped, e)) + (IF e = Last(s) THEN 1 ELSE 0) = Cardinality(At(k, d[k], e))
        <3>1. Cardinality(At(k, d[k], e)) = Cardinality(Where(s, e))
            BY <1>3, <1>7, AtIs
        <3>2. Cardinality(Where(s, e)) = Cardinality(Where(Front(s), e)) + (IF e = Last(s) THEN 1 ELSE 0)
            BY <2>1, WherePopped
        <3>3. Cardinality(At(k, popped, e)) = Cardinality(Where(Front(s), e))
            <4>1. CASE Len(s) = 1
                <5>1. popped = Missing /\ popped.kind = "none"
                    BY <4>1 DEF Missing, Entry
                <5>2. Cardinality(At(k, popped, e)) = 0
                    <6> HIDE DEF popped, k
                    <6>1. popped.kind \notin {"list", "set"}
                        BY <5>1
                    <6> QED  BY <2>7, <6>1, AtIs
                <5>3. Where(Front(s), e) = {}
                    BY <2>3, <4>1, WhereIs
                <5> QED  BY <5>2, <5>3, FS_EmptySet
            <4>2. CASE Len(s) # 1
                <5>1. popped.kind = "list" /\ popped.items = Front(s)
                    BY <4>2 DEF Entry
                <5> QED  BY ZenonT(30), <2>7, <5>1, AtIs
            <4> QED  BY <4>1, <4>2
        <3> QED  BY <3>1, <3>2, <3>3
    <2> HIDE DEF popped, f, x, a, r, k, s
    <2>9. f[k] = popped /\ \A j \in Key : j # k => f[j] = d[j]
        BY <1>1, <2>2
    <2>10. Kinds(f, "list")
        BY <2>7, <2>9 DEF Kinds
    <2>11. ASSUME NEW e \in Atom
           PROVE  Cardinality(At(k, f[k], e)) + Weight(a, e) = Cardinality(At(k, d[k], e)) + Weight(c, e)
        <3>1. Weight(c, e) = 0 /\ Weight(a, e) = IF e = Last(s) THEN 1 ELSE 0
            BY <1>1, <2>6 DEF Weight
        <3>2. Cardinality(At(k, d[k], e)) \in Nat /\ f[k] = popped
            BY <1>3, <2>9, AtIs
        <3> QED  BY <2>8, <3>1, <3>2
    <2>12. Conserves(c, a, d, f)
        BY <1>1, <2>9, <2>11 DEF Conserves
    <2> QED  BY <2>10, <2>12 DEF a, f, x, r
<1> QED  BY <1>3, <1>6, <1>7
LEMMA PushConserves ==
    ASSUME NEW p, NEW c, Busy(p, c), Shaped(c), c.pc = "busy", c.cmd \in {"rpoplpush", "brpoplpush"},
           Len(c.got) = 1, NEW d \in [Key -> Held], Kinds(d, "list")
    PROVE  LET r == NextRequest(c) IN
               /\ Kinds(Leaves(d, r), "list")
               /\ Conserves(c, Outcome(c, Reply(d, r)), d, Leaves(d, r))
<1> DEFINE r == NextRequest(c)
           k == c.dst
           a == Outcome(c, Reply(d, r))
           f == Leaves(d, r)
           s == IF Exists(d[k]) THEN d[k].items ELSE <<>>
<1>1. k \in Key /\ r = Requests(c)[2] /\ a.pc = "idle" /\ Got(c, 1) = c.got[1]
    <2>1. Len(c.got) + 1 = 2
        OBVIOUS
    <2> QED  BY <2>1, MoveIs DEF Moving
<1>2. r = Put("LPUSH", k, Got(c, 1)) /\ Requests(c)[1] \in {Ask("RPOP", Src(c)), Ask("BRPOP", Src(c))}
    BY <1>1, MoveShape DEF Busy, Moving
<1>3. r.op = "LPUSH" /\ r.key = k /\ r.arg = c.got[1]
    BY <1>1, <1>2 DEF Put
<1>4. PICK y \in Atom : c.got[1] = Datum("string", {y})
    <2>1. Requests(c)[1].op \in {"RPOP", "BRPOP"}
        BY <1>2 DEF Ask
    <2>2. 1 \in 1 .. Len(c.got)
        OBVIOUS
    <2>3. Answers(Requests(c)[1].op, c.got[1]) /\ c.got[1] # None
        BY <2>1, <2>2 DEF Busy, Replied
    <2> QED  BY <2>1, <2>3 DEF Answers
<1>5. d[k].kind \in {"none", "list"} /\ d[k] \in Held
    BY <1>1 DEF Kinds
<1>6. ~Refused(d, r)
    BY <1>3, <1>5 DEF Refused, Expects
<1> DEFINE new == Entry("list", <<y>> \o s, d[k].ttl)
<1>7. f = [d EXCEPT ![k] = new]
    <2>1. r.arg.items = {y}
        BY <1>3, <1>4 DEF Datum
    <2>2. Only(r.arg.items) = y
        BY <2>1 DEF Only
    <2>3. f = Served(d, r).db
        BY <1>6 DEF Leaves
    <2>4. f = [d EXCEPT ![r.key] = Entry("list", <<Only(r.arg.items)>> \o (IF Exists(d[r.key]) THEN d[r.key].items ELSE <<>>),
                                         d[r.key].ttl)]
        BY <1>3, <2>3 DEF Served
    <2> HIDE DEF r, f
    <2> QED  BY <1>3, <2>2, <2>4
<1>8. s \in Seq(Atom) /\ d[k].ttl \in BOOLEAN
    BY <1>5, HeldIs DEF Exists
<1>9. ASSUME NEW e \in Atom PROVE Cardinality(At(k, d[k], e)) = Cardinality(Where(s, e))
    <2>1. CASE d[k].kind = "list"
        <3>1. s = d[k].items
            BY <2>1 DEF Exists
        <3> QED  BY <1>5, <2>1, <3>1, AtIs
    <2>2. CASE d[k].kind = "none"
        <3>1. Where(s, e) = {}
            BY <2>2 DEF Exists, Where
        <3>2. Cardinality(At(k, d[k], e)) = 0
            BY <1>5, <2>2, AtNothing
        <3> HIDE DEF s
        <3> QED  BY <3>1, <3>2, FS_EmptySet
    <2> QED  BY <1>5, <2>1, <2>2
<1> HIDE DEF s
<1>10. <<y>> \o s \in Seq(Atom) /\ <<y>> \o s # <<>>
    BY <1>8
<1>11. new \in Held /\ new.kind = "list" /\ new.items = <<y>> \o s
    BY <1>8, <1>10, HeldHas DEF Entry
<1> HIDE DEF new
<1>12. ASSUME NEW e \in Atom
       PROVE  Cardinality(At(k, new, e)) = Cardinality(At(k, d[k], e)) + (IF e = y THEN 1 ELSE 0)
    <2>1. Cardinality(At(k, new, e)) = Cardinality(Where(<<y>> \o s, e))
        BY <1>11, AtIs
    <2>2. Cardinality(Where(<<y>> \o s, e)) = Cardinality(Where(s, e)) + (IF e = y THEN 1 ELSE 0)
        BY <1>8, WherePushed
    <2> QED  BY <1>9, <2>1, <2>2
<1>13. ASSUME NEW e \in Atom PROVE Weight(a, e) = 0 /\ Weight(c, e) = IF e = y THEN 1 ELSE 0
    <2>1. ~Holds(a, e)
        BY <1>1 DEF Holds
    <2>2. c.got[1].items = {y} /\ c.cmd # "smove"
        BY <1>4 DEF Datum
    <2>3. Holds(c, e) <=> e = y
        BY <2>2 DEF Holds
    <2> QED  BY <2>1, <2>3 DEF Weight
<1> HIDE DEF f, a, r
<1>14. f[k] = new /\ \A j \in Key : j # k => f[j] = d[j]
    BY <1>1, <1>7
<1>15. Kinds(f, "list")
    BY <1>11, <1>14 DEF Kinds
<1>16. ASSUME NEW e \in Atom
       PROVE  Cardinality(At(k, f[k], e)) + Weight(a, e) = Cardinality(At(k, d[k], e)) + Weight(c, e)
    <2>1. Cardinality(At(k, d[k], e)) \in Nat
        BY <1>5, AtIs
    <2> DEFINE v == Cardinality(At(k, d[k], e))
               u == Cardinality(At(k, f[k], e))
    <2>2. u = v + (IF e = y THEN 1 ELSE 0)
        BY <1>12, <1>14
    <2> HIDE DEF u, v
    <2>3. u + 0 = v + (IF e = y THEN 1 ELSE 0)
        BY <2>1, <2>2 DEF v
    <2> QED  BY <1>13, <2>3 DEF u, v
<1>17. Conserves(c, a, d, f)
    BY <1>1, <1>14, <1>16 DEF Conserves
<1> QED  BY <1>15, <1>17 DEF f, a, r

LEMMA TakeConserves ==
    ASSUME NEW p, NEW c, Busy(p, c), Shaped(c), c.pc = "busy", c.cmd = "smove", NEW y \in Atom, c.arg[1].items = {y},
           Len(c.got) = 0, NEW d \in [Key -> Held], Kinds(d, "set")
    PROVE  LET r == NextRequest(c) IN
               /\ Kinds(Leaves(d, r), "set")
               /\ Conserves(c, Outcome(c, Reply(d, r)), d, Leaves(d, r))
<1> DEFINE r == NextRequest(c)
           k == Src(c)
           x == Reply(d, r)
           a == Outcome(c, x)
           f == Leaves(d, r)
           s == IF Exists(d[k]) THEN d[k].items ELSE {}
           new == IF s \subseteq {y} THEN Missing ELSE Entry("set", d[k].items \ {y}, d[k].ttl)
<1>1. /\ k \in Key /\ r = Requests(c)[1] /\ (a.pc = "idle" \/ (a.pc = "busy" /\ Same(a, c)))
      /\ \A e : ~Holds(c, e)
      /\ a.pc = "idle" <=> LeavesEarly(c, r.op, x)
      /\ a.pc # "idle" => a.got = <<x>>
    <2>1. Len(c.got) + 1 = 1
        OBVIOUS
    <2> QED  BY <2>1, MoveIs DEF Moving
<1>2. r = Put("SREM", k, c.arg[1])
    BY <1>1, MoveShape DEF Busy, Moving
<1>3. r.op = "SREM" /\ r.key = k /\ r.arg.items = {y}
    BY <1>2 DEF Put
<1>4. d[k].kind \in {"none", "set"} /\ d[k] \in Held
    BY <1>1 DEF Kinds
<1>5. ~Refused(d, r)
    BY <1>3, <1>4 DEF Refused, Expects
<1>6. f = [d EXCEPT ![k] = new] /\ x = Num(IF y \in s THEN 1 ELSE 0)
    <2>1. f = Served(d, r).db /\ x = Served(d, r).reply
        BY <1>5 DEF Leaves, Reply
    <2> DEFINE t == IF Exists(d[r.key]) THEN d[r.key].items ELSE {}
    <2>2. /\ f = [d EXCEPT ![r.key] = IF t \subseteq r.arg.items THEN Missing
                                      ELSE Entry("set", d[r.key].items \ r.arg.items, d[r.key].ttl)]
          /\ x = Num(IF r.arg.items \subseteq t THEN 1 ELSE 0)
        BY <1>3, <2>1 DEF Served
    <2>3. t = s
        BY <1>3
    <2> HIDE DEF t, s, r, x, f
    <2>4. {y} \subseteq s <=> y \in s
        OBVIOUS
    <2> QED  BY <1>3, <2>2, <2>3, <2>4
<1>7. s \in SUBSET Atom /\ d[k].ttl \in BOOLEAN /\ (s # {} => d[k].kind = "set" /\ s = d[k].items)
    BY <1>4, HeldIs DEF Exists
<1>8. ASSUME NEW e \in Atom PROVE Cardinality(At(k, d[k], e)) = IF e \in s THEN 1 ELSE 0
    <2>1. CASE d[k].kind = "set"
        <3>1. s = d[k].items
            BY <2>1 DEF Exists
        <3>2. Cardinality(At(k, d[k], e)) = IF e \in d[k].items THEN 1 ELSE 0
            BY <1>4, <2>1, AtSet
        <3> QED  BY <3>1, <3>2
    <2>2. CASE d[k].kind = "none"
        <3>1. s = {}
            BY <2>2 DEF Exists
        <3>2. Cardinality(At(k, d[k], e)) = 0
            BY <1>4, <2>2, AtNothing
        <3> HIDE DEF s
        <3> QED  BY <3>1, <3>2
    <2> QED  BY <1>4, <2>1, <2>2
<1> HIDE DEF s
<1>9. /\ new \in Held /\ new.kind \in {"none", "set"}
      /\ s \subseteq {y} => new.kind = "none"
      /\ ~(s \subseteq {y}) => new.kind = "set" /\ new.items = s \ {y}
    <2>1. Missing \in Held /\ Missing.kind = "none"
        BY HeldHas DEF Missing, Entry
    <2>2. ASSUME ~(s \subseteq {y})
          PROVE  /\ Entry("set", d[k].items \ {y}, d[k].ttl) \in Held
                 /\ Entry("set", d[k].items \ {y}, d[k].ttl).kind = "set"
                 /\ Entry("set", d[k].items \ {y}, d[k].ttl).items = s \ {y}
        <3>1. d[k].items = s
            BY <1>7, <2>2
        <3>2. s \ {y} \in SUBSET Atom /\ s \ {y} # {}
            BY <1>7, <2>2
        <3> QED  BY <1>7, <3>1, <3>2, HeldHas DEF Entry
    <2> QED  BY <2>1, <2>2
<1>10. ASSUME NEW e \in Atom PROVE Cardinality(At(k, new, e)) = IF e \in s /\ e # y THEN 1 ELSE 0
    <2> HIDE DEF new
    <2>1. CASE s \subseteq {y}
        <3>1. new.kind = "none" /\ ~(e \in s /\ e # y)
            BY <1>9, <2>1
        <3>2. Cardinality(At(k, new, e)) = 0
            BY <1>9, <3>1, AtNothing
        <3> QED  BY <3>1, <3>2
    <2>2. CASE ~(s \subseteq {y})
        <3>1. new.kind = "set" /\ (e \in new.items <=> e \in s /\ e # y)
            BY <1>9, <2>2
        <3>2. Cardinality(At(k, new, e)) = IF e \in new.items THEN 1 ELSE 0
            BY <1>9, <3>1, AtSet
        <3> QED  BY <3>1, <3>2
    <2> QED  BY <2>1, <2>2
<1> HIDE DEF new
<1>11. ASSUME NEW e \in Atom PROVE Holds(a, e) <=> e = y /\ y \in s
    <2>1. CASE y \in s
        <3>1. x = Num(1)
            BY <1>6, <2>1
        <3>2. ~LeavesEarly(c, r.op, x)
            <4>1. x # Error
                BY <3>1 DEF Num, Error, Datum
            <4> QED  BY <1>3, <3>1, <4>1 DEF LeavesEarly, NotRemoved, NothingToStore
        <3> HIDE DEF a, x, r
        <3>3. a.pc = "busy" /\ Same(a, c) /\ a.got = <<x>>
            BY <1>1, <3>2
        <3>4. a.cmd = "smove" /\ a.arg[1].items = {y} /\ Len(a.got) = 1
            BY <3>3 DEF Same
        <3> QED  BY <2>1, <3>3, <3>4 DEF Holds
    <2>2. CASE y \notin s
        <3>1. x = Num(0) /\ Num(0) # Num(1)
            BY <1>6, <2>2 DEF Num, Datum
        <3>2. LeavesEarly(c, r.op, x)
            BY <1>3, <3>1 DEF LeavesEarly, NotRemoved
        <3> HIDE DEF a, x, r
        <3>3. a.pc = "idle"
            BY <1>1, <3>2
        <3> QED  BY <2>2, <3>3 DEF Holds
    <2> QED  BY <2>1, <2>2
<1> HIDE DEF f, a, r, x
<1>14. f[k] = new /\ \A j \in Key : j # k => f[j] = d[j]
    BY <1>1, <1>6
<1>15. Kinds(f, "set")
    BY <1>9, <1>14 DEF Kinds
<1>16. ASSUME NEW e \in Atom
       PROVE  Cardinality(At(k, f[k], e)) + Weight(a, e) = Cardinality(At(k, d[k], e)) + Weight(c, e)
    <2>1. Cardinality(At(k, f[k], e)) = IF e \in s /\ e # y THEN 1 ELSE 0
        BY <1>10, <1>14
    <2>2. Weight(a, e) = (IF e = y /\ y \in s THEN 1 ELSE 0) /\ Weight(c, e) = 0
        BY <1>1, <1>11 DEF Weight
    <2>3. CASE e = y
        BY <1>8, <2>1, <2>2, <2>3
    <2>4. CASE e # y
        BY <1>8, <2>1, <2>2, <2>4
    <2> QED  BY <2>3, <2>4
<1>17. Conserves(c, a, d, f)
    BY <1>1, <1>14, <1>16 DEF Conserves
<1> QED  BY <1>15, <1>17 DEF f, a, r, x

LEMMA AddConserves ==
    ASSUME NEW p, NEW c, Busy(p, c), Shaped(c), c.pc = "busy", c.cmd = "smove", NEW y \in Atom, c.arg[1].items = {y},
           Len(c.got) = 1, NEW d \in [Key -> Held], Kinds(d, "set"), At(c.dst, d[c.dst], y) = {}
    PROVE  LET r == NextRequest(c) IN
               /\ Kinds(Leaves(d, r), "set")
               /\ Conserves(c, Outcome(c, Reply(d, r)), d, Leaves(d, r))
<1> DEFINE r == NextRequest(c)
           k == c.dst
           a == Outcome(c, Reply(d, r))
           f == Leaves(d, r)
           s == IF Exists(d[k]) THEN d[k].items ELSE {}
           new == Entry("set", s \cup {y}, d[k].ttl)
<1>1. k \in Key /\ r = Requests(c)[2] /\ a.pc = "idle"
    <2>1. Len(c.got) + 1 = 2
        OBVIOUS
    <2> QED  BY <2>1, MoveIs DEF Moving
<1>2. r = Put("SADD", k, c.arg[1])
    BY <1>1, MoveShape DEF Busy, Moving
<1>3. r.op = "SADD" /\ r.key = k /\ r.arg.items = {y}
    BY <1>2 DEF Put
<1>4. d[k].kind \in {"none", "set"} /\ d[k] \in Held
    BY <1>1 DEF Kinds
<1>5. ~Refused(d, r)
    BY <1>3, <1>4 DEF Refused, Expects
<1>6. f = [d EXCEPT ![k] = new]
    <2>1. f = Served(d, r).db
        BY <1>5 DEF Leaves
    <2>2. f = [d EXCEPT ![r.key] = Entry("set", (IF Exists(d[r.key]) THEN d[r.key].items ELSE {}) \cup r.arg.items,
                                         d[r.key].ttl)]
        BY <1>3, <2>1 DEF Served
    <2> HIDE DEF r, f
    <2> QED  BY <1>3, <2>2
<1>7. s \in SUBSET Atom /\ d[k].ttl \in BOOLEAN
    BY <1>4, HeldIs DEF Exists
<1>8. y \notin s /\ \A e \in Atom : Cardinality(At(k, d[k], e)) = IF e \in s THEN 1 ELSE 0
    <2>1. CASE d[k].kind = "set"
        <3>1. s = d[k].items
            BY <2>1 DEF Exists
        <3>2. y \notin s
            BY <2>1, <3>1 DEF At
        <3>3. \A e \in Atom : Cardinality(At(k, d[k], e)) = IF e \in d[k].items THEN 1 ELSE 0
            BY <1>4, <2>1, AtSet
        <3> QED  BY <3>1, <3>2, <3>3
    <2>2. CASE d[k].kind = "none"
        <3>1. s = {}
            BY <2>2 DEF Exists
        <3>2. \A e \in Atom : Cardinality(At(k, d[k], e)) = 0
            BY <1>4, <2>2, AtNothing
        <3> HIDE DEF s
        <3> QED  BY <3>1, <3>2
    <2> QED  BY <1>4, <2>1, <2>2
<1> HIDE DEF s
<1>9. new \in Held /\ new.kind = "set" /\ new.items = s \cup {y}
    BY <1>7, HeldHas DEF Entry
<1> HIDE DEF new
<1>10. \A e \in Atom : Cardinality(At(k, new, e)) = IF e \in s \/ e = y THEN 1 ELSE 0
    BY <1>9, AtSet
<1>11. \A e \in Atom : Weight(a, e) = 0 /\ Weight(c, e) = IF e = y THEN 1 ELSE 0
    <2> TAKE e \in Atom
    <2>1. ~Holds(a, e)
        BY <1>1 DEF Holds
    <2>2. Holds(c, e) <=> e = y
        BY DEF Holds
    <2> QED  BY <2>1, <2>2 DEF Weight
<1> HIDE DEF f, a, r
<1>14. f[k] = new /\ \A j \in Key : j # k => f[j] = d[j]
    BY <1>1, <1>6
<1>15. Kinds(f, "set")
    BY <1>9, <1>14 DEF Kinds
<1>16. ASSUME NEW e \in Atom
       PROVE  Cardinality(At(k, f[k], e)) + Weight(a, e) = Cardinality(At(k, d[k], e)) + Weight(c, e)
    <2>1. CASE e = y
        BY <1>8, <1>10, <1>11, <1>14, <2>1
    <2>2. CASE e # y
        BY <1>8, <1>10, <1>11, <1>14, <2>2
    <2> QED  BY <2>1, <2>2
<1>17. Conserves(c, a, d, f)
    BY <1>1, <1>14, <1>16 DEF Conserves
<1> QED  BY <1>15, <1>17 DEF f, a, r
(* While nothing has gone wrong: the keys hold what is being moved and the *)
(* methods in progress are moves, and each element is at as many places    *)
(* and in as many hands as it was at places at first.                      *)
Balanced(l, d, f) == \A e \in Atom : Copies(d, e) + Cardinality(Hands(f, e)) = Copies(l.db, e)
MovesOn(l, d, f) ==
    /\ MovesInLists(l) =>
           /\ Kinds(d, "list")
           /\ \A p \in Client : f[p].pc = "busy" => f[p].cmd \in {"rpoplpush", "brpoplpush"}
    /\ MovesInSets(l) =>
           /\ Kinds(d, "set")
           /\ \A p \in Client : f[p].pc = "busy" => f[p].cmd = "smove" /\ \E y \in Atom : f[p].arg[1].items = {y}
    /\ MovesInLists(l) \/ MovesInSets(l) => Balanced(l, d, f)
MoveInv == faults = 0 => MovesOn(load, db, call)

LEMMA NoneOfIt ==
    ASSUME NEW d \in [Key -> Held], NEW e, Copies(d, e) = 0
    PROVE  \A k \in Key : At(k, d[k], e) = {}
<1>1. IsFiniteSet(Places(d, e)) /\ Cardinality(Places(d, e)) = 0
    BY PlacesFinite DEF Places, Copies
<1>2. Places(d, e) = {}
    BY <1>1, FS_EmptySet
<1> QED  BY <1>2, CopiesIs

LEMMA NoEmptyString ==
    ASSUME NEW l \in Loads, MovesInLists(l)
    PROVE  Copies(l.db, Empty) = 0
<1>1. Places(l.db, Empty) = {}
    BY DEF Places, MovesInLists
<1> QED  BY <1>1, FS_EmptySet DEF Copies

LEMMA OneOfEach ==
    ASSUME NEW l \in Loads, MovesInSets(l), NEW e \in Atom
    PROVE  Copies(l.db, e) <= 1
<1> DEFINE S == Places(l.db, e)
<1>1. l.db \in [Key -> Held]
    BY MultiKeyAssumption
<1>2. IsFiniteSet(S)
    BY <1>1, PlacesFinite DEF Places
<1>3. ASSUME NEW x \in S PROVE \E k \in Key : x = <<k, 1>> /\ e \in l.db[k].items
    <2>1. PICK k \in Key : x \in At(k, l.db[k], e)
        BY DEF Places
    <2>2. l.db[k].kind \in {"none", "set"}
        BY DEF MovesInSets
    <2> QED  BY <2>1, <2>2 DEF At
<1>4. \A x, y \in S : x = y
    <2> TAKE x, y \in S
    <2>1. PICK j \in Key : x = <<j, 1>> /\ e \in l.db[j].items
        BY <1>3
    <2>2. PICK k \in Key : y = <<k, 1>> /\ e \in l.db[k].items
        BY <1>3
    <2>3. j = k
        BY <2>1, <2>2 DEF MovesInSets
    <2> QED  BY <2>1, <2>2, <2>3
<1> HIDE DEF S
<1>5. CASE S = {}
    BY <1>5, FS_EmptySet DEF Copies, S
<1>6. CASE S # {}
    <2>1. PICK x \in S : TRUE
        BY <1>6
    <2>2. S = {x}
        BY <1>4, <2>1
    <2>3. Cardinality(S) = 1
        BY <2>2, FS_Singleton
    <2> QED  BY <2>3 DEF Copies, S
<1> QED  BY <1>5, <1>6

(* What the request that a move sends next leaves, which depends on what   *)
(* the others hold: the list that is popped has no '' in it, and the set   *)
(* that is added to has not got the element yet.                           *)
LEMMA MoveConserves ==
    ASSUME TypeInv, MovesOn(load, db, call), NEW p \in Client, call[p].pc = "busy",
           MovesInLists(load) \/ MovesInSets(load)
    PROVE  LET c == call[p]
               r == NextRequest(c)
               a == Outcome(c, Reply(db, r))
           IN  /\ MovesInLists(load) => Kinds(Leaves(db, r), "list")
               /\ MovesInSets(load) => Kinds(Leaves(db, r), "set")
               /\ Conserves(c, a, db, Leaves(db, r))
               /\ a.pc = "idle" \/ (a.pc = "busy" /\ Same(a, c))
<1> DEFINE c == call[p]
           r == NextRequest(c)
           x == Reply(db, r)
           a == Outcome(c, x)
           Good(kind) == Kinds(Leaves(db, r), kind) /\ Conserves(c, a, db, Leaves(db, r))
<1>1. Busy(p, c) /\ Shaped(c) /\ load \in Loads /\ db \in [Key -> Held] /\ load.db \in [Key -> Held] /\ Empty \in Atom
    BY MultiKeyAssumption DEF TypeInv, Well
<1>2. Balanced(load, db, call)
    BY DEF MovesOn
<1>3. \A e \in Atom : /\ Copies(db, e) \in Nat /\ Copies(load.db, e) \in Nat
                      /\ Cardinality(Hands(call, e)) \in Nat
                      /\ Copies(db, e) + Cardinality(Hands(call, e)) = Copies(load.db, e)
                      /\ Holds(c, e) => Cardinality(Hands(call, e)) > 0
    BY <1>1, <1>2, CopiesIs, HandsChange DEF Balanced
<1>4. c.cmd \in Moving
    BY DEF MovesOn, Moving
<1>5. Len(c.got) \in {0, 1} /\ c.dst \in Key
    BY <1>1, <1>4, MoveIs
<1>6. a.pc = "idle" \/ (a.pc = "busy" /\ Same(a, c))
    BY <1>1, <1>4, MoveIs
<1>7. ASSUME MovesInLists(load) PROVE Good("list")
    <2>1. c.cmd \in {"rpoplpush", "brpoplpush"} /\ Kinds(db, "list")
        BY <1>7 DEF MovesOn
    <2>2. CASE Len(c.got) = 0
        <3>1. Copies(db, Empty) = 0
            <4> DEFINE u == Copies(db, Empty)
                       v == Cardinality(Hands(call, Empty))
            <4>1. u \in Nat /\ v \in Nat /\ u + v = 0
                BY <1>1, <1>3, <1>7, NoEmptyString
            <4> HIDE DEF u, v
            <4>2. u = 0
                BY <4>1
            <4> QED  BY <4>2 DEF u
        <3>2. \A k \in Key : At(k, db[k], Empty) = {}
            BY <1>1, <3>1, NoneOfIt
        <3> QED  BY <1>1, <2>1, <2>2, <3>2, PopConserves
    <2>3. CASE Len(c.got) = 1
        BY <1>1, <2>1, <2>3, PushConserves
    <2> QED  BY <1>5, <2>2, <2>3
<1>8. ASSUME MovesInSets(load) PROVE Good("set")
    <2>1. c.cmd = "smove" /\ Kinds(db, "set")
        BY <1>8 DEF MovesOn
    <2>2. PICK y \in Atom : c.arg[1].items = {y}
        BY <1>8 DEF MovesOn
    <2>3. CASE Len(c.got) = 0
        BY <1>1, <2>1, <2>2, <2>3, TakeConserves
    <2>4. CASE Len(c.got) = 1
        <3>1. Holds(c, y)
            BY <2>1, <2>2, <2>4 DEF Holds
        <3>2. Copies(db, y) = 0
            <4> DEFINE u == Copies(db, y)
                       v == Cardinality(Hands(call, y))
                       w == Copies(load.db, y)
            <4>1. u \in Nat /\ v \in Nat /\ w \in Nat /\ u + v = w /\ v > 0
                BY <1>3, <3>1
            <4>2. w <= 1
                BY <1>1, <1>8, OneOfEach
            <4> HIDE DEF u, v, w
            <4>3. u = 0
                BY <4>1, <4>2
            <4> QED  BY <4>3 DEF u
        <3>3. At(c.dst, db[c.dst], y) = {}
            BY <1>1, <1>5, <3>2, NoneOfIt
        <3> QED  BY <1>1, <2>1, <2>2, <2>4, <3>3, AddConserves
    <2> QED  BY <1>5, <2>3, <2>4
<1> HIDE DEF a, r, x
<1> QED  BY <1>6, <1>7, <1>8 DEF a, r, x

LEMMA BalancedStep ==
    ASSUME TypeInv, Balanced(load, db, call), NEW p \in Client, NEW a, Takes(p, a), db' \in [Key -> Held],
           Conserves(call[p], a, db, db')
    PROVE  Balanced(load, db', call')
<1>1. PICK k \in Key : /\ \A j \in Key : j # k => db'[j] = db[j]
                       /\ \A e \in Atom : Cardinality(At(k, db'[k], e)) + Weight(a, e)
                                              = Cardinality(At(k, db[k], e)) + Weight(call[p], e)
    BY DEF Conserves
<1>2. call'[p] = a
    BY TakesIs
<1>3. db \in [Key -> Held]
    BY DEF TypeInv
<1> SUFFICES ASSUME NEW e \in Atom PROVE Copies(db', e) + Cardinality(Hands(call', e)) = Copies(load.db, e)
    BY DEF Balanced
<1>4. ASSUME NEW q \in Client, q # p PROVE Holds(call'[q], e) <=> Holds(call[q], e)
    <2> DEFINE b == call[q].alone /\ \A j \in KeysOf(call[q]) : db'[j] = db[j]
    <2>1. call'[q] = [call[q] EXCEPT !.alone = b] /\ b \in BOOLEAN /\ Well(q, call[q])
        BY <1>4, TakesIs DEF TypeInv
    <2> HIDE DEF b
    <2>2. Same(call'[q], call[q]) /\ call'[q].pc = call[q].pc /\ call'[q].got = call[q].got
        BY <2>1, StrangerIs
    <2> QED  BY <2>2 DEF Holds, Same
<1>5. /\ Cardinality(Hands(call, e)) \in Nat /\ Cardinality(Hands(call', e)) \in Nat
      /\ Cardinality(Hands(call', e)) + Weight(call[p], e) = Cardinality(Hands(call, e)) + Weight(a, e)
    <2> DEFINE f == call
               g == call'
    <2>1. (\A q \in Client : q # p => (Holds(g[q], e) <=> Holds(f[q], e))) /\ g[p] = a
        BY <1>2, <1>4
    <2> HIDE DEF f, g
    <2>2. /\ Cardinality(Hands(f, e)) \in Nat /\ Cardinality(Hands(g, e)) \in Nat
          /\ Cardinality(Hands(g, e)) + Weight(f[p], e) = Cardinality(Hands(f, e)) + Weight(g[p], e)
        BY <2>1, HandsChange
    <2> QED  BY <2>1, <2>2 DEF f, g
<1>6. Copies(db', e) + Cardinality(At(k, db[k], e)) = Copies(db, e) + Cardinality(At(k, db'[k], e))
    BY <1>1, <1>3, CopiesChange
<1>7. /\ Cardinality(At(k, db[k], e)) \in Nat /\ Cardinality(At(k, db'[k], e)) \in Nat
      /\ Copies(db, e) \in Nat /\ Copies(db', e) \in Nat
      /\ Weight(a, e) \in Nat /\ Weight(call[p], e) \in Nat
    BY <1>3, AtIs, CopiesIs DEF Weight
<1>8. Copies(db, e) + Cardinality(Hands(call, e)) = Copies(load.db, e)
    BY DEF Balanced
<1> DEFINE i == Copies(db, e)
           j == Copies(db', e)
           m == Cardinality(Hands(call, e))
           n == Cardinality(Hands(call', e))
           s == Cardinality(At(k, db[k], e))
           t == Cardinality(At(k, db'[k], e))
           v == Weight(call[p], e)
           w == Weight(a, e)
<1>9. /\ i \in Nat /\ j \in Nat /\ m \in Nat /\ n \in Nat /\ s \in Nat /\ t \in Nat /\ v \in Nat /\ w \in Nat
      /\ n + v = m + w /\ j + s = i + t /\ t + w = s + v
    BY <1>1, <1>5, <1>6, <1>7
<1> HIDE DEF i, j, m, n, s, t, v, w
<1>10. j + n = i + m
    BY <1>9
<1> QED  BY <1>8, <1>10 DEF i, j, m, n

LEMMA MoveInit == Init => MoveInv
<1> SUFFICES ASSUME Init PROVE MovesOn(load, db, call)
    BY DEF MoveInv
<1>1. load \in Loads /\ db = load.db /\ \A p \in Client : call[p].pc = "idle"
    BY DEF Init, Idle
<1>2. db \in [Key -> Held]
    BY <1>1, MultiKeyAssumption
<1>3. Balanced(load, db, call)
    <2> SUFFICES ASSUME NEW e \in Atom PROVE Copies(db, e) + Cardinality(Hands(call, e)) = Copies(db, e)
        BY <1>1 DEF Balanced
    <2>1. Hands(call, e) = {}
        BY <1>1 DEF Hands, Holds
    <2>2. Cardinality(Hands(call, e)) = 0 /\ Copies(db, e) \in Nat
        BY <1>2, <2>1, FS_EmptySet, CopiesIs
    <2> QED  BY <2>2
<1>4. (MovesInLists(load) => Kinds(db, "list")) /\ (MovesInSets(load) => Kinds(db, "set"))
    BY <1>1 DEF MovesInLists, MovesInSets, Kinds
<1> QED  BY <1>1, <1>3, <1>4 DEF MovesOn

LEMMA MoveCall ==
    ASSUME TypeInv, MovesOn(load, db, call), NEW p \in Client, Call(p)
    PROVE  MovesOn(load, db, call')
<1>1. PICK m \in load.calls : call' = [call EXCEPT ![p] = Begun(p, m, db)]
    BY CallIs
<1> DEFINE c == Begun(p, m, db)
<1>2. call[p].pc = "idle" /\ call'[p] = c /\ \A q \in Client : q # p => call'[q] = call[q]
    BY <1>1, CallIs DEF TypeInv
<1>3. c = Begun(p, m, db)
    OBVIOUS
<1> HIDE DEF c
<1>4. c.cmd = m.cmd /\ c.arg = m.arg /\ c.got = <<>>
    BY <1>3, BegunIs
<1>5. ASSUME MovesInLists(load) \/ MovesInSets(load) PROVE Balanced(load, db, call')
    <2> SUFFICES ASSUME NEW e \in Atom PROVE Hands(call', e) = Hands(call, e)
        BY <1>5 DEF MovesOn, Balanced
    <2>1. ~Holds(call[p], e) /\ ~Holds(call'[p], e)
        BY <1>2, <1>4 DEF Holds
    <2>2. \A q \in Client : Holds(call'[q], e) <=> Holds(call[q], e)
        BY <1>2, <2>1
    <2> QED  BY <2>2 DEF Hands
<1>6. ASSUME MovesInLists(load), NEW q \in Client, call'[q].pc = "busy"
      PROVE  call'[q].cmd \in {"rpoplpush", "brpoplpush"}
    BY <1>2, <1>4, <1>6 DEF MovesOn, MovesInLists
<1>7. ASSUME MovesInSets(load), NEW q \in Client, call'[q].pc = "busy"
      PROVE  call'[q].cmd = "smove" /\ \E y \in Atom : call'[q].arg[1].items = {y}
    <2>1. CASE q = p
        BY <1>2, <1>4, <1>7, <2>1 DEF MovesInSets
    <2>2. CASE q # p
        BY <1>2, <1>7, <2>2 DEF MovesOn
    <2> QED  BY <2>1, <2>2
<1> QED  BY <1>5, <1>6, <1>7 DEF MovesOn

LEMMA MoveExecute ==
    ASSUME TypeInv, TypeInv', MovesOn(load, db, call), NEW p \in Client, Execute(p)
    PROVE  MovesOn(load, db', call')
<1> DEFINE c == call[p]
           r == NextRequest(c)
           a == Outcome(c, Reply(db, r))
           f == Leaves(db, r)
<1>1. c.pc = "busy" /\ db' = f /\ Takes(p, a)
    BY ExecuteIs DEF Leaves
<1>2. db' \in [Key -> Held]
    BY DEF TypeInv
<1>3. ASSUME MovesInLists(load) \/ MovesInSets(load)
      PROVE  /\ MovesInLists(load) => Kinds(db', "list")
             /\ MovesInSets(load) => Kinds(db', "set")
             /\ Conserves(c, a, db, db')
             /\ a.pc = "idle" \/ (a.pc = "busy" /\ Same(a, c))
    BY <1>1, <1>3, MoveConserves
<1>4. ASSUME NEW q \in Client, q # p
      PROVE  call'[q].pc = call[q].pc /\ Same(call'[q], call[q])
    <2> DEFINE b == call[q].alone /\ \A j \in KeysOf(call[q]) : db'[j] = db[j]
    <2> HIDE DEF a
    <2>1. call'[q] = [call[q] EXCEPT !.alone = b] /\ b \in BOOLEAN /\ Well(q, call[q])
        BY <1>1, <1>4, TakesIs DEF TypeInv
    <2> HIDE DEF b
    <2> QED  BY <2>1, StrangerIs
<1> HIDE DEF a, r, f
<1>5. call'[p] = a
    BY <1>1, TakesIs
<1>6. ASSUME MovesInLists(load) \/ MovesInSets(load), NEW q \in Client, call'[q].pc = "busy"
      PROVE  call[q].pc = "busy" /\ Same(call'[q], call[q])
    <2>1. CASE q = p
        BY <1>1, <1>3, <1>5, <1>6, <2>1
    <2>2. CASE q # p
        BY <1>4, <1>6, <2>2
    <2> QED  BY <2>1, <2>2
<1>7. ASSUME MovesInLists(load), NEW q \in Client, call'[q].pc = "busy"
      PROVE  call'[q].cmd \in {"rpoplpush", "brpoplpush"}
    BY <1>6, <1>7 DEF MovesOn, Same
<1>8. ASSUME MovesInSets(load), NEW q \in Client, call'[q].pc = "busy"
      PROVE  call'[q].cmd = "smove" /\ \E y \in Atom : call'[q].arg[1].items = {y}
    BY <1>6, <1>8 DEF MovesOn, Same
<1>9. ASSUME MovesInLists(load) \/ MovesInSets(load) PROVE Balanced(load, db', call')
    <2>1. Balanced(load, db, call)
        BY <1>9 DEF MovesOn
    <2> QED  BY <1>1, <1>2, <1>3, <1>9, <2>1, BalancedStep
<1> QED  BY <1>3, <1>7, <1>8, <1>9 DEF MovesOn

LEMMA MoveNext == TypeInv /\ TypeInv' /\ MoveInv /\ [Next]_vars => MoveInv'
<1> SUFFICES ASSUME TypeInv, TypeInv', MoveInv, [Next]_vars, faults' = 0 PROVE MovesOn(load', db', call')
    BY DEF MoveInv
<1>0. faults \in Nat
    BY MultiKeyAssumption DEF TypeInv
<1>1. ASSUME NEW p \in Client, Call(p) PROVE MovesOn(load', db', call')
    <2>1. UNCHANGED <<load, db, faults>>
        BY <1>1, CallIs
    <2> QED  BY <1>1, <2>1, MoveCall DEF MoveInv
<1>2. ASSUME NEW p \in Client, Execute(p) PROVE MovesOn(load', db', call')
    <2>1. UNCHANGED <<load, faults>>
        BY <1>2, ExecuteIs
    <2> QED  BY <1>2, <2>1, MoveExecute DEF MoveInv
<1>3. ASSUME Trouble PROVE FALSE
    BY <1>0, <1>3 DEF Trouble
<1>4. CASE UNCHANGED vars
    BY <1>4 DEF vars, MoveInv
<1> QED  BY <1>1, <1>2, <1>3, <1>4 DEF Next, LoseReply, Fail, Expire

LEMMA MoveAlways == Spec => []MoveInv
BY MoveInit, MoveNext, TypeAlways, PTL DEF Spec

(* However the rpoplpush, brpoplpush and smove of any number of clients    *)
(* are interleaved, an element that one of them has taken and not yet put  *)
(* is in its hands only, and none is lost or doubled, while nothing fails  *)
(* (client.py:1174, 1195, 1276).                                           *)
THEOREM MovesAreSafe == Spec => []MovesKeepElements
<1>1. MoveInv => MovesKeepElements
    <2> SUFFICES ASSUME MoveInv, faults = 0, MovesInLists(load) \/ MovesInSets(load), NEW e \in Atom
                 PROVE  Copies(db, e) + InHands(e) = Copies(load.db, e)
        BY DEF MovesKeepElements
    <2>1. InHands(e) = Cardinality(Hands(call, e))
        BY DEF InHands, Hands
    <2> QED  BY <2>1 DEF MoveInv, MovesOn, Balanced
<1> QED  BY <1>1, MoveAlways, PTL

-----------------------------------------------------------------------------
(* AloneIsAtomic.  A request is about the keys of its call (Local), so a   *)
(* method that nobody disturbs can be followed on the values of its keys   *)
(* alone: Progress(c, v) says, command by command, what they are after the *)
(* replies that c has got; ProgressGoes takes it over one request, or to   *)
(* the method's early return, and ProgressEnd to the method's end, where   *)
(* they and the result are those of Native.                                *)

(* A request is answered and executed by its keys alone.                   *)
Within(r, keys) ==
    /\ r.key \in keys
    /\ r.op = "RENAME" => r.arg \in keys
    /\ r.op = "PFMERGE" => Range(r.arg) \subseteq keys
View(d, keys) == [k \in keys |-> d[k]]

LEMMA RefusedLocal ==
    ASSUME NEW d, NEW keys, NEW r, Within(r, keys)
    PROVE  Refused(d, r) <=> Refused(View(d, keys), r)
<1> DEFINE v == View(d, keys)
<1>1. \A k \in keys : v[k] = d[k]
    BY DEF View
<1> HIDE DEF v
<1>2. v[r.key] = d[r.key]
    BY <1>1 DEF Within
<1>3. r.op = "PFMERGE" => \A k \in {r.key} \cup Range(r.arg) : v[k] = d[k]
    BY <1>1 DEF Within
<1>4. Refused(d, r) <=> Refused(v, r)
    BY <1>2, <1>3 DEF Refused
<1> QED  BY <1>4 DEF v

LEMMA ServedLocal ==
    ASSUME NEW d \in [Key -> Held], NEW keys \in SUBSET Key, NEW r, r.op \in Op, Within(r, keys)
    PROVE  /\ Served(View(d, keys), r).reply = Served(d, r).reply
           /\ Served(View(d, keys), r).db = View(Served(d, r).db, keys)
<1> DEFINE v == View(d, keys)
<1>v. DOMAIN v = keys /\ v = [k \in keys |-> v[k]] /\ \A k \in keys : v[k] = d[k]
    BY DEF View
<1> HIDE DEF v
<1>e. r.key \in keys /\ r.key \in Key /\ v[r.key] = d[r.key]
    BY <1>v DEF Within
<1> DEFINE e == d[r.key]
<1> DEFINE With(f, new) == [f EXCEPT ![r.key] = new]
<1>s. \A new : View(With(d, new), keys) = With(v, new)
    BY <1>v, <1>e DEF View
<1> HIDE DEF With
<1>d. View(d, keys) = v
    BY DEF v
<1> SUFFICES Served(v, r).reply = Served(d, r).reply /\ Served(v, r).db = View(Served(d, r).db, keys)
    BY DEF v
<1>1. CASE r.op \in {"GET", "DUMP"}
    <2>1. Served(d, r) = [reply |-> Plain(e), db |-> d]
        BY <1>1 DEF Served
    <2>2. Served(v, r) = [reply |-> Plain(e), db |-> v]
        BY <1>1, <1>e DEF Served
    <2> QED  BY <1>d, <2>1, <2>2
<1>2. CASE r.op \in {"EXISTS", "PTTL"}
    <2> DEFINE n == Num(IF IF r.op = "EXISTS" THEN Exists(e) ELSE e.ttl THEN 1 ELSE 0)
    <2>1. Served(d, r) = [reply |-> n, db |-> d]
        BY <1>2 DEF Served
    <2>2. Served(v, r) = [reply |-> n, db |-> v]
        BY <1>2, <1>e DEF Served
    <2> QED  BY <1>d, <2>1, <2>2
<1>3. CASE r.op = "SMEMBERS"
    <2> DEFINE n == Datum("set", IF Exists(e) THEN e.items ELSE {})
    <2>1. Served(d, r) = [reply |-> n, db |-> d]
        BY <1>3 DEF Served
    <2>2. Served(v, r) = [reply |-> n, db |-> v]
        BY <1>3, <1>e DEF Served
    <2> QED  BY <1>d, <2>1, <2>2
<1>4. CASE r.op = "SET"
    <2> DEFINE new == Entry("string", r.arg.items, FALSE)
    <2>1. Served(d, r) = [reply |-> Num(1), db |-> With(d, new)]
        BY <1>4 DEF Served, With
    <2>2. Served(v, r) = [reply |-> Num(1), db |-> With(v, new)]
        BY <1>4, <1>e DEF Served, With
    <2> HIDE DEF new
    <2> QED  BY <1>s, <2>1, <2>2
<1>5. CASE r.op = "DEL"
    <2> DEFINE n == Num(IF Exists(e) THEN 1 ELSE 0)
    <2>1. Served(d, r) = [reply |-> n, db |-> With(d, Missing)]
        BY <1>5 DEF Served, With
    <2>2. Served(v, r) = [reply |-> n, db |-> With(v, Missing)]
        BY <1>5, <1>e DEF Served, With
    <2> HIDE DEF n
    <2> QED  BY <1>s, <2>1, <2>2
<1>6. CASE r.op = "RESTORE"
    <2> DEFINE new == Entry(r.arg.data.kind, r.arg.data.items, r.arg.ttl = Num(1))
    <2>1. Served(d, r) = [reply |-> Num(1), db |-> With(d, new)]
        BY <1>6 DEF Served, With
    <2>2. Served(v, r) = [reply |-> Num(1), db |-> With(v, new)]
        BY <1>6, <1>e DEF Served, With
    <2> HIDE DEF new
    <2> QED  BY <1>s, <2>1, <2>2
<1>7. CASE r.op = "RENAME"
    <2>1. Served(d, r).reply = Num(1) /\ Served(d, r).db = [[d EXCEPT ![r.key] = Missing] EXCEPT ![r.arg] = e]
        BY <1>7 DEF Served
    <2>2. Served(v, r).reply = Num(1) /\ Served(v, r).db = [[v EXCEPT ![r.key] = Missing] EXCEPT ![r.arg] = e]
        BY <1>7, <1>e DEF Served
    <2>3. r.arg \in keys /\ r.arg \in Key
        BY <1>7 DEF Within
    <2> HIDE DEF e
    <2>4. View([[d EXCEPT ![r.key] = Missing] EXCEPT ![r.arg] = e], keys)
              = [[v EXCEPT ![r.key] = Missing] EXCEPT ![r.arg] = e]
        BY <1>v, <1>e, <2>3 DEF View
    <2> QED  BY <2>1, <2>2, <2>4
<1>8. CASE r.op \in {"RPOP", "BRPOP"}
    <2>1. CASE ~Exists(e)
        <3>1. Served(d, r) = [reply |-> None, db |-> d]
            BY <1>8, <2>1 DEF Served
        <3>2. Served(v, r) = [reply |-> None, db |-> v]
            BY <1>8, <2>1, <1>e DEF Served
        <3> QED  BY <1>d, <3>1, <3>2
    <2>2. CASE Exists(e)
        <3> DEFINE n == Datum("string", {Last(e.items)})
                   new == IF Len(e.items) = 1 THEN Missing ELSE Entry("list", Front(e.items), e.ttl)
        <3>1. Served(d, r) = [reply |-> n, db |-> With(d, new)]
            BY <1>8, <2>2 DEF Served, With
        <3>2. Served(v, r) = [reply |-> n, db |-> With(v, new)]
            BY <1>8, <2>2, <1>e DEF Served, With
        <3> HIDE DEF n, new
        <3> QED  BY <1>s, <3>1, <3>2
    <2> QED  BY <2>1, <2>2
<1>9. CASE r.op = "LPUSH"
    <2> DEFINE new == Entry("list", <<Only(r.arg.items)>> \o (IF Exists(e) THEN e.items ELSE <<>>), e.ttl)
    <2>1. Served(d, r) = [reply |-> Num(1), db |-> With(d, new)]
        BY <1>9 DEF Served, With
    <2>2. Served(v, r) = [reply |-> Num(1), db |-> With(v, new)]
        BY <1>9, <1>e DEF Served, With
    <2> HIDE DEF new
    <2> QED  BY <1>s, <2>1, <2>2
<1>10. CASE r.op = "SREM"
    <2> DEFINE old == IF Exists(e) THEN e.items ELSE {}
               n   == Num(IF r.arg.items \subseteq old THEN 1 ELSE 0)
               new == IF old \subseteq r.arg.items THEN Missing ELSE Entry("set", e.items \ r.arg.items, e.ttl)
    <2>1. Served(d, r) = [reply |-> n, db |-> With(d, new)]
        BY <1>10 DEF Served, With
    <2>2. Served(v, r) = [reply |-> n, db |-> With(v, new)]
        BY <1>10, <1>e DEF Served, With
    <2> HIDE DEF n, new
    <2> QED  BY <1>s, <2>1, <2>2
<1>11. CASE r.op = "SADD"
    <2> DEFINE old == IF Exists(e) THEN e.items ELSE {}
               n   == Num(Cardinality(r.arg.items \ old))
               new == Entry("set", old \cup r.arg.items, e.ttl)
    <2>1. Served(d, r) = [reply |-> n, db |-> With(d, new)]
        BY <1>11 DEF Served, With
    <2>2. Served(v, r) = [reply |-> n, db |-> With(v, new)]
        BY <1>11, <1>e DEF Served, With
    <2> HIDE DEF n, new
    <2> QED  BY <1>s, <2>1, <2>2
<1>12. CASE r.op = "PFMERGE"
    <2> DEFINE all(f) == UNION {f[k].items : k \in Range(r.arg)}
               new(f) == Entry("string", all(f), FALSE)
    <2>1. Served(d, r) = [reply |-> Num(1), db |-> With(d, new(d))]
        BY <1>12 DEF Served, With
    <2>2. Served(v, r) = [reply |-> Num(1), db |-> With(v, new(v))]
        BY <1>12, <1>e DEF Served, With
    <2>3. \A k \in Range(r.arg) : v[k] = d[k]
        BY <1>12, <1>v DEF Within
    <2>4. all(v) = all(d)
        BY <2>3
    <2> HIDE DEF all
    <2>5. new(v) = new(d)
        BY <2>4
    <2> HIDE DEF new
    <2> QED  BY <1>s, <2>1, <2>2, <2>5
<1> QED  BY <1>1, <1>2, <1>3, <1>4, <1>5, <1>6, <1>7, <1>8, <1>9, <1>10, <1>11, <1>12 DEF Op

LEMMA Local ==
    ASSUME NEW d \in [Key -> Held], NEW keys \in SUBSET Key, NEW r, r.op \in Op, Within(r, keys)
    PROVE  /\ Reply(View(d, keys), r) = Reply(d, r)
           /\ Leaves(View(d, keys), r) = View(Leaves(d, r), keys)
BY RefusedLocal, ServedLocal DEF Reply, Leaves

(* What Redis' own commands do, one by one. *)
Fits(e, kind) == e.kind \in {"none", kind}
Function(f) == f = [k \in DOMAIN f |-> f[k]]
Alike(w, d) == Function(w) /\ DOMAIN w = DOMAIN d
Whole(c, d) == Combined(c.cmd, [i \in DOMAIN c.keys |-> d[c.keys[i]].items])

LEMMA KeysIs ==
    ASSUME NEW c, Callable(c)
    PROVE  /\ DOMAIN c.keys = 1 .. Len(c.keys) /\ Len(c.keys) \in Nat /\ Len(c.keys) > 0
           /\ Range(c.keys) = {c.keys[i] : i \in 1 .. Len(c.keys)}
           /\ Head(c.keys) = c.keys[1] /\ Src(c) = c.keys[1]
BY CallableKeys DEF Range, Src

LEMMA FirstValue ==
    ASSUME NEW c, Callable(c), NEW d
    PROVE  Head([i \in DOMAIN c.keys |-> d[c.keys[i]]]) = d[Src(c)]
<1> DEFINE values == [i \in 1 .. Len(c.keys) |-> d[c.keys[i]]]
<1>1. DOMAIN c.keys = 1 .. Len(c.keys) /\ Len(c.keys) \in Nat /\ Len(c.keys) > 0 /\ Src(c) = c.keys[1]
    BY KeysIs
<1>2. values[1] = d[Src(c)]
    BY <1>1
<1>3. values \in Seq({values[i] : i \in 1 .. Len(c.keys)})
    BY <1>1
<1>4. Head(values) = values[1]
    BY <1>3
<1> QED  BY <1>1, <1>2, <1>4

LEMMA NativeMget ==
    ASSUME NEW c, NEW d, c.cmd = "mget"
    PROVE  Native(c, d) = <<Datum("many", [i \in DOMAIN c.keys |-> Plain(d[c.keys[i]])]), d>>
BY DEF Native

(* w is d with the pairs of an mset in it. *)
AllSet(c, d, w) ==
    /\ Alike(w, d)
    /\ \A i \in 1 .. Len(c.keys) : w[c.keys[i]] = Entry("string", c.arg[i].items, FALSE)
    /\ \A k \in DOMAIN d \ Range(c.keys) : w[k] = d[k]

LEMMA NativeMset ==
    ASSUME NEW c, Callable(c), c.cmd \in {"mset", "msetnx"}, NEW d, NEW w, AllSet(c, d, w),
           c.cmd = "msetnx" => \A i \in 1 .. Len(c.keys) : ~Exists(d[c.keys[i]])
    PROVE  Native(c, d) = <<Num(1), w>>
<1>0. /\ Alike(w, d)
      /\ \A i \in 1 .. Len(c.keys) : w[c.keys[i]] = Entry("string", c.arg[i].items, FALSE)
      /\ \A k \in DOMAIN d \ Range(c.keys) : w[k] = d[k]
    BY DEF AllSet
<1> DEFINE given == [k \in Range(c.keys) |->
                        Entry("string", c.arg[CHOOSE i \in DOMAIN c.keys : c.keys[i] = k].items, FALSE)]
           all == [k \in DOMAIN d |-> IF k \in Range(c.keys) THEN given[k] ELSE d[k]]
<1>k. DOMAIN c.keys = 1 .. Len(c.keys) /\ Range(c.keys) = {c.keys[i] : i \in 1 .. Len(c.keys)}
    BY KeysIs
<1>i. \A i, j \in DOMAIN c.keys : c.keys[i] = c.keys[j] => i = j
    BY DEF Callable, IsInjective
<1>a. all = w
    <2>1. ASSUME NEW k \in DOMAIN d, k \in Range(c.keys)
          PROVE  all[k] = w[k]
        <3>1. PICK i \in DOMAIN c.keys : c.keys[i] = k
            BY <1>k, <2>1
        <3>2. (CHOOSE j \in DOMAIN c.keys : c.keys[j] = k) = i
            BY <1>i, <3>1
        <3>3. given[k] = Entry("string", c.arg[i].items, FALSE)
            BY <2>1, <3>2
        <3> HIDE DEF given
        <3> QED  BY <1>0, <1>k, <2>1, <3>1, <3>3
    <2>2. \A k \in DOMAIN d : k \notin Range(c.keys) => all[k] = w[k]
        BY <1>0
    <2>3. \A k \in DOMAIN d : all[k] = w[k]
        BY <2>1, <2>2
    <2>4. Function(all) /\ DOMAIN all = DOMAIN d
        BY DEF Function
    <2> HIDE DEF all
    <2> QED  BY <1>0, <2>3, <2>4 DEF Function, Alike
<1>1. CASE c.cmd = "mset"
    <2>1. Native(c, d) = <<Num(1), all>>
        BY <1>1 DEF Native
    <2> HIDE DEF all
    <2> QED  BY <1>a, <2>1
<1>2. CASE c.cmd = "msetnx"
    <2>1. ~\E k \in Range(c.keys) : Exists(d[k])
        BY <1>2, <1>k
    <2>2. Native(c, d) = <<Num(1), all>>
        BY <1>2, <2>1 DEF Native
    <2> HIDE DEF all
    <2> QED  BY <1>a, <2>2
<1> QED  BY <1>1, <1>2

LEMMA NativeMsetnxNot ==
    ASSUME NEW c, c.cmd = "msetnx", NEW d, NEW k \in Range(c.keys), Exists(d[k])
    PROVE  Native(c, d) = <<Num(0), d>>
<1>1. \E j \in Range(c.keys) : Exists(d[j])
    OBVIOUS
<1> QED  BY <1>1 DEF Native

LEMMA NativeDelete ==
    ASSUME NEW c, c.cmd = "delete", NEW d, NEW w, Alike(w, d),
           \A k \in DOMAIN d : w[k] = IF k \in Range(c.keys) THEN Missing ELSE d[k]
    PROVE  Native(c, d) = <<Num(Cardinality({k \in Range(c.keys) : Exists(d[k])})), w>>
<1> DEFINE gone == [k \in Range(c.keys) |-> Missing]
           all == [k \in DOMAIN d |-> IF k \in Range(c.keys) THEN gone[k] ELSE d[k]]
<1>1. Native(c, d) = <<Num(Cardinality({k \in Range(c.keys) : Exists(d[k])})), all>>
    BY DEF Native
<1>2. \A k \in DOMAIN d : all[k] = w[k]
    OBVIOUS
<1>3. Function(all) /\ DOMAIN all = DOMAIN d
    BY DEF Function
<1> HIDE DEF all
<1>4. all = w
    BY <1>2, <1>3 DEF Function, Alike
<1> QED  BY <1>1, <1>4

LEMMA NativeRename ==
    ASSUME NEW c, Callable(c), c.cmd \in {"rename", "renamenx"}, NEW d
    PROVE  /\ ~Exists(d[Src(c)]) => Native(c, d) = <<Error, d>>
           /\ Exists(d[Src(c)]) /\ c.cmd = "renamenx" /\ Exists(d[c.dst]) => Native(c, d) = <<Num(0), d>>
<1>1. Head([i \in DOMAIN c.keys |-> d[c.keys[i]]]) = d[Src(c)]
    BY FirstValue
<1> QED  BY ZenonT(30), <1>1 DEF Native

LEMMA NativeRenamed ==
    ASSUME NEW c, Callable(c), c.cmd \in {"rename", "renamenx"}, NEW d, NEW w, Alike(w, d),
           Src(c) \in DOMAIN d, c.dst \in DOMAIN d, Exists(d[Src(c)]), c.cmd = "renamenx" => ~Exists(d[c.dst]),
           w[Src(c)] = Missing, w[c.dst] = d[Src(c)],
           \A k \in DOMAIN d \ {Src(c), c.dst} : w[k] = d[k]
    PROVE  Native(c, d) = <<Num(1), w>>
<1>1. Head([i \in DOMAIN c.keys |-> d[c.keys[i]]]) = d[Src(c)]
    BY FirstValue
<1> DEFINE stored == [k \in DOMAIN d |-> IF k = c.dst THEN d[Src(c)] ELSE d[k]]
           new    == [stored EXCEPT ![Src(c)] = Missing]
<1>2. Native(c, d) = <<Num(1), new>>
    BY ZenonT(30), <1>1 DEF Native
<1>3. Src(c) # c.dst
    BY DEF Callable, Src
<1>4. \A k \in DOMAIN d : new[k] = w[k]
    BY <1>3
<1>5. Function(new) /\ DOMAIN new = DOMAIN d
    BY DEF Function
<1> HIDE DEF new
<1>6. new = w
    BY <1>4, <1>5 DEF Function, Alike
<1> QED  BY <1>2, <1>6

LEMMA NativePop ==
    ASSUME NEW c, Callable(c), c.cmd \in {"rpoplpush", "brpoplpush"}, NEW d
    PROVE  /\ ~Fits(d[Src(c)], "list") => Native(c, d) = <<Error, d>>
           /\ ~Exists(d[Src(c)]) => Native(c, d) = <<None, d>>
           /\ Fits(d[Src(c)], "list") /\ Exists(d[Src(c)]) /\ Fits(d[c.dst], "list") =>
                  LET popped == Served(d, Ask("RPOP", Src(c)))
                  IN  Native(c, d) = <<popped.reply, Served(popped.db, Put("LPUSH", c.dst, popped.reply)).db>>
<1>1. Head([i \in DOMAIN c.keys |-> d[c.keys[i]]]) = d[Src(c)]
    BY FirstValue
<1> QED  BY ZenonT(30), <1>1 DEF Native, Fits, Exists

LEMMA NativeSmove ==
    ASSUME NEW c, Callable(c), c.cmd = "smove", NEW d, Fits(d[c.dst], "set")
    PROVE  LET taken == Served(d, Put("SREM", Src(c), c.arg[1]))
           IN  /\ ~Fits(d[Src(c)], "set") => Native(c, d) = <<Error, d>>
               /\ Fits(d[Src(c)], "set") /\ taken.reply = Num(0) => Native(c, d) = <<Num(0), d>>
               /\ Fits(d[Src(c)], "set") /\ taken.reply # Num(0) =>
                      Native(c, d) = <<Num(1), Served(taken.db, Put("SADD", c.dst, c.arg[1])).db>>
<1>1. Head([i \in DOMAIN c.keys |-> d[c.keys[i]]]) = d[Src(c)]
    BY FirstValue
<1> QED  BY <1>1 DEF Native, Fits, Exists

LEMMA NativeWrong ==
    ASSUME NEW c, Callable(c), c.cmd \in {"sdiff", "sinter", "sunion", "sdiffstore", "sinterstore", "sunionstore"},
           NEW d, NEW i \in 1 .. Len(c.keys), ~Fits(d[c.keys[i]], "set")
    PROVE  Native(c, d) = <<Error, d>>
<1> DEFINE values == [j \in DOMAIN c.keys |-> d[c.keys[j]]]
<1>1. d[c.keys[i]] \in Range(values)
    BY KeysIs DEF Range
<1>2. \E e \in Range(values) : e.kind \notin {"none", "set"}
    BY <1>1 DEF Fits
<1> QED  BY ZenonT(30), <1>2 DEF Native

LEMMA NativeAlgebra ==
    ASSUME NEW c, Callable(c), c.cmd \in {"sdiff", "sinter", "sunion"},
           NEW d, \A i \in 1 .. Len(c.keys) : Fits(d[c.keys[i]], "set")
    PROVE  Native(c, d) = <<Datum("set", Whole(c, d)), d>>
<1> DEFINE values == [i \in DOMAIN c.keys |-> d[c.keys[i]]]
<1>1. \A i \in DOMAIN c.keys : values[i].items = d[c.keys[i]].items
    OBVIOUS
<1>2. [i \in DOMAIN values |-> values[i].items] = [i \in DOMAIN c.keys |-> d[c.keys[i]].items]
    BY <1>1
<1>3. \A e \in Range(values) : e.kind \in {"none", "set"}
    BY KeysIs DEF Range, Fits
<1> DEFINE all == Combined(c.cmd, [i \in DOMAIN values |-> values[i].items])
<1>4. Native(c, d) = <<Datum("set", all), d>>
    BY <1>3 DEF Native
<1>5. all = Whole(c, d)
    BY <1>2 DEF Whole
<1> QED  BY <1>4, <1>5

(* w is d with the result of a store in it. *)
ResultStored(c, d, w) ==
    /\ Alike(w, d) /\ c.dst \in DOMAIN d
    /\ \A i \in 1 .. Len(c.keys) : Fits(d[c.keys[i]], "set")
    /\ w[c.dst] = IF Whole(c, d) = {} THEN Missing ELSE Entry("set", Whole(c, d), FALSE)
    /\ \A k \in DOMAIN d \ {c.dst} : w[k] = d[k]

LEMMA NativeStore ==
    ASSUME NEW c, Callable(c), c.cmd \in {"sdiffstore", "sinterstore", "sunionstore"},
           NEW d, NEW w, ResultStored(c, d, w)
    PROVE  Native(c, d) = <<Num(Cardinality(Whole(c, d))), w>>
<1>0. /\ Alike(w, d) /\ c.dst \in DOMAIN d
      /\ \A i \in 1 .. Len(c.keys) : Fits(d[c.keys[i]], "set")
      /\ w[c.dst] = IF Whole(c, d) = {} THEN Missing ELSE Entry("set", Whole(c, d), FALSE)
      /\ \A k \in DOMAIN d \ {c.dst} : w[k] = d[k]
    BY DEF ResultStored
<1> DEFINE values == [i \in DOMAIN c.keys |-> d[c.keys[i]]]
<1>1. \A i \in DOMAIN c.keys : values[i].items = d[c.keys[i]].items
    OBVIOUS
<1>2. [i \in DOMAIN values |-> values[i].items] = [i \in DOMAIN c.keys |-> d[c.keys[i]].items]
    BY <1>1
<1>3. \A e \in Range(values) : e.kind \in {"none", "set"}
    BY <1>0, KeysIs DEF Range, Fits
<1> DEFINE all == Combined(c.cmd, [i \in DOMAIN values |-> values[i].items])
           new == IF all = {} THEN Missing ELSE Entry("set", all, FALSE)
           stored == [k \in DOMAIN d |-> IF k = c.dst THEN new ELSE d[k]]
<1>4. Native(c, d) = <<Num(Cardinality(all)), stored>>
    BY <1>3 DEF Native
<1>5. all = Whole(c, d)
    BY <1>2 DEF Whole
<1> HIDE DEF all
<1>6. \A k \in DOMAIN d : stored[k] = w[k]
    BY <1>0, <1>5
<1>7. Function(stored) /\ DOMAIN stored = DOMAIN d
    BY DEF Function
<1> HIDE DEF stored
<1>8. stored = w
    BY <1>0, <1>6, <1>7 DEF Function, Alike
<1> QED  BY <1>4, <1>5, <1>8

LEMMA NativePfmergeWrong ==
    ASSUME NEW c, Callable(c), c.cmd = "pfmerge", NEW d,
           NEW k \in Range(c.keys) \cup {c.dst}, ~Fits(d[k], "string")
    PROVE  Native(c, d) = <<Error, d>>
<1> DEFINE values == [i \in DOMAIN c.keys |-> d[c.keys[i]]]
<1>1. d[k] \in Range(values) \cup {d[c.dst]}
    BY KeysIs DEF Range
<1>2. \E e \in Range(values) \cup {d[c.dst]} : e.kind \notin {"none", "string"}
    BY <1>1 DEF Fits
<1> QED  BY <1>2 DEF Native

(* w is d with what pfmerge has merged in it. *)
AllMerged(c, d, w) ==
    /\ Alike(w, d) /\ c.dst \in DOMAIN d
    /\ \A k \in Range(c.keys) \cup {c.dst} : Fits(d[k], "string")
    /\ w[c.dst] = Entry("string", UNION {d[k].items : k \in Range(c.keys) \cup {c.dst}}, FALSE)
    /\ \A k \in DOMAIN d \ {c.dst} : w[k] = d[k]

LEMMA NativePfmerge ==
    ASSUME NEW c, Callable(c), c.cmd = "pfmerge", NEW d, NEW w, AllMerged(c, d, w)
    PROVE  Native(c, d) = <<Num(1), w>>
<1>0. /\ Alike(w, d) /\ c.dst \in DOMAIN d
      /\ \A k \in Range(c.keys) \cup {c.dst} : Fits(d[k], "string")
      /\ w[c.dst] = Entry("string", UNION {d[k].items : k \in Range(c.keys) \cup {c.dst}}, FALSE)
      /\ \A k \in DOMAIN d \ {c.dst} : w[k] = d[k]
    BY DEF AllMerged
<1> DEFINE values == [i \in DOMAIN c.keys |-> d[c.keys[i]]]
           merged == Range(values) \cup {d[c.dst]}
<1>r. Range(c.keys) = {c.keys[i] : i \in DOMAIN c.keys} /\ Range(values) = {d[c.keys[i]] : i \in DOMAIN c.keys}
    BY DEF Range
<1>1. \A e : e \in merged <=> \E k \in Range(c.keys) \cup {c.dst} : e = d[k]
    BY <1>r
<1> HIDE DEF merged
<1>2. \A e \in merged : e.kind \in {"none", "string"}
    BY <1>0, <1>1 DEF Fits
<1> DEFINE all == UNION {e.items : e \in merged}
           stored == [k \in DOMAIN d |-> IF k = c.dst THEN Entry("string", all, FALSE) ELSE d[k]]
<1>3. all = UNION {d[k].items : k \in Range(c.keys) \cup {c.dst}}
    <2>1. \A x : x \in all <=> \E e \in merged : x \in e.items
        OBVIOUS
    <2>2. \A x : x \in UNION {d[k].items : k \in Range(c.keys) \cup {c.dst}}
                    <=> \E k \in Range(c.keys) \cup {c.dst} : x \in d[k].items
        OBVIOUS
    <2> HIDE DEF all
    <2>3. \A x : x \in all <=> \E k \in Range(c.keys) \cup {c.dst} : x \in d[k].items
        BY <1>1, <2>1
    <2> QED  BY <2>2, <2>3
<1>4. Native(c, d) = <<Num(1), stored>>
    BY <1>2 DEF Native, merged
<1> HIDE DEF all
<1>5. \A k \in DOMAIN d : stored[k] = w[k]
    BY <1>0, <1>3
<1>6. Function(stored) /\ DOMAIN stored = DOMAIN d
    BY DEF Function
<1> HIDE DEF stored
<1>7. stored = w
    BY <1>0, <1>5, <1>6 DEF Function, Alike
<1> QED  BY <1>4, <1>7

(* What each request is answered with and leaves. *)
LEMMA GetIs ==
    ASSUME NEW v, NEW k
    PROVE  LET r == Ask("GET", k) IN
           /\ ~Fits(v[k], "string") => Reply(v, r) = Error /\ Leaves(v, r) = v
           /\ Fits(v[k], "string") => Reply(v, r) = Plain(v[k]) /\ Leaves(v, r) = v
BY DEF Ask, Reply, Leaves, Refused, Served, Expects, Fits

LEMMA SmembersIs ==
    ASSUME NEW v, NEW k, v[k] \in Held
    PROVE  LET r == Ask("SMEMBERS", k) IN
           /\ ~Fits(v[k], "set") => Reply(v, r) = Error /\ Leaves(v, r) = v
           /\ Fits(v[k], "set") => Reply(v, r) = Datum("set", v[k].items) /\ Leaves(v, r) = v
<1> DEFINE e == v[k]
           r == Ask("SMEMBERS", k)
<1>1. e.kind = "none" => e.items = {}
    BY HeldIs
<1>2. (IF Exists(e) THEN e.items ELSE {}) = IF Fits(e, "set") THEN e.items ELSE (IF Exists(e) THEN e.items ELSE {})
    BY <1>1 DEF Exists, Fits
<1>3. r.op = "SMEMBERS" /\ r.key = k
    BY DEF Ask
<1> HIDE DEF r
<1>4. ~Fits(v[k], "set") => Refused(v, r)
    BY <1>3 DEF Refused, Expects, Fits
<1>5. Fits(v[k], "set") => ~Refused(v, r)
    BY <1>3 DEF Refused, Expects, Fits
<1>6. Served(v, r) = [reply |-> Datum("set", IF Exists(e) THEN e.items ELSE {}), db |-> v]
    BY <1>3 DEF Served
<1> QED  BY <1>2, <1>4, <1>5, <1>6 DEF Reply, Leaves, r

LEMMA DumpIs ==
    ASSUME NEW v, NEW k
    PROVE  LET r == Ask("DUMP", k) IN Reply(v, r) = Plain(v[k]) /\ Leaves(v, r) = v
BY DEF Ask, Reply, Leaves, Refused, Served, Expects

LEMMA ExistsIs ==
    ASSUME NEW v, NEW k
    PROVE  LET r == Ask("EXISTS", k) IN
           /\ Exists(v[k]) => Reply(v, r) = Num(1)
           /\ ~Exists(v[k]) => Reply(v, r) = Num(0)
           /\ Leaves(v, r) = v
BY DEF Ask, Reply, Leaves, Refused, Served, Expects

LEMMA PttlIs ==
    ASSUME NEW v, NEW k
    PROVE  LET r == Ask("PTTL", k) IN Reply(v, r) = Num(IF v[k].ttl THEN 1 ELSE 0) /\ Leaves(v, r) = v
BY DEF Ask, Reply, Leaves, Refused, Served, Expects

LEMMA SetIs ==
    ASSUME NEW v, NEW k, NEW x, x # None
    PROVE  LET r == Put("SET", k, x) IN
           Reply(v, r) = Num(1) /\ Leaves(v, r) = [v EXCEPT ![k] = Entry("string", x.items, FALSE)]
BY ZenonT(30) DEF Put, Reply, Leaves, Refused, Served, Expects

LEMMA DelIs ==
    ASSUME NEW v, NEW k
    PROVE  LET r == Ask("DEL", k) IN
           /\ Exists(v[k]) => Reply(v, r) = Num(1)
           /\ ~Exists(v[k]) => Reply(v, r) = Num(0)
           /\ Leaves(v, r) = [v EXCEPT ![k] = Missing]
BY DEF Ask, Reply, Leaves, Refused, Served, Expects

LEMMA RestoreIs ==
    ASSUME NEW v, NEW k, ~Exists(v[k]), NEW x
    PROVE  LET r == Put("RESTORE", k, x) IN
           Reply(v, r) = Num(1) /\ Leaves(v, r) = [v EXCEPT ![k] = Entry(x.data.kind, x.data.items, x.ttl = Num(1))]
BY DEF Put, Reply, Leaves, Refused, Served, Expects

LEMMA RenameIs ==
    ASSUME NEW v, NEW k, NEW j, ServerSlot[k] = ServerSlot[j]
    PROVE  LET r == Put("RENAME", k, j) IN
           /\ ~Exists(v[k]) => Reply(v, r) = Error /\ Leaves(v, r) = v
           /\ Exists(v[k]) => Reply(v, r) = Num(1) /\ Leaves(v, r) = [[v EXCEPT ![k] = Missing] EXCEPT ![j] = v[k]]
<1> DEFINE r == Put("RENAME", k, j)
<1>1. r.op = "RENAME" /\ r.key = k /\ r.arg = j
    BY DEF Put
<1>2. OneSlot({k, j})
    BY DEF OneSlot
<1> HIDE DEF r
<1>3. ~Exists(v[k]) <=> Refused(v, r)
    BY <1>1, <1>2 DEF Refused, Expects
<1>4. Served(v, r).reply = Num(1) /\ Served(v, r).db = [[v EXCEPT ![k] = Missing] EXCEPT ![j] = v[k]]
    BY <1>1 DEF Served
<1> QED  BY <1>3, <1>4 DEF Reply, Leaves, r

LEMMA SaddIs ==
    ASSUME NEW v, NEW k, NEW s, s # {}, v[k] = Missing
    PROVE  LET r == Put("SADD", k, Datum("set", s)) IN
           Reply(v, r) = Num(Cardinality(s)) /\ Leaves(v, r) = [v EXCEPT ![k] = Entry("set", s, FALSE)]
<1> DEFINE r == Put("SADD", k, Datum("set", s))
<1>1. r.op = "SADD" /\ r.key = k /\ r.arg.items = s
    BY DEF Put, Datum
<1>2. ~Exists(v[k]) /\ v[k].ttl = FALSE /\ v[k].kind = "none"
    BY DEF Missing, Entry, Exists
<1> HIDE DEF r
<1>3. ~Refused(v, r)
    BY <1>1, <1>2 DEF Refused, Expects
<1>4. Served(v, r) = [reply |-> Num(Cardinality(s \ {})), db |-> [v EXCEPT ![k] = Entry("set", {} \cup s, v[k].ttl)]]
    BY <1>1, <1>2 DEF Served
<1>5. s \ {} = s /\ {} \cup s = s
    OBVIOUS
<1> DEFINE n == Num(Cardinality(s))
           w == [v EXCEPT ![k] = Entry("set", s, FALSE)]
<1>6. Served(v, r) = [reply |-> n, db |-> w]
    BY <1>2, <1>4, <1>5
<1> HIDE DEF n, w
<1>7. Reply(v, r) = n /\ Leaves(v, r) = w
    BY <1>3, <1>6 DEF Reply, Leaves
<1> QED  BY <1>7 DEF r, n, w

LEMMA PfmergeIs ==
    ASSUME NEW v, NEW k, NEW keys, OneSlot({k} \cup Range(keys)),
           \A j \in {k} \cup Range(keys) : Fits(v[j], "string")
    PROVE  LET r == Put("PFMERGE", k, keys) IN
           /\ Reply(v, r) = Num(1)
           /\ Leaves(v, r) = [v EXCEPT ![k] = Entry("string", UNION {v[j].items : j \in Range(keys)}, FALSE)]
<1> DEFINE r == Put("PFMERGE", k, keys)
<1>1. r.op = "PFMERGE" /\ r.key = k /\ r.arg = keys
    BY DEF Put
<1> HIDE DEF r
<1>3. ~Refused(v, r)
    BY <1>1 DEF Refused, Expects, Fits
<1>4. Served(v, r) = [reply |-> Num(1),
                      db |-> [v EXCEPT ![k] = Entry("string", UNION {v[j].items : j \in Range(keys)}, FALSE)]]
    BY <1>1 DEF Served
<1> DEFINE w == [v EXCEPT ![k] = Entry("string", UNION {v[j].items : j \in Range(keys)}, FALSE)]
<1> HIDE DEF w
<1>5. Reply(v, r) = Num(1) /\ Leaves(v, r) = w
    BY <1>3, <1>4 DEF Reply, Leaves, w
<1> QED  BY <1>5 DEF r, w

-----------------------------------------------------------------------------
(* A step of a method that nobody disturbs: its keys were c.before, they   *)
(* hold v, and its next request is answered with x and leaves w.           *)
MyKeys(c) == Range(c.keys) \cup {c.dst} \cup Range(c.temp)
Recorded(c) ==
    /\ c.before = [k \in MyKeys(c) |-> c.before[k]]
    /\ \A k \in MyKeys(c) : c.before[k] \in Held
    /\ c.cmd = "pfmerge" => \A k \in Range(c.temp) : c.before[k] = Missing
Going(p, c) == Busy(p, c) /\ Recorded(c) /\ Ordinary(c)

Goes(c, x, a) == Same(a, c) /\ a.got = Append(c.got, x) /\ a.before = c.before

LEMMA GoesOn ==
    ASSUME NEW p, NEW c, Busy(p, c), NEW x, NEW a, Goes(c, x, a)
    PROVE  /\ Len(c.got) \in Nat /\ Len(a.got) = Len(c.got) + 1 /\ Len(c.got) < Len(Requests(c))
           /\ \A i \in 1 .. Len(c.got) : a.got[i] = c.got[i]
           /\ a.got[Len(c.got) + 1] = x
           /\ DOMAIN a.got = 1 .. Len(a.got) /\ DOMAIN c.got = 1 .. Len(c.got)
           /\ NextRequest(c) = Requests(c)[Len(c.got) + 1]
           /\ a.cmd = c.cmd /\ a.keys = c.keys /\ a.dst = c.dst /\ a.arg = c.arg /\ a.temp = c.temp
           /\ a.before = c.before
           /\ Callable(c) /\ Callable(a)
<1>1. Sequence(c.got) /\ Len(c.got) < Len(Requests(c)) /\ Callable(c)
    BY DEF Busy, Replied
<1>2. Sequence(a.got) /\ Len(c.got) \in Nat /\ Len(a.got) = Len(c.got) + 1
      /\ (\A i \in 1 .. Len(c.got) : a.got[i] = c.got[i]) /\ a.got[Len(c.got) + 1] = x
    BY <1>1, AppendIs DEF Goes
<1>3. DOMAIN a.got = 1 .. Len(a.got) /\ DOMAIN c.got = 1 .. Len(c.got)
    BY <1>1, <1>2, GotIs
<1>4. Same(a, c) /\ a.before = c.before
    BY DEF Goes
<1>5. Callable(a)
    BY <1>1, <1>4 DEF Callable, Same
<1> QED  BY <1>1, <1>2, <1>3, <1>4, <1>5 DEF NextRequest, Same

LEMMA BeforeIs ==
    ASSUME NEW c, Callable(c), Recorded(c)
    PROVE  /\ Alike(c.before, c.before) /\ DOMAIN c.before = MyKeys(c)
           /\ \A i \in 1 .. Len(c.keys) : /\ c.keys[i] \in MyKeys(c) /\ c.keys[i] \in Range(c.keys)
                                          /\ c.before[c.keys[i]] \in Held
           /\ c.dst \in MyKeys(c) /\ c.before[c.dst] \in Held
           /\ Src(c) \in MyKeys(c) /\ c.before[Src(c)] \in Held
<1>1. DOMAIN c.before = MyKeys(c) /\ Alike(c.before, c.before)
    BY DEF Recorded, Alike, Function
<1>2. \A i \in 1 .. Len(c.keys) : c.keys[i] \in Range(c.keys)
    BY KeysIs DEF Range
<1>3. Range(c.keys) \subseteq MyKeys(c) /\ c.dst \in MyKeys(c)
    BY DEF MyKeys
<1>4. \A i \in 1 .. Len(c.keys) : c.keys[i] \in MyKeys(c)
    BY <1>2, <1>3
<1>5. 1 \in 1 .. Len(c.keys) /\ Src(c) = c.keys[1]
    BY KeysIs
<1>6. \A k \in MyKeys(c) : c.before[k] \in Held
    BY DEF Recorded
<1> QED  BY <1>1, <1>2, <1>3, <1>4, <1>5, <1>6

(* mget, sdiff, sinter and sunion have read their first keys. *)
Kind(cmd) == IF cmd \in {"mget", "msetnx"} THEN "string" ELSE "set"
Heard(c, i) ==
    /\ Fits(c.before[c.keys[i]], Kind(c.cmd))
    /\ c.got[i] = IF c.cmd = "mget" THEN Plain(c.before[c.keys[i]]) ELSE Datum("set", c.before[c.keys[i]].items)
ReadSome(c, v) == v = c.before /\ \A i \in 1 .. Len(c.got) : Heard(c, i)

SetAlgebra == {"sdiff", "sinter", "sunion", "sdiffstore", "sinterstore", "sunionstore"}

LEMMA ResIsWhole ==
    ASSUME NEW a, Callable(a), a.cmd \in SetAlgebra, Sequence(a.got), Len(a.got) >= Len(a.keys),
           \A i \in 1 .. Len(a.keys) : Heard(a, i)
    PROVE  res(a) = Whole(a, a.before)
<1>1. DOMAIN a.keys = 1 .. Len(a.keys) /\ Len(a.keys) \in Nat
    BY KeysIs
<1>2. \A i \in DOMAIN a.keys : Got(a, i).items = a.before[a.keys[i]].items
    <2> SUFFICES ASSUME NEW i \in 1 .. Len(a.keys) PROVE Got(a, i).items = a.before[a.keys[i]].items
        BY <1>1
    <2>1. i \in 1 .. Len(a.got)
        BY <1>1, GotIs
    <2>2. Got(a, i) = a.got[i]
        BY <2>1, GotIs
    <2>3. a.got[i] = Datum("set", a.before[a.keys[i]].items)
        BY DEF Heard, SetAlgebra
    <2> QED  BY <2>2, <2>3 DEF Datum
<1>3. [i \in DOMAIN a.keys |-> Got(a, i).items] = [i \in DOMAIN a.keys |-> a.before[a.keys[i]].items]
    BY <1>2
<1> QED  BY <1>3 DEF res, Whole

LEMMA EarlyIs ==
    ASSUME NEW c, NEW x
    PROVE  /\ \A op \in {"SMEMBERS", "PTTL", "SET", "RESTORE", "RENAME", "LPUSH", "SADD", "PFMERGE"} :
                  LeavesEarly(c, op, x) <=> x = Error
           /\ LeavesEarly(c, "GET", x) <=> x = Error \/ (c.cmd = "msetnx" /\ Truthy(x))
           /\ LeavesEarly(c, "EXISTS", x) <=> x = Error \/ x = Num(1)
           /\ \A op \in {"DUMP", "BRPOP"} : LeavesEarly(c, op, x) <=> x = Error \/ x = None
           /\ LeavesEarly(c, "RPOP", x) <=> x = Error \/ ~Truthy(x)
           /\ LeavesEarly(c, "SREM", x) <=> x = Error \/ x # Num(1)
           /\ LeavesEarly(c, "DEL", x) <=> x = Error \/ NothingToStore(c, "DEL")
BY DEF LeavesEarly, NotRemoved, NothingToStore

LEMMA Distinct ==
    /\ \A n : Num(n) # Error /\ Num(n) # None
    /\ \A kind, items : Datum(kind, items).kind = kind /\ Datum(kind, items).items = items
    /\ Num(0) # Num(1)
    /\ Error # None /\ Error.kind = "error" /\ None.kind = "none"
BY DEF Num, Error, None, Datum

LEMMA PlainHas ==
    ASSUME NEW e \in Held
    PROVE  /\ Plain(e) # Error
           /\ Plain(e) = None <=> ~Exists(e)
           /\ Exists(e) <=> e # Missing
           /\ Plain(e).kind = e.kind /\ Plain(e).items = e.items
<1>1. e.kind \in {"none", "string", "list", "set"} /\ (e.kind = "none" => e.items = {})
    BY HeldIs
<1>2. e.kind = "none" <=> e = Missing
    BY HeldIs
<1> QED  BY <1>1, <1>2 DEF Plain, Error, None, Datum, Exists

LEMMA HeardSame ==
    ASSUME NEW c, NEW a, Same(a, c), a.before = c.before, NEW i, a.got[i] = c.got[i]
    PROVE  Heard(a, i) <=> Heard(c, i)
BY DEF Heard, Same

LEMMA WholeSame ==
    ASSUME NEW c, NEW a, Same(a, c)
    PROVE  Whole(a, c.before) = Whole(c, c.before)
BY DEF Whole, Same

Gets == {"mget", "sdiff", "sinter", "sunion"}

LEMMA ReadFits ==
    ASSUME NEW p, NEW c, Going(p, c), c.cmd \in {"mget", "msetnx", "sinter", "sinterstore"}
    PROVE  \A k \in Range(c.keys) : Fits(c.before[k], Kind(c.cmd))
BY DEF Going, Ordinary, Kind, Fits

LEMMA ReadStep ==
    ASSUME NEW p \in Client, NEW c, Going(p, c), c.cmd \in Gets, NEW v, ReadSome(c, v),
           NEW r, r = NextRequest(c), NEW x, x = Reply(v, r), NEW w, w = Leaves(v, r), NEW a, Goes(c, x, a)
    PROVE  /\ LeavesEarly(c, r.op, x) => <<EarlyResult(r.op, x), w>> = Native(c, c.before)
           /\ ~LeavesEarly(c, r.op, x) => ReadSome(a, w)
<1> DEFINE g == Len(c.got)
           k == c.keys[g + 1]
<1>1. Callable(c) /\ g \in Nat /\ g < Len(Requests(c)) /\ r = Requests(c)[g + 1] /\ Busy(p, c) /\ Recorded(c)
    BY GoesOn DEF Going
<1>2. Len(Requests(c)) = Len(c.keys) /\ g + 1 \in 1 .. Len(c.keys) /\ r = Ask(ReadOp(c.cmd), k)
    <2>1. c.cmd \in Reading
        BY DEF Gets, Reading
    <2>2. Len(Requests(c)) = Len(c.keys) /\ \A i \in 1 .. Len(c.keys) : Requests(c)[i] = Ask(ReadOp(c.cmd), c.keys[i])
        BY <1>1, <2>1, ReadingShape
    <2>3. Len(c.keys) \in Nat
        BY <1>1, KeysIs
    <2>4. g + 1 \in 1 .. Len(c.keys)
        BY <1>1, <2>2, <2>3
    <2> QED  BY <1>1, <2>2, <2>4
<1>3. k \in Range(c.keys) /\ c.before[k] \in Held /\ v = c.before
    BY <1>1, <1>2, BeforeIs DEF ReadSome
<1>4. Len(a.got) = g + 1 /\ (\A i \in 1 .. g : a.got[i] = c.got[i]) /\ a.got[g + 1] = x
      /\ Same(a, c) /\ a.before = c.before
    BY <1>1, GoesOn DEF Goes
<1>5. Heard(a, g + 1) => \A i \in 1 .. Len(a.got) : Heard(a, i)
    <2>1. \A i \in 1 .. g : Heard(a, i)
        BY <1>4, HeardSame DEF ReadSome
    <2>2. \A i \in 1 .. Len(a.got) : i \in 1 .. g \/ i = g + 1
        BY <1>1, <1>4
    <2> QED  BY <2>1, <2>2
<1> HIDE DEF g, k
<1>6. CASE c.cmd = "mget"
    <2>1. Fits(v[k], "string")
        BY <1>3, <1>6, ReadFits DEF Kind
    <2>2. r = Ask("GET", k) /\ r.op = "GET"
        BY <1>2, <1>6 DEF ReadOp, Ask
    <2>3. x = Plain(v[k]) /\ w = v
        BY <2>1, <2>2, GetIs
    <2>4. ~LeavesEarly(c, r.op, x)
        BY <1>3, <1>6, <2>2, <2>3, EarlyIs, PlainHas
    <2>5. Heard(a, g + 1)
        BY <1>3, <1>4, <1>6, <2>1, <2>3 DEF Heard, Kind, Same, k
    <2> QED  BY <1>3, <1>4, <1>5, <2>3, <2>4, <2>5 DEF ReadSome
<1>7. CASE c.cmd # "mget"
    <2>1. c.cmd \in {"sdiff", "sinter", "sunion"}
        BY <1>7 DEF Gets
    <2>2. r = Ask("SMEMBERS", k) /\ r.op = "SMEMBERS"
        BY <1>2, <2>1 DEF ReadOp, Ask
    <2>3. CASE Fits(v[k], "set")
        <3>1. x = Datum("set", v[k].items) /\ w = v
            BY <1>3, <2>2, <2>3, SmembersIs
        <3>2. ~LeavesEarly(c, r.op, x)
            BY <2>2, <3>1, EarlyIs, Distinct
        <3>3. Heard(a, g + 1)
            BY <1>3, <1>4, <2>1, <2>3, <3>1 DEF Heard, Kind, Same, k
        <3> QED  BY <1>3, <1>4, <1>5, <3>1, <3>2, <3>3 DEF ReadSome
    <2>4. CASE ~Fits(v[k], "set")
        <3>1. x = Error /\ w = v
            BY <1>3, <2>2, <2>4, SmembersIs
        <3>2. LeavesEarly(c, r.op, x) /\ EarlyResult(r.op, x) = Error
            BY <2>2, <3>1, EarlyIs DEF EarlyResult
        <3>3. Native(c, c.before) = <<Error, c.before>>
            BY <1>1, <1>2, <1>3, <2>1, <2>4, NativeWrong DEF k
        <3> QED  BY <1>3, <3>1, <3>2, <3>3
    <2> QED  BY <2>3, <2>4
<1> QED  BY <1>6, <1>7

LEMMA ReadEnd ==
    ASSUME NEW c, Callable(c), c.cmd \in Gets, NEW a, Same(a, c), a.before = c.before, Callable(a), Sequence(a.got),
           NEW w, ReadSome(a, w), Len(a.got) = Len(Requests(a))
    PROVE  <<Result(a), w>> = Native(c, c.before)
<1>1. Len(a.got) = Len(a.keys) /\ a.cmd \in Gets /\ a.cmd = c.cmd /\ a.keys = c.keys
    BY ReadingShape DEF Gets, Reading, Same
<1>2. DOMAIN c.keys = 1 .. Len(c.keys) /\ Len(c.keys) \in Nat
    BY KeysIs
<1>3. \A i \in 1 .. Len(c.keys) : Heard(a, i)
    BY <1>1 DEF ReadSome
<1>4. CASE c.cmd = "mget"
    <2>1. Result(a) = Datum("many", a.got)
        <3>1. a.cmd = "mget"
            BY <1>1, <1>4
        <3> QED  BY <3>1, Zenon DEF Result, Moving
    <2>2. \A i \in 1 .. Len(c.keys) : a.got[i] = Plain(c.before[c.keys[i]])
        BY <1>1, <1>3, <1>4 DEF Heard
    <2>3. DOMAIN a.got = 1 .. Len(c.keys) /\ a.got = [i \in DOMAIN a.got |-> a.got[i]]
        BY <1>1, GotIs DEF Sequence
    <2>4. a.got = [i \in DOMAIN c.keys |-> Plain(c.before[c.keys[i]])]
        BY <1>2, <2>2, <2>3
    <2> QED  BY <1>4, <2>1, <2>4, NativeMget DEF ReadSome
<1>5. CASE c.cmd # "mget"
    <2>1. c.cmd \in {"sdiff", "sinter", "sunion"}
        BY <1>5 DEF Gets
    <2>2. \A i \in 1 .. Len(c.keys) : Fits(c.before[c.keys[i]], "set")
        BY <1>1, <1>3, <2>1 DEF Heard, Kind
    <2>3. Native(c, c.before) = <<Datum("set", Whole(c, c.before)), c.before>>
        BY <2>1, <2>2, NativeAlgebra
    <2>4. res(a) = Whole(c, c.before)
        BY <1>1, <1>2, <1>3, <2>1, ResIsWhole, WholeSame DEF SetAlgebra
    <2>5. Result(a) = Datum("set", res(a))
        BY <1>1, <2>1 DEF Result, Moving
    <2> QED  BY <2>3, <2>4, <2>5 DEF ReadSome
<1> QED  BY <1>4, <1>5

(* mset and msetnx have set their first keys; msetnx had looked at them. *)
Pairs(c) ==
    IF c.cmd = "mset" THEN Len(c.got)
    ELSE IF Len(c.got) <= Len(c.keys) THEN 0 ELSE Len(c.got) - Len(c.keys)
SetSome(c, v, m) ==
    /\ Alike(v, c.before)
    /\ \A i \in 1 .. m : v[c.keys[i]] = Entry("string", c.arg[i].items, FALSE)
    /\ \A k \in MyKeys(c) : (\A i \in 1 .. m : c.keys[i] # k) => v[k] = c.before[k]
Unset(c) == c.cmd = "msetnx" => \A i \in 1 .. Len(c.keys) : i <= Len(c.got) => ~Exists(c.before[c.keys[i]])
MsetSome(c, v) == Unset(c) /\ SetSome(c, v, Pairs(c))

LEMMA SetOne ==
    ASSUME NEW c, Callable(c), Recorded(c), c.cmd \in {"mset", "msetnx"}, NEW a, Same(a, c), a.before = c.before,
           NEW v, NEW m \in Nat, SetSome(c, v, m), m + 1 \in 1 .. Len(c.keys),
           NEW x, NEW w, NEW r, r = Put("SET", c.keys[m + 1], c.arg[m + 1]), x = Reply(v, r), w = Leaves(v, r)
    PROVE  x = Num(1) /\ SetSome(a, w, m + 1)
<1> DEFINE k == c.keys[m + 1]
           new == Entry("string", c.arg[m + 1].items, FALSE)
<1>1. \A i, j \in 1 .. Len(c.keys) : c.keys[i] = c.keys[j] => i = j
    BY KeysIs DEF Callable, IsInjective
<1>2. k \in MyKeys(c) /\ DOMAIN c.before = MyKeys(c) /\ Len(c.keys) \in Nat
    BY BeforeIs, KeysIs
<1>3. c.arg[m + 1] # None
    <2>1. Len(c.arg) = Len(c.keys) /\ c.arg \in Seq([kind : {"string"}, items : SUBSET Atom])
        BY DEF Callable
    <2>2. c.arg[m + 1] \in [kind : {"string"}, items : SUBSET Atom]
        BY <2>1, MembersOf
    <2>3. c.arg[m + 1].kind = "string"
        BY <2>2
    <2> QED  BY <2>3, Distinct
<1>4. x = Num(1) /\ w = [v EXCEPT ![k] = new]
    <2> DEFINE y == c.arg[m + 1]
    <2>1. y # None /\ r = Put("SET", k, y) /\ new = Entry("string", y.items, FALSE)
        BY <1>3
    <2> HIDE DEF y, k, new
    <2>2. /\ Reply(v, Put("SET", k, y)) = Num(1)
          /\ Leaves(v, Put("SET", k, y)) = [v EXCEPT ![k] = Entry("string", y.items, FALSE)]
        BY ONLY <2>1, SetIs
    <2> QED  BY <2>1, <2>2
<1>5. DOMAIN v = MyKeys(c) /\ Function(v)
    BY <1>2 DEF SetSome, Alike
<1> HIDE DEF new
<1>6. Alike(w, c.before) /\ w[k] = new /\ \A j \in MyKeys(c) : j # k => w[j] = v[j]
    BY <1>2, <1>4, <1>5 DEF Alike, Function
<1>7. \A i \in 1 .. m : c.keys[i] # k /\ c.keys[i] \in MyKeys(c)
    BY <1>1, <1>2, BeforeIs
<1>8. \A i \in 1 .. m : w[c.keys[i]] = Entry("string", c.arg[i].items, FALSE)
    BY <1>6, <1>7 DEF SetSome
<1>9. \A i \in 1 .. m + 1 : i \in 1 .. m \/ i = m + 1
    OBVIOUS
<1>10. \A j \in MyKeys(c) : (\A i \in 1 .. m + 1 : c.keys[i] # j) => w[j] = c.before[j]
    BY <1>6 DEF SetSome
<1>11. SetSome(c, w, m + 1)
    <2>1. \A i \in 1 .. m + 1 : w[c.keys[i]] = Entry("string", c.arg[i].items, FALSE)
        BY <1>6, <1>8, <1>9 DEF new
    <2> QED  BY <1>6, <1>10, <2>1 DEF SetSome
<1>12. SetSome(a, w, m + 1)
    BY <1>11 DEF SetSome, Same, MyKeys
<1> QED  BY <1>4, <1>12

LEMMA MsetStep ==
    ASSUME NEW p \in Client, NEW c, Going(p, c), c.cmd \in {"mset", "msetnx"}, NEW v, MsetSome(c, v),
           NEW r, r = NextRequest(c), NEW x, x = Reply(v, r), NEW w, w = Leaves(v, r), NEW a, Goes(c, x, a)
    PROVE  /\ LeavesEarly(c, r.op, x) => <<EarlyResult(r.op, x), w>> = Native(c, c.before)
           /\ ~LeavesEarly(c, r.op, x) => MsetSome(a, w)
<1> DEFINE g == Len(c.got)
           n == Len(c.keys)
<1>1. Callable(c) /\ g \in Nat /\ g < Len(Requests(c)) /\ r = Requests(c)[g + 1] /\ Busy(p, c) /\ Recorded(c)
    BY GoesOn DEF Going
<1>2. n \in Nat /\ DOMAIN c.keys = 1 .. n
    BY <1>1, KeysIs
<1>3. Len(a.got) = g + 1 /\ Same(a, c) /\ a.before = c.before /\ a.keys = c.keys /\ a.cmd = c.cmd
    BY SMTT(30), <1>1, GoesOn DEF Goes
<1>s. SetSome(c, v, Pairs(c)) /\ Unset(c)
    BY DEF MsetSome
<1>4. CASE c.cmd = "msetnx" /\ g < n
    <2> DEFINE k == c.keys[g + 1]
    <2>1. g + 1 \in 1 .. n /\ r = Ask("GET", k) /\ r.op = "GET"
        BY <1>1, <1>2, <1>4, MsetnxShape DEF Ask
    <2>2. k \in MyKeys(c) /\ c.before[k] \in Held /\ k \in Range(c.keys)
        BY <1>1, <2>1, BeforeIs
    <2>3. v[k] = c.before[k] /\ Pairs(c) = 0
        BY <1>1, <1>2, <1>4, <1>s, <2>2 DEF Pairs, SetSome
    <2>4. Fits(v[k], "string")
        BY <1>4, <2>2, <2>3, ReadFits DEF Kind
    <2>5. x = Plain(v[k]) /\ w = v
        BY <2>1, <2>4, GetIs
    <2> HIDE DEF k
    <2>6. CASE ~Exists(v[k])
        <3>1. x = None
            BY <2>2, <2>3, <2>5, <2>6, PlainHas
        <3>2. ~LeavesEarly(c, r.op, x)
            BY <2>1, <3>1, EarlyIs, Distinct DEF Truthy
        <3>3. Unset(a)
            <4>1. \A i \in 1 .. n : i <= g + 1 => i <= g \/ i = g + 1
                BY <1>1
            <4>2. ~Exists(c.before[c.keys[g + 1]])
                BY <2>3, <2>6 DEF k
            <4> QED  BY <1>3, <1>4, <1>s, <4>1, <4>2 DEF Unset
        <3>4. Pairs(a) = 0
            BY <1>1, <1>2, <1>3, <1>4 DEF Pairs
        <3>5. SetSome(a, w, 0)
            BY <1>3, <1>s, <2>3, <2>5 DEF SetSome, Same, MyKeys
        <3> QED  BY <3>2, <3>3, <3>4, <3>5 DEF MsetSome
    <2>7. CASE Exists(v[k])
        <3>1. v[k].kind = "string" /\ v[k].items # {Empty}
            BY <1>4, <2>2, <2>3, <2>4, <2>7 DEF Going, Ordinary, Fits, Exists
        <3>2. Truthy(x)
            BY <2>2, <2>3, <2>5, <2>7, <3>1, PlainHas, Distinct DEF Truthy
        <3>3. LeavesEarly(c, r.op, x) /\ EarlyResult(r.op, x) = Num(0)
            BY <1>4, <2>1, <2>2, <2>3, <2>5, <3>2, EarlyIs, PlainHas DEF EarlyResult
        <3>4. Native(c, c.before) = <<Num(0), c.before>>
            BY <1>4, <2>2, <2>3, <2>7, NativeMsetnxNot
        <3>5. v = c.before
            BY <1>s, <2>3 DEF SetSome, Alike, Function, Recorded, MyKeys, Going
        <3> QED  BY <2>5, <3>3, <3>4, <3>5
    <2> QED  BY <2>6, <2>7
<1>5. CASE c.cmd = "mset" \/ g >= n
    <2> DEFINE m == Pairs(c)
               h == Len(a.got)
    <2>p. /\ m = IF c.cmd = "mset" THEN g ELSE IF g <= n THEN 0 ELSE g - n
          /\ Pairs(a) = IF c.cmd = "mset" THEN h ELSE IF h <= n THEN 0 ELSE h - n
        BY <1>3 DEF Pairs
    <2>q. c.cmd = "mset" \/ (c.cmd # "mset" /\ g >= n)
        BY <1>5
    <2>h. g \in Nat /\ n \in Nat /\ h = g + 1
        BY <1>1, <1>2, <1>3
    <2>1. m \in Nat /\ Pairs(a) = m + 1
        <3> HIDE DEF m, h, g, n
        <3> QED  BY <2>p, <2>q, <2>h
    <2>2. m + 1 \in 1 .. n /\ r = Put("SET", c.keys[m + 1], c.arg[m + 1])
        <3>1. CASE c.cmd = "mset"
            <4>1. m = g
                BY <3>1 DEF Pairs
            <4> QED  BY <1>1, <1>2, <3>1, <4>1, MsetShape
        <3>2. CASE c.cmd = "msetnx"
            <4>1. m = g - n /\ g >= n
                <5>1. c.cmd # "mset" /\ g >= n
                    BY <1>5, <3>2
                <5> HIDE DEF m, h, g, n
                <5> QED  BY <2>p, <2>h, <5>1
            <4>2. g < 2 * n
                BY <1>1, <3>2, MsetnxShape
            <4>3. m + 1 \in 1 .. n /\ g + 1 = n + (m + 1)
                BY <1>1, <1>2, <4>1, <4>2
            <4>4. \A i \in 1 .. n : Requests(c)[n + i] = Put("SET", c.keys[i], c.arg[i])
                BY <1>1, <3>2, MsetnxShape
            <4> QED  BY <1>1, <4>3, <4>4
        <3> QED  BY <3>1, <3>2
    <2> HIDE DEF m
    <2>3. x = Num(1) /\ SetSome(a, w, m + 1)
        BY <1>1, <1>3, <1>s, <2>1, <2>2, SetOne DEF m
    <2>4. ~LeavesEarly(c, r.op, x)
        BY <2>2, <2>3, EarlyIs, Distinct DEF Put
    <2>5. Unset(a)
        BY <1>1, <1>2, <1>3, <1>5, <1>s DEF Unset
    <2> QED  BY <2>1, <2>3, <2>4, <2>5 DEF MsetSome
<1> QED  BY <1>1, <1>2, <1>4, <1>5

LEMMA MsetEnd ==
    ASSUME NEW c, Callable(c), Recorded(c), c.cmd \in {"mset", "msetnx"}, NEW a, Same(a, c), a.before = c.before,
           Callable(a), Sequence(a.got), NEW w, MsetSome(a, w), Len(a.got) = Len(Requests(a))
    PROVE  <<Result(a), w>> = Native(c, c.before)
<1>1. Len(c.keys) \in Nat /\ DOMAIN c.keys = 1 .. Len(c.keys) /\ Range(c.keys) = {c.keys[i] : i \in 1 .. Len(c.keys)}
    BY KeysIs
<1>2. a.keys = c.keys /\ a.cmd = c.cmd /\ a.arg = c.arg /\ MyKeys(a) = MyKeys(c)
    BY DEF Same, MyKeys
<1>3. Pairs(a) = Len(c.keys) /\ Len(a.got) >= Len(c.keys)
    BY <1>1, <1>2, MsetShape, MsetnxShape DEF Pairs
<1>4. SetSome(a, w, Len(c.keys)) /\ Unset(a)
    BY <1>3 DEF MsetSome
<1>5. \A i \in 1 .. Len(c.keys) : w[c.keys[i]] = Entry("string", c.arg[i].items, FALSE)
    BY <1>2, <1>4 DEF SetSome
<1>6. \A k \in DOMAIN c.before \ Range(c.keys) : w[k] = c.before[k]
    BY <1>1, <1>2, <1>4, BeforeIs DEF SetSome
<1>7. c.cmd = "msetnx" => \A i \in 1 .. Len(c.keys) : ~Exists(c.before[c.keys[i]])
    BY <1>1, <1>2, <1>3, <1>4 DEF Unset
<1>8. Alike(w, c.before)
    BY <1>4 DEF SetSome
<1>9. Native(c, c.before) = <<Num(1), w>>
    <2>1. AllSet(c, c.before, w)
        BY <1>5, <1>6, <1>8 DEF AllSet
    <2> QED  BY <1>7, <2>1, NativeMset
<1>10. Result(a) = Num(1)
    BY <1>2 DEF Result, Moving
<1> QED  BY <1>9, <1>10

-----------------------------------------------------------------------------
(* delete has deleted its first keys, each of which it has counted once. *)
DeletedSome(c, v) ==
    /\ Alike(v, c.before)
    /\ \A k \in MyKeys(c) : v[k] = IF \E i \in 1 .. Len(c.got) : c.keys[i] = k THEN Missing ELSE c.before[k]
    /\ \A i \in 1 .. Len(c.got) :
           /\ c.got[i] = Num(1) => Exists(c.before[c.keys[i]])
           /\ Exists(c.before[c.keys[i]]) =>
                  \E j \in 1 .. Len(c.got) : c.keys[j] = c.keys[i] /\ c.got[j] = Num(1)
           /\ \A j \in 1 .. Len(c.got) : c.keys[j] = c.keys[i] /\ c.got[i] = Num(1) /\ c.got[j] = Num(1) => i = j

LEMMA DeleteStep ==
    ASSUME NEW p \in Client, NEW c, Going(p, c), c.cmd = "delete", NEW v, DeletedSome(c, v),
           NEW r, r = NextRequest(c), NEW x, x = Reply(v, r), NEW w, w = Leaves(v, r), NEW a, Goes(c, x, a)
    PROVE  ~LeavesEarly(c, r.op, x) /\ DeletedSome(a, w)
<1> DEFINE g == Len(c.got)
           k == c.keys[g + 1]
<1>1. Callable(c) /\ g \in Nat /\ g < Len(Requests(c)) /\ r = Requests(c)[g + 1] /\ Busy(p, c) /\ Recorded(c)
    BY GoesOn DEF Going
<1>2. g + 1 \in 1 .. Len(c.keys) /\ r = Ask("DEL", k)
    <2>1. c.cmd \in Reading /\ ReadOp(c.cmd) = "DEL"
        BY DEF Reading, ReadOp
    <2>2. Len(Requests(c)) = Len(c.keys) /\ \A i \in 1 .. Len(c.keys) : Requests(c)[i] = Ask("DEL", c.keys[i])
        BY <1>1, <2>1, ReadingShape
    <2>3. Len(c.keys) \in Nat
        BY <1>1, KeysIs
    <2>4. g + 1 \in 1 .. Len(c.keys)
        BY <1>1, <2>2, <2>3
    <2> QED  BY <1>1, <2>2, <2>4
<1>3. k \in MyKeys(c) /\ DOMAIN c.before = MyKeys(c)
    BY <1>1, <1>2, BeforeIs
<1>4. Len(a.got) = g + 1 /\ (\A i \in 1 .. g : a.got[i] = c.got[i]) /\ a.got[g + 1] = x
      /\ a.before = c.before /\ a.keys = c.keys /\ MyKeys(a) = MyKeys(c)
    <2>1. Len(a.got) = g + 1 /\ (\A i \in 1 .. g : a.got[i] = c.got[i]) /\ a.got[g + 1] = x
          /\ a.before = c.before /\ a.keys = c.keys
        BY <1>1, GoesOn
    <2>2. Same(a, c)
        BY DEF Goes
    <2>3. MyKeys(a) = MyKeys(c)
        BY <2>2 DEF MyKeys, Same
    <2> QED  BY <2>1, <2>3
<1>5. /\ Exists(v[k]) => x = Num(1)
      /\ ~Exists(v[k]) => x = Num(0)
      /\ w = [v EXCEPT ![k] = Missing]
    <2> HIDE DEF k
    <2> QED  BY <1>2, DelIs
<1>6. ~LeavesEarly(c, r.op, x)
    <2>1. r.op = "DEL" /\ x # Error
        BY <1>2, <1>5, Distinct DEF Ask
    <2> QED  BY <2>1, EarlyIs DEF NothingToStore
<1>7. \A i \in 1 .. g + 1 : i \in 1 .. g \/ i = g + 1
    BY <1>1
<1>g. (\A i \in 1 .. g : i \in 1 .. g + 1) /\ g + 1 \in 1 .. g + 1
    BY <1>1
<1>8. Alike(w, c.before) /\ w[k] = Missing /\ \A j \in MyKeys(c) : j # k => w[j] = v[j]
    <2>1. Alike(v, c.before)
        BY DEF DeletedSome
    <2> HIDE DEF k
    <2> QED  BY <1>3, <1>5, <2>1 DEF Alike, Function
<1>9. \A j \in MyKeys(c) : w[j] = IF \E i \in 1 .. g + 1 : c.keys[i] = j THEN Missing ELSE c.before[j]
    <2> SUFFICES ASSUME NEW j \in MyKeys(c)
                 PROVE  w[j] = IF \E i \in 1 .. g + 1 : c.keys[i] = j THEN Missing ELSE c.before[j]
        OBVIOUS
    <2>1. CASE j = k
        BY <1>8, <1>g, <2>1
    <2>2. CASE j # k
        <3>1. (\E i \in 1 .. g + 1 : c.keys[i] = j) <=> \E i \in 1 .. g : c.keys[i] = j
            BY <1>7, <1>g, <2>2
        <3> QED  BY <1>8, <2>2, <3>1 DEF DeletedSome
    <2> QED  BY <2>1, <2>2
<1>v. v[k] = IF \E i \in 1 .. g : c.keys[i] = k THEN Missing ELSE c.before[k]
    BY <1>3 DEF DeletedSome
<1>m. ~Exists(Missing)
    BY DEF Exists, Missing, Entry
<1>x. x = Num(1) <=> Exists(v[k])
    BY <1>5, Distinct
<1>c. \A i \in 1 .. g :
          /\ c.got[i] = Num(1) => Exists(c.before[c.keys[i]])
          /\ Exists(c.before[c.keys[i]]) => \E j \in 1 .. g : c.keys[j] = c.keys[i] /\ c.got[j] = Num(1)
          /\ \A j \in 1 .. g : c.keys[j] = c.keys[i] /\ c.got[i] = Num(1) /\ c.got[j] = Num(1) => i = j
    BY DEF DeletedSome
<1>d. c.keys[g + 1] = k
    OBVIOUS
<1> HIDE DEF g, k
<1>10. \A i \in 1 .. g + 1 : a.got[i] = Num(1) => Exists(c.before[c.keys[i]])
    BY <1>4, <1>7, <1>v, <1>m, <1>x, <1>c, <1>d
<1>11. \A i \in 1 .. g + 1 : Exists(c.before[c.keys[i]]) =>
           \E j \in 1 .. g + 1 : c.keys[j] = c.keys[i] /\ a.got[j] = Num(1)
    <2>1. \A i \in 1 .. g : Exists(c.before[c.keys[i]]) =>
              \E j \in 1 .. g + 1 : c.keys[j] = c.keys[i] /\ a.got[j] = Num(1)
        BY <1>4, <1>c, <1>g
    <2>2. ASSUME Exists(c.before[k]) PROVE \E j \in 1 .. g + 1 : c.keys[j] = k /\ a.got[j] = Num(1)
        <3>1. CASE \E i \in 1 .. g : c.keys[i] = k
            BY <2>1, <2>2, <3>1
        <3>2. CASE ~\E i \in 1 .. g : c.keys[i] = k
            BY <1>4, <1>v, <1>x, <1>d, <1>g, <2>2, <3>2
        <3> QED  BY <3>1, <3>2
    <2> QED  BY <1>7, <1>d, <2>1, <2>2
<1>12. \A i, j \in 1 .. g + 1 : c.keys[j] = c.keys[i] /\ a.got[i] = Num(1) /\ a.got[j] = Num(1) => i = j
    <2>1. \A i \in 1 .. g : c.keys[i] = k => x # Num(1)
        BY <1>v, <1>m, <1>x
    <2> QED  BY <1>4, <1>7, <1>c, <1>d, <2>1
<1>13. DeletedSome(a, w)
    BY <1>4, <1>8, <1>9, <1>10, <1>11, <1>12 DEF DeletedSome
<1> QED  BY <1>6, <1>13

LEMMA DeleteEnd ==
    ASSUME NEW c, Callable(c), Recorded(c), c.cmd = "delete", NEW a, Same(a, c), a.before = c.before,
           Callable(a), Sequence(a.got), NEW w, DeletedSome(a, w), Len(a.got) = Len(Requests(a))
    PROVE  <<Result(a), w>> = Native(c, c.before)
<1> DEFINE n == Len(c.keys)
           S == {i \in DOMAIN a.got : a.got[i] = Num(1)}
           T == {k \in Range(c.keys) : Exists(c.before[k])}
           f == [i \in S |-> c.keys[i]]
<1>1. n \in Nat /\ DOMAIN c.keys = 1 .. n /\ Range(c.keys) = {c.keys[i] : i \in 1 .. n}
    BY KeysIs
<1>2. a.keys = c.keys /\ a.cmd = c.cmd /\ MyKeys(a) = MyKeys(c)
    BY DEF Same, MyKeys
<1>3. Len(a.got) = n /\ DOMAIN a.got = 1 .. n
    BY <1>2, ReadingShape, GotIs DEF Reading
<1>4. \A i \in 1 .. n :
          /\ a.got[i] = Num(1) => Exists(c.before[c.keys[i]])
          /\ Exists(c.before[c.keys[i]]) => \E j \in 1 .. n : c.keys[j] = c.keys[i] /\ a.got[j] = Num(1)
          /\ \A j \in 1 .. n : c.keys[j] = c.keys[i] /\ a.got[i] = Num(1) /\ a.got[j] = Num(1) => i = j
    BY <1>2, <1>3 DEF DeletedSome
<1>5. f \in Bijection(S, T)
    <2>1. f \in [S -> T]
        BY <1>1, <1>3, <1>4
    <2>2. \A i, j \in S : f[i] = f[j] => i = j
        BY <1>3, <1>4
    <2>3. \A k \in T : \E i \in S : f[i] = k
        BY <1>1, <1>3, <1>4
    <2> HIDE DEF f, S, T
    <2> QED  BY <2>1, <2>2, <2>3, SMT DEF Bijection, Injection, Surjection, IsInjective
<1>6. IsFiniteSet(S)
    <2>1. IsFiniteSet(1 .. n)
        BY <1>1, FS_Interval
    <2> QED  BY <1>3, <2>1, FS_Subset
<1>7. Cardinality(S) = Cardinality(T)
    BY <1>5, <1>6, FS_Bijection DEF ExistsBijection
<1>8. Result(a) = Num(Cardinality(S))
    BY <1>2 DEF Result, Moving
<1>9. \A k \in DOMAIN c.before : w[k] = IF k \in Range(c.keys) THEN Missing ELSE c.before[k]
    <2>1. \A k \in MyKeys(c) : w[k] = IF \E i \in 1 .. n : c.keys[i] = k THEN Missing ELSE c.before[k]
        BY <1>2, <1>3 DEF DeletedSome
    <2>2. DOMAIN c.before = MyKeys(c)
        BY BeforeIs
    <2>3. \A k : k \in Range(c.keys) <=> \E i \in 1 .. n : c.keys[i] = k
        BY <1>1
    <2> QED  BY ONLY <2>1, <2>2, <2>3
<1>10. Alike(w, c.before)
    BY DEF DeletedSome
<1>11. Native(c, c.before) = <<Num(Cardinality(T)), w>>
    BY <1>9, <1>10, NativeDelete
<1> HIDE DEF S, T
<1> QED  BY <1>7, <1>8, <1>11

LEMMA Unchanged ==
    ASSUME NEW v, NEW d, Alike(v, d), Function(d), \A k \in DOMAIN d : v[k] = d[k]
    PROVE  v = d
BY DEF Alike, Function

LEMMA Changed ==
    ASSUME NEW d, NEW v, Alike(v, d), NEW k \in DOMAIN d, NEW new, NEW w, w = [v EXCEPT ![k] = new]
    PROVE  Alike(w, d) /\ w[k] = new /\ \A j \in DOMAIN d : j # k => w[j] = v[j]
BY DEF Alike, Function

(* A rename, the requests of which are counted from where it begins. *)
Part(c) == Len(c.got) - Offset(c)

RenamedNear(c, v, s) ==
    /\ s <= 0 => v[c.dst] = c.before[c.dst] /\ v[Src(c)] = c.before[Src(c)]
    /\ s > 0 => v[c.dst] = c.before[Src(c)] /\ v[Src(c)] = Missing
RenamedFar(c, v, s) ==
    /\ s <= 2 => v[c.dst] = c.before[c.dst]
    /\ s = 3 => v[c.dst] = Missing
    /\ s > 3 => v[c.dst] = c.before[Src(c)]
    /\ s <= 4 => v[Src(c)] = c.before[Src(c)]
    /\ s > 4 => v[Src(c)] = Missing
    /\ s > 0 => c.got[Offset(c) + 1] = Plain(c.before[Src(c)])
    /\ s > 1 => c.got[Offset(c) + 2] = Num(IF c.before[Src(c)].ttl THEN 1 ELSE 0)
RenamedSome(c, v) ==
    /\ Alike(v, c.before)
    /\ \A k \in MyKeys(c) \ {Src(c), c.dst} : v[k] = c.before[k]
    /\ Part(c) > 0 => Exists(c.before[Src(c)])
    /\ Part(c) >= 0 /\ c.cmd = "renamenx" => ~Exists(c.before[c.dst])
    /\ IF Near(c) THEN RenamedNear(c, v, Part(c)) ELSE RenamedFar(c, v, Part(c))

LEMMA RenameContext ==
    ASSUME NEW p \in Client, NEW c, Going(p, c), c.cmd \in {"rename", "renamenx"}, NEW x, NEW a, Goes(c, x, a)
    PROVE  /\ Callable(c) /\ Recorded(c) /\ Src(c) # c.dst
           /\ Src(c) \in DOMAIN c.before /\ c.dst \in DOMAIN c.before /\ DOMAIN c.before = MyKeys(c)
           /\ Function(c.before) /\ c.before[Src(c)] \in Held /\ c.before[c.dst] \in Held
           /\ a.before = c.before /\ Src(a) = Src(c) /\ a.dst = c.dst /\ MyKeys(a) = MyKeys(c)
           /\ Near(a) <=> Near(c)
           /\ Offset(a) = Offset(c) /\ a.cmd = c.cmd
           /\ Part(c) \in Int /\ Part(a) = Part(c) + 1
           /\ Offset(c) = IF c.cmd = "renamenx" THEN 1 ELSE 0
           /\ Part(c) >= 0 - Offset(c) /\ Part(c) < IF Near(c) THEN 1 ELSE 5
           /\ NextRequest(c) = Requests(c)[Offset(c) + (Part(c) + 1)]
<1>1. Busy(p, c) /\ Recorded(c) /\ Callable(c) /\ Same(a, c)
    BY GoesOn DEF Going, Goes
<1>2. Function(c.before) /\ DOMAIN c.before = MyKeys(c) /\ c.before[Src(c)] \in Held /\ c.before[c.dst] \in Held
      /\ Src(c) \in MyKeys(c) /\ c.dst \in MyKeys(c)
    BY <1>1, BeforeIs DEF Alike
<1>3. Src(c) # c.dst
    BY <1>1 DEF Callable, Src
<1>4. a.before = c.before /\ Src(a) = Src(c) /\ a.dst = c.dst /\ a.cmd = c.cmd /\ a.keys = c.keys /\ a.temp = c.temp
    BY <1>1 DEF Same, Src, Goes
<1>5. MyKeys(a) = MyKeys(c) /\ (Near(a) <=> Near(c)) /\ Offset(a) = Offset(c)
    BY <1>4 DEF MyKeys, Near, Offset
<1>6. Len(c.got) \in Nat /\ Len(a.got) = Len(c.got) + 1 /\ Len(c.got) < Len(Requests(c))
      /\ NextRequest(c) = Requests(c)[Len(c.got) + 1]
    BY <1>1, GoesOn
<1>7. Len(Requests(c)) = Offset(c) + (IF Near(c) THEN 1 ELSE 5)
    BY <1>1, RenameShape
<1>8. Offset(c) \in {0, 1} /\ Offset(c) = IF c.cmd = "renamenx" THEN 1 ELSE 0
    BY DEF Offset
<1> DEFINE g == Len(c.got)
           h == Len(a.got)
           o == Offset(c)
           m == Len(Requests(c))
           t == IF Near(c) THEN 1 ELSE 5
<1>9. Part(c) = g - o /\ Part(a) = h - o
    BY <1>5 DEF Part
<1>10. g \in Nat /\ o \in {0, 1} /\ h = g + 1 /\ g < m /\ m = o + t /\ t \in {1, 5}
    BY <1>6, <1>7, <1>8
<1>11. NextRequest(c) = Requests(c)[g + 1]
    BY <1>6
<1> HIDE DEF g, h, o, m
<1>12. Part(c) \in Int /\ Part(a) = Part(c) + 1 /\ Part(c) >= 0 - o /\ o + (Part(c) + 1) = g + 1
    BY <1>9, <1>10
<1> HIDE DEF t
<1>13. Part(c) < t
    BY <1>9, <1>10
<1> QED  BY <1>1, <1>2, <1>3, <1>4, <1>5, <1>8, <1>11, <1>12, <1>13 DEF o, t

(* renamenx has looked at dst. *)
LEMMA RenamenxLooks ==
    ASSUME NEW p \in Client, NEW c, Going(p, c), c.cmd = "renamenx", NEW v, RenamedSome(c, v), Part(c) = 0 - 1,
           NEW r, r = NextRequest(c), NEW x, x = Reply(v, r), NEW w, w = Leaves(v, r), NEW a, Goes(c, x, a)
    PROVE  /\ LeavesEarly(c, r.op, x) => <<EarlyResult(r.op, x), w>> = Native(c, c.before)
           /\ ~LeavesEarly(c, r.op, x) => RenamedSome(a, w)
<1>1. /\ Callable(c) /\ Src(c) \in DOMAIN c.before /\ c.dst \in DOMAIN c.before /\ DOMAIN c.before = MyKeys(c)
      /\ Function(c.before) /\ a.before = c.before /\ Src(a) = Src(c) /\ a.dst = c.dst /\ MyKeys(a) = MyKeys(c)
      /\ (Near(a) <=> Near(c)) /\ a.cmd = c.cmd /\ Part(a) = 0 /\ Offset(c) = 1
      /\ r = Requests(c)[Offset(c) + (Part(c) + 1)]
    BY RenameContext
<1>2. r = Ask("EXISTS", c.dst) /\ r.op = "EXISTS"
    <2>1. Offset(c) + (Part(c) + 1) = 1
        BY <1>1
    <2>2. r = Requests(c)[1]
        BY <1>1, <2>1
    <2>3. Requests(c)[1] = Ask("EXISTS", c.dst)
        BY <1>1, RenameShape
    <2> QED  BY <2>2, <2>3 DEF Ask
<1>3. Alike(v, c.before) /\ v[c.dst] = c.before[c.dst] /\ v[Src(c)] = c.before[Src(c)]
      /\ \A k \in MyKeys(c) \ {Src(c), c.dst} : v[k] = c.before[k]
    BY DEF RenamedSome, RenamedNear, RenamedFar
<1>4. v = c.before
    BY <1>1, <1>3, Unchanged
<1>5. w = v /\ (Exists(v[c.dst]) => x = Num(1)) /\ (~Exists(v[c.dst]) => x = Num(0))
    BY <1>2, ExistsIs
<1>6. CASE Exists(v[c.dst])
    <2>1. LeavesEarly(c, r.op, x) /\ EarlyResult(r.op, x) = Num(0)
        BY <1>2, <1>5, <1>6, EarlyIs, Distinct DEF EarlyResult
    <2>2. Exists(c.before[Src(c)])
        BY <1>4, <1>6 DEF Going, Ordinary
    <2>3. Native(c, c.before) = <<Num(0), c.before>>
        BY <1>1, <1>4, <1>6, <2>2, NativeRename
    <2> QED  BY <1>4, <1>5, <2>1, <2>3
<1>7. CASE ~Exists(v[c.dst])
    <2>1. ~LeavesEarly(c, r.op, x)
        BY <1>2, <1>5, <1>7, EarlyIs, Distinct
    <2>2. RenamedNear(a, w, 0) /\ RenamedFar(a, w, 0)
        BY <1>1, <1>3, <1>5 DEF RenamedNear, RenamedFar
    <2> QED  BY <1>1, <1>3, <1>4, <1>5, <1>7, <2>1, <2>2 DEF RenamedSome
<1> QED  BY <1>6, <1>7

LEMMA RenameNear ==
    ASSUME NEW p \in Client, NEW c, Going(p, c), c.cmd \in {"rename", "renamenx"}, NEW v, RenamedSome(c, v),
           Part(c) = 0, Near(c),
           NEW r, r = NextRequest(c), NEW x, x = Reply(v, r), NEW w, w = Leaves(v, r), NEW a, Goes(c, x, a)
    PROVE  /\ LeavesEarly(c, r.op, x) => <<EarlyResult(r.op, x), w>> = Native(c, c.before)
           /\ ~LeavesEarly(c, r.op, x) => RenamedSome(a, w)
<1>1. /\ Callable(c) /\ Src(c) \in DOMAIN c.before /\ c.dst \in DOMAIN c.before /\ DOMAIN c.before = MyKeys(c)
      /\ Function(c.before) /\ a.before = c.before /\ Src(a) = Src(c) /\ a.dst = c.dst /\ MyKeys(a) = MyKeys(c)
      /\ Near(a) /\ a.cmd = c.cmd /\ Part(a) = 1 /\ Src(c) # c.dst
      /\ r = Requests(c)[Offset(c) + (Part(c) + 1)] /\ Offset(c) \in {0, 1}
    BY RenameContext
<1>2. r = Put("RENAME", Src(c), c.dst) /\ r.op = "RENAME"
    <2>1. Offset(c) + (Part(c) + 1) = Offset(c) + 1
        BY <1>1
    <2>2. r = Requests(c)[Offset(c) + 1]
        BY <1>1, <2>1
    <2>3. Requests(c)[Offset(c) + 1] = Put("RENAME", Src(c), c.dst)
        BY <1>1, RenameShape
    <2> QED  BY <2>2, <2>3 DEF Put
<1>3. Alike(v, c.before) /\ v[c.dst] = c.before[c.dst] /\ v[Src(c)] = c.before[Src(c)]
      /\ (\A k \in MyKeys(c) \ {Src(c), c.dst} : v[k] = c.before[k])
      /\ (c.cmd = "renamenx" => ~Exists(c.before[c.dst]))
    BY DEF RenamedSome, RenamedNear
<1>4. v = c.before
    BY <1>1, <1>3, Unchanged
<1>5. ServerSlot[Src(c)] = ServerSlot[c.dst]
    BY DEF Going, Ordinary, Near
<1>6. CASE ~Exists(v[Src(c)])
    <2>1. x = Error /\ w = v
        BY <1>2, <1>5, <1>6, RenameIs
    <2>2. LeavesEarly(c, r.op, x) /\ EarlyResult(r.op, x) = Error
        BY <1>2, <2>1, EarlyIs DEF EarlyResult
    <2>3. Native(c, c.before) = <<Error, c.before>>
        BY <1>1, <1>4, <1>6, NativeRename
    <2> QED  BY <1>4, <2>1, <2>2, <2>3
<1>7. CASE Exists(v[Src(c)])
    <2>1. x = Num(1) /\ w = [[v EXCEPT ![Src(c)] = Missing] EXCEPT ![c.dst] = v[Src(c)]]
        BY <1>2, <1>5, <1>7, RenameIs
    <2>2. ~LeavesEarly(c, r.op, x)
        BY <1>2, <2>1, EarlyIs, Distinct
    <2>3. /\ Alike(w, c.before) /\ w[Src(c)] = Missing /\ w[c.dst] = v[Src(c)]
          /\ \A k \in MyKeys(c) \ {Src(c), c.dst} : w[k] = v[k]
        <3> DEFINE u == [v EXCEPT ![Src(c)] = Missing]
        <3>1. Alike(u, c.before) /\ u[Src(c)] = Missing /\ \A j \in DOMAIN c.before : j # Src(c) => u[j] = v[j]
            BY <1>1, <1>3, Changed
        <3> DEFINE e == v[Src(c)]
        <3>2. w = [u EXCEPT ![c.dst] = e]
            BY <2>1
        <3> HIDE DEF u, e
        <3>4. Alike(w, c.before) /\ w[c.dst] = e /\ \A j \in DOMAIN c.before : j # c.dst => w[j] = u[j]
            BY <1>1, <3>1, <3>2, Changed
        <3>3. Alike(w, c.before) /\ w[c.dst] = v[Src(c)] /\ \A j \in DOMAIN c.before : j # c.dst => w[j] = u[j]
            BY <3>4 DEF e
        <3> QED  BY <1>1, <3>1, <3>3
    <2>4. RenamedNear(a, w, 1)
        BY <1>1, <1>3, <2>3 DEF RenamedNear
    <2>5. Alike(w, a.before) /\ \A k \in MyKeys(a) \ {Src(a), a.dst} : w[k] = a.before[k]
        BY <1>1, <1>3, <2>3
    <2>6. Exists(a.before[Src(a)])
        BY <1>1, <1>4, <1>7
    <2> QED  BY <1>1, <1>3, <2>2, <2>4, <2>5, <2>6 DEF RenamedSome
<1> QED  BY <1>6, <1>7

(* Over two slots, request by request; got are those before and after. *)
LEMMA FarRequest ==
    ASSUME NEW p \in Client, NEW c, Going(p, c), c.cmd \in {"rename", "renamenx"}, ~Near(c), Part(c) >= 0
    PROVE  LET r == NextRequest(c) IN
           /\ Part(c) \in 0 .. 4
           /\ Part(c) = 0 => r = Ask("DUMP", Src(c))
           /\ Part(c) = 1 => r = Ask("PTTL", Src(c))
           /\ Part(c) = 2 => r = Ask("DEL", c.dst)
           /\ Part(c) = 3 => r = Put("RESTORE", c.dst, Restored(c, Offset(c)))
           /\ Part(c) = 4 => r = Ask("DEL", Src(c))
<1> DEFINE r == NextRequest(c)
           o == Offset(c)
           s == Part(c)
           a == [cmd |-> c.cmd, keys |-> c.keys, dst |-> c.dst, arg |-> c.arg, temp |-> c.temp,
                 got |-> Append(c.got, None), before |-> c.before]
<1>1. Goes(c, None, a)
    BY DEF Goes, Same
<1> HIDE DEF a
<1>2. s \in Int /\ s < 5 /\ o \in {0, 1} /\ r = Requests(c)[o + (s + 1)] /\ Callable(c)
    BY <1>1, RenameContext
<1>3. /\ Requests(c)[o + 1] = Ask("DUMP", Src(c))
      /\ Requests(c)[o + 2] = Ask("PTTL", Src(c))
      /\ Requests(c)[o + 3] = Ask("DEL", c.dst)
      /\ Requests(c)[o + 4] = Put("RESTORE", c.dst, Restored(c, o))
      /\ Requests(c)[o + 5] = Ask("DEL", Src(c))
    BY <1>2, RenameShape
<1> HIDE DEF r, o
<1>4. s \in 0 .. 4
    BY <1>2
<1>5. /\ s = 0 => r = Requests(c)[o + 1]
      /\ s = 1 => r = Requests(c)[o + 2]
      /\ s = 2 => r = Requests(c)[o + 3]
      /\ s = 3 => r = Requests(c)[o + 4]
      /\ s = 4 => r = Requests(c)[o + 5]
    BY <1>2
<1> HIDE DEF s
<1> QED  BY <1>3, <1>4, <1>5 DEF r, s, o

LEMMA FarGot ==
    ASSUME NEW p \in Client, NEW c, Going(p, c), c.cmd \in {"rename", "renamenx"}, ~Near(c), Part(c) \in 0 .. 4,
           NEW x, NEW a, Goes(c, x, a)
    PROVE  /\ Part(c) > 0 => a.got[Offset(c) + 1] = c.got[Offset(c) + 1] /\ Got(c, Offset(c) + 1) = c.got[Offset(c) + 1]
           /\ Part(c) > 1 => a.got[Offset(c) + 2] = c.got[Offset(c) + 2] /\ Got(c, Offset(c) + 2) = c.got[Offset(c) + 2]
           /\ Part(c) = 0 => a.got[Offset(c) + 1] = x
           /\ Part(c) = 1 => a.got[Offset(c) + 2] = x
<1> DEFINE o == Offset(c)
           g == Len(c.got)
           s == Part(c)
<1>1. Busy(p, c) /\ o \in {0, 1} /\ s = g - o
    BY DEF Going, Offset, Part
<1>2. g \in Nat /\ (\A i \in 1 .. g : a.got[i] = c.got[i]) /\ a.got[g + 1] = x
    BY <1>1, GoesOn
<1>3. \A i \in 1 .. g : Got(c, i) = c.got[i]
    BY <1>1, GotIs DEF Busy, Replied
<1> HIDE DEF o, g
<1>4. s > 0 => o + 1 \in 1 .. g
    BY <1>1, <1>2
<1>5. s > 1 => o + 2 \in 1 .. g
    BY <1>1, <1>2
<1>6. (s = 0 => g + 1 = o + 1) /\ (s = 1 => g + 1 = o + 2)
    BY <1>1, <1>2
<1> HIDE DEF s
<1> QED  BY <1>2, <1>3, <1>4, <1>5, <1>6 DEF o, s

LEMMA RestoredIs ==
    ASSUME NEW c, NEW o, NEW e \in Held, Got(c, o + 1) = Plain(e), Got(c, o + 2) = Num(IF e.ttl THEN 1 ELSE 0)
    PROVE  LET y == Restored(c, o) IN Entry(y.data.kind, y.data.items, y.ttl = Num(1)) = e
<1> DEFINE y == Restored(c, o)
<1>1. y.data = Plain(e) /\ y.ttl = Num(IF e.ttl THEN 1 ELSE 0)
    BY DEF Restored
<1> HIDE DEF y
<1>2. y.data.kind = e.kind /\ y.data.items = e.items
    BY <1>1, PlainHas
<1>3. e = Entry(e.kind, e.items, e.ttl) /\ e.ttl \in BOOLEAN
    BY HeldIs
<1>4. (y.ttl = Num(1)) = e.ttl
    <2>1. CASE e.ttl = TRUE
        BY <1>1, <2>1
    <2>2. CASE e.ttl = FALSE
        <3>1. y.ttl = Num(0)
            BY <1>1, <2>2
        <3> QED  BY <2>2, <3>1, Distinct
    <2> QED  BY <1>3, <2>1, <2>2
<1> QED  BY <1>2, <1>3, <1>4 DEF y

LEMMA RenameFar ==
    ASSUME NEW p \in Client, NEW c, Going(p, c), c.cmd \in {"rename", "renamenx"}, NEW v, RenamedSome(c, v),
           Part(c) >= 0, ~Near(c),
           NEW r, r = NextRequest(c), NEW x, x = Reply(v, r), NEW w, w = Leaves(v, r), NEW a, Goes(c, x, a)
    PROVE  /\ LeavesEarly(c, r.op, x) => <<EarlyResult(r.op, x), w>> = Native(c, c.before)
           /\ ~LeavesEarly(c, r.op, x) => RenamedSome(a, w)
<1> DEFINE s == Part(c)
           b == c.before
           e == b[Src(c)]
<1>1. /\ Callable(c) /\ Src(c) \in DOMAIN b /\ c.dst \in DOMAIN b /\ DOMAIN b = MyKeys(c) /\ e \in Held
      /\ Function(b) /\ a.before = b /\ Src(a) = Src(c) /\ a.dst = c.dst /\ MyKeys(a) = MyKeys(c)
      /\ ~Near(a) /\ a.cmd = c.cmd /\ Part(a) = s + 1 /\ Src(c) # c.dst /\ Offset(a) = Offset(c)
    BY RenameContext
<1>2. /\ s \in 0 .. 4
      /\ s = 0 => r = Ask("DUMP", Src(c))
      /\ s = 1 => r = Ask("PTTL", Src(c))
      /\ s = 2 => r = Ask("DEL", c.dst)
      /\ s = 3 => r = Put("RESTORE", c.dst, Restored(c, Offset(c)))
      /\ s = 4 => r = Ask("DEL", Src(c))
    BY FarRequest
<1>3. /\ Alike(v, b) /\ RenamedFar(c, v, s)
      /\ (\A k \in MyKeys(c) \ {Src(c), c.dst} : v[k] = b[k])
      /\ (s > 0 => Exists(e))
      /\ (c.cmd = "renamenx" => ~Exists(b[c.dst]))
    BY DEF RenamedSome
<1>f. /\ s <= 2 => v[c.dst] = b[c.dst]
      /\ s = 3 => v[c.dst] = Missing
      /\ s > 3 => v[c.dst] = e
      /\ s <= 4 => v[Src(c)] = e
      /\ s > 0 => c.got[Offset(c) + 1] = Plain(e)
      /\ s > 1 => c.got[Offset(c) + 2] = Num(IF e.ttl THEN 1 ELSE 0)
    BY <1>3 DEF RenamedFar
<1>4. /\ s > 0 => a.got[Offset(c) + 1] = c.got[Offset(c) + 1] /\ Got(c, Offset(c) + 1) = c.got[Offset(c) + 1]
      /\ s > 1 => a.got[Offset(c) + 2] = c.got[Offset(c) + 2] /\ Got(c, Offset(c) + 2) = c.got[Offset(c) + 2]
      /\ s = 0 => a.got[Offset(c) + 1] = x
      /\ s = 1 => a.got[Offset(c) + 2] = x
    BY <1>2, FarGot
(* What is left to show of the new state. *)
<1>5. ASSUME Alike(w, b), \A k \in MyKeys(c) \ {Src(c), c.dst} : w[k] = b[k], Exists(e),
             RenamedFar(a, w, s + 1)
      PROVE  RenamedSome(a, w)
    BY <1>1, <1>2, <1>3, <1>5 DEF RenamedSome
<1>6. CASE s = 0
    <2>1. r.op = "DUMP" /\ x = Plain(e) /\ w = v
        BY <1>2, <1>6, <1>f, DumpIs DEF Ask
    <2>2. CASE ~Exists(e)
        <3>1. x = None
            BY <1>1, <2>1, <2>2, PlainHas
        <3>2. LeavesEarly(c, r.op, x) /\ EarlyResult(r.op, x) = Error
            BY <2>1, <3>1, EarlyIs DEF EarlyResult
        <3>3. Native(c, b) = <<Error, b>>
            BY <1>1, <2>2, NativeRename
        <3>4. v = b
            BY <1>1, <1>3, <1>f, <1>6, Unchanged
        <3> QED  BY <2>1, <3>2, <3>3, <3>4
    <2>3. CASE Exists(e)
        <3>1. ~LeavesEarly(c, r.op, x)
            BY <1>1, <2>1, <2>3, EarlyIs, PlainHas
        <3>2. RenamedFar(a, w, 1)
            BY <1>1, <1>4, <1>6, <1>f, <2>1 DEF RenamedFar
        <3> QED  BY <1>3, <1>5, <1>6, <2>1, <2>3, <3>1, <3>2
    <2> QED  BY <2>2, <2>3
<1>7. CASE s = 1
    <2>1. r.op = "PTTL" /\ x = Num(IF e.ttl THEN 1 ELSE 0) /\ w = v
        BY <1>2, <1>7, <1>f, PttlIs DEF Ask
    <2>2. ~LeavesEarly(c, r.op, x)
        BY <2>1, EarlyIs, Distinct
    <2>3. RenamedFar(a, w, 2)
        BY <1>1, <1>4, <1>7, <1>f, <2>1 DEF RenamedFar
    <2> QED  BY <1>3, <1>5, <1>7, <2>1, <2>2, <2>3
<1>8. CASE s = 2
    <2>1. r.op = "DEL" /\ x # Error /\ w = [v EXCEPT ![c.dst] = Missing]
        <3>1. r = Ask("DEL", c.dst)
            BY <1>2, <1>8
        <3> QED  BY <3>1, DelIs, Distinct DEF Ask
    <2>2. ~LeavesEarly(c, r.op, x)
        BY <2>1, EarlyIs DEF NothingToStore
    <2>3. Alike(w, b) /\ w[c.dst] = Missing /\ \A j \in DOMAIN b : j # c.dst => w[j] = v[j]
        <3>1. Alike(v, b) /\ c.dst \in DOMAIN b /\ w = [v EXCEPT ![c.dst] = Missing]
            BY <1>1, <1>3, <2>1
        <3> HIDE DEF b, e
        <3> QED  BY <3>1 DEF Alike, Function
    <2>4. RenamedFar(a, w, 3)
        BY <1>1, <1>4, <1>8, <1>f, <2>3 DEF RenamedFar
    <2> QED  BY <1>1, <1>3, <1>5, <1>8, <2>2, <2>3, <2>4
<1>9. CASE s = 3
    <2> DEFINE y == Restored(c, Offset(c))
    <2>1. Entry(y.data.kind, y.data.items, y.ttl = Num(1)) = e
        BY <1>1, <1>4, <1>9, <1>f, RestoredIs
    <2>2. ~Exists(v[c.dst])
        BY <1>9, <1>f DEF Exists, Missing, Entry
    <2> HIDE DEF y
    <2>3. r = Put("RESTORE", c.dst, y) /\ r.op = "RESTORE"
        BY <1>2, <1>9 DEF Put, y
    <2> DEFINE k == c.dst
               f == Entry(y.data.kind, y.data.items, y.ttl = Num(1))
    <2>a. /\ ~Exists(v[k]) /\ r = Put("RESTORE", k, y) /\ x = Reply(v, r) /\ w = Leaves(v, r) /\ f = e
        BY <2>1, <2>2, <2>3
    <2> HIDE DEF b, e, k
    <2>b. Reply(v, Put("RESTORE", k, y)) = Num(1) /\ Leaves(v, Put("RESTORE", k, y)) = [v EXCEPT ![k] = f]
        BY ONLY <2>a, RestoreIs
    <2>c. x = Num(1) /\ w = [v EXCEPT ![k] = e]
        BY ONLY <2>a, <2>b
    <2>4. x = Num(1) /\ w = [v EXCEPT ![c.dst] = e]
        BY <2>c DEF k
    <2>5. ~LeavesEarly(c, r.op, x)
        BY <2>3, <2>4, EarlyIs, Distinct
    <2>d. Alike(v, b) /\ k \in DOMAIN b /\ w = [v EXCEPT ![k] = e]
        BY <1>1, <1>3, <2>c DEF k, b
    <2>e. Alike(w, b) /\ w[k] = e /\ \A j \in DOMAIN b : j # k => w[j] = v[j]
        BY <2>d DEF Alike, Function
    <2>6. Alike(w, b) /\ w[c.dst] = e /\ \A j \in DOMAIN b : j # c.dst => w[j] = v[j]
        BY <2>e DEF k
    <2>7. RenamedFar(a, w, 4)
        BY <1>1, <1>4, <1>9, <1>f, <2>6 DEF RenamedFar, b, e
    <2> QED  BY <1>1, <1>3, <1>5, <1>9, <2>5, <2>6, <2>7 DEF b, e
<1>10. CASE s = 4
    <2>1. r.op = "DEL" /\ x # Error /\ w = [v EXCEPT ![Src(c)] = Missing]
        <3>1. r = Ask("DEL", Src(c))
            BY <1>2, <1>10
        <3> QED  BY <3>1, DelIs, Distinct DEF Ask
    <2>2. ~LeavesEarly(c, r.op, x)
        BY <2>1, EarlyIs DEF NothingToStore
    <2>3. Alike(w, b) /\ w[Src(c)] = Missing /\ \A j \in DOMAIN b : j # Src(c) => w[j] = v[j]
        <3>1. Alike(v, b) /\ Src(c) \in DOMAIN b /\ w = [v EXCEPT ![Src(c)] = Missing]
            BY <1>1, <1>3, <2>1
        <3> HIDE DEF b, e
        <3> QED  BY <3>1 DEF Alike, Function
    <2>4. RenamedFar(a, w, 5)
        BY <1>1, <1>4, <1>10, <1>f, <2>3 DEF RenamedFar
    <2> QED  BY <1>1, <1>3, <1>5, <1>10, <2>2, <2>3, <2>4
<1> QED  BY <1>2, <1>6, <1>7, <1>8, <1>9, <1>10

LEMMA RenameGoes ==
    ASSUME NEW p \in Client, NEW c, Going(p, c), c.cmd \in {"rename", "renamenx"}, NEW v, RenamedSome(c, v),
           NEW r, r = NextRequest(c), NEW x, x = Reply(v, r), NEW w, w = Leaves(v, r), NEW a, Goes(c, x, a)
    PROVE  /\ LeavesEarly(c, r.op, x) => <<EarlyResult(r.op, x), w>> = Native(c, c.before)
           /\ ~LeavesEarly(c, r.op, x) => RenamedSome(a, w)
<1> DEFINE s == Part(c)
<1>1. s \in Int /\ s >= 0 - Offset(c) /\ Offset(c) = (IF c.cmd = "renamenx" THEN 1 ELSE 0)
      /\ s < IF Near(c) THEN 1 ELSE 5
    BY RenameContext
<1>2. (c.cmd = "renamenx" /\ s = 0 - 1) \/ s >= 0
    BY <1>1
<1>3. Near(c) /\ s >= 0 => s = 0
    BY <1>1
<1> QED  BY <1>2, <1>3, RenamenxLooks, RenameNear, RenameFar

LEMMA RenameEnd ==
    ASSUME NEW c, Callable(c), Recorded(c), c.cmd \in {"rename", "renamenx"}, NEW a, Same(a, c), a.before = c.before,
           Callable(a), Sequence(a.got), NEW w, RenamedSome(a, w), Len(a.got) = Len(Requests(a))
    PROVE  <<Result(a), w>> = Native(c, c.before)
<1>1. Src(a) = Src(c) /\ a.dst = c.dst /\ a.cmd = c.cmd /\ MyKeys(a) = MyKeys(c)
    BY DEF Same, Src, MyKeys
<1>2. Part(a) = IF Near(a) THEN 1 ELSE 5
    <2>1. Len(Requests(a)) = Offset(a) + (IF Near(a) THEN 1 ELSE 5) /\ Offset(a) \in {0, 1}
        BY <1>1, RenameShape DEF Offset
    <2> QED  BY <2>1 DEF Part
<1>3. /\ Alike(w, c.before) /\ (\A k \in MyKeys(c) \ {Src(c), c.dst} : w[k] = c.before[k])
      /\ Exists(c.before[Src(c)]) /\ (c.cmd = "renamenx" => ~Exists(c.before[c.dst]))
      /\ w[c.dst] = c.before[Src(c)] /\ w[Src(c)] = Missing
    BY <1>1, <1>2 DEF RenamedSome, RenamedNear, RenamedFar
<1>4. Src(c) \in DOMAIN c.before /\ c.dst \in DOMAIN c.before /\ DOMAIN c.before = MyKeys(c)
    BY BeforeIs
<1>5. Native(c, c.before) = <<Num(1), w>>
    <2> DEFINE b == c.before
    <2>1. Alike(w, b) /\ (\A k \in DOMAIN b \ {Src(c), c.dst} : w[k] = b[k])
          /\ Exists(b[Src(c)]) /\ (c.cmd = "renamenx" => ~Exists(b[c.dst]))
          /\ w[c.dst] = b[Src(c)] /\ w[Src(c)] = Missing /\ Src(c) \in DOMAIN b /\ c.dst \in DOMAIN b
        BY <1>3, <1>4
    <2> HIDE DEF b
    <2>2. Native(c, b) = <<Num(1), w>>
        BY <2>1, NativeRenamed
    <2> QED  BY <2>2 DEF b
<1>6. Result(a) = Num(1)
    BY <1>1 DEF Result, Moving
<1> QED  BY <1>5, <1>6

(* A pop, and a removal. *)
Pops(v, k, r, t) ==
    /\ ~Fits(v[k], "list") => Reply(v, r) = Error /\ Leaves(v, r) = v
    /\ Fits(v[k], "list") => Reply(v, r) = t.reply /\ Leaves(v, r) = t.db
    /\ ~Exists(v[k]) => t.reply = None /\ t.db = v
    /\ Exists(v[k]) => t.reply = Datum("string", {Last(v[k].items)})
Removes(v, k, r, t) ==
    /\ ~Fits(v[k], "set") => Reply(v, r) = Error /\ Leaves(v, r) = v
    /\ Fits(v[k], "set") => /\ Reply(v, r) = t.reply /\ Leaves(v, r) = t.db
                            /\ t.reply \in {Num(0), Num(1)}
                            /\ t.reply = Num(0) => t.db = v

LEMMA PopIs ==
    ASSUME NEW v, NEW k, NEW op \in {"RPOP", "BRPOP"},
           NEW r, r = Ask(op, k), NEW t, t = Served(v, Ask("RPOP", k))
    PROVE  Pops(v, k, r, t)
<1> DEFINE q == Ask("RPOP", k)
           e == v[k]
           new == IF Len(e.items) = 1 THEN Missing ELSE Entry("list", Front(e.items), e.ttl)
           y == Datum("string", {Last(e.items)})
           u == [v EXCEPT ![k] = new]
<1>1. r.op = op /\ r.key = k /\ q.op = "RPOP" /\ q.key = k
    BY DEF Ask
<1> HIDE DEF q
<1>2. ~Exists(e) => Served(v, r) = [reply |-> None, db |-> v] /\ Served(v, q) = [reply |-> None, db |-> v]
    BY <1>1 DEF Served
<1>3. Exists(e) => Served(v, r) = [reply |-> y, db |-> u] /\ Served(v, q) = [reply |-> y, db |-> u]
    BY <1>1 DEF Served
<1>4. Refused(v, r) <=> ~Fits(e, "list")
    BY <1>1 DEF Refused, Expects, Fits
<1> HIDE DEF new, y
<1> HIDE DEF u
<1>7. Served(v, r) = Served(v, q)
    BY <1>2, <1>3
<1>8. ~Exists(e) => Served(v, q).reply = None /\ Served(v, q).db = v
    BY <1>2
<1>9. Exists(e) => Served(v, q).reply = y /\ Served(v, q).db = u
    BY <1>3
<1> HIDE DEF e
<1>10. /\ ~Fits(e, "list") => Reply(v, r) = Error /\ Leaves(v, r) = v
       /\ Fits(e, "list") => Reply(v, r) = Served(v, q).reply /\ Leaves(v, r) = Served(v, q).db
    BY <1>4, <1>7 DEF Reply, Leaves
<1>12. t = Served(v, q)
    BY DEF q
<1> QED  BY <1>8, <1>9, <1>10, <1>12 DEF y, e, Pops

LEMMA SremIs ==
    ASSUME NEW v, Function(v), NEW k \in DOMAIN v, v[k] \in Held, NEW x, \E f : x.items = {f},
           NEW r, r = Put("SREM", k, x), NEW t, t = Served(v, r)
    PROVE  Removes(v, k, r, t)
<1> DEFINE e == v[k]
           old == IF Exists(e) THEN e.items ELSE {}
           n   == Num(IF x.items \subseteq old THEN 1 ELSE 0)
           new == IF old \subseteq x.items THEN Missing ELSE Entry("set", e.items \ x.items, e.ttl)
           u   == [v EXCEPT ![k] = new]
<1>1. r.op = "SREM" /\ r.key = k /\ r.arg = x
    BY DEF Put
<1>2. Served(v, r) = [reply |-> n, db |-> u]
    BY ZenonT(30), <1>1 DEF Served
<1>3. Refused(v, r) <=> ~Fits(e, "set")
    BY <1>1 DEF Refused, Expects, Fits
<1>5. n \in {Num(0), Num(1)}
    OBVIOUS
<1>6. Fits(e, "set") /\ n = Num(0) => new = e
    <2> SUFFICES ASSUME Fits(e, "set"), n = Num(0) PROVE new = e
        OBVIOUS
    <2>1. ~(x.items \subseteq old)
        BY Distinct
    <2>f. PICK f : x.items = {f}
        OBVIOUS
    <2>2. f \notin old
        BY <2>1, <2>f
    <2>3. CASE Exists(e)
        <3>1. e.kind = "set" /\ e.items # {} /\ old = e.items /\ e = Entry("set", e.items, e.ttl)
            BY <2>3, HeldIs DEF Fits, Exists
        <3>2. ~(old \subseteq x.items)
            BY <2>2, <2>f, <3>1
        <3>3. e.items \ x.items = e.items
            BY <2>2, <2>f, <3>1
        <3>4. new = Entry("set", e.items \ x.items, e.ttl)
            BY <3>2
        <3> HIDE DEF new, e
        <3> QED  BY <3>1, <3>3, <3>4
    <2>4. CASE ~Exists(e)
        <3>1. e = Missing /\ old = {}
            BY <2>4, PlainHas
        <3>2. old \subseteq x.items
            BY <3>1
        <3> QED  BY <3>1, <3>2
    <2> QED  BY <2>3, <2>4
<1> HIDE DEF new, n
<1>8. new = e => u = v
    BY DEF Function
<1> HIDE DEF u
<1>9. Served(v, r).reply = n /\ Served(v, r).db = u
    BY <1>2
<1> HIDE DEF e
<1>10. /\ ~Fits(e, "set") => Reply(v, r) = Error /\ Leaves(v, r) = v
       /\ Fits(e, "set") => Reply(v, r) = Served(v, r).reply /\ Leaves(v, r) = Served(v, r).db
    BY <1>3 DEF Reply, Leaves
<1>11. Fits(e, "set") /\ Served(v, r).reply = Num(0) => Served(v, r).db = v
    BY <1>6, <1>8, <1>9
<1> QED  BY <1>5, <1>9, <1>10, <1>11 DEF e, Removes

(* What is left of a list or a set is one. *)
LEMMA PopFits ==
    ASSUME NEW v, NEW k, NEW j \in DOMAIN v, Fits(v[j], "list")
    PROVE  Fits(Served(v, Ask("RPOP", k)).db[j], "list")
<1> DEFINE r == Ask("RPOP", k)
           e == v[k]
           new == IF Len(e.items) = 1 THEN Missing ELSE Entry("list", Front(e.items), e.ttl)
           u == [v EXCEPT ![k] = new]
<1>1. r.op = "RPOP" /\ r.key = k
    BY DEF Ask
<1> HIDE DEF r
<1>2. Served(v, r).db = IF Exists(e) THEN u ELSE v
    BY <1>1 DEF Served
<1>3. new.kind \in {"none", "list"}
    BY DEF Missing, Entry
<1> HIDE DEF new
<1>4. Fits(u[j], "list")
    BY <1>3 DEF Fits
<1> HIDE DEF u
<1> QED  BY <1>2, <1>4 DEF r

LEMMA SremFits ==
    ASSUME NEW v, NEW k, NEW j \in DOMAIN v, Fits(v[j], "set"), NEW x
    PROVE  Fits(Served(v, Put("SREM", k, x)).db[j], "set")
<1> DEFINE r == Put("SREM", k, x)
           e == v[k]
           old == IF Exists(e) THEN e.items ELSE {}
           new == IF old \subseteq x.items THEN Missing ELSE Entry("set", e.items \ x.items, e.ttl)
           u   == [v EXCEPT ![k] = new]
<1>1. r.op = "SREM" /\ r.key = k /\ r.arg = x
    BY DEF Put
<1> HIDE DEF r
<1>2. Served(v, r).db = u
    BY <1>1 DEF Served
<1>3. new.kind \in {"none", "set"}
    BY DEF Missing, Entry
<1> HIDE DEF new
<1>4. Fits(u[j], "set")
    BY <1>3 DEF Fits
<1> HIDE DEF u
<1> QED  BY <1>2, <1>4 DEF r

LEMMA LpushIs ==
    ASSUME NEW v, NEW k, NEW x, Fits(v[k], "list")
    PROVE  LET r == Put("LPUSH", k, x) IN Reply(v, r) = Num(1) /\ Leaves(v, r) = Served(v, r).db
<1> DEFINE r == Put("LPUSH", k, x)
           u == [v EXCEPT ![k] = Entry("list", <<Only(x.items)>> \o (IF Exists(v[k]) THEN v[k].items ELSE <<>>), v[k].ttl)]
<1>1. r.op = "LPUSH" /\ r.key = k /\ r.arg = x
    BY DEF Put
<1> HIDE DEF r
<1>2. ~Refused(v, r)
    BY <1>1 DEF Refused, Expects, Fits
<1>3. Served(v, r) = [reply |-> Num(1), db |-> u]
    BY <1>1 DEF Served
<1> HIDE DEF u
<1> QED  BY <1>2, <1>3 DEF Reply, Leaves, r

LEMMA SaddFits ==
    ASSUME NEW v, NEW k, NEW x, Fits(v[k], "set"), x.items # {}
    PROVE  LET r == Put("SADD", k, x) IN Reply(v, r) # Error /\ Leaves(v, r) = Served(v, r).db
<1> DEFINE r == Put("SADD", k, x)
           old == IF Exists(v[k]) THEN v[k].items ELSE {}
           n == Num(Cardinality(x.items \ old))
           u == [v EXCEPT ![k] = Entry("set", old \cup x.items, v[k].ttl)]
<1>1. r.op = "SADD" /\ r.key = k /\ r.arg = x
    BY DEF Put
<1> HIDE DEF r
<1>2. ~Refused(v, r)
    BY <1>1 DEF Refused, Expects, Fits
<1>3. Served(v, r) = [reply |-> n, db |-> u]
    BY <1>1 DEF Served
<1>4. n # Error
    BY Distinct
<1> HIDE DEF u, n
<1> QED  BY <1>2, <1>3, <1>4 DEF Reply, Leaves, r

(* A move has taken an element, and added it. *)
First(c)  == IF c.cmd = "smove" THEN Put("SREM", Src(c), c.arg[1]) ELSE Ask("RPOP", Src(c))
Taken(c)  == Served(c.before, First(c))
Second(c) == IF c.cmd = "smove" THEN Put("SADD", c.dst, c.arg[1]) ELSE Put("LPUSH", c.dst, Taken(c).reply)
MoveKind(cmd) == IF cmd = "smove" THEN "set" ELSE "list"
Finds(c) ==
    /\ Fits(c.before[Src(c)], MoveKind(c.cmd)) /\ Fits(c.before[c.dst], MoveKind(c.cmd))
    /\ c.cmd # "smove" => Exists(c.before[Src(c)])
    /\ c.cmd = "smove" => Taken(c).reply = Num(1)
MovedSome(c, v) ==
    /\ Len(c.got) = 0 => v = c.before
    /\ Len(c.got) > 0 => Finds(c) /\ c.got[1] = Taken(c).reply
    /\ Len(c.got) = 1 => v = Taken(c).db
    /\ Len(c.got) = 2 => v = Served(Taken(c).db, Second(c)).db

LEMMA MoveContext ==
    ASSUME NEW p \in Client, NEW c, Going(p, c), c.cmd \in Moving, NEW x, NEW a, Goes(c, x, a)
    PROVE  /\ Callable(c) /\ Recorded(c) /\ Alike(c.before, c.before)
           /\ Src(c) \in DOMAIN c.before /\ c.before[Src(c)] \in Held /\ c.dst \in DOMAIN c.before
           /\ a.before = c.before /\ First(a) = First(c) /\ Taken(a) = Taken(c) /\ Second(a) = Second(c)
           /\ Finds(a) <=> Finds(c)
           /\ Len(c.got) \in {0, 1} /\ Len(a.got) = Len(c.got) + 1
           /\ Len(c.got) = 0 => a.got[1] = x
           /\ Len(c.got) = 1 => a.got[1] = c.got[1]
           /\ NextRequest(c) = Requests(c)[Len(c.got) + 1]
           /\ Fits(c.before[c.dst], MoveKind(c.cmd))
<1> DEFINE g == Len(c.got)
<1>1. /\ g \in Nat /\ Len(a.got) = g + 1 /\ g < Len(Requests(c)) /\ (\A i \in 1 .. g : a.got[i] = c.got[i])
      /\ a.got[g + 1] = x /\ Callable(c) /\ NextRequest(c) = Requests(c)[g + 1] /\ Recorded(c)
    BY GoesOn DEF Going
<1>2. Len(Requests(c)) = 2
    BY <1>1, MoveShape
<1>3. a.before = c.before /\ a.cmd = c.cmd /\ a.keys = c.keys /\ a.dst = c.dst /\ a.arg = c.arg
    BY DEF Goes, Same
<1>4. First(a) = First(c) /\ Taken(a) = Taken(c) /\ Second(a) = Second(c) /\ Src(a) = Src(c)
    BY <1>3 DEF First, Taken, Second, Src
<1>5. Finds(a) <=> Finds(c)
    BY <1>3, <1>4 DEF Finds
<1>6. Fits(c.before[c.dst], MoveKind(c.cmd))
    <2>1. Ordinary(c)
        BY DEF Going
    <2> QED  BY <2>1 DEF Ordinary, Fits, MoveKind, Moving
<1> HIDE DEF g
<1>7. g \in {0, 1} /\ (g = 0 => a.got[1] = x) /\ (g = 1 => a.got[1] = c.got[1])
    BY <1>1, <1>2
<1> QED  BY <1>1, <1>3, <1>4, <1>5, <1>6, <1>7, BeforeIs DEF g

LEMMA MoveTakes ==
    ASSUME NEW p \in Client, NEW c, Going(p, c), c.cmd \in Moving, NEW v, MovedSome(c, v), Len(c.got) = 0,
           NEW r, r = NextRequest(c), NEW x, x = Reply(v, r), NEW w, w = Leaves(v, r), NEW a, Goes(c, x, a)
    PROVE  /\ LeavesEarly(c, r.op, x) => <<EarlyResult(r.op, x), w>> = Native(c, c.before)
           /\ ~LeavesEarly(c, r.op, x) => MovedSome(a, w)
<1> DEFINE k == Src(c)
<1>1. /\ Callable(c) /\ Alike(c.before, c.before) /\ k \in DOMAIN c.before /\ c.before[k] \in Held
      /\ a.before = c.before /\ Taken(a) = Taken(c) /\ (Finds(a) <=> Finds(c))
      /\ Len(a.got) = 1 /\ a.got[1] = x /\ r = Requests(c)[1]
      /\ Fits(c.before[c.dst], MoveKind(c.cmd)) /\ c.dst \in DOMAIN c.before
    <2>1. Len(a.got) = 0 + 1 /\ r = Requests(c)[0 + 1]
        BY MoveContext
    <2> QED  BY <2>1, MoveContext
<1>2. v = c.before
    BY DEF MovedSome
<1>3. ASSUME Finds(c), x = Taken(c).reply, w = Taken(c).db
      PROVE  MovedSome(a, w)
    BY <1>1, <1>3 DEF MovedSome
<1>4. CASE c.cmd \in {"rpoplpush", "brpoplpush"}
    <2> DEFINE op == IF c.cmd = "rpoplpush" THEN "RPOP" ELSE "BRPOP"
               b == c.before
               t == Served(b, Ask("RPOP", k))
    <2>1. op \in {"RPOP", "BRPOP"} /\ r = Ask(op, k)
        BY <1>1, <1>4, MoveShape DEF Moving
    <2>2. Taken(c) = t /\ MoveKind(c.cmd) = "list"
        BY <1>4 DEF Taken, First, MoveKind
    <2>3. r.op = op
        BY <2>1 DEF Ask
    <2> HIDE DEF k, op
    <2>4. /\ ~Fits(b[k], "list") => Reply(b, r) = Error /\ Leaves(b, r) = b
          /\ Fits(b[k], "list") => Reply(b, r) = t.reply /\ Leaves(b, r) = t.db
          /\ ~Exists(b[k]) => t.reply = None /\ t.db = b
          /\ Exists(b[k]) => t.reply = Datum("string", {Last(b[k].items)})
        <3>1. t = Served(b, Ask("RPOP", k)) /\ k \in DOMAIN b
            BY <1>1 DEF k
        <3> HIDE DEF b, t
        <3>2. Pops(b, k, r, t)
            BY <2>1, <3>1, PopIs
        <3> QED  BY <3>2 DEF Pops
    <2>5. CASE ~Fits(b[k], "list")
        <3>1. x = Error /\ w = b
            BY <1>2, <2>4, <2>5
        <3>2. EarlyResult(r.op, x) = Error /\ LeavesEarly(c, r.op, x)
            BY <3>1 DEF EarlyResult, LeavesEarly
        <3>3. Native(c, b) = <<Error, b>>
            BY <1>1, <1>4, <2>5, NativePop DEF k
        <3> QED  BY <3>1, <3>2, <3>3
    <2>6. CASE ~Exists(b[k])
        <3>0. Fits(b[k], "list")
            BY <2>6 DEF Fits, Exists
        <3>1. x = None /\ w = b
            BY <1>2, <2>4, <2>6, <3>0
        <3>2. LeavesEarly(c, r.op, x)
            BY <2>1, <2>3, <3>1 DEF LeavesEarly, Truthy
        <3>3. EarlyResult(r.op, x) = None
            BY <2>1, <2>3, <3>1, Distinct DEF EarlyResult
        <3>4. Native(c, b) = <<None, b>>
            BY <1>1, <1>4, <2>6, NativePop DEF k
        <3> QED  BY <3>1, <3>2, <3>3, <3>4
    <2>7. CASE Fits(b[k], "list") /\ Exists(b[k])
        <3>1. x = t.reply /\ w = t.db /\ x = Datum("string", {Last(b[k].items)})
            BY <1>2, <2>4, <2>7
        <3>2. x # None /\ x # Error
            BY <3>1, Distinct
        <3>3. c.cmd = "rpoplpush" => Truthy(x)
            <4>1. b[k].kind = "list"
                BY <2>7 DEF Fits, Exists
            <4>2. c.cmd = "rpoplpush" => Last(b[k].items) # Empty
                BY <4>1 DEF Going, Ordinary, k
            <4>3. Last(b[k].items) # Empty => x # Datum("string", {Empty})
                BY SMTT(30), <3>1 DEF Datum
            <4> QED  BY <3>2, <4>2, <4>3 DEF Truthy
        <3>4. ~LeavesEarly(c, r.op, x)
            BY <2>1, <2>3, <3>2, <3>3, EarlyIs, <1>4 DEF op
        <3>5. Finds(c)
            BY <1>1, <1>4, <2>2, <2>7 DEF Finds, k
        <3> QED  BY <1>3, <2>2, <3>1, <3>4, <3>5
    <2> QED  BY <2>5, <2>6, <2>7
<1>5. CASE c.cmd = "smove"
    <2> DEFINE b == c.before
               y == c.arg[1]
               t == Served(b, r)
    <2>1. r = Put("SREM", k, y) /\ r.op = "SREM" /\ Taken(c) = t /\ MoveKind(c.cmd) = "set"
        <3>1. r = Put("SREM", k, y)
            BY <1>1, <1>5, MoveShape DEF Moving
        <3>2. Taken(c) = Served(b, Put("SREM", k, y)) /\ MoveKind(c.cmd) = "set"
            BY <1>5 DEF Taken, First, MoveKind
        <3> QED  BY <3>1, <3>2 DEF Put
    <2>2. \E f : y.items = {f}
        BY <1>1, <1>5 DEF Callable
    <2>3. /\ ~Fits(b[k], "set") => Reply(b, r) = Error /\ Leaves(b, r) = b
          /\ Fits(b[k], "set") => /\ Reply(b, r) = t.reply /\ Leaves(b, r) = t.db
                                  /\ t.reply \in {Num(0), Num(1)}
                                  /\ t.reply = Num(0) => t.db = b
        <3>1. Function(b) /\ k \in DOMAIN b /\ b[k] \in Held
            BY <1>1 DEF Alike
        <3>2. t = Served(b, r)
            OBVIOUS
        <3> HIDE DEF b, k, t, y
        <3>3. Removes(b, k, r, t)
            BY <2>1, <2>2, <3>1, <3>2, SremIs
        <3> QED  BY <3>3 DEF Removes
    <2>n. /\ ~Fits(b[k], "set") => Native(c, b) = <<Error, b>>
          /\ Fits(b[k], "set") /\ t.reply = Num(0) => Native(c, b) = <<Num(0), b>>
        <3>1. Fits(b[c.dst], "set")
            BY <1>1, <2>1
        <3>2. t = Served(b, Put("SREM", Src(c), c.arg[1]))
            BY <2>1
        <3> HIDE DEF b, t
        <3> QED  BY <1>1, <1>5, <3>1, <3>2, NativeSmove
    <2>5. CASE ~Fits(b[k], "set")
        <3>1. x = Error /\ w = b
            BY <1>2, <2>3, <2>5
        <3>2. EarlyResult(r.op, x) = Error /\ LeavesEarly(c, r.op, x)
            BY <3>1 DEF EarlyResult, LeavesEarly
        <3> QED  BY <2>n, <2>5, <3>1, <3>2
    <2>6. CASE Fits(b[k], "set") /\ t.reply = Num(0)
        <3>1. x = Num(0) /\ w = b
            BY <1>2, <2>3, <2>6
        <3>2. LeavesEarly(c, r.op, x)
            BY <2>1, <3>1, EarlyIs, Distinct
        <3>3. EarlyResult(r.op, x) = Num(0)
            BY <2>1, <3>1, Distinct DEF EarlyResult
        <3> QED  BY <2>n, <2>6, <3>1, <3>2, <3>3
    <2>7. CASE Fits(b[k], "set") /\ t.reply # Num(0)
        <3>1. x = Num(1) /\ x = t.reply /\ w = t.db
            BY <1>2, <2>3, <2>7
        <3>2. ~LeavesEarly(c, r.op, x)
            BY <2>1, <3>1, EarlyIs, Distinct
        <3>3. Finds(c)
            BY <1>1, <1>5, <2>1, <2>7, <3>1 DEF Finds
        <3> QED  BY <1>3, <2>1, <3>1, <3>2, <3>3
    <2> QED  BY <2>5, <2>6, <2>7
<1> QED  BY <1>4, <1>5 DEF Moving

LEMMA MoveAdds ==
    ASSUME NEW p \in Client, NEW c, Going(p, c), c.cmd \in Moving, NEW v, MovedSome(c, v), Len(c.got) = 1,
           NEW r, r = NextRequest(c), NEW x, x = Reply(v, r), NEW w, w = Leaves(v, r), NEW a, Goes(c, x, a)
    PROVE  ~LeavesEarly(c, r.op, x) /\ MovedSome(a, w)
<1> DEFINE k == Src(c)
           t == Taken(c)
           kind == MoveKind(c.cmd)
<1>1. /\ Callable(c) /\ Function(c.before) /\ k \in DOMAIN c.before /\ c.before[k] \in Held
      /\ Taken(a) = t /\ Second(a) = Second(c) /\ (Finds(a) <=> Finds(c))
      /\ Len(a.got) = 2 /\ a.got[1] = c.got[1] /\ r = Requests(c)[2]
      /\ Fits(c.before[c.dst], kind) /\ c.dst \in DOMAIN c.before
    <2>1. Len(a.got) = 1 + 1 /\ r = Requests(c)[1 + 1]
        BY MoveContext
    <2> QED  BY <2>1, MoveContext DEF Alike
<1>2. Finds(c) /\ c.got[1] = t.reply /\ v = t.db
    BY DEF MovedSome
<1>3. Got(c, 1) = c.got[1]
    <2>1. Sequence(c.got) /\ 1 \in 1 .. Len(c.got)
        BY DEF Going, Busy, Replied
    <2> QED  BY <2>1, GotIs
<1>4. r = Second(c) /\ r.op = IF c.cmd = "smove" THEN "SADD" ELSE "LPUSH"
    <2>1. r = Second(c)
        BY <1>1, <1>2, <1>3, MoveShape DEF Second, Moving
    <2> QED  BY <2>1 DEF Second, Put
<1>f. Fits(c.before[k], kind) /\ (c.cmd # "smove" => Exists(c.before[k]))
    BY <1>2 DEF Finds
<1>6. Fits(v[c.dst], kind)
    <2> DEFINE b == c.before
               y == c.arg[1]
    <2>1. CASE c.cmd = "smove"
        <3>1. t = Served(b, Put("SREM", k, y)) /\ kind = "set"
            BY <2>1 DEF Taken, First, MoveKind
        <3>2. c.dst \in DOMAIN b /\ Fits(b[c.dst], "set")
            BY <1>1, <3>1
        <3> HIDE DEF b, k, t, y, kind
        <3> QED  BY <1>2, <3>1, <3>2, SremFits
    <2>2. CASE c.cmd # "smove"
        <3>1. t = Served(b, Ask("RPOP", k)) /\ kind = "list"
            BY <2>2 DEF Taken, First, MoveKind
        <3>2. c.dst \in DOMAIN b /\ Fits(b[c.dst], "list")
            BY <1>1, <3>1
        <3> HIDE DEF b, k, t, y, kind
        <3> QED  BY <1>2, <3>1, <3>2, PopFits
    <2> QED  BY <2>1, <2>2
<1>7. x # Error /\ w = Served(v, r).db
    <2>1. CASE c.cmd = "smove"
        <3> DEFINE y == c.arg[1]
                   j == c.dst
        <3>1. r = Put("SADD", j, y) /\ Fits(v[j], "set") /\ y.items # {}
            <4>1. y.items # {}
                BY <1>1, <2>1 DEF Callable
            <4> QED  BY <1>4, <1>6, <2>1, <4>1 DEF Second, MoveKind
        <3> HIDE DEF y, j
        <3> QED  BY <3>1, SaddFits
    <2>2. CASE c.cmd # "smove"
        <3> DEFINE y == t.reply
                   j == c.dst
        <3>1. r = Put("LPUSH", j, y) /\ Fits(v[j], "list")
            BY <1>4, <1>6, <2>2 DEF Second, MoveKind
        <3> HIDE DEF y, j
        <3> QED  BY <3>1, LpushIs, Distinct
    <2> QED  BY <2>1, <2>2
<1>8. ~LeavesEarly(c, r.op, x)
    BY <1>4, <1>7, EarlyIs
<1> QED  BY <1>1, <1>2, <1>4, <1>7, <1>8 DEF MovedSome

LEMMA MoveGoes ==
    ASSUME NEW p \in Client, NEW c, Going(p, c), c.cmd \in Moving, NEW v, MovedSome(c, v),
           NEW r, r = NextRequest(c), NEW x, x = Reply(v, r), NEW w, w = Leaves(v, r), NEW a, Goes(c, x, a)
    PROVE  /\ LeavesEarly(c, r.op, x) => <<EarlyResult(r.op, x), w>> = Native(c, c.before)
           /\ ~LeavesEarly(c, r.op, x) => MovedSome(a, w)
<1>1. Len(c.got) \in {0, 1}
    BY MoveContext
<1> QED  BY <1>1, MoveTakes, MoveAdds

LEMMA MoveEnd ==
    ASSUME NEW c, Callable(c), Recorded(c), c.cmd \in Moving, NEW a, Same(a, c), a.before = c.before,
           Callable(a), Sequence(a.got), NEW w, MovedSome(a, w), Len(a.got) = Len(Requests(a))
    PROVE  <<Result(a), w>> = Native(c, c.before)
<1> DEFINE b == c.before
           t == Taken(c)
<1>1. a.cmd = c.cmd /\ a.keys = c.keys /\ a.dst = c.dst /\ a.arg = c.arg /\ Src(a) = Src(c)
    BY DEF Same, Src
<1>2. Taken(a) = t /\ Second(a) = Second(c) /\ (Finds(a) <=> Finds(c))
    BY <1>1 DEF Taken, First, Second, Finds
<1>3. Len(a.got) = 2
    BY <1>1, MoveShape
<1>4. Finds(c) /\ a.got[1] = t.reply /\ w = Served(t.db, Second(c)).db
    BY <1>2, <1>3 DEF MovedSome
<1>5. Result(a) = a.got[1]
    <2>1. Head(a.got) = a.got[1]
        BY <1>3 DEF Sequence
    <2>2. Result(a) = Head(a.got)
        BY <1>1 DEF Result, Moving
    <2> QED  BY <2>1, <2>2
<1>6. CASE c.cmd \in {"rpoplpush", "brpoplpush"}
    <2>1. t = Served(b, Ask("RPOP", Src(c))) /\ Second(c) = Put("LPUSH", c.dst, t.reply)
        BY <1>6 DEF Taken, First, Second
    <2>2. Fits(b[Src(c)], "list") /\ Fits(b[c.dst], "list") /\ Exists(b[Src(c)])
        BY <1>4, <1>6 DEF Finds, MoveKind
    <2> HIDE DEF b, t
    <2>3. Native(c, b) = <<t.reply, Served(t.db, Put("LPUSH", c.dst, t.reply)).db>>
        BY <1>6, <2>1, <2>2, NativePop
    <2> QED  BY <1>4, <1>5, <2>1, <2>3 DEF b
<1>7. CASE c.cmd = "smove"
    <2>1. t = Served(b, Put("SREM", Src(c), c.arg[1])) /\ Second(c) = Put("SADD", c.dst, c.arg[1])
        BY <1>7 DEF Taken, First, Second
    <2>2. Fits(b[Src(c)], "set") /\ Fits(b[c.dst], "set") /\ t.reply = Num(1) /\ t.reply # Num(0)
        BY <1>4, <1>7, Distinct DEF Finds, MoveKind
    <2> HIDE DEF b, t
    <2>3. Native(c, b) = <<Num(1), Served(t.db, Put("SADD", c.dst, c.arg[1])).db>>
        BY <1>7, <2>1, <2>2, NativeSmove
    <2> QED  BY <1>4, <1>5, <2>1, <2>2, <2>3 DEF b
<1> QED  BY <1>6, <1>7 DEF Moving

(* A store has read its first sets, deleted dst and stored the result. *)
StoreCmd == {"sdiffstore", "sinterstore", "sunionstore"}
StoredSome(c, v) ==
    /\ Alike(v, c.before)
    /\ \A i \in 1 .. Len(c.keys) : i <= Len(c.got) => Heard(c, i)
    /\ \A k \in DOMAIN c.before \ {c.dst} : v[k] = c.before[k]
    /\ Len(c.got) <= Len(c.keys) => v[c.dst] = c.before[c.dst]
    /\ Len(c.got) = Len(c.keys) + 1 => v[c.dst] = Missing
    /\ Len(c.got) > Len(c.keys) => Whole(c, c.before) # {}
    /\ Len(c.got) > Len(c.keys) + 1 =>
           /\ v[c.dst] = Entry("set", Whole(c, c.before), FALSE)
           /\ c.got[Len(c.got)] = Num(Cardinality(Whole(c, c.before)))

LEMMA StoreContext ==
    ASSUME NEW p \in Client, NEW c, Going(p, c), c.cmd \in StoreCmd, NEW x, NEW a, Goes(c, x, a)
    PROVE  /\ Callable(c) /\ Recorded(c) /\ Function(c.before) /\ c.dst \in DOMAIN c.before
           /\ a.before = c.before /\ a.dst = c.dst /\ a.keys = c.keys /\ a.cmd = c.cmd /\ Same(a, c)
           /\ Whole(a, c.before) = Whole(c, c.before)
           /\ Len(c.got) \in Nat /\ Len(c.keys) \in Nat /\ Len(a.got) = Len(c.got) + 1
           /\ Len(c.got) < Len(c.keys) + 2
           /\ a.got[Len(c.got) + 1] = x
           /\ \A i \in 1 .. Len(c.got) : a.got[i] = c.got[i]
           /\ Len(c.got) < Len(c.keys) =>
                  /\ Len(c.got) + 1 \in 1 .. Len(c.keys)
                  /\ NextRequest(c) = Ask("SMEMBERS", c.keys[Len(c.got) + 1])
           /\ Len(c.got) = Len(c.keys) => NextRequest(c) = Ask("DEL", c.dst)
           /\ Len(c.got) = Len(c.keys) + 1 => NextRequest(c) = Put("SADD", c.dst, Datum("set", res(c)))
<1> DEFINE g == Len(c.got)
           n == Len(c.keys)
           q == Requests(c)
<1>1. /\ g \in Nat /\ Len(a.got) = g + 1 /\ g < Len(q) /\ (\A i \in 1 .. g : a.got[i] = c.got[i])
      /\ a.got[g + 1] = x /\ Callable(c) /\ NextRequest(c) = q[g + 1] /\ Recorded(c)
    BY GoesOn DEF Going
<1>2. a.before = c.before /\ a.dst = c.dst /\ a.keys = c.keys /\ a.cmd = c.cmd /\ Same(a, c)
    BY DEF Goes, Same
<1>3. Whole(a, c.before) = Whole(c, c.before)
    BY <1>2, WholeSame
<1>4. Len(q) = n + 2 /\ (\A i \in 1 .. n : q[i] = Ask("SMEMBERS", c.keys[i]))
      /\ q[n + 1] = Ask("DEL", c.dst) /\ q[n + 2] = Put("SADD", c.dst, Datum("set", res(c)))
    BY <1>1, StoreShape DEF StoreCmd
<1>5. n \in Nat /\ Function(c.before) /\ c.dst \in DOMAIN c.before
    BY <1>1, KeysIs, BeforeIs DEF Alike
<1> HIDE DEF g, n, q
<1>6. g < n + 2 /\ (g < n => g + 1 \in 1 .. n)
    BY <1>1, <1>4, <1>5
<1>7. g = n + 1 => q[g + 1] = q[n + 2]
    BY <1>5
<1> QED  BY <1>1, <1>2, <1>3, <1>4, <1>5, <1>6, <1>7 DEF g, n, q

LEMMA StoreReads ==
    ASSUME NEW p \in Client, NEW c, Going(p, c), c.cmd \in StoreCmd, NEW v, StoredSome(c, v), Len(c.got) < Len(c.keys),
           NEW r, r = NextRequest(c), NEW x, x = Reply(v, r), NEW w, w = Leaves(v, r), NEW a, Goes(c, x, a)
    PROVE  /\ LeavesEarly(c, r.op, x) => <<EarlyResult(r.op, x), w>> = Native(c, c.before)
           /\ ~LeavesEarly(c, r.op, x) => StoredSome(a, w)
<1> DEFINE g == Len(c.got)
           n == Len(c.keys)
           k == c.keys[g + 1]
<1>1. /\ Callable(c) /\ Recorded(c) /\ Function(c.before) /\ c.dst \in DOMAIN c.before
      /\ a.before = c.before /\ a.dst = c.dst /\ a.keys = c.keys /\ a.cmd = c.cmd /\ Same(a, c)
      /\ g \in Nat /\ n \in Nat /\ Len(a.got) = g + 1 /\ a.got[g + 1] = x
      /\ (\A i \in 1 .. g : a.got[i] = c.got[i]) /\ g + 1 \in 1 .. n /\ r = Ask("SMEMBERS", k) /\ g < n
    BY StoreContext
<1>2. /\ Alike(v, c.before) /\ (\A j \in DOMAIN c.before \ {c.dst} : v[j] = c.before[j])
      /\ v[c.dst] = c.before[c.dst] /\ \A i \in 1 .. n : i <= g => Heard(c, i)
    BY <1>1 DEF StoredSome
<1>3. v = c.before
    BY <1>1, <1>2, Unchanged
<1>4. c.before[k] \in Held
    BY <1>1, BeforeIs
<1> HIDE DEF k
<1>5. /\ ~Fits(v[k], "set") => x = Error /\ w = v
      /\ Fits(v[k], "set") => x = Datum("set", v[k].items) /\ w = v
    BY <1>1, <1>3, <1>4, SmembersIs
<1>6. r.op = "SMEMBERS"
    BY <1>1 DEF Ask
<1>7. CASE Fits(v[k], "set")
    <2>1. ~LeavesEarly(c, r.op, x)
        BY <1>5, <1>6, <1>7, EarlyIs, Distinct
    <2>2. Heard(a, g + 1)
        BY <1>1, <1>3, <1>5, <1>7 DEF Heard, Kind, StoreCmd, k
    <2>3. \A i \in 1 .. n : i <= g + 1 => Heard(a, i)
        <3>1. \A i \in 1 .. g : Heard(a, i)
            BY <1>1, <1>2, HeardSame
        <3>2. \A i \in 1 .. n : i <= g + 1 => i \in 1 .. g \/ i = g + 1
            BY <1>1
        <3> QED  BY <2>2, <3>1, <3>2
    <2> HIDE DEF g, n
    <2>4. g + 1 <= n /\ g + 1 # n + 1 /\ ~(g + 1 > n) /\ ~(g + 1 > n + 1)
        BY <1>1
    <2>5. StoredSome(a, w)
        BY <1>1, <1>2, <1>5, <1>7, <2>3, <2>4 DEF StoredSome, g, n
    <2> QED  BY <2>1, <2>5
<1>8. CASE ~Fits(v[k], "set")
    <2>1. LeavesEarly(c, r.op, x) /\ EarlyResult(r.op, x) = Error
        BY <1>5, <1>6, <1>8, EarlyIs DEF EarlyResult
    <2>2. Native(c, c.before) = <<Error, c.before>>
        BY <1>1, <1>3, <1>8, NativeWrong DEF StoreCmd, k
    <2> QED  BY <1>3, <1>5, <1>8, <2>1, <2>2
<1> QED  BY <1>7, <1>8

LEMMA StoreRes ==
    ASSUME NEW p \in Client, NEW c, Going(p, c), c.cmd \in StoreCmd, NEW v, StoredSome(c, v), Len(c.got) >= Len(c.keys)
    PROVE  /\ res(c) = Whole(c, c.before)
           /\ \A i \in 1 .. Len(c.keys) : Fits(c.before[c.keys[i]], "set")
<1>1. Callable(c) /\ Sequence(c.got) /\ Len(c.got) \in Nat
    BY GotIs DEF Going, Busy, Replied
<1>2. Len(c.keys) \in Nat
    BY <1>1, KeysIs
<1>3. \A i \in 1 .. Len(c.keys) : Heard(c, i)
    BY <1>1, <1>2 DEF StoredSome
<1>4. res(c) = Whole(c, c.before)
    BY <1>1, <1>3, ResIsWhole DEF StoreCmd, SetAlgebra
<1> QED  BY <1>3, <1>4 DEF Heard, Kind, StoreCmd

LEMMA UnionHolds ==
    ASSUME NEW p \in Client, NEW c, Going(p, c), c.cmd = "sunionstore",
           \A i \in 1 .. Len(c.keys) : Fits(c.before[c.keys[i]], "set")
    PROVE  Whole(c, c.before) # {}
<1> DEFINE sets == [i \in DOMAIN c.keys |-> c.before[c.keys[i]].items]
<1>1. Callable(c) /\ Recorded(c)
    BY DEF Going, Busy
<1>2. DOMAIN c.keys = 1 .. Len(c.keys) /\ Range(c.keys) = {c.keys[i] : i \in 1 .. Len(c.keys)}
    BY <1>1, KeysIs
<1>3. PICK i \in 1 .. Len(c.keys) : Exists(c.before[c.keys[i]])
    BY <1>2 DEF Going, Ordinary
<1>4. c.before[c.keys[i]].items # {}
    BY <1>1, <1>3, BeforeIs, HeldIs DEF Fits, Exists
<1>5. sets[i] \in Range(sets) /\ sets[i] # {}
    BY <1>2, <1>4 DEF Range
<1>6. Whole(c, c.before) = UNION Range(sets)
    BY DEF Whole, Combined
<1> HIDE DEF sets
<1> QED  BY <1>5, <1>6

LEMMA StoreDeletes ==
    ASSUME NEW p \in Client, NEW c, Going(p, c), c.cmd \in StoreCmd, NEW v, StoredSome(c, v), Len(c.got) = Len(c.keys),
           NEW r, r = NextRequest(c), NEW x, x = Reply(v, r), NEW w, w = Leaves(v, r), NEW a, Goes(c, x, a)
    PROVE  /\ LeavesEarly(c, r.op, x) => <<EarlyResult(r.op, x), w>> = Native(c, c.before)
           /\ ~LeavesEarly(c, r.op, x) => StoredSome(a, w)
<1> DEFINE g == Len(c.got)
           n == Len(c.keys)
           all == Whole(c, c.before)
<1>1. /\ Callable(c) /\ Recorded(c) /\ Function(c.before) /\ c.dst \in DOMAIN c.before
      /\ a.before = c.before /\ a.dst = c.dst /\ a.keys = c.keys /\ a.cmd = c.cmd /\ Same(a, c)
      /\ g \in Nat /\ n \in Nat /\ Len(a.got) = g + 1 /\ a.got[g + 1] = x /\ Whole(a, c.before) = all
      /\ (\A i \in 1 .. g : a.got[i] = c.got[i]) /\ r = Ask("DEL", c.dst)
    BY StoreContext
<1>2. /\ Alike(v, c.before) /\ (\A j \in DOMAIN c.before \ {c.dst} : v[j] = c.before[j])
      /\ \A i \in 1 .. n : i <= g => Heard(c, i)
    BY DEF StoredSome
<1>3. res(c) = all /\ \A i \in 1 .. n : Fits(c.before[c.keys[i]], "set")
    BY <1>1, StoreRes
<1>4. r.op = "DEL" /\ x # Error /\ w = [v EXCEPT ![c.dst] = Missing] /\ EarlyResult(r.op, x) = Num(0)
    BY <1>1, DelIs, Distinct DEF Ask, EarlyResult
<1>5. LeavesEarly(c, r.op, x) <=> c.cmd # "sunionstore" /\ all = {}
    BY <1>3, <1>4, EarlyIs DEF NothingToStore, StoreCmd
<1>6. Alike(w, c.before) /\ w[c.dst] = Missing /\ \A j \in DOMAIN c.before : j # c.dst => w[j] = v[j]
    BY <1>1, <1>2, <1>4 DEF Alike, Function
<1>7. CASE all = {}
    <2>1. LeavesEarly(c, r.op, x)
        BY <1>3, <1>5, <1>7, UnionHolds
    <2>2. Cardinality(all) = 0
        BY <1>7, FS_EmptySet
    <2>3. Native(c, c.before) = <<Num(Cardinality(all)), w>>
        <3>1. \A j \in DOMAIN c.before \ {c.dst} : w[j] = c.before[j]
            BY <1>2, <1>6
        <3>2. w[c.dst] = IF Whole(c, c.before) = {} THEN Missing ELSE Entry("set", Whole(c, c.before), FALSE)
            BY <1>6, <1>7
        <3>3. ResultStored(c, c.before, w)
            BY <1>1, <1>3, <1>6, <3>1, <3>2 DEF ResultStored
        <3> QED  BY <1>1, <3>3, NativeStore DEF StoreCmd
    <2> HIDE DEF all
    <2> QED  BY <1>4, <2>1, <2>2, <2>3
<1>8. CASE all # {}
    <2>1. ~LeavesEarly(c, r.op, x)
        BY <1>5, <1>8
    <2>2. \A i \in 1 .. n : Heard(a, i)
        BY <1>1, <1>2, HeardSame
    <2>3. \A j \in DOMAIN c.before \ {c.dst} : w[j] = c.before[j]
        BY <1>2, <1>6
    <2> HIDE DEF g, n, all
    <2>4. ~(g + 1 <= n) /\ ~(g + 1 > n + 1)
        BY <1>1 DEF g, n
    <2>5. StoredSome(a, w)
        BY <1>1, <1>6, <1>8, <2>2, <2>3, <2>4 DEF StoredSome, g, n
    <2> QED  BY <2>1, <2>5
<1> QED  BY <1>7, <1>8

LEMMA StoreAdds ==
    ASSUME NEW p \in Client, NEW c, Going(p, c), c.cmd \in StoreCmd, NEW v, StoredSome(c, v),
           Len(c.got) = Len(c.keys) + 1,
           NEW r, r = NextRequest(c), NEW x, x = Reply(v, r), NEW w, w = Leaves(v, r), NEW a, Goes(c, x, a)
    PROVE  ~LeavesEarly(c, r.op, x) /\ StoredSome(a, w)
<1> DEFINE g == Len(c.got)
           n == Len(c.keys)
           all == Whole(c, c.before)
           new == Entry("set", all, FALSE)
           k == c.dst
<1>1. /\ Callable(c) /\ Recorded(c) /\ Function(c.before) /\ k \in DOMAIN c.before
      /\ a.before = c.before /\ a.dst = k /\ a.keys = c.keys /\ a.cmd = c.cmd /\ Same(a, c)
      /\ g \in Nat /\ n \in Nat /\ Len(a.got) = g + 1 /\ a.got[g + 1] = x /\ Whole(a, c.before) = all
      /\ (\A i \in 1 .. g : a.got[i] = c.got[i]) /\ r = Put("SADD", k, Datum("set", res(c)))
    BY StoreContext
<1>2. /\ Alike(v, c.before) /\ (\A j \in DOMAIN c.before \ {k} : v[j] = c.before[j])
      /\ (\A i \in 1 .. n : i <= g => Heard(c, i)) /\ v[k] = Missing /\ all # {}
    BY <1>1 DEF StoredSome
<1>3. res(c) = all
    BY <1>1, StoreRes
<1>4. x = Num(Cardinality(all)) /\ w = [v EXCEPT ![k] = new]
    <2>1. r = Put("SADD", k, Datum("set", all)) /\ all # {} /\ v[k] = Missing /\ new = Entry("set", all, FALSE)
        BY <1>1, <1>2, <1>3
    <2> HIDE DEF all, new, k
    <2>2. Reply(v, Put("SADD", k, Datum("set", all))) = Num(Cardinality(all))
          /\ Leaves(v, Put("SADD", k, Datum("set", all))) = [v EXCEPT ![k] = Entry("set", all, FALSE)]
        BY <2>1, SaddIs
    <2> QED  BY <2>1, <2>2
<1>5. ~LeavesEarly(c, r.op, x)
    BY <1>1, <1>4, EarlyIs, Distinct DEF Put
<1>6. Alike(w, c.before) /\ w[k] = new /\ \A j \in DOMAIN c.before : j # k => w[j] = v[j]
    <2> HIDE DEF new, k
    <2> QED  BY <1>1, <1>2, <1>4 DEF Alike, Function
<1>7. \A i \in 1 .. n : Heard(a, i)
    <2>1. \A i \in 1 .. n : i \in 1 .. g
        BY <1>1
    <2> QED  BY <1>1, <1>2, <2>1, HeardSame
<1>8. \A j \in DOMAIN c.before \ {k} : w[j] = c.before[j]
    BY <1>2, <1>6
<1>9. StoredSome(a, w)
    <2>1. ~(g + 1 <= n) /\ g + 1 # n + 1
        BY <1>1
    <2>2. a.got[Len(a.got)] = Num(Cardinality(all))
        BY <1>1, <1>4
    <2> HIDE DEF g, n, all
    <2> QED  BY <1>1, <1>2, <1>6, <1>7, <1>8, <2>1, <2>2 DEF StoredSome, g, n
<1> QED  BY <1>5, <1>9

LEMMA StoreGoes ==
    ASSUME NEW p \in Client, NEW c, Going(p, c), c.cmd \in StoreCmd, NEW v, StoredSome(c, v),
           NEW r, r = NextRequest(c), NEW x, x = Reply(v, r), NEW w, w = Leaves(v, r), NEW a, Goes(c, x, a)
    PROVE  /\ LeavesEarly(c, r.op, x) => <<EarlyResult(r.op, x), w>> = Native(c, c.before)
           /\ ~LeavesEarly(c, r.op, x) => StoredSome(a, w)
<1>1. Len(c.got) \in Nat /\ Len(c.keys) \in Nat /\ Len(c.got) < Len(c.keys) + 2
    BY StoreContext
<1>2. Len(c.got) < Len(c.keys) \/ Len(c.got) = Len(c.keys) \/ Len(c.got) = Len(c.keys) + 1
    BY <1>1
<1> QED  BY <1>2, StoreReads, StoreDeletes, StoreAdds

LEMMA StoreEnd ==
    ASSUME NEW c, Callable(c), Recorded(c), c.cmd \in StoreCmd, NEW a, Same(a, c), a.before = c.before,
           Callable(a), Sequence(a.got), NEW w, StoredSome(a, w), Len(a.got) = Len(Requests(a))
    PROVE  <<Result(a), w>> = Native(c, c.before)
<1> DEFINE n == Len(c.keys)
           all == Whole(c, c.before)
<1>1. a.cmd = c.cmd /\ a.keys = c.keys /\ a.dst = c.dst /\ Whole(a, c.before) = all
    BY WholeSame DEF Same
<1>2. Len(a.got) = n + 2 /\ n \in Nat
    BY <1>1, StoreShape, KeysIs DEF StoreCmd
<1>3. /\ Alike(w, c.before) /\ (\A j \in DOMAIN c.before \ {c.dst} : w[j] = c.before[j])
      /\ (\A i \in 1 .. n : Heard(a, i)) /\ all # {} /\ w[c.dst] = Entry("set", all, FALSE)
      /\ a.got[n + 2] = Num(Cardinality(all))
    <2> DEFINE h == Len(a.got)
    <2> HIDE DEF n, all
    <2>1. h = n + 2 /\ h > n /\ h > n + 1 /\ \A i \in 1 .. n : i <= h
        BY <1>2
    <2>2. StoredSome(a, w) /\ a.before = c.before
        OBVIOUS
    <2> QED  BY <1>1, <2>1, <2>2 DEF StoredSome, n
<1>4. \A i \in 1 .. n : Fits(c.before[c.keys[i]], "set")
    BY <1>1, <1>3 DEF Heard, Kind, StoreCmd
<1>5. c.dst \in DOMAIN c.before
    BY BeforeIs
<1>6. Native(c, c.before) = <<Num(Cardinality(all)), w>>
    <2>1. w[c.dst] = IF Whole(c, c.before) = {} THEN Missing ELSE Entry("set", Whole(c, c.before), FALSE)
        BY <1>3
    <2>2. ResultStored(c, c.before, w)
        BY <1>3, <1>4, <1>5, <2>1 DEF ResultStored
    <2> QED  BY <2>2, NativeStore DEF StoreCmd
<1>7. Result(a) = Num(Cardinality(all))
    <2>1. CASE c.cmd = "sinterstore"
        <3>1. res(a) = all
            BY <1>1, <1>2, <1>3, <2>1, ResIsWhole DEF SetAlgebra
        <3> QED  BY <1>1, <2>1, <3>1 DEF Result, Moving
    <2>2. CASE c.cmd # "sinterstore"
        <3>1. Last(a.got) = a.got[n + 2]
            BY <1>2 DEF Last
        <3>2. Result(a) = Last(a.got)
            BY <1>1, <2>2 DEF Result, Moving, StoreCmd
        <3> QED  BY <1>3, <3>1, <3>2
    <2> QED  BY <2>1, <2>2
<1> HIDE DEF all
<1> QED  BY <1>6, <1>7

(* pfmerge with g replies: what it has read, and what its temporary keys   *)
(* hold, those of its objects and the last one, which gets what is merged. *)
PfKey(c, i) == IF i <= Len(c.keys) THEN c.keys[i] ELSE c.dst
PfAll(c) == UNION {c.before[k].items : k \in Range(c.keys) \cup {c.dst}}
PfMid(c) == Len(c.keys) + Merged(c) + 1
PfRead(c, i) ==
    /\ Fits(c.before[PfKey(c, i)], "string")
    /\ c.got[i] = Plain(c.before[PfKey(c, i)])
PfObject(c, i) == Entry("string", c.before[PfKey(c, i)].items, FALSE)
PfMerged(c) == Entry("string", PfAll(c), FALSE)
PfTemp(c, g, j) ==
    IF j = Len(c.temp) THEN IF PfMid(c) < g /\ g < PfMid(c) + 4 THEN PfMerged(c) ELSE Missing
    ELSE IF j <= Merged(c) /\ Len(c.keys) + 1 + j <= g /\ g < PfMid(c) + 4 + j THEN PfObject(c, j) ELSE Missing
PfDst(c, g) == IF g >= PfMid(c) + 3 THEN PfMerged(c) ELSE c.before[c.dst]
PfKeys(c, v, g) ==
    /\ Alike(v, c.before)
    /\ \A k \in MyKeys(c) : k # c.dst /\ k \notin Range(c.temp) => v[k] = c.before[k]
    /\ v[c.dst] = PfDst(c, g)
    /\ \A j \in 1 .. Len(c.temp) : v[c.temp[j]] = PfTemp(c, g, j)
PfmergeSome(c, v) ==
    /\ Len(c.got) <= Len(c.keys) + 1 => v = c.before
    /\ \A i \in 1 .. Len(c.keys) + 1 : i <= Len(c.got) => PfRead(c, i)
    /\ Len(c.got) > Len(c.keys) =>
           /\ PfKeys(c, v, Len(c.got))
           /\ Len(c.got) >= PfMid(c) + 2 => c.got[PfMid(c) + 2] = Datum("string", PfAll(c))

LEMMA PfContext ==
    ASSUME NEW p \in Client, NEW c, Going(p, c), c.cmd = "pfmerge"
    PROVE  /\ Callable(c) /\ Recorded(c) /\ Function(c.before) /\ DOMAIN c.before = MyKeys(c)
           /\ c.temp \in Seq(Key) /\ Len(c.temp) > Len(c.keys) + 1 /\ Len(c.temp) \in Nat /\ Len(c.keys) \in Nat
           /\ DOMAIN c.temp = 1 .. Len(c.temp) /\ Last(c.temp) = c.temp[Len(c.temp)]
           /\ \A i, j \in 1 .. Len(c.temp) : c.temp[i] = c.temp[j] => i = j
           /\ \A j \in 1 .. Len(c.temp) : /\ c.temp[j] \in Range(c.temp) /\ c.temp[j] \in MyKeys(c)
                                          /\ c.temp[j] # c.dst /\ c.before[c.temp[j]] = Missing
           /\ c.dst \in MyKeys(c) /\ c.dst \notin Range(c.temp)
           /\ OneSlot(Range(c.temp))
           /\ Len(c.got) \in Nat
<1>1. Busy(p, c) /\ Recorded(c) /\ Callable(c) /\ Sequence(c.got)
    BY DEF Going, Busy, Replied
<1>2. c.temp \in Seq(Key) /\ c.temp = Temp[p]
    BY <1>1, TempIs
<1>3. Len(c.temp) > Len(c.keys) + 1 /\ Range(c.temp) \cap (Range(c.keys) \cup {c.dst}) = {}
    BY <1>1, <1>2 DEF Callable
<1>4. IsInjective(c.temp) /\ OneSlot(Range(c.temp))
    BY <1>2, MultiKeyAssumption
<1>5. DOMAIN c.temp = 1 .. Len(c.temp) /\ Len(c.temp) \in Nat /\ Last(c.temp) = c.temp[Len(c.temp)]
    BY <1>2 DEF Last
<1>6. \A j \in 1 .. Len(c.temp) : c.temp[j] \in Range(c.temp)
    BY <1>5 DEF Range
<1>7. Range(c.temp) \subseteq MyKeys(c) /\ c.dst \in MyKeys(c)
    BY DEF MyKeys
<1>8. \A k \in Range(c.temp) : c.before[k] = Missing
    BY <1>1 DEF Recorded
<1>9. \A i, j \in 1 .. Len(c.temp) : c.temp[i] = c.temp[j] => i = j
    BY <1>4, <1>5 DEF IsInjective
<1>10. Len(c.keys) \in Nat /\ Len(c.got) \in Nat
    BY <1>1, KeysIs, GotIs
<1>11. Function(c.before) /\ DOMAIN c.before = MyKeys(c)
    BY <1>1, BeforeIs DEF Alike
<1> QED  BY <1>1, <1>2, <1>3, <1>4, <1>5, <1>6, <1>7, <1>8, <1>9, <1>10, <1>11

(* What the method was called with does not change. *)
LEMMA PfSame ==
    ASSUME NEW c, NEW a, Same(a, c), a.before = c.before
    PROVE  /\ \A i : PfKey(a, i) = PfKey(c, i) /\ PfObject(a, i) = PfObject(c, i)
           /\ PfAll(a) = PfAll(c) /\ PfMerged(a) = PfMerged(c) /\ MyKeys(a) = MyKeys(c)
           /\ \A i : a.got[i] = c.got[i] => (PfRead(a, i) <=> PfRead(c, i))
           /\ Merged(a) = Merged(c) =>
                  /\ PfMid(a) = PfMid(c)
                  /\ \A g, j : PfTemp(a, g, j) = PfTemp(c, g, j)
                  /\ \A g : PfDst(a, g) = PfDst(c, g)
                  /\ \A v, g : PfKeys(a, v, g) <=> PfKeys(c, v, g)
<1>1. a.keys = c.keys /\ a.dst = c.dst /\ a.temp = c.temp
    BY DEF Same
<1>2. \A i : PfKey(a, i) = PfKey(c, i)
    BY <1>1 DEF PfKey
<1>3. \A i : PfObject(a, i) = PfObject(c, i)
    BY <1>2 DEF PfObject
<1>4. PfAll(a) = PfAll(c)
    BY <1>1 DEF PfAll
<1>5. PfMerged(a) = PfMerged(c)
    BY <1>4 DEF PfMerged
<1>6. MyKeys(a) = MyKeys(c)
    BY <1>1 DEF MyKeys
<1>7. \A i : a.got[i] = c.got[i] => (PfRead(a, i) <=> PfRead(c, i))
    BY <1>2 DEF PfRead
<1>8. ASSUME Merged(a) = Merged(c)
      PROVE  /\ PfMid(a) = PfMid(c)
             /\ \A g, j : PfTemp(a, g, j) = PfTemp(c, g, j)
             /\ \A g : PfDst(a, g) = PfDst(c, g)
             /\ \A v, g : PfKeys(a, v, g) <=> PfKeys(c, v, g)
    <2>1. PfMid(a) = PfMid(c)
        BY <1>1, <1>8 DEF PfMid
    <2>2. \A g, j : PfTemp(a, g, j) = PfTemp(c, g, j)
        BY <1>1, <1>3, <1>5, <1>8, <2>1 DEF PfTemp
    <2>3. \A g : PfDst(a, g) = PfDst(c, g)
        BY <1>1, <1>5, <2>1 DEF PfDst
    <2>4. \A v, g : PfKeys(a, v, g) <=> PfKeys(c, v, g)
        BY <1>1, <1>6, <2>2, <2>3 DEF PfKeys
    <2> QED  BY <2>1, <2>2, <2>3, <2>4
<1> QED  BY <1>2, <1>3, <1>4, <1>5, <1>6, <1>7, <1>8

(* It is Ordinary: every source holds something. *)
LEMMA PfObjects ==
    ASSUME NEW p \in Client, NEW c, Going(p, c), c.cmd = "pfmerge", Len(c.got) > Len(c.keys),
           \A i \in 1 .. Len(c.keys) + 1 : i <= Len(c.got) => PfRead(c, i)
    PROVE  /\ Merged(c) \in Len(c.keys) .. Len(c.keys) + 1
           /\ \A i \in 1 .. Merged(c) :
                  /\ Got(c, i) # None /\ Entry("string", Got(c, i).items, FALSE) = PfObject(c, i)
           /\ \A k \in Range(c.keys) \cup {c.dst} : Fits(c.before[k], "string")
           /\ UNION {PfObject(c, i).items : i \in 1 .. Merged(c)} = PfAll(c)
<1> DEFINE n == Len(c.keys)
           h == Merged(c)
           g == Len(c.got)
<1>1. Callable(c) /\ Recorded(c) /\ Sequence(c.got) /\ n \in Nat /\ g \in Nat /\ Ordinary(c)
    BY PfContext DEF Going, Busy, Replied
<1>2. Range(c.keys) = {c.keys[i] : i \in 1 .. n} /\ \A i \in 1 .. n : c.keys[i] \in Range(c.keys)
    BY <1>1, KeysIs DEF Range
<1>3. \A i \in 1 .. n + 1 : PfRead(c, i) /\ Got(c, i) = c.got[i]
    <2>1. \A i \in 1 .. n + 1 : i <= g /\ i \in 1 .. g
        BY <1>1
    <2> QED  BY <1>1, <2>1, GotIs
<1>4. \A i \in 1 .. n : PfKey(c, i) = c.keys[i] /\ i \in 1 .. n + 1
    BY <1>1 DEF PfKey
<1>5. PfKey(c, n + 1) = c.dst /\ n + 1 \in 1 .. n + 1
    BY <1>1 DEF PfKey
<1>6. /\ \A k \in Range(c.keys) : Exists(c.before[k])
      /\ ~(c.before[c.dst].kind = "string" /\ c.before[c.dst].items = {Empty})
    BY <1>1 DEF Ordinary
<1>7. \A i \in 1 .. n + 1 : /\ c.before[PfKey(c, i)] \in Held /\ Fits(c.before[PfKey(c, i)], "string")
                            /\ Got(c, i) = Plain(c.before[PfKey(c, i)])
    <2>1. \A i \in 1 .. n + 1 : i \in 1 .. n \/ i = n + 1
        BY <1>1
    <2>2. \A i \in 1 .. n + 1 : c.before[PfKey(c, i)] \in Held
        BY <1>1, <1>4, <1>5, <2>1, BeforeIs
    <2> QED  BY <1>3, <2>2 DEF PfRead
<1>8. Truthy(Got(c, n + 1)) <=> Exists(c.before[c.dst])
    <2> DEFINE e == c.before[c.dst]
    <2>1. e \in Held /\ Fits(e, "string") /\ Got(c, n + 1) = Plain(e)
        BY <1>5, <1>7
    <2>2. Exists(e) => e.kind = "string"
        BY <2>1 DEF Fits, Exists
    <2>3. Exists(e) => Plain(e) # Datum("string", {Empty})
        BY <1>6, <2>1, <2>2, PlainHas, Distinct
    <2>4. Plain(e) = None <=> ~Exists(e)
        BY <2>1, PlainHas
    <2> QED  BY <2>1, <2>3, <2>4 DEF Truthy
<1>9. h = IF Exists(c.before[c.dst]) THEN n + 1 ELSE n
    BY <1>8 DEF Merged
<1>10. h \in n .. n + 1
    BY <1>1, <1>9
<1>11. \A i \in 1 .. h : i \in 1 .. n + 1 /\ Exists(c.before[PfKey(c, i)])
    <2>1. \A i \in 1 .. h : i \in 1 .. n \/ (i = n + 1 /\ Exists(c.before[c.dst]))
        BY <1>1, <1>9
    <2> QED  BY <1>2, <1>4, <1>5, <1>6, <2>1
<1>12. \A i \in 1 .. h : Got(c, i) # None /\ Entry("string", Got(c, i).items, FALSE) = PfObject(c, i)
    BY <1>7, <1>11, PlainHas DEF PfObject
<1>13. \A k \in Range(c.keys) \cup {c.dst} : Fits(c.before[k], "string")
    BY <1>2, <1>4, <1>5, <1>7
<1>14. UNION {PfObject(c, i).items : i \in 1 .. h} = PfAll(c)
    <2>0. \A i \in 1 .. n + 1 : PfObject(c, i).items = c.before[PfKey(c, i)].items
        BY DEF PfObject, Entry
    <2>m. ~Exists(c.before[c.dst]) => c.before[c.dst].items = {}
        BY <1>5, <1>7, HeldIs DEF Exists
    <2>n. (\A i \in 1 .. n : i \in 1 .. h) /\ (Exists(c.before[c.dst]) => n + 1 \in 1 .. h)
        BY <1>1, <1>9
    <2>1. ASSUME NEW i \in 1 .. h, NEW x \in PfObject(c, i).items PROVE x \in PfAll(c)
        <3>1. x \in c.before[PfKey(c, i)].items
            BY <1>11, <2>0, <2>1
        <3>2. PfKey(c, i) \in Range(c.keys) \cup {c.dst}
            <4>1. i \in 1 .. n \/ i = n + 1
                BY <1>1, <1>11
            <4> QED  BY <1>2, <1>4, <1>5, <4>1
        <3> QED  BY <3>1, <3>2 DEF PfAll
    <2>2. ASSUME NEW k \in Range(c.keys) \cup {c.dst}, NEW x \in c.before[k].items
          PROVE  \E i \in 1 .. h : x \in PfObject(c, i).items
        <3>1. CASE k \in Range(c.keys)
            <4>1. PICK i \in 1 .. n : c.keys[i] = k
                BY <1>2, <3>1
            <4> QED  BY <1>4, <2>0, <2>2, <2>n, <4>1
        <3>2. CASE k = c.dst
            BY <1>5, <2>0, <2>2, <2>m, <2>n, <3>2
        <3> QED  BY <3>1, <3>2
    <2>3. \A x : x \in PfAll(c) <=> \E k \in Range(c.keys) \cup {c.dst} : x \in c.before[k].items
        BY DEF PfAll
    <2>4. \A x : x \in UNION {PfObject(c, i).items : i \in 1 .. h} <=> \E i \in 1 .. h : x \in PfObject(c, i).items
        OBVIOUS
    <2> HIDE DEF h
    <2> QED  BY <2>1, <2>2, <2>3, <2>4
<1> QED  BY <1>10, <1>12, <1>13, <1>14

LEMMA PfReads ==
    ASSUME NEW p \in Client, NEW c, Going(p, c), c.cmd = "pfmerge", NEW v, PfmergeSome(c, v), Len(c.got) <= Len(c.keys),
           NEW r, r = NextRequest(c), NEW x, x = Reply(v, r), NEW w, w = Leaves(v, r), NEW a, Goes(c, x, a)
    PROVE  /\ LeavesEarly(c, r.op, x) => <<EarlyResult(r.op, x), w>> = Native(c, c.before)
           /\ ~LeavesEarly(c, r.op, x) => PfmergeSome(a, w)
<1> DEFINE g == Len(c.got)
           n == Len(c.keys)
           k == PfKey(c, g + 1)
<1>1. /\ Callable(c) /\ Recorded(c) /\ g \in Nat /\ n \in Nat /\ c.temp \in Seq(Key) /\ Len(c.temp) > n
      /\ DOMAIN c.before = MyKeys(c) /\ c.dst \in MyKeys(c) /\ Function(c.before)
      /\ \A j \in 1 .. Len(c.temp) : c.before[c.temp[j]] = Missing
    BY PfContext
<1>2. /\ Len(a.got) = g + 1 /\ (\A i \in 1 .. g : a.got[i] = c.got[i]) /\ a.got[g + 1] = x
      /\ r = Requests(c)[g + 1] /\ a.before = c.before /\ Same(a, c) /\ a.keys = c.keys /\ a.temp = c.temp
      /\ a.dst = c.dst
    <2>1. Same(a, c) /\ a.before = c.before
        BY DEF Goes
    <2> QED  BY <2>1, GoesOn DEF Going
<1>3. v = c.before /\ \A i \in 1 .. n + 1 : i <= g => PfRead(c, i)
    BY <1>1 DEF PfmergeSome
<1>4. r = Ask("GET", k) /\ r.op = "GET"
    <2>1. (\A i \in 1 .. n : Requests(c)[i] = Ask("GET", c.keys[i])) /\ Requests(c)[n + 1] = Ask("GET", c.dst)
        BY <1>1, PfmergeShape
    <2>2. g + 1 \in 1 .. n \/ g + 1 = n + 1
        BY <1>1
    <2>3. g + 1 \in 1 .. n => k = c.keys[g + 1]
        BY DEF PfKey
    <2>4. g + 1 = n + 1 => k = c.dst
        BY <1>1 DEF PfKey
    <2>5. r = Ask("GET", k)
        BY <1>2, <2>1, <2>2, <2>3, <2>4
    <2> QED  BY <2>5 DEF Ask
<1>5. k \in Range(c.keys) \cup {c.dst} /\ c.before[k] \in Held
    <2>1. g + 1 \in 1 .. n \/ g + 1 = n + 1
        BY <1>1
    <2>2. g + 1 \in 1 .. n => k = c.keys[g + 1]
        BY DEF PfKey
    <2>3. g + 1 = n + 1 => k = c.dst
        BY <1>1 DEF PfKey
    <2>4. \A i \in 1 .. n : c.keys[i] \in Range(c.keys) /\ c.before[c.keys[i]] \in Held
        BY <1>1, BeforeIs
    <2> QED  BY <1>1, <2>1, <2>2, <2>3, <2>4, BeforeIs
<1> HIDE DEF k
<1>6. /\ ~Fits(v[k], "string") => x = Error /\ w = v
      /\ Fits(v[k], "string") => x = Plain(v[k]) /\ w = v
    BY <1>4, GetIs
<1>7. CASE ~Fits(v[k], "string")
    <2>1. LeavesEarly(c, r.op, x) /\ EarlyResult(r.op, x) = Error
        BY <1>4, <1>6, <1>7, EarlyIs DEF EarlyResult
    <2>2. Native(c, c.before) = <<Error, c.before>>
        BY <1>1, <1>3, <1>5, <1>7, NativePfmergeWrong
    <2> QED  BY <1>3, <1>6, <1>7, <2>1, <2>2
<1>8. CASE Fits(v[k], "string")
    <2>1. x = Plain(c.before[k]) /\ w = c.before
        BY <1>3, <1>6, <1>8
    <2>2. ~LeavesEarly(c, r.op, x)
        BY <1>4, <1>5, <2>1, EarlyIs, PlainHas
    <2>3. PfRead(c, g + 1) \/ TRUE
        OBVIOUS
    <2>4. PfKey(a, g + 1) = k /\ PfRead(a, g + 1)
        BY <1>2, <1>3, <1>8, <2>1, PfSame DEF PfRead, k
    <2>5. \A i \in 1 .. n + 1 : i <= g + 1 => PfRead(a, i)
        <3>1. \A i \in 1 .. n + 1 : i <= g + 1 => (i \in 1 .. g /\ i <= g) \/ i = g + 1
            BY <1>1
        <3> QED  BY <1>2, <1>3, <2>4, <3>1, PfSame
    <2>6. Merged(a) \in {n, n + 1}
        BY <1>2 DEF Merged
    <2>7. g = n => PfKeys(a, w, g + 1)
        <3> SUFFICES ASSUME g = n PROVE PfKeys(a, w, g + 1)
            OBVIOUS
        <3> DEFINE m == PfMid(a)
                   h == Merged(a)
        <3>1. m = n + h + 1 /\ h \in {n, n + 1}
            BY <1>2, <2>6 DEF PfMid
        <3>2. PfDst(a, g + 1) = c.before[c.dst]
            <4>1. ~(g + 1 >= m + 3)
                BY <1>1, <3>1
            <4> QED  BY <1>2, <4>1 DEF PfDst
        <3>3. ASSUME NEW j \in 1 .. Len(c.temp) PROVE PfTemp(a, g + 1, j) = Missing
            <4>1. ~(m < g + 1) /\ ~(n + 1 + j <= g + 1)
                BY <1>1, <3>1
            <4> QED  BY <1>2, <4>1 DEF PfTemp
        <3>4. MyKeys(a) = MyKeys(c)
            BY <1>2, PfSame
        <3>5. Alike(c.before, c.before)
            BY <1>1 DEF Alike
        <3> QED  BY <1>1, <1>2, <2>1, <3>2, <3>3, <3>4, <3>5 DEF PfKeys
    <2>8. g + 1 > n => g = n
        BY <1>1
    <2>9. ~(g + 1 >= PfMid(a) + 2)
        BY <1>1, <1>2, <2>6 DEF PfMid
    <2> HIDE DEF g, n
    <2>10. PfmergeSome(a, w)
        BY <1>2, <2>1, <2>5, <2>7, <2>8, <2>9 DEF PfmergeSome, n
    <2> QED  BY <2>2, <2>10
<1> QED  BY <1>7, <1>8

LEMMA PfWriteContext ==
    ASSUME NEW p \in Client, NEW c, Going(p, c), c.cmd = "pfmerge", NEW v, PfmergeSome(c, v), Len(c.got) > Len(c.keys),
           NEW x, NEW a, Goes(c, x, a)
    PROVE  /\ Len(c.got) \in Nat /\ Len(c.keys) \in Nat /\ Len(c.keys) > 0 /\ Len(c.temp) \in Nat
           /\ Merged(c) \in Len(c.keys) .. Len(c.keys) + 1 /\ Len(c.temp) > Merged(c)
           /\ Merged(a) = Merged(c) /\ PfMid(c) = Len(c.keys) + Merged(c) + 1
           /\ PfKeys(c, v, Len(c.got))
           /\ Len(c.got) >= PfMid(c) + 2 => c.got[PfMid(c) + 2] = Datum("string", PfAll(c))
           /\ \A i \in 1 .. Len(c.keys) + 1 : i <= Len(c.got) => PfRead(c, i)
           /\ Len(a.got) = Len(c.got) + 1 /\ a.got[Len(c.got) + 1] = x
           /\ \A i \in 1 .. Len(c.got) : a.got[i] = c.got[i]
           /\ NextRequest(c) = Requests(c)[Len(c.got) + 1]
           /\ Len(c.got) < PfMid(c) + 4 + Merged(c)
           /\ a.before = c.before /\ Same(a, c)
<1> DEFINE g == Len(c.got)
           n == Len(c.keys)
           h == Merged(c)
<1>1. /\ g \in Nat /\ n \in Nat /\ Len(c.temp) \in Nat /\ Len(c.temp) > n + 1 /\ Callable(c) /\ c.temp \in Seq(Key)
      /\ Sequence(c.got)
    BY PfContext DEF Going, Busy, Replied
<1>2. n > 0
    BY <1>1, KeysIs
<1>3. (\A i \in 1 .. n + 1 : i <= g => PfRead(c, i)) /\ PfKeys(c, v, g)
      /\ (g >= PfMid(c) + 2 => c.got[PfMid(c) + 2] = Datum("string", PfAll(c)))
    BY DEF PfmergeSome
<1>4. h \in n .. n + 1
    BY <1>1 DEF Merged
<1>5. /\ Len(a.got) = g + 1 /\ a.got[g + 1] = x /\ (\A i \in 1 .. g : a.got[i] = c.got[i])
      /\ NextRequest(c) = Requests(c)[g + 1] /\ a.before = c.before /\ Same(a, c) /\ g < Len(Requests(c))
      /\ a.keys = c.keys /\ DOMAIN a.got = 1 .. Len(a.got) /\ DOMAIN c.got = 1 .. g
    <2>1. Same(a, c) /\ a.before = c.before
        BY DEF Goes
    <2> QED  BY <2>1, GoesOn DEF Going
<1>6. Got(a, n + 1) = Got(c, n + 1)
    <2>1. n + 1 \in 1 .. g /\ n + 1 \in 1 .. Len(a.got)
        BY <1>1, <1>5
    <2> QED  BY <1>5, <2>1 DEF Got
<1>7. Merged(a) = h
    BY <1>5, <1>6 DEF Merged
<1>8. Len(Requests(c)) = n + 5 + 2 * h
    BY <1>1, PfmergeShape
<1>9. PfMid(c) = n + h + 1
    BY DEF PfMid
<1> HIDE DEF g, n, h
<1>10. g < PfMid(c) + 4 + h
    BY <1>1, <1>4, <1>5, <1>8, <1>9
<1>11. Len(c.temp) > h
    BY <1>1, <1>4
<1> QED  BY <1>1, <1>2, <1>3, <1>4, <1>5, <1>7, <1>9, <1>10, <1>11 DEF g, n, h

LEMMA PfKeeps ==
    ASSUME NEW p \in Client, NEW c, Going(p, c), c.cmd = "pfmerge", NEW v, PfmergeSome(c, v), Len(c.got) > Len(c.keys),
           NEW x, NEW a, Goes(c, x, a), NEW w, PfKeys(c, w, Len(c.got) + 1),
           Len(c.got) = PfMid(c) + 1 => x = Datum("string", PfAll(c))
    PROVE  PfmergeSome(a, w)
<1> DEFINE g == Len(c.got)
           n == Len(c.keys)
           m == PfMid(c)
           h == Merged(c)
<1>1. /\ g \in Nat /\ n \in Nat /\ n > 0 /\ h \in n .. n + 1 /\ Merged(a) = h /\ m = n + h + 1
      /\ (g >= m + 2 => c.got[m + 2] = Datum("string", PfAll(c)))
      /\ (\A i \in 1 .. n + 1 : i <= g => PfRead(c, i))
      /\ Len(a.got) = g + 1 /\ a.got[g + 1] = x /\ (\A i \in 1 .. g : a.got[i] = c.got[i])
      /\ a.before = c.before /\ Same(a, c)
    BY PfWriteContext
<1>2. PfKeys(a, w, g + 1) /\ PfMid(a) = m /\ PfAll(a) = PfAll(c)
    BY <1>1, PfSame
<1>3. \A i \in 1 .. n + 1 : PfRead(a, i)
    <2>1. \A i \in 1 .. n + 1 : i <= g /\ i \in 1 .. g
        BY <1>1
    <2> QED  BY <1>1, <2>1, PfSame
<1>4. g + 1 >= m + 2 => a.got[m + 2] = Datum("string", PfAll(c))
    <2>1. CASE g = m + 1
        <3>1. g + 1 = m + 2
            BY <1>1, <2>1
        <3> QED  BY <1>1, <2>1, <3>1
    <2>2. CASE g # m + 1
        <3>0. g \in Nat /\ n \in Nat /\ h \in Nat /\ m \in Nat
            BY <1>1
        <3>1. g + 1 >= m + 2 => g >= m + 2 /\ m + 2 \in 1 .. g
            BY <2>2, <3>0
        <3> QED  BY <1>1, <3>1
    <2> QED  BY <2>1, <2>2
<1>5. a.keys = c.keys
    BY <1>1 DEF Same
<1>6. ~(g + 1 <= n + 1)
    BY <1>1
<1> HIDE DEF g, n, m
<1> QED  BY <1>1, <1>2, <1>3, <1>4, <1>5, <1>6 DEF PfmergeSome, n

(* One of the temporary keys is written. *)
With(v, k, e) == [v EXCEPT ![k] = e]
PfOthers(c, g, j) ==
    /\ \A i \in 1 .. Len(c.temp) : i # j => PfTemp(c, g + 1, i) = PfTemp(c, g, i)
    /\ PfDst(c, g + 1) = PfDst(c, g)

LEMMA PfWritten ==
    ASSUME NEW p \in Client, NEW c, Going(p, c), c.cmd = "pfmerge", NEW v, NEW g, PfKeys(c, v, g),
           NEW j \in 1 .. Len(c.temp), NEW w, w = With(v, c.temp[j], PfTemp(c, g + 1, j)), PfOthers(c, g, j)
    PROVE  PfKeys(c, w, g + 1)
<1> DEFINE k == c.temp[j]
           new == PfTemp(c, g + 1, j)
<1>0. /\ \A i \in 1 .. Len(c.temp) : i # j => PfTemp(c, g + 1, i) = PfTemp(c, g, i)
      /\ PfDst(c, g + 1) = PfDst(c, g)
    BY DEF PfOthers
<1>1. /\ DOMAIN c.before = MyKeys(c) /\ c.dst \in MyKeys(c) /\ c.dst # k /\ k \in MyKeys(c) /\ k \in Range(c.temp)
      /\ \A i \in 1 .. Len(c.temp) : c.temp[i] \in MyKeys(c) /\ (c.temp[i] = k => i = j)
    BY PfContext
<1> HIDE DEF k, new
<1>2. Alike(v, c.before)
    BY DEF PfKeys
<1>3. w = [v EXCEPT ![k] = new]
    BY DEF k, new, With
<1>3a. DOMAIN v = MyKeys(c) /\ Function(v)
    BY <1>1, <1>2 DEF Alike
<1>4. Alike(w, c.before) /\ w[k] = new /\ \A i \in MyKeys(c) : i # k => w[i] = v[i]
    <2>1. DOMAIN w = MyKeys(c) /\ w[k] = new /\ \A i \in MyKeys(c) : i # k => w[i] = v[i]
        BY <1>1, <1>3, <1>3a
    <2>2. Function(w)
        BY <1>3, <1>3a DEF Function
    <2> QED  BY <1>1, <2>1, <2>2 DEF Alike
<1>5. \A i \in 1 .. Len(c.temp) : w[c.temp[i]] = PfTemp(c, g + 1, i)
    <2> SUFFICES ASSUME NEW i \in 1 .. Len(c.temp) PROVE w[c.temp[i]] = PfTemp(c, g + 1, i)
        OBVIOUS
    <2>1. CASE i = j
        BY <1>4, <2>1 DEF k, new
    <2>2. CASE i # j
        <3>1. w[c.temp[i]] = v[c.temp[i]]
            BY <1>1, <1>4, <2>2
        <3> QED  BY <1>0, <2>2, <3>1 DEF PfKeys
    <2> QED  BY <2>1, <2>2
<1>6. w[c.dst] = PfDst(c, g + 1)
    BY <1>0, <1>1, <1>4 DEF PfKeys
<1> QED  BY <1>1, <1>4, <1>5, <1>6 DEF PfKeys

(* What the temporary keys and dst hold, in the numbers of the call. *)
LEMMA PfPlaces ==
    ASSUME NEW c, NEW n, n = Len(c.keys), NEW h, h = Merged(c), NEW l, l = Len(c.temp), NEW m, m = PfMid(c)
    PROVE  /\ m = n + h + 1
           /\ \A g, j : PfTemp(c, g, j) =
                  IF j = l THEN IF m < g /\ g < m + 4 THEN PfMerged(c) ELSE Missing
                  ELSE IF j <= h /\ n + 1 + j <= g /\ g < m + 4 + j THEN PfObject(c, j) ELSE Missing
           /\ \A g : PfDst(c, g) = IF g >= m + 3 THEN PfMerged(c) ELSE c.before[c.dst]
BY DEF PfTemp, PfDst, PfMid

(* The requests that write, one after the other. *)
LEMMA PfSets ==
    ASSUME NEW p \in Client, NEW c, Going(p, c), c.cmd = "pfmerge", NEW v, PfmergeSome(c, v),
           Len(c.got) > Len(c.keys), NEW g, g = Len(c.got), NEW m, m = PfMid(c), g < m,
           NEW r, r = NextRequest(c), NEW x, x = Reply(v, r), NEW w, w = Leaves(v, r), NEW a, Goes(c, x, a)
    PROVE  ~LeavesEarly(c, r.op, x) /\ PfmergeSome(a, w)
<1>1. PICK n \in Nat, h \in Nat, l \in Nat : n = Len(c.keys) /\ h = Merged(c) /\ l = Len(c.temp)
    <2>1. Len(c.keys) \in Nat /\ Merged(c) \in Nat /\ Len(c.temp) \in Nat
        BY PfWriteContext
    <2> QED  BY <2>1
<1>p. /\ \A b, j : PfTemp(c, b, j) =
             IF j = l THEN IF m < b /\ b < m + 4 THEN PfMerged(c) ELSE Missing
             ELSE IF j <= h /\ n + 1 + j <= b /\ b < m + 4 + j THEN PfObject(c, j) ELSE Missing
      /\ \A b : PfDst(c, b) = IF b >= m + 3 THEN PfMerged(c) ELSE c.before[c.dst]
    BY ZenonT(30), <1>1, PfPlaces
<1>2. /\ g \in Nat /\ n > 0 /\ h \in n .. n + 1 /\ l > h /\ m = n + h + 1 /\ g > n /\ m \in Nat /\ Len(c.temp) > Len(c.keys)
      /\ r = Requests(c)[g + 1] /\ PfKeys(c, v, g) /\ (\A i \in 1 .. n + 1 : i <= g => PfRead(c, i))
      /\ Callable(c) /\ c.temp \in Seq(Key)
    BY SMTT(30), <1>1, PfWriteContext, PfContext
<1>3. PICK i \in 1 .. h : g = n + i
    <2>1. g - n \in 1 .. h /\ g = n + (g - n)
        BY <1>2
    <2> QED  BY <2>1
<1>4. r = Put("SET", c.temp[i], Got(c, i)) /\ r.op = "SET"
    <2>1. r = Requests(c)[n + 1 + i]
        BY <1>2, <1>3
    <2>s. \A j \in 1 .. h : Requests(c)[n + 1 + j] = Put("SET", c.temp[j], Got(c, j))
        BY <1>1, <1>2, PfmergeShape
    <2>2. r = Put("SET", c.temp[i], Got(c, i))
        BY <2>1, <2>s
    <2> QED  BY <2>2 DEF Put
<1>5. Got(c, i) # None /\ Entry("string", Got(c, i).items, FALSE) = PfObject(c, i)
    BY <1>1, <1>2, PfObjects
<1>6. x = Num(1) /\ w = [v EXCEPT ![c.temp[i]] = PfObject(c, i)]
    <2>1. /\ Reply(v, Put("SET", c.temp[i], Got(c, i))) = Num(1)
          /\ Leaves(v, Put("SET", c.temp[i], Got(c, i)))
                 = [v EXCEPT ![c.temp[i]] = Entry("string", Got(c, i).items, FALSE)]
        BY ONLY <1>5, SetIs
    <2> QED  BY <1>4, <1>5, <2>1
<1>7. ~LeavesEarly(c, r.op, x)
    BY <1>4, <1>6, EarlyIs, Distinct
<1>8. i \in 1 .. l /\ PfTemp(c, g + 1, i) = PfObject(c, i)
    <2>1. i \in 1 .. l /\ i # l /\ i <= h /\ n + 1 + i <= g + 1 /\ g + 1 < m + 4 + i
        BY <1>2, <1>3
    <2> QED  BY <1>p, <2>1
<1>9. ASSUME NEW j \in 1 .. l, j # i PROVE PfTemp(c, g + 1, j) = PfTemp(c, g, j)
    <2>1. ~(m < g + 1) /\ ~(m < g) /\ g + 1 < m + 4 + j /\ g < m + 4 + j
        BY <1>2
    <2>2. n + 1 + j <= g + 1 <=> n + 1 + j <= g
        BY <1>2, <1>3, <1>9
    <2> QED  BY <1>p, <2>1, <2>2
<1>10. PfDst(c, g + 1) = PfDst(c, g)
    <2>1. ~(g + 1 >= m + 3) /\ ~(g >= m + 3)
        BY <1>2
    <2> QED  BY <1>p, <2>1
<1>11. PfKeys(c, w, g + 1)
    <2>1. w = With(v, c.temp[i], PfTemp(c, g + 1, i))
        BY <1>6, <1>8 DEF With
    <2>2. PfOthers(c, g, i)
        BY <1>1, <1>9, <1>10 DEF PfOthers
    <2> QED  BY <1>1, <1>2, <1>8, <2>1, <2>2, PfWritten
<1>12. g # m + 1
    BY <1>2
<1>13. PfmergeSome(a, w)
    BY <1>1, <1>2, <1>11, <1>12, PfKeeps
<1> QED  BY <1>7, <1>13

LEMMA PfMerges ==
    ASSUME NEW p \in Client, NEW c, Going(p, c), c.cmd = "pfmerge", NEW v, PfmergeSome(c, v),
           Len(c.got) > Len(c.keys), NEW g, g = Len(c.got), NEW m, m = PfMid(c),
           NEW r, r = NextRequest(c), NEW x, x = Reply(v, r), NEW w, w = Leaves(v, r), NEW a, Goes(c, x, a)
    PROVE  g = m => ~LeavesEarly(c, r.op, x) /\ PfmergeSome(a, w)
<1>1. PICK n \in Nat, h \in Nat, l \in Nat : n = Len(c.keys) /\ h = Merged(c) /\ l = Len(c.temp)
    <2>1. Len(c.keys) \in Nat /\ Merged(c) \in Nat /\ Len(c.temp) \in Nat
        BY PfWriteContext
    <2> QED  BY <2>1
<1>p. /\ \A b, j : PfTemp(c, b, j) =
             IF j = l THEN IF m < b /\ b < m + 4 THEN PfMerged(c) ELSE Missing
             ELSE IF j <= h /\ n + 1 + j <= b /\ b < m + 4 + j THEN PfObject(c, j) ELSE Missing
      /\ \A b : PfDst(c, b) = IF b >= m + 3 THEN PfMerged(c) ELSE c.before[c.dst]
    BY ZenonT(30), <1>1, PfPlaces
<1>2. /\ g \in Nat /\ n > 0 /\ h \in n .. n + 1 /\ l > h /\ m = n + h + 1 /\ g > n /\ m \in Nat /\ Len(c.temp) > Len(c.keys)
      /\ r = Requests(c)[g + 1] /\ PfKeys(c, v, g) /\ (\A i \in 1 .. n + 1 : i <= g => PfRead(c, i))
      /\ Callable(c) /\ c.temp \in Seq(Key) /\ Last(c.temp) = c.temp[l] /\ OneSlot(Range(c.temp))
      /\ \A j \in 1 .. l : c.temp[j] \in Range(c.temp)
    BY SMTT(30), <1>1, PfWriteContext, PfContext
<1> SUFFICES ASSUME g = m PROVE ~LeavesEarly(c, r.op, x) /\ PfmergeSome(a, w)
    OBVIOUS
<1> DEFINE ks == all_k(c)
<1>3. /\ Sequence(ks) /\ Len(ks) = h /\ (\A i \in 1 .. h : ks[i] = c.temp[i])
      /\ r = Put("PFMERGE", c.temp[l], ks) /\ l \in 1 .. l
    <2>1. /\ Sequence(ks) /\ Len(ks) = h /\ (\A i \in 1 .. h : ks[i] = c.temp[i])
          /\ Requests(c)[n + h + 2] = Put("PFMERGE", Last(c.temp), ks)
        BY <1>1, <1>2, PfmergeShape
    <2>2. g + 1 = n + h + 2 /\ l \in 1 .. l
        BY <1>2
    <2> QED  BY <1>2, <2>1, <2>2
<1>4. Range(ks) = {c.temp[i] : i \in 1 .. h} /\ \A i \in 1 .. h : i \in 1 .. l /\ i # l
    <2>1. DOMAIN ks = 1 .. h
        BY <1>3 DEF Sequence
    <2>2. Range(ks) = {ks[i] : i \in 1 .. h}
        BY <2>1 DEF Range
    <2> HIDE DEF ks
    <2>3. \A i \in 1 .. h : i \in 1 .. l /\ i # l
        BY <1>2
    <2> QED  BY <1>3, <2>2, <2>3
<1> HIDE DEF ks
<1>5. \A i \in 1 .. h : v[c.temp[i]] = PfObject(c, i)
    <2> SUFFICES ASSUME NEW i \in 1 .. h PROVE v[c.temp[i]] = PfObject(c, i)
        OBVIOUS
    <2>1. i # l /\ i <= h /\ n + 1 + i <= g /\ g < m + 4 + i /\ i \in 1 .. l
        BY <1>2, <1>4
    <2>2. PfTemp(c, g, i) = PfObject(c, i)
        BY <1>p, <2>1
    <2> QED  BY <1>1, <1>2, <2>1, <2>2 DEF PfKeys
<1>6. v[c.temp[l]] = Missing
    <2>1. ~(m < g)
        BY <1>2
    <2>2. PfTemp(c, g, l) = Missing
        BY <1>p, <2>1
    <2> QED  BY <1>1, <1>2, <1>3, <2>2 DEF PfKeys
<1>7. OneSlot({c.temp[l]} \cup Range(ks))
    <2>1. {c.temp[l]} \cup Range(ks) \subseteq Range(c.temp)
        BY <1>2, <1>3, <1>4
    <2> QED  BY <1>2, <2>1 DEF OneSlot
<1>8. \A j \in {c.temp[l]} \cup Range(ks) : Fits(v[j], "string")
    <2>1. Fits(v[c.temp[l]], "string")
        BY <1>6 DEF Fits, Entry, Missing
    <2>2. \A i \in 1 .. h : Fits(v[c.temp[i]], "string")
        <3>1. \A i : PfObject(c, i).kind = "string"
            BY DEF PfObject, Entry
        <3> QED  BY <1>5, <3>1 DEF Fits
    <2> QED  BY <1>4, <2>1, <2>2
<1>9. UNION {v[j].items : j \in Range(ks)} = PfAll(c)
    <2>1. UNION {PfObject(c, i).items : i \in 1 .. h} = PfAll(c)
        BY <1>1, <1>2, PfObjects
    <2>2. {v[j].items : j \in Range(ks)} = {PfObject(c, i).items : i \in 1 .. h}
        BY <1>4, <1>5
    <2> QED  BY <2>1, <2>2
<1>10. x = Num(1) /\ w = [v EXCEPT ![c.temp[l]] = PfMerged(c)] /\ r.op = "PFMERGE"
    <2>1. r.op = "PFMERGE"
        BY <1>3 DEF Put
    <2>2. /\ Reply(v, Put("PFMERGE", c.temp[l], ks)) = Num(1)
          /\ Leaves(v, Put("PFMERGE", c.temp[l], ks))
                 = [v EXCEPT ![c.temp[l]] = Entry("string", UNION {v[j].items : j \in Range(ks)}, FALSE)]
        BY ONLY <1>7, <1>8, PfmergeIs
    <2> QED  BY <1>3, <1>9, <2>1, <2>2 DEF PfMerged
<1>11. ~LeavesEarly(c, r.op, x)
    BY <1>10, EarlyIs, Distinct
<1>12. PfTemp(c, g + 1, l) = PfMerged(c)
    <2>1. m < g + 1 /\ g + 1 < m + 4
        BY <1>2
    <2> QED  BY <1>p, <2>1
<1>13. ASSUME NEW j \in 1 .. l, j # l PROVE PfTemp(c, g + 1, j) = PfTemp(c, g, j)
    <2>1. g + 1 < m + 4 + j /\ g < m + 4 + j
        BY <1>2
    <2>2. j <= h => (n + 1 + j <= g + 1 /\ n + 1 + j <= g)
        BY <1>2
    <2> QED  BY <1>p, <1>13, <2>1, <2>2
<1>14. PfDst(c, g + 1) = PfDst(c, g)
    <2>1. ~(g + 1 >= m + 3) /\ ~(g >= m + 3)
        BY <1>2
    <2> QED  BY <1>p, <2>1
<1>15. PfKeys(c, w, g + 1)
    <2>1. w = With(v, c.temp[l], PfTemp(c, g + 1, l))
        BY <1>10, <1>12 DEF With
    <2>2. PfOthers(c, g, l)
        BY <1>1, <1>13, <1>14 DEF PfOthers
    <2> QED  BY <1>1, <1>2, <1>3, <2>1, <2>2, PfWritten
<1>16. g # m + 1
    BY <1>2
<1>17. PfmergeSome(a, w)
    BY <1>1, <1>2, <1>15, <1>16, PfKeeps
<1> QED  BY <1>11, <1>17

LEMMA PfFetches ==
    ASSUME NEW p \in Client, NEW c, Going(p, c), c.cmd = "pfmerge", NEW v, PfmergeSome(c, v),
           Len(c.got) > Len(c.keys), NEW g, g = Len(c.got), NEW m, m = PfMid(c),
           NEW r, r = NextRequest(c), NEW x, x = Reply(v, r), NEW w, w = Leaves(v, r), NEW a, Goes(c, x, a)
    PROVE  g = m + 1 => ~LeavesEarly(c, r.op, x) /\ PfmergeSome(a, w)
<1>1. PICK n \in Nat, h \in Nat, l \in Nat : n = Len(c.keys) /\ h = Merged(c) /\ l = Len(c.temp)
    <2>1. Len(c.keys) \in Nat /\ Merged(c) \in Nat /\ Len(c.temp) \in Nat
        BY PfWriteContext
    <2> QED  BY <2>1
<1>p. /\ \A b, j : PfTemp(c, b, j) =
             IF j = l THEN IF m < b /\ b < m + 4 THEN PfMerged(c) ELSE Missing
             ELSE IF j <= h /\ n + 1 + j <= b /\ b < m + 4 + j THEN PfObject(c, j) ELSE Missing
      /\ \A b : PfDst(c, b) = IF b >= m + 3 THEN PfMerged(c) ELSE c.before[c.dst]
    BY ZenonT(30), <1>1, PfPlaces
<1>2. /\ g \in Nat /\ n > 0 /\ h \in n .. n + 1 /\ l > h /\ m = n + h + 1 /\ g > n /\ m \in Nat /\ Len(c.temp) > Len(c.keys)
      /\ r = Requests(c)[g + 1] /\ PfKeys(c, v, g) /\ Callable(c) /\ c.temp \in Seq(Key)
      /\ Last(c.temp) = c.temp[l]
    BY SMTT(30), <1>1, PfWriteContext, PfContext
<1> SUFFICES ASSUME g = m + 1 PROVE ~LeavesEarly(c, r.op, x) /\ PfmergeSome(a, w)
    OBVIOUS
<1>3. r = Ask("GET", c.temp[l]) /\ r.op = "GET" /\ l \in 1 .. l
    <2>1. Requests(c)[n + h + 3] = Ask("GET", Last(c.temp))
        BY <1>1, <1>2, PfmergeShape
    <2>2. g + 1 = n + h + 3 /\ l \in 1 .. l
        BY <1>2
    <2>3. r = Ask("GET", c.temp[l])
        BY <1>2, <2>1, <2>2
    <2> QED  BY <2>2, <2>3 DEF Ask
<1>4. v[c.temp[l]] = PfMerged(c)
    <2>1. m < g /\ g < m + 4
        BY <1>2
    <2>2. PfTemp(c, g, l) = PfMerged(c)
        BY <1>p, <2>1
    <2> QED  BY <1>1, <1>2, <1>3, <2>2 DEF PfKeys
<1>5. x = Datum("string", PfAll(c)) /\ w = v
    <2>1. Fits(v[c.temp[l]], "string") /\ Plain(v[c.temp[l]]) = Datum("string", PfAll(c))
        BY <1>4 DEF Fits, Plain, PfMerged, Entry
    <2> QED  BY <1>3, <2>1, GetIs
<1>6. ~LeavesEarly(c, r.op, x)
    BY <1>3, <1>5, EarlyIs, Distinct
<1>7. ASSUME NEW j \in 1 .. l PROVE PfTemp(c, g + 1, j) = PfTemp(c, g, j)
    <2>0. g = m + 1 /\ m \in Nat /\ j \in Nat
        BY <1>2
    <2>1. g + 1 < m + 4 + j /\ g < m + 4 + j /\ m < g /\ m < g + 1 /\ g < m + 4 /\ g + 1 < m + 4
        BY ONLY <2>0
    <2>2. j <= h => (n + 1 + j <= g + 1 /\ n + 1 + j <= g)
        BY <1>2
    <2> QED  BY <1>p, <2>1, <2>2
<1>8. PfDst(c, g + 1) = PfDst(c, g)
    <2>1. ~(g + 1 >= m + 3) /\ ~(g >= m + 3)
        BY <1>2
    <2> QED  BY <1>p, <2>1
<1>9. PfKeys(c, w, g + 1)
    BY <1>1, <1>2, <1>5, <1>7, <1>8 DEF PfKeys
<1>10. PfmergeSome(a, w)
    BY <1>1, <1>2, <1>5, <1>9, PfKeeps
<1> QED  BY <1>6, <1>10

LEMMA PfStores ==
    ASSUME NEW p \in Client, NEW c, Going(p, c), c.cmd = "pfmerge", NEW v, PfmergeSome(c, v),
           Len(c.got) > Len(c.keys), NEW g, g = Len(c.got), NEW m, m = PfMid(c),
           NEW r, r = NextRequest(c), NEW x, x = Reply(v, r), NEW w, w = Leaves(v, r), NEW a, Goes(c, x, a)
    PROVE  g = m + 2 => ~LeavesEarly(c, r.op, x) /\ PfmergeSome(a, w)
<1>1. PICK n \in Nat, h \in Nat, l \in Nat : n = Len(c.keys) /\ h = Merged(c) /\ l = Len(c.temp)
    <2>1. Len(c.keys) \in Nat /\ Merged(c) \in Nat /\ Len(c.temp) \in Nat
        BY PfWriteContext
    <2> QED  BY <2>1
<1>p. /\ \A b, j : PfTemp(c, b, j) =
             IF j = l THEN IF m < b /\ b < m + 4 THEN PfMerged(c) ELSE Missing
             ELSE IF j <= h /\ n + 1 + j <= b /\ b < m + 4 + j THEN PfObject(c, j) ELSE Missing
      /\ \A b : PfDst(c, b) = IF b >= m + 3 THEN PfMerged(c) ELSE c.before[c.dst]
    BY ZenonT(30), <1>1, PfPlaces
<1>2. /\ g \in Nat /\ n > 0 /\ h \in n .. n + 1 /\ l > h /\ m = n + h + 1 /\ g > n /\ m \in Nat /\ Len(c.temp) > Len(c.keys)
      /\ r = Requests(c)[g + 1] /\ PfKeys(c, v, g) /\ Callable(c) /\ c.temp \in Seq(Key) /\ Sequence(c.got)
      /\ (g >= m + 2 => c.got[m + 2] = Datum("string", PfAll(c)))
      /\ c.dst \in MyKeys(c) /\ DOMAIN c.before = MyKeys(c) /\ c.dst \notin Range(c.temp)
      /\ \A j \in 1 .. l : c.temp[j] \in MyKeys(c) /\ c.temp[j] # c.dst
    <2>1. Sequence(c.got)
        BY DEF Going, Busy, Replied
    <2>2. /\ c.dst \in MyKeys(c) /\ DOMAIN c.before = MyKeys(c) /\ c.dst \notin Range(c.temp)
          /\ Callable(c) /\ c.temp \in Seq(Key) /\ Len(c.temp) > Len(c.keys)
          /\ \A j \in 1 .. l : c.temp[j] \in MyKeys(c) /\ c.temp[j] # c.dst
        BY <1>1, PfContext
    <2>3. /\ g \in Nat /\ n > 0 /\ h \in n .. n + 1 /\ l > h /\ m = n + h + 1 /\ g > n /\ m \in Nat
          /\ r = Requests(c)[g + 1] /\ PfKeys(c, v, g)
          /\ (g >= m + 2 => c.got[m + 2] = Datum("string", PfAll(c)))
        BY SMTT(30), <1>1, PfWriteContext
    <2> QED  BY <2>1, <2>2, <2>3
<1> SUFFICES ASSUME g = m + 2 PROVE ~LeavesEarly(c, r.op, x) /\ PfmergeSome(a, w)
    OBVIOUS
<1> DEFINE y == Datum("string", PfAll(c))
<1>3. r = Put("SET", c.dst, y) /\ r.op = "SET"
    <2>1. Requests(c)[n + h + 4] = Put("SET", c.dst, Got(c, n + h + 3))
        BY <1>1, <1>2, PfmergeShape
    <2>2. g + 1 = n + h + 4 /\ n + h + 3 = m + 2 /\ m + 2 \in 1 .. g /\ m + 2 = g
        BY <1>2
    <2>3. Got(c, m + 2) = y
        <3>1. m + 2 \in 1 .. Len(c.got) /\ Sequence(c.got) /\ c.got[m + 2] = y
            BY <1>2, <2>2
        <3> QED  BY <3>1, GotIs
    <2>4. r = Put("SET", c.dst, y)
        BY <1>2, <2>1, <2>2, <2>3
    <2> QED  BY <2>4 DEF Put
<1>4. y # None /\ Entry("string", y.items, FALSE) = PfMerged(c)
    BY DEF Datum, None, PfMerged
<1> HIDE DEF y
<1>5. x = Num(1) /\ w = [v EXCEPT ![c.dst] = PfMerged(c)]
    <2>1. /\ Reply(v, Put("SET", c.dst, y)) = Num(1)
          /\ Leaves(v, Put("SET", c.dst, y)) = [v EXCEPT ![c.dst] = Entry("string", y.items, FALSE)]
        BY ONLY <1>4, SetIs
    <2> QED  BY <1>3, <1>4, <2>1
<1>6. ~LeavesEarly(c, r.op, x)
    BY <1>3, <1>5, EarlyIs, Distinct
<1>7. ASSUME NEW j \in 1 .. l PROVE PfTemp(c, g + 1, j) = PfTemp(c, g, j)
    <2>0. g = m + 2 /\ m \in Nat /\ j \in Nat
        BY <1>2
    <2>1. g + 1 < m + 4 + j /\ g < m + 4 + j /\ m < g /\ m < g + 1 /\ g < m + 4 /\ g + 1 < m + 4
        BY ONLY <2>0
    <2>2. j <= h => (n + 1 + j <= g + 1 /\ n + 1 + j <= g)
        BY <1>2
    <2> QED  BY <1>p, <2>1, <2>2
<1>8. PfDst(c, g + 1) = PfMerged(c)
    <2>1. g + 1 >= m + 3
        BY <1>2
    <2> QED  BY <1>p, <2>1
<1>9. PfKeys(c, w, g + 1)
    <2>1. Alike(v, c.before)
        BY <1>2 DEF PfKeys
    <2>2. DOMAIN v = MyKeys(c) /\ Function(v)
        BY <1>2, <2>1 DEF Alike
    <2>3. DOMAIN w = MyKeys(c) /\ w[c.dst] = PfMerged(c) /\ \A k \in MyKeys(c) : k # c.dst => w[k] = v[k]
        BY <1>2, <1>5, <2>2
    <2>4. Function(w)
        BY <1>5, <2>2 DEF Function
    <2>5. Alike(w, c.before)
        BY <1>2, <2>3, <2>4 DEF Alike
    <2>6. \A k \in MyKeys(c) : k # c.dst /\ k \notin Range(c.temp) => w[k] = c.before[k]
        BY <1>2, <2>3 DEF PfKeys
    <2>7. ASSUME NEW j \in 1 .. l PROVE w[c.temp[j]] = PfTemp(c, g + 1, j)
        <3>1. w[c.temp[j]] = v[c.temp[j]]
            BY <1>2, <2>3
        <3> QED  BY <1>1, <1>2, <1>7, <3>1 DEF PfKeys
    <2> QED  BY <1>1, <1>8, <2>3, <2>5, <2>6, <2>7 DEF PfKeys
<1>10. g # m + 1
    BY <1>2
<1>11. PfmergeSome(a, w)
    BY <1>1, <1>2, <1>9, <1>10, PfKeeps
<1> QED  BY <1>6, <1>11

LEMMA PfClears ==
    ASSUME NEW p \in Client, NEW c, Going(p, c), c.cmd = "pfmerge", NEW v, PfmergeSome(c, v),
           Len(c.got) > Len(c.keys), NEW g, g = Len(c.got), NEW m, m = PfMid(c),
           NEW r, r = NextRequest(c), NEW x, x = Reply(v, r), NEW w, w = Leaves(v, r), NEW a, Goes(c, x, a)
    PROVE  g > m + 2 => ~LeavesEarly(c, r.op, x) /\ PfmergeSome(a, w)
<1>1. PICK n \in Nat, h \in Nat, l \in Nat : n = Len(c.keys) /\ h = Merged(c) /\ l = Len(c.temp)
    <2>1. Len(c.keys) \in Nat /\ Merged(c) \in Nat /\ Len(c.temp) \in Nat
        BY PfWriteContext
    <2> QED  BY <2>1
<1>p. /\ \A b, j : PfTemp(c, b, j) =
             IF j = l THEN IF m < b /\ b < m + 4 THEN PfMerged(c) ELSE Missing
             ELSE IF j <= h /\ n + 1 + j <= b /\ b < m + 4 + j THEN PfObject(c, j) ELSE Missing
      /\ \A b : PfDst(c, b) = IF b >= m + 3 THEN PfMerged(c) ELSE c.before[c.dst]
    BY ZenonT(30), <1>1, PfPlaces
<1>2. /\ g \in Nat /\ n > 0 /\ h \in n .. n + 1 /\ l > h /\ m = n + h + 1 /\ g > n /\ m \in Nat /\ Len(c.temp) > Len(c.keys)
      /\ r = Requests(c)[g + 1] /\ PfKeys(c, v, g) /\ Callable(c) /\ c.temp \in Seq(Key)
      /\ Last(c.temp) = c.temp[l] /\ g < m + 4 + h
    BY SMTT(30), <1>1, PfWriteContext, PfContext
<1> SUFFICES ASSUME g > m + 2 PROVE ~LeavesEarly(c, r.op, x) /\ PfmergeSome(a, w)
    OBVIOUS
<1>3. PICK i \in 0 .. h : g = m + 3 + i
    <2>0. g \in Nat /\ m \in Nat /\ g < m + 4 + h /\ g > m + 2
        BY <1>2
    <2>1. g - m - 3 \in 0 .. h /\ g = m + 3 + (g - m - 3)
        BY <2>0
    <2> QED  BY <2>1
<1>a. g \in Nat /\ m \in Nat /\ m = n + h + 1 /\ g = m + 3 + i /\ n \in Nat /\ h \in Nat /\ i \in Nat /\ h >= n /\ g > m + 2
    BY <1>2, <1>3
<1> DEFINE j == IF i = 0 THEN l ELSE i
<1>4. j \in 1 .. l /\ (i = 0 => j = l) /\ (i # 0 => j = i /\ i \in 1 .. h /\ j # l)
    BY <1>2
<1>5. r = Ask("DEL", c.temp[j]) /\ r.op = "DEL"
    <2>1. /\ Requests(c)[n + h + 5] = Ask("DEL", Last(c.temp))
          /\ \A b \in 1 .. h : Requests(c)[n + h + 5 + b] = Ask("DEL", c.temp[b])
        BY <1>1, <1>2, PfmergeShape
    <2>2. g + 1 = n + h + 5 + i /\ (i = 0 => g + 1 = n + h + 5)
        BY ONLY <1>a
    <2>3. r = Ask("DEL", c.temp[j])
        <3>1. CASE i = 0
            BY <1>2, <1>4, <2>1, <2>2, <3>1
        <3>2. CASE i # 0
            BY <1>2, <1>4, <2>1, <2>2, <3>2
        <3> QED  BY <3>1, <3>2
    <2> QED  BY <2>3 DEF Ask
<1> HIDE DEF j
<1>6. w = [v EXCEPT ![c.temp[j]] = Missing] /\ x # Error
    <2>1. /\ Reply(v, Ask("DEL", c.temp[j])) \in {Num(0), Num(1)}
          /\ Leaves(v, Ask("DEL", c.temp[j])) = [v EXCEPT ![c.temp[j]] = Missing]
        BY DelIs
    <2> QED  BY <1>5, <2>1, Distinct
<1>7. ~LeavesEarly(c, r.op, x)
    BY <1>5, <1>6, EarlyIs DEF NothingToStore
<1>8. PfTemp(c, g + 1, j) = Missing
    <2>1. CASE i = 0
        <3>1. ~(g + 1 < m + 4)
            BY <1>2, <1>3, <2>1
        <3> QED  BY <1>p, <1>4, <2>1, <3>1
    <2>2. CASE i # 0
        <3>1. ~(g + 1 < m + 4 + j)
            BY <1>2, <1>3, <1>4, <2>2
        <3> QED  BY <1>p, <1>4, <2>2, <3>1
    <2> QED  BY <2>1, <2>2
<1>9. ASSUME NEW b \in 1 .. l, b # j PROVE PfTemp(c, g + 1, b) = PfTemp(c, g, b)
    <2>1. CASE b = l
        <3>1. i # 0
            BY <1>4, <1>9, <2>1
        <3>2. ~(g + 1 < m + 4) /\ ~(g < m + 4)
            BY ONLY <1>a, <3>1
        <3> QED  BY <1>p, <2>1, <3>2
    <2>2. CASE b # l
        <3>1. b # i
            BY <1>4, <1>9
        <3>2. g + 1 < m + 4 + b <=> g < m + 4 + b
            <4>1. b \in Nat
                OBVIOUS
            <4> QED  BY ONLY <1>a, <3>1, <4>1
        <3>3. b <= h => (n + 1 + b <= g + 1 /\ n + 1 + b <= g)
            BY <1>2, <1>3
        <3> QED  BY <1>p, <2>2, <3>2, <3>3
    <2> QED  BY <2>1, <2>2
<1>10. PfDst(c, g + 1) = PfDst(c, g)
    <2>1. g + 1 >= m + 3 /\ g >= m + 3
        BY ONLY <1>a
    <2> QED  BY <1>p, <2>1
<1>11. PfKeys(c, w, g + 1)
    <2>1. w = With(v, c.temp[j], PfTemp(c, g + 1, j))
        BY <1>6, <1>8 DEF With
    <2>2. PfOthers(c, g, j)
        BY <1>1, <1>9, <1>10 DEF PfOthers
    <2> QED  BY <1>1, <1>2, <1>4, <2>1, <2>2, PfWritten
<1>12. g # m + 1
    BY <1>2
<1>13. PfmergeSome(a, w)
    BY <1>1, <1>2, <1>11, <1>12, PfKeeps
<1> QED  BY <1>7, <1>13

LEMMA PfmergeGoes ==
    ASSUME NEW p \in Client, NEW c, Going(p, c), c.cmd = "pfmerge", NEW v, PfmergeSome(c, v),
           NEW r, r = NextRequest(c), NEW x, x = Reply(v, r), NEW w, w = Leaves(v, r), NEW a, Goes(c, x, a)
    PROVE  /\ LeavesEarly(c, r.op, x) => <<EarlyResult(r.op, x), w>> = Native(c, c.before)
           /\ ~LeavesEarly(c, r.op, x) => PfmergeSome(a, w)
<1>1. Len(c.got) \in Nat /\ Len(c.keys) \in Nat
    BY PfContext
<1>2. CASE Len(c.got) <= Len(c.keys)
    BY <1>2, PfReads
<1>3. CASE Len(c.got) > Len(c.keys)
    <2>1. Merged(c) \in Len(c.keys) .. Len(c.keys) + 1 /\ PfMid(c) = Len(c.keys) + Merged(c) + 1
        BY <1>3, PfWriteContext
    <2> DEFINE g == Len(c.got)
               m == PfMid(c)
    <2>2. g \in Nat /\ m \in Nat
        BY <1>1, <2>1
    <2> HIDE DEF g, m
    <2>3. g < m \/ g = m \/ g = m + 1 \/ g = m + 2 \/ g > m + 2
        BY <2>2
    <2>4. g < m => ~LeavesEarly(c, r.op, x) /\ PfmergeSome(a, w)
        BY <1>3, PfSets DEF g, m
    <2>5. g = m => ~LeavesEarly(c, r.op, x) /\ PfmergeSome(a, w)
        BY <1>3, PfMerges DEF g, m
    <2>6. g = m + 1 => ~LeavesEarly(c, r.op, x) /\ PfmergeSome(a, w)
        BY <1>3, PfFetches DEF g, m
    <2>7. g = m + 2 => ~LeavesEarly(c, r.op, x) /\ PfmergeSome(a, w)
        BY <1>3, PfStores DEF g, m
    <2>8. g > m + 2 => ~LeavesEarly(c, r.op, x) /\ PfmergeSome(a, w)
        BY <1>3, PfClears DEF g, m
    <2> QED  BY <2>3, <2>4, <2>5, <2>6, <2>7, <2>8
<1> QED  BY <1>1, <1>2, <1>3

LEMMA PfmergeEnd ==
    ASSUME NEW p \in Client, NEW c, Going(p, c), c.cmd = "pfmerge", NEW a, Same(a, c), a.before = c.before,
           Callable(a), Sequence(a.got), NEW w, PfmergeSome(a, w), Len(a.got) = Len(Requests(a))
    PROVE  <<Result(a), w>> = Native(c, c.before)
<1>1. /\ Callable(c) /\ Function(c.before) /\ DOMAIN c.before = MyKeys(c) /\ c.temp \in Seq(Key)
      /\ Len(c.temp) > Len(c.keys) /\ c.dst \in MyKeys(c) /\ c.dst \notin Range(c.temp)
      /\ DOMAIN c.temp = 1 .. Len(c.temp) /\ Len(c.temp) \in Nat /\ Len(c.keys) \in Nat
      /\ \A j \in 1 .. Len(c.temp) : c.before[c.temp[j]] = Missing
    BY PfContext
<1>2. a.cmd = c.cmd /\ a.keys = c.keys /\ a.dst = c.dst /\ a.temp = c.temp
    BY DEF Same
<1>3. /\ Len(a.got) = Len(c.keys) + 5 + 2 * Merged(a) /\ Merged(a) \in Len(c.keys) .. Len(c.keys) + 1
    BY <1>1, <1>2, PfmergeShape
<1>4. PICK n \in Nat, h \in Nat, l \in Nat, g \in Nat, m \in Nat :
          /\ n = Len(c.keys) /\ h = Merged(a) /\ l = Len(c.temp) /\ g = Len(a.got) /\ m = n + h + 1
          /\ g = n + 5 + 2 * h /\ g = m + 4 + h
    <2> DEFINE n == Len(c.keys)
               h == Merged(a)
    <2>1. n \in Nat /\ h \in Nat /\ Len(a.got) = n + 5 + 2 * h
        BY <1>1, <1>3
    <2> HIDE DEF n, h
    <2>2. n + h + 1 \in Nat /\ Len(a.got) \in Nat /\ Len(a.got) = (n + h + 1) + 4 + h
        BY <2>1
    <2> QED  BY <1>1, <2>1, <2>2 DEF n, h
<1>5. /\ m = PfMid(a)
      /\ \A b, j : PfTemp(a, b, j) =
             IF j = l THEN IF m < b /\ b < m + 4 THEN PfMerged(a) ELSE Missing
             ELSE IF j <= h /\ n + 1 + j <= b /\ b < m + 4 + j THEN PfObject(a, j) ELSE Missing
      /\ \A b : PfDst(a, b) = IF b >= m + 3 THEN PfMerged(a) ELSE a.before[a.dst]
    <2>1. n = Len(a.keys) /\ h = Merged(a) /\ l = Len(a.temp) /\ m = PfMid(a)
        BY <1>2, <1>4 DEF PfMid
    <2> QED  BY ONLY ZenonT(30), <2>1, PfPlaces
<1>6. g > n /\ g >= m + 3
    <2>1. n \in Nat /\ h \in Nat /\ m \in Nat /\ m = n + h + 1 /\ g = m + 4 + h
        BY <1>4
    <2> QED  BY ONLY <2>1
<1>7. PfKeys(a, w, g) /\ \A i \in 1 .. n + 1 : i <= g => PfRead(a, i)
    BY <1>2, <1>4, <1>6 DEF PfmergeSome
<1>8. ASSUME NEW j \in 1 .. l PROVE PfTemp(a, g, j) = Missing
    <2>1. j \in Nat /\ m \in Nat /\ h \in Nat /\ g = m + 4 + h
        BY <1>4
    <2>2. ~(g < m + 4) /\ (j <= h => ~(g < m + 4 + j))
        BY ONLY <2>1
    <2> QED  BY <1>5, <2>2
<1>9. PfDst(a, g) = PfMerged(a)
    BY <1>5, <1>6
<1>10. MyKeys(a) = MyKeys(c) /\ PfMerged(a) = PfMerged(c) /\ \A i : PfKey(a, i) = PfKey(c, i)
    BY PfSame
<1>11. Alike(w, c.before) /\ w[c.dst] = PfMerged(c)
    BY <1>2, <1>7, <1>9, <1>10 DEF PfKeys
<1>12. \A k \in MyKeys(c) : k # c.dst => w[k] = c.before[k]
    <2> SUFFICES ASSUME NEW k \in MyKeys(c), k # c.dst PROVE w[k] = c.before[k]
        OBVIOUS
    <2>1. CASE k \in Range(c.temp)
        <3>1. PICK j \in 1 .. l : c.temp[j] = k
            BY <1>1, <1>4, <2>1 DEF Range
        <3>2. w[k] = PfTemp(a, g, j)
            BY <1>2, <1>4, <1>7, <3>1 DEF PfKeys
        <3> QED  BY <1>1, <1>4, <1>8, <3>1, <3>2
    <2>2. CASE k \notin Range(c.temp)
        BY <1>2, <1>7, <1>10, <2>2 DEF PfKeys
    <2> QED  BY <2>1, <2>2
<1>13. \A k \in Range(c.keys) \cup {c.dst} : Fits(c.before[k], "string")
    <2>1. \A i \in 1 .. n + 1 : Fits(c.before[PfKey(c, i)], "string")
        <3>1. \A i \in 1 .. n + 1 : i <= g
            BY <1>4
        <3> QED  BY <1>7, <1>10, <3>1 DEF PfRead
    <2>2. ASSUME NEW k \in Range(c.keys) PROVE Fits(c.before[k], "string")
        <3>1. PICK i \in 1 .. n : c.keys[i] = k
            BY <1>1, <1>4, KeysIs
        <3>2. PfKey(c, i) = k /\ i \in 1 .. n + 1
            BY <1>4, <3>1 DEF PfKey
        <3> QED  BY <2>1, <3>2
    <2>3. PfKey(c, n + 1) = c.dst /\ n + 1 \in 1 .. n + 1
        <3>1. ~(n + 1 <= n) /\ n + 1 \in 1 .. n + 1
            OBVIOUS
        <3> QED  BY <1>4, <3>1 DEF PfKey
    <2>4. Fits(c.before[c.dst], "string")
        BY <2>1, <2>3
    <2> QED  BY <2>2, <2>4
<1>14. w[c.dst] = Entry("string", UNION {c.before[k].items : k \in Range(c.keys) \cup {c.dst}}, FALSE)
    BY <1>11 DEF PfMerged, PfAll
<1>15. AllMerged(c, c.before, w)
    BY <1>1, <1>11, <1>12, <1>13, <1>14 DEF AllMerged
<1>16. Native(c, c.before) = <<Num(1), w>>
    BY <1>1, <1>15, NativePfmerge
<1>17. Result(a) = Num(1)
    BY <1>2 DEF Result, Moving
<1> QED  BY <1>16, <1>17

(* The next request is about the keys of the call. *)
LEMMA AskWithin ==
    ASSUME NEW keys, NEW k \in keys
    PROVE  /\ \A op \in Op \ {"RENAME", "PFMERGE"} : Within(Ask(op, k), keys) /\ \A v : Within(Put(op, k, v), keys)
           /\ \A j \in keys : Within(Put("RENAME", k, j), keys)
           /\ \A s : Range(s) \subseteq keys => Within(Put("PFMERGE", k, s), keys)
<1>1. \A op, j : Ask(op, j).op = op /\ Ask(op, j).key = j
    BY DEF Ask
<1>2. \A op, j, v : Put(op, j, v).op = op /\ Put(op, j, v).key = j /\ Put(op, j, v).arg = v
    BY DEF Put
<1> QED  BY <1>1, <1>2 DEF Within

LEMMA NextIsWithin ==
    ASSUME NEW p \in Client, NEW c, Busy(p, c)
    PROVE  Within(NextRequest(c), MyKeys(c))
<1> DEFINE g == Len(c.got)
           n == Len(c.keys)
           r == NextRequest(c)
           q == Requests(c)
           keys == MyKeys(c)
<1>1. Callable(c) /\ Sequence(c.got) /\ g \in Nat /\ g < Len(q) /\ r = q[g + 1]
    BY GotIs DEF Busy, Replied, NextRequest
<1>2. n \in Nat /\ (\A i \in 1 .. n : c.keys[i] \in keys) /\ Src(c) \in keys /\ c.dst \in keys
    <2>1. Range(c.keys) \subseteq keys /\ c.dst \in keys
        BY DEF MyKeys
    <2>2. n \in Nat /\ (\A i \in 1 .. n : c.keys[i] \in Range(c.keys)) /\ 1 \in 1 .. n /\ Src(c) = c.keys[1]
        BY SMTT(30), <1>1, KeysIs
    <2> QED  BY <2>1, <2>2
<1>3. \A k \in keys : \A op \in {"GET", "DEL", "SMEMBERS", "EXISTS", "DUMP", "PTTL", "RPOP", "BRPOP"} : Within(Ask(op, k), keys)
    BY AskWithin DEF Op
<1>4. \A k \in keys : \A op \in {"SET", "SADD", "SREM", "LPUSH", "RESTORE"} : \A v : Within(Put(op, k, v), keys)
    BY AskWithin DEF Op
<1>5. c.cmd \in Command
    BY <1>1 DEF Callable
<1> HIDE DEF g, n, r, q, keys
<1>6. CASE c.cmd \in Reading
    <2>1. g + 1 \in 1 .. n /\ r = Ask(ReadOp(c.cmd), c.keys[g + 1])
        BY <1>1, <1>2, <1>6, ReadingShape DEF n, q
    <2>2. ReadOp(c.cmd) \in {"GET", "DEL", "SMEMBERS"}
        BY DEF ReadOp
    <2> QED  BY <1>2, <1>3, <2>1, <2>2 DEF r, keys
<1>7. CASE c.cmd = "mset"
    <2>1. g + 1 \in 1 .. n /\ r = Put("SET", c.keys[g + 1], c.arg[g + 1])
        BY <1>1, <1>2, <1>7, MsetShape DEF n, q
    <2> QED  BY <1>2, <1>4, <2>1 DEF r, keys
<1>8. CASE c.cmd = "msetnx"
    <2>1. /\ Len(q) = 2 * n
          /\ \A i \in 1 .. n : q[i] = Ask("GET", c.keys[i])
          /\ \A i \in 1 .. n : q[n + i] = Put("SET", c.keys[i], c.arg[i])
        BY <1>1, <1>8, MsetnxShape DEF n, q
    <2>2. CASE g < n
        <3>1. g + 1 \in 1 .. n
            BY <1>1, <1>2, <2>2
        <3> QED  BY <1>1, <1>2, <1>3, <2>1, <3>1 DEF r, keys
    <2>3. CASE g >= n
        <3>1. PICK i \in 1 .. n : n + i = g + 1
            <4>1. g + 1 - n \in 1 .. n /\ n + (g + 1 - n) = g + 1
                BY <1>1, <1>2, <2>1, <2>3
            <4> QED  BY <4>1
        <3> QED  BY <1>1, <1>2, <1>4, <2>1, <3>1 DEF r, keys
    <2> QED  BY <1>1, <1>2, <2>2, <2>3
<1>9. CASE c.cmd \in StoreCmd
    <2>1. /\ Len(q) = n + 2
          /\ \A i \in 1 .. n : q[i] = Ask("SMEMBERS", c.keys[i])
          /\ q[n + 1] = Ask("DEL", c.dst)
          /\ q[n + 2] = Put("SADD", c.dst, Datum("set", res(c)))
        BY <1>1, <1>9, StoreShape DEF n, q, StoreCmd
    <2>2. g + 1 \in 1 .. n \/ g + 1 = n + 1 \/ g + 1 = n + 2
        BY <1>1, <1>2, <2>1
    <2>3. CASE g + 1 \in 1 .. n
        BY <1>1, <1>2, <1>3, <2>1, <2>3 DEF r, keys
    <2>4. CASE g + 1 = n + 1
        BY <1>1, <1>2, <1>3, <2>1, <2>4 DEF r, keys
    <2>5. CASE g + 1 = n + 2
        BY <1>1, <1>2, <1>4, <2>1, <2>5 DEF r, keys
    <2> QED  BY <2>2, <2>3, <2>4, <2>5
<1>10. CASE c.cmd \in {"rename", "renamenx"}
    <2> DEFINE o == Offset(c)
    <2>0. /\ o \in {0, 1} /\ (o = 1 <=> c.cmd = "renamenx")
          /\ Len(q) = o + (IF Near(c) THEN 1 ELSE 5)
          /\ o = 1 => q[1] = Ask("EXISTS", c.dst)
          /\ Near(c) => q[o + 1] = Put("RENAME", Src(c), c.dst)
          /\ ~Near(c) => /\ q[o + 1] = Ask("DUMP", Src(c))
                         /\ q[o + 2] = Ask("PTTL", Src(c))
                         /\ q[o + 3] = Ask("DEL", c.dst)
                         /\ q[o + 4] = Put("RESTORE", c.dst, Restored(c, o))
                         /\ q[o + 5] = Ask("DEL", Src(c))
        BY <1>1, <1>10, RenameShape DEF Offset, q
    <2> HIDE DEF o
    <2>1. CASE g < o
        <3>1. g + 1 = 1 /\ o = 1
            BY <1>1, <2>0, <2>1
        <3> QED  BY <1>1, <1>2, <1>3, <2>0, <3>1 DEF r, keys
    <2>2. CASE g >= o /\ Near(c)
        <3>1. g = o
            BY <1>1, <2>0, <2>2
        <3>2. r = Put("RENAME", Src(c), c.dst)
            BY <1>1, <2>0, <2>2, <3>1
        <3> QED  BY <1>2, <3>2, AskWithin DEF r, keys
    <2>3. CASE g >= o /\ ~Near(c)
        <3>1. g + 1 \in {o + 1, o + 2, o + 3, o + 4, o + 5}
            BY <1>1, <2>0, <2>3
        <3>2. r \in {Ask("DUMP", Src(c)), Ask("PTTL", Src(c)), Ask("DEL", c.dst),
                     Put("RESTORE", c.dst, Restored(c, o)), Ask("DEL", Src(c))}
            BY <1>1, <2>0, <2>3, <3>1
        <3> QED  BY <1>2, <1>3, <1>4, <3>2 DEF r, keys
    <2> QED  BY <1>1, <2>0, <2>1, <2>2, <2>3
<1>11. CASE c.cmd \in Moving
    <2>1. /\ Len(q) = 2
          /\ c.cmd = "rpoplpush" => q[1] = Ask("RPOP", Src(c)) /\ q[2] = Put("LPUSH", c.dst, Got(c, 1))
          /\ c.cmd = "brpoplpush" => q[1] = Ask("BRPOP", Src(c)) /\ q[2] = Put("LPUSH", c.dst, Got(c, 1))
          /\ c.cmd = "smove" => q[1] = Put("SREM", Src(c), c.arg[1]) /\ q[2] = Put("SADD", c.dst, c.arg[1])
        BY <1>1, <1>11, MoveShape DEF q
    <2>2. g + 1 \in {1, 2}
        BY <1>1, <2>1
    <2>3. r \in {Ask("RPOP", Src(c)), Ask("BRPOP", Src(c)), Put("SREM", Src(c), c.arg[1]),
                 Put("LPUSH", c.dst, Got(c, 1)), Put("SADD", c.dst, c.arg[1])}
        BY <1>1, <1>11, <2>1, <2>2 DEF Moving
    <2> QED  BY <1>2, <1>3, <1>4, <2>3 DEF r, keys
<1>12. CASE c.cmd = "pfmerge"
    <2>t. c.temp \in Seq(Key) /\ Len(c.temp) > Len(c.keys)
        BY <1>12, TempIs
    <2> DEFINE h == Merged(c)
               l == Len(c.temp)
    <2>0. /\ h \in n .. n + 1 /\ Len(q) = n + 5 + 2 * h
          /\ \A i \in 1 .. n : q[i] = Ask("GET", c.keys[i])
          /\ q[n + 1] = Ask("GET", c.dst)
          /\ \A i \in 1 .. h : q[n + 1 + i] = Put("SET", c.temp[i], Got(c, i))
          /\ q[n + h + 2] = Put("PFMERGE", Last(c.temp), all_k(c))
          /\ q[n + h + 3] = Ask("GET", Last(c.temp))
          /\ q[n + h + 4] = Put("SET", c.dst, Got(c, n + h + 3))
          /\ q[n + h + 5] = Ask("DEL", Last(c.temp))
          /\ \A i \in 1 .. h : q[n + h + 5 + i] = Ask("DEL", c.temp[i])
          /\ \A i \in 1 .. h : all_k(c)[i] = c.temp[i]
          /\ Sequence(all_k(c)) /\ Len(all_k(c)) = h
        BY <1>1, <1>12, <2>t, PfmergeShape DEF n, q
    <2>1. l \in Nat /\ l > n /\ \A i \in 1 .. l : c.temp[i] \in keys
        <3>1. l \in Nat /\ DOMAIN c.temp = 1 .. l
            BY <2>t
        <3>2. \A i \in 1 .. l : c.temp[i] \in Range(c.temp)
            BY <3>1 DEF Range
        <3> QED  BY <2>t, <3>1, <3>2 DEF MyKeys, keys, n
    <2>m. l > n + 1
        BY <1>1, <1>12, <2>t, TempIs DEF Callable, n
    <2>2. Last(c.temp) \in keys
        <3>1. Last(c.temp) = c.temp[l] /\ l \in 1 .. l
            BY <1>2, <2>1 DEF Last
        <3> QED  BY <2>1, <3>1
    <2> HIDE DEF h, l
    <2>3. h \in Nat /\ \A i \in 1 .. h : i \in 1 .. l /\ c.temp[i] \in keys
        BY <1>2, <2>0, <2>1, <2>m
    <2>4. Range(all_k(c)) \subseteq keys
        <3>1. DOMAIN all_k(c) = 1 .. h
            BY <2>0 DEF Sequence
        <3> QED  BY <2>0, <2>3, <3>1 DEF Range
    <2>a. g \in Nat /\ n \in Nat /\ h \in Nat /\ g < n + 5 + 2 * h
        BY <1>1, <1>2, <2>0, <2>3
    <2>5. \/ g + 1 \in 1 .. n \/ g + 1 = n + 1 \/ g - n \in 1 .. h \/ g + 1 = n + h + 2 \/ g + 1 = n + h + 3
          \/ g + 1 = n + h + 4 \/ g + 1 = n + h + 5 \/ g - n - h - 4 \in 1 .. h
        BY ONLY <2>a
    <2>6. CASE g + 1 \in 1 .. n
        BY <1>1, <1>2, <1>3, <2>0, <2>6 DEF r, keys
    <2>7. CASE g + 1 = n + 1
        BY <1>1, <1>2, <1>3, <2>0, <2>7 DEF r, keys
    <2>8. CASE g - n \in 1 .. h
        <3>1. PICK i \in 1 .. h : i = g - n
            BY <2>8
        <3>2. n + 1 + i = g + 1
            BY <2>a, <3>1
        <3> QED  BY <1>1, <1>4, <2>0, <2>3, <3>2 DEF r, keys
    <2>9. CASE g + 1 = n + h + 2
        <3>1. r = Put("PFMERGE", Last(c.temp), all_k(c))
            BY <1>1, <2>0, <2>9
        <3> QED  BY <2>2, <2>4, <3>1, AskWithin DEF r, keys
    <2>10. CASE g + 1 = n + h + 3
        BY <1>1, <1>3, <2>0, <2>2, <2>10 DEF r, keys
    <2>11. CASE g + 1 = n + h + 4
        <3>1. r = Put("SET", c.dst, Got(c, n + h + 3))
            BY <1>1, <2>0, <2>11
        <3> QED  BY <1>2, <1>4, <3>1 DEF r, keys
    <2>12. CASE g + 1 = n + h + 5
        BY <1>1, <1>3, <2>0, <2>2, <2>12 DEF r, keys
    <2>13. CASE g - n - h - 4 \in 1 .. h
        <3>1. PICK i \in 1 .. h : i = g - n - h - 4
            BY <2>13
        <3>2. n + h + 5 + i = g + 1
            BY <2>a, <3>1
        <3> QED  BY <1>1, <1>3, <2>0, <2>3, <3>2 DEF r, keys
    <2> QED  BY <2>5, <2>6, <2>7, <2>8, <2>9, <2>10, <2>11, <2>12, <2>13
<1> QED  BY <1>5, <1>6, <1>7, <1>8, <1>9, <1>10, <1>11, <1>12 DEF Command, Reading, Moving, StoreCmd

(* What a method has done to its keys, whose values are v, by the replies  *)
(* it has got, when nobody has disturbed it.                               *)
Progress(c, v) ==
    /\ c.cmd \in Gets => ReadSome(c, v)
    /\ c.cmd \in {"mset", "msetnx"} => MsetSome(c, v)
    /\ c.cmd = "delete" => DeletedSome(c, v)
    /\ c.cmd \in {"rename", "renamenx"} => RenamedSome(c, v)
    /\ c.cmd \in Moving => MovedSome(c, v)
    /\ c.cmd \in StoreCmd => StoredSome(c, v)
    /\ c.cmd = "pfmerge" => PfmergeSome(c, v)

LEMMA ProgressGoes ==
    ASSUME NEW p \in Client, NEW c, Going(p, c), NEW v, Progress(c, v),
           NEW r, r = NextRequest(c), NEW x, x = Reply(v, r), NEW w, w = Leaves(v, r), NEW a, Goes(c, x, a)
    PROVE  /\ LeavesEarly(c, r.op, x) => <<EarlyResult(r.op, x), w>> = Native(c, c.before)
           /\ ~LeavesEarly(c, r.op, x) => Progress(a, w)
<1> DEFINE early == LeavesEarly(c, r.op, x)
           right == <<EarlyResult(r.op, x), w>> = Native(c, c.before)
<1>1. c.cmd \in Command /\ a.cmd = c.cmd
    BY DEF Going, Busy, Callable, Goes, Same
<1>2. c.cmd \in Gets => ReadSome(c, v)
    BY DEF Progress
<1>3. c.cmd \in {"mset", "msetnx"} => MsetSome(c, v)
    BY DEF Progress
<1>4. c.cmd = "delete" => DeletedSome(c, v)
    BY DEF Progress
<1>5. c.cmd \in {"rename", "renamenx"} => RenamedSome(c, v)
    BY DEF Progress
<1>6. c.cmd \in Moving => MovedSome(c, v)
    BY DEF Progress
<1>7. c.cmd \in StoreCmd => StoredSome(c, v)
    BY DEF Progress
<1>8. c.cmd = "pfmerge" => PfmergeSome(c, v)
    BY DEF Progress
<1>9. /\ c.cmd \in Gets => (early => right) /\ (~early => ReadSome(a, w))
      /\ c.cmd \in {"mset", "msetnx"} => (early => right) /\ (~early => MsetSome(a, w))
      /\ c.cmd = "delete" => ~early /\ DeletedSome(a, w)
      /\ c.cmd \in {"rename", "renamenx"} => (early => right) /\ (~early => RenamedSome(a, w))
      /\ c.cmd \in Moving => (early => right) /\ (~early => MovedSome(a, w))
      /\ c.cmd \in StoreCmd => (early => right) /\ (~early => StoredSome(a, w))
      /\ c.cmd = "pfmerge" => (early => right) /\ (~early => PfmergeSome(a, w))
    <2>1. c.cmd \in Gets => (early => right) /\ (~early => ReadSome(a, w))
        BY <1>2, ReadStep
    <2>2. c.cmd \in {"mset", "msetnx"} => (early => right) /\ (~early => MsetSome(a, w))
        BY <1>3, MsetStep
    <2>3. c.cmd = "delete" => ~early /\ DeletedSome(a, w)
        BY <1>4, DeleteStep
    <2>4. c.cmd \in {"rename", "renamenx"} => (early => right) /\ (~early => RenamedSome(a, w))
        BY <1>5, RenameGoes
    <2>5. c.cmd \in Moving => (early => right) /\ (~early => MovedSome(a, w))
        BY <1>6, MoveGoes
    <2>6. c.cmd \in StoreCmd => (early => right) /\ (~early => StoredSome(a, w))
        BY <1>7, StoreGoes
    <2>7. c.cmd = "pfmerge" => (early => right) /\ (~early => PfmergeSome(a, w))
        BY <1>8, PfmergeGoes
    <2> QED  BY <2>1, <2>2, <2>3, <2>4, <2>5, <2>6, <2>7
<1>10. \/ c.cmd \in Gets \/ c.cmd \in {"mset", "msetnx"} \/ c.cmd = "delete" \/ c.cmd \in {"rename", "renamenx"}
       \/ c.cmd \in Moving \/ c.cmd \in StoreCmd \/ c.cmd = "pfmerge"
    BY <1>1 DEF Command, Gets, Moving, StoreCmd
<1> HIDE DEF early, right
<1>11. early => right
    BY <1>9, <1>10
<1>12. ~early => Progress(a, w)
    BY <1>1, <1>9 DEF Progress
<1> QED  BY <1>11, <1>12 DEF early, right

LEMMA ProgressEnd ==
    ASSUME NEW p \in Client, NEW c, Going(p, c), NEW a, Same(a, c), a.before = c.before, Callable(a),
           Sequence(a.got), NEW w, Progress(a, w), Len(a.got) = Len(Requests(a))
    PROVE  <<Result(a), w>> = Native(c, c.before)
<1> DEFINE right == <<Result(a), w>> = Native(c, c.before)
<1>1. Callable(c) /\ Recorded(c) /\ c.cmd \in Command /\ a.cmd = c.cmd
    BY DEF Going, Busy, Callable, Same
<1>2. c.cmd \in Gets => right
    <2>1. c.cmd \in Gets => ReadSome(a, w)
        BY <1>1 DEF Progress
    <2> QED  BY <1>1, <2>1, ReadEnd
<1>3. c.cmd \in {"mset", "msetnx"} => right
    <2>1. c.cmd \in {"mset", "msetnx"} => MsetSome(a, w)
        BY <1>1 DEF Progress
    <2> QED  BY <1>1, <2>1, MsetEnd
<1>4. c.cmd = "delete" => right
    <2>1. c.cmd = "delete" => DeletedSome(a, w)
        BY <1>1 DEF Progress
    <2> QED  BY <1>1, <2>1, DeleteEnd
<1>5. c.cmd \in {"rename", "renamenx"} => right
    <2>1. c.cmd \in {"rename", "renamenx"} => RenamedSome(a, w)
        BY <1>1 DEF Progress
    <2> QED  BY <1>1, <2>1, RenameEnd
<1>6. c.cmd \in Moving => right
    <2>1. c.cmd \in Moving => MovedSome(a, w)
        BY <1>1 DEF Progress
    <2> QED  BY <1>1, <2>1, MoveEnd
<1>7. c.cmd \in StoreCmd => right
    <2>1. c.cmd \in StoreCmd => StoredSome(a, w)
        BY <1>1 DEF Progress
    <2> QED  BY <1>1, <2>1, StoreEnd
<1>8. c.cmd = "pfmerge" => right
    <2>1. c.cmd = "pfmerge" => PfmergeSome(a, w)
        BY <1>1 DEF Progress
    <2> QED  BY <1>1, <2>1, PfmergeEnd
<1> HIDE DEF right
<1>9. right
    BY <1>1, <1>2, <1>3, <1>4, <1>5, <1>6, <1>7, <1>8 DEF Command, Gets, Moving, StoreCmd
<1> QED  BY <1>9 DEF right

LEMMA ProgressSame ==
    ASSUME NEW c, NEW a, Same(a, c), a.got = c.got, a.before = c.before, NEW v, Progress(c, v)
    PROVE  Progress(a, v)
<1>1. a.cmd = c.cmd /\ a.keys = c.keys /\ a.dst = c.dst /\ a.arg = c.arg /\ a.temp = c.temp
    BY DEF Same
<1>2. MyKeys(a) = MyKeys(c) /\ Src(a) = Src(c)
    BY <1>1 DEF MyKeys, Src
<1>3. \A i : Heard(a, i) <=> Heard(c, i)
    BY <1>1 DEF Heard
<1>4. ReadSome(c, v) => ReadSome(a, v)
    BY <1>3 DEF ReadSome
<1>5. MsetSome(c, v) => MsetSome(a, v)
    <2>1. Pairs(a) = Pairs(c) /\ (Unset(a) <=> Unset(c))
        BY <1>1 DEF Pairs, Unset
    <2>2. \A m : SetSome(a, v, m) <=> SetSome(c, v, m)
        BY <1>1, <1>2 DEF SetSome
    <2> QED  BY <2>1, <2>2 DEF MsetSome
<1>6. DeletedSome(c, v) => DeletedSome(a, v)
    BY <1>1, <1>2 DEF DeletedSome
<1>7. RenamedSome(c, v) => RenamedSome(a, v)
    <2>1. Offset(a) = Offset(c) /\ (Near(a) <=> Near(c))
        BY <1>1, <1>2 DEF Offset, Near
    <2>2. Part(a) = Part(c)
        BY <2>1 DEF Part
    <2>3. \A s : RenamedNear(a, v, s) <=> RenamedNear(c, v, s)
        BY <1>1, <1>2 DEF RenamedNear
    <2>4. \A s : RenamedFar(a, v, s) <=> RenamedFar(c, v, s)
        BY <1>1, <1>2, <2>1 DEF RenamedFar
    <2> QED  BY <1>1, <1>2, <2>1, <2>2, <2>3, <2>4 DEF RenamedSome
<1>8. MovedSome(c, v) => MovedSome(a, v)
    <2>1. First(a) = First(c)
        BY <1>1, <1>2 DEF First
    <2>2. Taken(a) = Taken(c)
        BY <2>1 DEF Taken
    <2>3. Second(a) = Second(c)
        BY <1>1, <2>2 DEF Second
    <2>4. Finds(a) <=> Finds(c)
        BY <1>1, <1>2, <2>2 DEF Finds
    <2> QED  BY <2>2, <2>3, <2>4 DEF MovedSome
<1>9. StoredSome(c, v) => StoredSome(a, v)
    <2>1. Whole(a, a.before) = Whole(c, c.before)
        BY <1>1 DEF Whole
    <2> QED  BY <1>1, <1>3, <2>1 DEF StoredSome
<1>10. PfmergeSome(c, v) => PfmergeSome(a, v)
    <2>1. \A i : Got(a, i) = Got(c, i)
        BY DEF Got
    <2>2. Merged(a) = Merged(c)
        BY <1>1, <2>1 DEF Merged
    <2>3. /\ PfMid(a) = PfMid(c) /\ PfAll(a) = PfAll(c)
          /\ (\A g : PfKeys(a, v, g) <=> PfKeys(c, v, g)) /\ \A i : PfRead(a, i) <=> PfRead(c, i)
        BY <2>2, PfSame
    <2> QED  BY <1>1, <2>3 DEF PfmergeSome
<1> QED  BY <1>1, <1>4, <1>5, <1>6, <1>7, <1>8, <1>9, <1>10 DEF Progress

LEMMA ProgressBegins ==
    ASSUME NEW c, Callable(c), Recorded(c), c.got = <<>>
    PROVE  Progress(c, c.before)
<1> DEFINE g == Len(c.got)
           n == Len(c.keys)
           v == c.before
<1>1. g = 0 /\ n \in Nat /\ Alike(v, v) /\ DOMAIN v = MyKeys(c)
    BY KeysIs, BeforeIs
<1> HIDE DEF v
<1>a. c.before = v
    BY DEF v
<1>2. ReadSome(c, v)
    BY <1>1, <1>a DEF ReadSome
<1>3. c.cmd \in {"mset", "msetnx"} => MsetSome(c, v)
    <2>1. Pairs(c) = 0
        BY <1>1 DEF Pairs
    <2>2. Unset(c)
        BY <1>1 DEF Unset
    <2>3. SetSome(c, v, 0)
        BY <1>1, <1>a DEF SetSome
    <2> QED  BY <2>1, <2>2, <2>3 DEF MsetSome
<1>4. DeletedSome(c, v)
    BY <1>1, <1>a DEF DeletedSome
<1>5. RenamedSome(c, v)
    <2>1. Offset(c) = (IF c.cmd = "renamenx" THEN 1 ELSE 0)
        BY DEF Offset
    <2>2. Part(c) = 0 - Offset(c)
        BY <1>1 DEF Part
    <2>a. c.cmd = "renamenx" => Part(c) = 0 - 1
        <3> SUFFICES ASSUME c.cmd = "renamenx" PROVE Part(c) = 0 - 1
            OBVIOUS
        <3>1. Offset(c) = 1
            BY <2>1
        <3> QED  BY <2>2, <3>1
    <2>b. c.cmd # "renamenx" => Part(c) = 0
        <3> SUFFICES ASSUME c.cmd # "renamenx" PROVE Part(c) = 0
            OBVIOUS
        <3>1. Offset(c) = 0
            BY <2>1
        <3> QED  BY <2>2, <3>1
    <2>3. Part(c) \in {0, 0 - 1} /\ (c.cmd = "renamenx" => Part(c) = 0 - 1)
        BY <2>a, <2>b
    <2>4. RenamedNear(c, v, Part(c))
        BY <1>a, <2>3 DEF RenamedNear
    <2>5. RenamedFar(c, v, Part(c))
        BY <1>a, <2>3 DEF RenamedFar
    <2> QED  BY <1>1, <1>a, <2>3, <2>4, <2>5 DEF RenamedSome
<1>6. MovedSome(c, v)
    BY <1>1, <1>a DEF MovedSome
<1>7. StoredSome(c, v)
    <2>1. \A i \in 1 .. n : ~(i <= g)
        <3> TAKE i \in 1 .. n
        <3> QED  BY ONLY g = 0, i \in 1 .. n, n \in Nat, <1>1
    <2>2. ~(g = n + 1) /\ ~(g > n) /\ ~(g > n + 1)
        BY ONLY g = 0, n \in Nat, <1>1
    <2>3. /\ \A i \in 1 .. Len(c.keys) : ~(i <= Len(c.got))
          /\ ~(Len(c.got) = Len(c.keys) + 1) /\ ~(Len(c.got) > Len(c.keys)) /\ ~(Len(c.got) > Len(c.keys) + 1)
        BY <2>1, <2>2
    <2>4. Alike(v, c.before) /\ (\A k \in DOMAIN c.before \ {c.dst} : v[k] = c.before[k]) /\ v[c.dst] = c.before[c.dst]
        BY <1>1, <1>a
    <2> QED  BY ONLY <2>3, <2>4 DEF StoredSome
<1>8. PfmergeSome(c, v)
    BY <1>1, <1>a DEF PfmergeSome
<1>9. Progress(c, v)
    BY <1>2, <1>3, <1>4, <1>5, <1>6, <1>7, <1>8 DEF Progress
<1> QED  BY <1>9 DEF v

(* While a method runs, what its keys were is on record, and as long as    *)
(* nobody disturbs it its keys are as far as its replies say.              *)
Quiet(c) == c.alone /\ c.smooth
Followed(c, d) ==
    c.pc = "busy" =>
        /\ Recorded(c)
        /\ Quiet(c) /\ Ordinary(c) => Progress(c, View(d, MyKeys(c)))
AtomInv == \A p \in Client : Followed(call[p], db)

LEMMA MyKeysAre ==
    ASSUME NEW p \in Client, NEW c, Busy(p, c)
    PROVE  MyKeys(c) \in SUBSET Key /\ (c.pc = "busy" => KeysOf(c) = MyKeys(c))
<1>1. Callable(c)
    BY DEF Busy
<1>2. Range(c.keys) \subseteq Key /\ c.dst \in Key
    BY <1>1 DEF Callable, Range
<1>3. c.temp \in Seq(Key)
    BY MultiKeyAssumption DEF Busy
<1>4. Range(c.temp) \subseteq Key
    BY <1>3 DEF Range
<1> QED  BY <1>2, <1>4 DEF MyKeys, KeysOf

LEMMA RecordSame ==
    ASSUME NEW c, NEW a, Same(a, c), a.before = c.before
    PROVE  /\ MyKeys(a) = MyKeys(c) /\ (Recorded(c) => Recorded(a)) /\ (Ordinary(a) <=> Ordinary(c))
<1>1. a.cmd = c.cmd /\ a.keys = c.keys /\ a.dst = c.dst /\ a.temp = c.temp
    BY DEF Same
<1>2. MyKeys(a) = MyKeys(c) /\ Src(a) = Src(c)
    BY <1>1 DEF MyKeys, Src
<1>3. Recorded(c) => Recorded(a)
    BY <1>1, <1>2 DEF Recorded
<1>4. Ordinary(a) <=> Ordinary(c)
    BY <1>1, <1>2 DEF Ordinary
<1> QED  BY <1>2, <1>3, <1>4

LEMMA FollowedSame ==
    ASSUME NEW c, NEW d, Followed(c, d), NEW a, Same(a, c), a.pc = c.pc, a.got = c.got, a.before = c.before,
           NEW e, Quiet(a) => Quiet(c) /\ View(e, MyKeys(c)) = View(d, MyKeys(c))
    PROVE  Followed(a, e)
<1>1. MyKeys(a) = MyKeys(c) /\ (Recorded(c) => Recorded(a)) /\ (Ordinary(a) <=> Ordinary(c))
    BY RecordSame
<1>2. ASSUME a.pc = "busy" PROVE Recorded(a)
    BY <1>1, <1>2 DEF Followed
<1>3. ASSUME a.pc = "busy", Quiet(a), Ordinary(a) PROVE Progress(a, View(e, MyKeys(a)))
    <2>1. Progress(c, View(d, MyKeys(c)))
        BY <1>1, <1>3 DEF Followed
    <2>2. View(e, MyKeys(a)) = View(d, MyKeys(c))
        BY <1>1, <1>3
    <2>3. Progress(a, View(d, MyKeys(c)))
        BY <2>1, ProgressSame
    <2> QED  BY <2>2, <2>3
<1> QED  BY <1>2, <1>3 DEF Followed

LEMMA FollowedOn ==
    ASSUME NEW p \in Client, NEW c, Busy(p, c), c.pc = "busy", NEW d \in [Key -> Held], Followed(c, d),
           Quiet(c), Ordinary(c), NEW r, r = NextRequest(c), NEW x, x = Reply(d, r), NEW a, Goes(c, x, a)
    PROVE  LET w == View(Leaves(d, r), MyKeys(c)) IN
           /\ LeavesEarly(c, r.op, x) => <<EarlyResult(r.op, x), w>> = Native(c, c.before)
           /\ ~LeavesEarly(c, r.op, x) => Progress(a, w)
           /\ ~LeavesEarly(c, r.op, x) /\ Len(a.got) = Len(Requests(a)) => <<Result(a), w>> = Native(c, c.before)
<1> DEFINE v == View(d, MyKeys(c))
           w == View(Leaves(d, r), MyKeys(c))
           early == LeavesEarly(c, r.op, x)
<1>1. Going(p, c) /\ Progress(c, v)
    BY DEF Followed, Going
<1>2. r.op \in Op /\ Within(r, MyKeys(c)) /\ MyKeys(c) \in SUBSET Key
    BY NextIsSent, NextIsWithin, MyKeysAre DEF Sent
<1>3. Reply(v, r) = x /\ Leaves(v, r) = w
    BY <1>2, Local
<1> HIDE DEF v, w
<1>4. /\ early => <<EarlyResult(r.op, x), w>> = Native(c, c.before)
      /\ ~early => Progress(a, w)
    BY <1>1, <1>3, ProgressGoes
<1>5. Same(a, c) /\ a.before = c.before /\ a.got = Append(c.got, x)
    BY DEF Goes
<1>6. Callable(a) /\ Sequence(a.got)
    <2>1. Callable(c) /\ Sequence(c.got)
        BY DEF Busy, Replied
    <2> QED  BY <1>5, <2>1, AppendIs DEF Callable, Same
<1>7. ~early /\ Len(a.got) = Len(Requests(a)) => <<Result(a), w>> = Native(c, c.before)
    BY <1>1, <1>4, <1>5, <1>6, ProgressEnd
<1> QED  BY <1>4, <1>7 DEF w

LEMMA FollowStranger ==
    ASSUME TypeInv, AtomInv, NEW q \in Client, NEW b \in BOOLEAN, call'[q] = [call[q] EXCEPT !.alone = b],
           b => call[q].alone /\ \A k \in KeysOf(call[q]) : db'[k] = db[k]
    PROVE  Followed(call'[q], db')
<1> DEFINE c == call[q]
           a == call'[q]
<1>1. Well(q, c) /\ Followed(c, db)
    BY DEF TypeInv, AtomInv
<1>2. Same(a, c) /\ a.pc = c.pc /\ a.got = c.got /\ a.before = c.before /\ a.smooth = c.smooth
    BY <1>1, StrangerIs
<1>3. a.alone = b
    BY <1>1, StrangerIs
<1>4. ASSUME c.pc = "busy", Quiet(a) PROVE Quiet(c) /\ View(db', MyKeys(c)) = View(db, MyKeys(c))
    <2>1. b /\ c.smooth
        BY <1>2, <1>3, <1>4 DEF Quiet
    <2>2. c.alone /\ \A k \in KeysOf(c) : db'[k] = db[k]
        BY <2>1
    <2>3. KeysOf(c) = MyKeys(c)
        BY <1>1, <1>4, MyKeysAre DEF Well
    <2> QED  BY <2>1, <2>2, <2>3 DEF Quiet, View
<1> HIDE DEF a, c
<1>5. CASE c.pc = "busy"
    BY <1>1, <1>2, <1>4, <1>5, FollowedSame DEF a
<1>6. CASE c.pc # "busy"
    BY <1>2, <1>6 DEF Followed, a
<1> QED  BY <1>5, <1>6

LEMMA FollowTakes ==
    ASSUME TypeInv, AtomInv, NEW p \in Client, NEW c, Takes(p, c), NEW q \in Client, q # p
    PROVE  Followed(call'[q], db')
<1> DEFINE b == call[q].alone /\ \A k \in KeysOf(call[q]) : db'[k] = db[k]
<1>1. call'[q] = [call[q] EXCEPT !.alone = b]
    BY TakesIs
<1>2. b \in BOOLEAN /\ (b => call[q].alone /\ \A k \in KeysOf(call[q]) : db'[k] = db[k])
    BY DEF TypeInv, Well
<1> HIDE DEF b
<1> QED  BY <1>1, <1>2, FollowStranger

LEMMA CallMakesUp ==
    ASSUME NEW p \in Client, Call(p)
    PROVE  \E m \in load.calls : /\ call' = [call EXCEPT ![p] = Begun(p, m, db)]
                                 /\ m.cmd = "pfmerge" => \A k \in Range(Temp[p]) : ~Exists(db[k])
BY ZenonT(30) DEF Call, Begun, Started

LEMMA BegunBefore ==
    ASSUME NEW p, NEW m, NEW d, NEW c, c = Begun(p, m, d)
    PROVE  c.before = [k \in KeysOf(c) |-> d[k]]
<1> DEFINE s == Started(p, m)
           f == [k \in KeysOf(s) |-> d[k]]
           temp == IF m.cmd = "pfmerge" THEN Temp[p] ELSE <<>>
<1>1. s = [Idle EXCEPT !.pc = "busy", !.cmd = m.cmd, !.keys = m.keys, !.dst = m.dst,
                       !.arg = m.arg, !.temp = temp]
    BY DEF Started
<1>2. c = [s EXCEPT !.before = f]
    BY DEF Begun
<1>3. f = [k \in DOMAIN f |-> f[k]]
    OBVIOUS
<1>4. DOMAIN c.before = KeysOf(c) /\ \A k \in KeysOf(c) : c.before[k] = d[k]
    BY BegunIs
<1> HIDE DEF s, f, temp
<1>5. c.before = f
    BY <1>1, <1>2 DEF Idle
<1> QED  BY <1>3, <1>4, <1>5

LEMMA FollowBegun ==
    ASSUME NEW p \in Client, NEW m, Callable(m), NEW d \in [Key -> Held],
           m.cmd = "pfmerge" => \A k \in Range(Temp[p]) : ~Exists(d[k]),
           NEW c, c = Begun(p, m, d)
    PROVE  Followed(c, d)
<1>1. Well(p, c)
    BY BegunIsWell
<1>2. /\ c.pc = "busy" /\ c.cmd = m.cmd /\ c.got = <<>>
      /\ m.cmd = "pfmerge" => c.temp = Temp[p]
    BY BegunIs
<1>3. DOMAIN c.before = KeysOf(c) /\ \A k \in KeysOf(c) : c.before[k] = d[k]
    BY BegunIs
<1>4. Busy(p, c)
    BY <1>1, <1>2 DEF Well
<1>5. MyKeys(c) \in SUBSET Key /\ KeysOf(c) = MyKeys(c)
    BY <1>2, <1>4, MyKeysAre
<1>6. c.before = [k \in KeysOf(c) |-> d[k]]
    BY BegunBefore
<1>7. c.before = View(d, MyKeys(c))
    BY <1>5, <1>6 DEF View
<1>8. \A k \in MyKeys(c) : c.before[k] = d[k] /\ d[k] \in Held
    BY <1>3, <1>5
<1>9. c.cmd = "pfmerge" => \A k \in Range(c.temp) : c.before[k] = Missing
    <2> SUFFICES ASSUME c.cmd = "pfmerge", NEW k \in Range(c.temp) PROVE c.before[k] = Missing
        OBVIOUS
    <2>1. k \in MyKeys(c) /\ k \in Range(Temp[p])
        BY <1>2 DEF MyKeys
    <2>2. ~Exists(d[k]) /\ d[k] \in Held /\ c.before[k] = d[k]
        BY <1>2, <1>8, <2>1
    <2>3. d[k].kind = "none"
        BY <2>2 DEF Exists
    <2>4. d[k] = Missing
        BY <2>2, <2>3, HeldIs
    <2> QED  BY <2>2, <2>4
<1>10. Recorded(c)
    BY <1>7, <1>8, <1>9 DEF Recorded, View
<1>11. Callable(c)
    BY <1>4 DEF Busy
<1>12. Progress(c, c.before)
    BY <1>2, <1>10, <1>11, ProgressBegins
<1> QED  BY <1>7, <1>10, <1>12 DEF Followed

LEMMA FollowCall ==
    ASSUME TypeInv, AtomInv, NEW p \in Client, Call(p), NEW q \in Client
    PROVE  Followed(call'[q], db')
<1>1. PICK m \in load.calls : /\ call' = [call EXCEPT ![p] = Begun(p, m, db)]
                              /\ m.cmd = "pfmerge" => \A k \in Range(Temp[p]) : ~Exists(db[k])
    BY CallMakesUp
<1>2. db' = db /\ Callable(m) /\ db \in [Key -> Held]
    BY CallIs, MultiKeyAssumption DEF TypeInv
<1>3. CASE q # p
    <2>1. call'[q] = call[q]
        BY <1>1, <1>3 DEF TypeInv
    <2> QED  BY <1>2, <2>1 DEF AtomInv
<1>4. CASE q = p
    <2>1. call'[p] = Begun(p, m, db)
        BY <1>1 DEF TypeInv
    <2>2. Followed(Begun(p, m, db), db)
        BY <1>1, <1>2, FollowBegun
    <2> QED  BY <1>2, <1>4, <2>1, <2>2
<1> QED  BY <1>3, <1>4

(* What p does when its next request is answered. *)
LEMMA FollowExecute ==
    ASSUME TypeInv, AtomInv, NEW p \in Client, Execute(p), NEW q \in Client
    PROVE  Followed(call'[q], db')
<1> DEFINE c == call[p]
           r == NextRequest(c)
           x == Reply(db, r)
           after == [c EXCEPT !.got = Append(c.got, x)]
           early == LeavesEarly(c, r.op, x)
<1>1. c.pc = "busy" /\ Takes(p, Outcome(c, x)) /\ db' = Leaves(db, r)
    BY ExecuteIs DEF Leaves
<1>2. call'[p] = Outcome(c, x) /\ Busy(p, c) /\ Shaped(c) /\ db \in [Key -> Held] /\ Followed(c, db)
    BY <1>1, TakesIs DEF TypeInv, Well, AtomInv
<1>3. CASE q # p
    <2> HIDE DEF x, c
    <2> QED  BY <1>1, <1>3, FollowTakes
<1>4. CASE q = p
    <2>1. \/ Outcome(c, x).pc = "idle"
          \/ ~early /\ Outcome(c, x) = after
        BY <1>2, OutcomeIs
    <2>2. Same(after, c) /\ after.pc = c.pc /\ after.got = Append(c.got, x) /\ after.before = c.before
        <3>1. Shaped(c) /\ after = [c EXCEPT !.got = Append(c.got, x)]
            BY <1>2
        <3> HIDE DEF after, c, x
        <3> QED  BY <3>1, AfterIs
    <2>3. after.alone = c.alone /\ after.smooth = c.smooth
        BY <1>2, GotAnother
    <2>4. CASE Outcome(c, x).pc = "idle"
        BY <1>2, <1>4, <2>4 DEF Followed
    <2>5. CASE ~early /\ Outcome(c, x) = after
        <3>i. r = NextRequest(c) /\ x = Reply(db, r)
            OBVIOUS
        <3> HIDE DEF after, c, r, x
        <3>1. Goes(c, x, after)
            BY <2>2 DEF Goes
        <3>2. MyKeys(after) = MyKeys(c) /\ (Recorded(c) => Recorded(after)) /\ (Ordinary(after) <=> Ordinary(c))
            BY <2>2, RecordSame
        <3>3. Recorded(after)
            BY <1>1, <1>2, <3>2 DEF Followed
        <3>4. ASSUME Quiet(after), Ordinary(after) PROVE Progress(after, View(db', MyKeys(after)))
            <4>1. Quiet(c) /\ Ordinary(c)
                BY <2>3, <3>2, <3>4 DEF Quiet
            <4>2. Progress(after, View(Leaves(db, r), MyKeys(c)))
                BY <1>1, <1>2, <2>5, <3>i, <3>1, <4>1, FollowedOn
            <4> QED  BY <1>1, <3>2, <4>2
        <3>5. Followed(after, db')
            BY <3>3, <3>4 DEF Followed
        <3> QED  BY <1>2, <1>4, <2>5, <3>5
    <2> QED  BY <2>1, <2>4, <2>5
<1> QED  BY <1>3, <1>4

LEMMA FollowLost ==
    ASSUME TypeInv, AtomInv, NEW p \in Client, LoseReply(p), NEW q \in Client
    PROVE  Followed(call'[q], db')
<1> DEFINE c == call[p]
           a == [c EXCEPT !.smooth = FALSE]
<1>1. Takes(p, a) /\ Same(a, c) /\ a.pc = "busy" /\ c.pc = "busy" /\ a.got = c.got /\ a.before = c.before
    BY LostIs
<1>2. call'[p] = a /\ Shaped(c) /\ Followed(c, db)
    BY <1>1, TakesIs DEF TypeInv, Well, AtomInv
<1>3. a.smooth = FALSE
    BY <1>2 DEF Shaped
<1> HIDE DEF a, c
<1>4. Recorded(a) /\ ~Quiet(a)
    BY <1>1, <1>2, <1>3, RecordSame DEF Followed, Quiet
<1>5. Followed(call'[p], db')
    BY <1>2, <1>4 DEF Followed
<1> QED  BY <1>1, <1>5, FollowTakes

LEMMA FollowNext ==
    ASSUME TypeInv, AtomInv, [Next]_vars, NEW q \in Client
    PROVE  Followed(call'[q], db')
<1>1. ASSUME NEW p \in Client, Fail(p) PROVE Followed(call'[q], db')
    <2>1. db' = db /\ call' = [call EXCEPT ![p] = Done(Error)]
        BY <1>1 DEF Fail, Trouble
    <2>2. CASE q # p
        <3>1. call'[q] = call[q]
            BY <2>1, <2>2 DEF TypeInv
        <3> QED  BY <2>1, <3>1 DEF AtomInv
    <2>3. CASE q = p
        <3>1. call'[q].pc = "idle"
            BY <2>1, <2>3, DoneIs DEF TypeInv
        <3> QED  BY <3>1 DEF Followed
    <2> QED  BY <2>2, <2>3
<1>2. ASSUME NEW k \in Key, Expire(k) PROVE Followed(call'[q], db')
    <2> DEFINE b == call[q].alone /\ k \notin KeysOf(call[q])
    <2>1. call'[q] = [call[q] EXCEPT !.alone = b] /\ db' = [db EXCEPT ![k] = Missing]
        BY <1>2, ExpireIs
    <2>2. b \in BOOLEAN
        BY DEF TypeInv, Well
    <2>3. b => call[q].alone /\ \A j \in KeysOf(call[q]) : db'[j] = db[j]
        <3>1. b => call[q].alone /\ \A j \in KeysOf(call[q]) : j # k
            OBVIOUS
        <3>2. \A j : j # k => db'[j] = db[j]
            <4>1. db \in [Key -> Held]
                BY DEF TypeInv
            <4>2. \A j \in Key : j # k => db'[j] = db[j]
                BY <2>1, <4>1
            <4>3. DOMAIN db' = DOMAIN db
                BY <2>1
            <4> QED  BY <2>1, <4>2, <4>3
        <3> HIDE DEF b
        <3> QED  BY <3>1, <3>2
    <2> HIDE DEF b
    <2> QED  BY <2>1, <2>2, <2>3, FollowStranger
<1>3. CASE UNCHANGED vars
    BY <1>3 DEF vars, AtomInv
<1> QED  BY <1>1, <1>2, <1>3, FollowCall, FollowExecute, FollowLost DEF Next

LEMMA AtomInductive == TypeInv /\ AtomInv /\ [Next]_vars => AtomInv'
BY FollowNext DEF AtomInv

LEMMA AtomAlways == Spec => []AtomInv
<1>1. Init => AtomInv
    BY DEF Init, Idle, AtomInv, Followed
<1> QED  BY <1>1, TypeAlways, AtomInductive, PTL DEF Spec

(* The answer of a method that is let alone is the answer of Redis. *)
LEMMA AloneExecute ==
    ASSUME TypeInv, AtomInv, NEW p \in Client, Execute(p), Undisturbed(p), Ordinary(call[p])
    PROVE  AsNative(p)
<1> DEFINE c == call[p]
           r == NextRequest(c)
           x == Reply(db, r)
           after == [c EXCEPT !.got = Append(c.got, x)]
           early == LeavesEarly(c, r.op, x)
           w == View(Leaves(db, r), MyKeys(c))
<1>1. c.pc = "busy" /\ Takes(p, Outcome(c, x)) /\ db' = Leaves(db, r)
    BY ExecuteIs DEF Leaves
<1>2. /\ call'[p] = Outcome(c, x) /\ Busy(p, c) /\ Shaped(c) /\ db \in [Key -> Held] /\ Followed(c, db)
      /\ call'[p].pc = "idle" /\ Quiet(c) /\ Ordinary(c)
    BY <1>1, TakesIs DEF TypeInv, Well, AtomInv, Undisturbed, Quiet
<1>3. Goes(c, x, after)
    <2>1. Shaped(c) /\ after = [c EXCEPT !.got = Append(c.got, x)]
        BY <1>2
    <2> HIDE DEF after, c, x
    <2> QED  BY <2>1, AfterIs DEF Goes
<1>4. after.pc = "busy"
    BY <1>1, <1>2, GotAnother
<1>5. Outcome(c, x) = IF early THEN Done(EarlyResult(r.op, x))
                      ELSE IF Len(after.got) = Len(Requests(after)) THEN Done(Result(after)) ELSE after
    BY DEF Outcome
<1>6. r = NextRequest(c) /\ x = Reply(db, r) /\ early = LeavesEarly(c, r.op, x)
    OBVIOUS
<1>7. [k \in KeysOf(c) |-> db'[k]] = w
    BY <1>1, <1>2, MyKeysAre DEF View
<1> HIDE DEF c, r, x, after
<1>8. /\ early => <<EarlyResult(r.op, x), w>> = Native(c, c.before)
      /\ ~early /\ Len(after.got) = Len(Requests(after)) => <<Result(after), w>> = Native(c, c.before)
    BY <1>1, <1>2, <1>3, <1>6, FollowedOn
<1> HIDE DEF early, w
<1>9. CASE early
    <2>1. call'[p].result = EarlyResult(r.op, x)
        BY <1>2, <1>5, <1>9, DoneIs
    <2> QED  BY <1>7, <1>8, <1>9, <2>1 DEF AsNative, c
<1>10. CASE ~early
    <2>1. Len(after.got) = Len(Requests(after)) /\ call'[p] = Done(Result(after))
        BY <1>2, <1>4, <1>5, <1>10
    <2>2. call'[p].result = Result(after)
        BY <2>1, DoneIs
    <2> QED  BY <1>7, <1>8, <1>10, <2>1, <2>2 DEF AsNative, c
<1> QED  BY <1>9, <1>10

LEMMA AloneNext ==
    ASSUME TypeInv, AtomInv, [Next]_vars, NEW p \in Client, Undisturbed(p), Ordinary(call[p])
    PROVE  AsNative(p)
<1>1. /\ faults \in Nat /\ faults' # faults + 1 /\ Well(p, call[p])
      /\ call[p].pc = "busy" /\ call'[p].pc # "busy"
    BY MultiKeyAssumption DEF TypeInv, Undisturbed
<1>2. ASSUME NEW q \in Client, NEW c, Takes(q, c), q # p PROVE FALSE
    <2> DEFINE b == call[p].alone /\ \A k \in KeysOf(call[p]) : db'[k] = db[k]
    <2>1. call'[p] = [call[p] EXCEPT !.alone = b]
        BY <1>2, TakesIs
    <2>2. b \in BOOLEAN
        BY <1>1 DEF Well
    <2> HIDE DEF b
    <2>3. call'[p].pc = call[p].pc
        BY <1>1, <2>1, <2>2, StrangerIs
    <2> QED  BY <1>1, <2>3
<1>3. ASSUME NEW q \in Client, Execute(q) PROVE AsNative(p)
    <2>1. \E c : Takes(q, c)
        BY <1>3, ExecuteIs
    <2>2. q = p
        BY <1>2, <2>1
    <2> QED  BY <1>3, <2>2, AloneExecute
<1>4. ASSUME NEW q \in Client, Call(q) PROVE FALSE
    <2>1. PICK m \in load.calls : call' = [call EXCEPT ![q] = Begun(q, m, db)]
        BY <1>4, CallIs
    <2>2. q # p
        BY <1>1, <1>4, CallIs
    <2>3. call'[p] = call[p]
        BY <2>1, <2>2 DEF TypeInv
    <2> QED  BY <1>1, <2>3
<1>5. ASSUME NEW q \in Client, Fail(q) \/ LoseReply(q) PROVE FALSE
    BY <1>1, <1>5 DEF Fail, LoseReply, Trouble
<1>6. ASSUME NEW k \in Key, Expire(k) PROVE FALSE
    BY <1>1, <1>6 DEF Expire, Trouble
<1>7. CASE UNCHANGED vars
    BY <1>1, <1>7 DEF vars
<1> QED  BY <1>3, <1>4, <1>5, <1>6, <1>7 DEF Next

(* An ordinary call that nobody disturbs - none of its keys is changed by  *)
(* anybody else, none of its requests fails and none of its replies is     *)
(* lost - answers what the command of Redis that it stands for would, and  *)
(* leaves its keys as that would, whichever of the sixteen it is.          *)
THEOREM AloneAsNative == Spec => AloneIsAtomic
<1> DEFINE A == \A p \in Client : Undisturbed(p) /\ Ordinary(call[p]) => AsNative(p)
<1>1. TypeInv /\ AtomInv /\ [Next]_vars => [A]_vars
    BY AloneNext
<1> QED  BY <1>1, TypeAlways, AtomAlways, PTL DEF Spec, AloneIsAtomic
=============================================================================
