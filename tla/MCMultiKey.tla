----------------------------- MODULE MCMultiKey -----------------------------
(* Instances of MultiKey for TLC. *)
EXTENDS MultiKey, KeySlot

CONSTANTS x, y, c1, c2

Keys  == {"a", "b", "c", "t1", "t2", "t3", "t4", "u1", "u2", "u3", "u4"}

(* "{}a", which has no tag, "b{x}" and "{x}}", which have the same one, and *)
(* what pfmerge makes of one digit.                                        *)
KeyBytes ==
    LET Digit == [t1 |-> 49, t2 |-> 50, t3 |-> 51, t4 |-> 52,
                  u1 |-> 53, u2 |-> 54, u3 |-> 55, u4 |-> 56]
    IN  [k \in Keys |-> CASE k = "a" -> <<123, 125, 97>>
                          [] k = "b" -> <<98, 123, 120, 125>>
                          [] k = "c" -> <<123, 120, 125, 125>>
                          [] OTHER -> _random_good_hashslot_key(<<Digit[k]>>)]

(* The slots of the keys; TLC evaluates a definition once, but what stands *)
(* for a constant at every use.                                            *)
Slots       == [k \in Keys |-> keyslot(KeyBytes[k])]
HashSlots   == [k \in Keys |-> HashSlot(KeyBytes[k])]
SlotOfKey       == Slots
ServerSlotOfKey == HashSlots

(* The slots of a test of the repository; and client and servers agree on  *)
(* the slot of every short key of letters and braces.                      *)
foo == <<102, 111, 111>>
ASSUME KeySlotExamples ==
    /\ keyslot(foo) = 12182
    /\ keyslot(<<123>> \o foo \o <<125, 98, 97, 114>>) = 12182
    /\ keyslot(<<49, 51, 51, 55>>) = 4314
ASSUME SlotsAgree ==
    \A k \in BoundedSeq({97, 98, OpenBrace, CloseBrace}, 4) : keyslot(k) = HashSlot(k)

Temps == (c1 :> <<"t1", "t2", "t3", "t4">>) @@ (c2 :> <<"u1", "u2", "u3", "u4">>)

Method(cmd, keys, dst, arg) == [cmd |-> cmd, keys |-> keys, dst |-> dst, arg |-> arg]
Str(a)  == Entry("string", {a}, FALSE)
List(s) == Entry("list", s, FALSE)
Set(s)  == Entry("set", s, FALSE)
Dying(e) == [e EXCEPT !.ttl = TRUE]
Db(a, b, c) == [k \in Keys |-> CASE k = "a" -> a [] k = "b" -> b [] k = "c" -> c [] OTHER -> Missing]
ab == <<"a", "b">>

Strings == [db |-> Db(Dying(Str(x)), Missing, Missing),
            calls |-> {Method("mget", ab, "a", <<>>),
                       Method("mset", ab, "a", <<Datum("string", {x}), Datum("string", {y})>>),
                       Method("msetnx", <<"b", "c">>, "b", <<Datum("string", {x}), Datum("string", {y})>>),
                       Method("delete", ab, "a", <<>>)}]
Renames == [db |-> Db(Str(x), Dying(Str(y)), Missing),
            calls |-> {Method("rename", <<"a">>, "b", <<>>), Method("renamenx", <<"b">>, "a", <<>>),
                       Method("rename", <<"b">>, "c", <<>>), Method("delete", <<"c">>, "c", <<>>)}]
Lists   == [db |-> Db(List(<<x, y>>), Missing, Missing),
            calls |-> {Method("rpoplpush", <<"a">>, "b", <<>>), Method("brpoplpush", <<"b">>, "c", <<>>),
                       Method("rpoplpush", <<"c">>, "a", <<>>), Method("rpoplpush", <<"b">>, "b", <<>>)}]
Sets    == [db |-> Db(Set({x, y}), Missing, Missing),
            calls |-> {Method("smove", <<"a">>, "b", <<Datum("string", {x})>>),
                       Method("smove", <<"b">>, "c", <<Datum("string", {x})>>),
                       Method("smove", <<"a">>, "c", <<Datum("string", {y})>>),
                       Method("smove", <<"c">>, "a", <<Datum("string", {x})>>)}]
Algebra == [db |-> Db(Set({x, y}), Set({y}), Missing),
            calls |-> {Method("sdiff", ab, "c", <<>>), Method("sinter", ab, "c", <<>>),
                       Method("sunion", ab, "c", <<>>), Method("sdiffstore", ab, "c", <<>>),
                       Method("sinterstore", <<"b", "c">>, "b", <<>>),
                       Method("sunionstore", <<"a", "b">>, "c", <<>>)}]
Logs    == [db |-> Db(Str(x), Str(y), Missing),
            calls |-> {Method("pfmerge", <<"a">>, "c", <<>>), Method("pfmerge", <<"b">>, "a", <<>>),
                       Method("mget", <<"c">>, "c", <<>>)}]

(* Nothing to unite; the element '' moved or looked for; a source missing. *)
Nothing == [db |-> Db(Set({x}), Missing, Missing),
            calls |-> {Method("sunionstore", <<"b", "c">>, "a", <<>>)}]
Blank   == [db |-> Db(List(<<Empty, x>>), Missing, Str(Empty)),
            calls |-> {Method("rpoplpush", <<"a">>, "b", <<>>),
                       Method("msetnx", <<"c">>, "c", <<Datum("string", {x})>>)}]
Sourceless == [db |-> Db(Str(x), Missing, Missing),
               calls |-> {Method("pfmerge", <<"a", "b">>, "a", <<>>), Method("mget", <<"b">>, "b", <<>>)}]

(* Methods with keys that hold something else, or given twice.             *)
mixed    == Db(Str(x), List(<<y>>), Set({y}))
Unread   == [db |-> mixed,
             calls |-> {Method("mget", ab, "a", <<>>), Method("delete", <<"a", "a">>, "a", <<>>),
                        Method("mset", <<"c", "b">>, "c", <<Datum("string", {x}), Datum("string", {y})>>),
                        Method("msetnx", <<"b", "c">>, "b", <<Datum("string", {x}), Datum("string", {y})>>)}]
Unmoved  == [db |-> mixed,
             calls |-> {Method("rpoplpush", <<"b">>, "c", <<>>), Method("brpoplpush", <<"c">>, "b", <<>>),
                        Method("smove", <<"c">>, "b", <<Datum("string", {y})>>),
                        Method("renamenx", <<"t1">>, "a", <<>>)}]
Unmerged == [db |-> mixed,
             calls |-> {Method("sunion", <<"c", "b">>, "a", <<>>), Method("sinterstore", <<"c">>, "b", <<>>),
                        Method("pfmerge", <<"a">>, "c", <<>>), Method("pfmerge", <<"a", "a">>, "b", <<>>)}]

Edges   == {Nothing, Blank, Sourceless, Unread, Unmoved, Unmerged}
Typical == {Strings, Renames, Lists, Sets, Algebra, Logs}
All     == Typical \cup Edges

(* What the README lists the exceptions of.                                *)
AlwaysAtomic == [][\A p \in Client : Undisturbed(p) => AsNative(p)]_vars
=============================================================================
