------------------------------- MODULE KeySlot -------------------------------
(***************************************************************************)
(* The slot of a key: NodeManager.keyslot (rediscluster/nodemanager.py)    *)
(* with crc16 (rediscluster/crc.py), and the slot as the servers have it,  *)
(* who refuse a command whose keys they see in different slots.  A key is  *)
(* the sequence of its bytes.                                              *)
(***************************************************************************)
EXTENDS Integers, Sequences, SequencesExt, Bitwise

Byte == 0 .. 255
HASH_SLOTS == 16384
OpenBrace  == 123
CloseBrace == 125

(* The register of the CRC, of 16 bits, after one more zero bit.           *)
ShiftIn(crc) ==
    LET shifted == (2 * crc) % 65536
    IN  IF crc >= 32768 THEN shifted ^^ 4129 ELSE shifted

(* The literals of the table are the remainders of the bytes.              *)
x_mode_m_crc16_lookup ==
    [byte \in Byte |-> FoldLeft(LAMBDA crc, i : ShiftIn(crc), 256 * byte, [i \in 1 .. 8 |-> i])]

crc16(data) ==
    FoldLeft(LAMBDA crc, byte :
                 ((256 * crc) % 65536) ^^ x_mode_m_crc16_lookup[(crc \div 256) ^^ byte],
             0, data)

(* bytes.find: where `byte` is first, from `from` on, or 0.                *)
find(k, byte, from) ==
    LET places == {i \in from .. Len(k) : k[i] = byte}
    IN  IF places = {} THEN 0 ELSE Min(places)

keyslot(k) ==
    LET start == find(k, OpenBrace, 1)
        end   == find(k, CloseBrace, start + 1)
        tagged == start > 0 /\ end > 0 /\ end # start + 1
    IN  crc16(IF tagged THEN SubSeq(k, start + 1, end - 1) ELSE k) % HASH_SLOTS

(* The format string "{{0}}{1}" has an escaped "{0}" and no hash slot.     *)
_random_good_hashslot_key(random_id) == <<OpenBrace, 48, CloseBrace>> \o random_id

-----------------------------------------------------------------------------
(* The servers: the remainder of a message of bits, one at a time, and the *)
(* tag between the first brace that opens and the first that closes it.    *)

Bit(data, i) == (data[1 + (i - 1) \div 8] \div 2 ^ (7 - ((i - 1) % 8))) % 2

Remainder(data) ==
    FoldLeft(LAMBDA crc, i : ShiftIn(crc ^^ (32768 * Bit(data, i))),
             0, [i \in 1 .. 8 * Len(data) |-> i])

Tags(k) ==
    {SubSeq(k, i + 1, j - 1) : <<i, j>> \in
        {<<i, j>> \in (1 .. Len(k)) \X (1 .. Len(k)) :
            /\ i + 1 < j /\ k[i] = OpenBrace /\ k[j] = CloseBrace
            /\ \A h \in 1 .. i - 1 : k[h] # OpenBrace
            /\ \A h \in i + 1 .. j - 1 : k[h] # CloseBrace}}

HashSlot(k) ==
    Remainder(IF Tags(k) = {} THEN k ELSE CHOOSE tag \in Tags(k) : TRUE) % HASH_SLOTS
=============================================================================
