-------------------------------- MODULE Bytes --------------------------------
(***************************************************************************)
(* The functions on bytes of src/src/utils.c: pack_ and unpack_, one       *)
(* behind the other at a pointer that moves by what they return, and the   *)
(* two checksums.                                                          *)
(*                                                                         *)
(* A number is the sequence of its bytes, the most significant first;      *)
(* memory is the sequence of the bytes at rising addresses.  In a checksum *)
(* a word is the set of the numbers of its bits that are 1, and ^ the      *)
(* symmetric difference.                                                   *)
(***************************************************************************)
EXTENDS Integers, SequencesExt

\* Each function exists twice, and __BYTE_ORDER chooses one.
Order == {"big", "little"}

\* A field of one byte is be or le alike: pack_u8().
Numbers == [kind : {"be", "le"}, len : {1, 2, 4, 8}]
Field == Numbers \cup [kind : {"str"}, len : Nat]

\* Storing or loading a number through a pointer of its type.
Memory(order, v) == IF order = "big" THEN v ELSE Reverse(v)

\* BYTE_SWAP16(), 32 and 64, in the functions that have it.  Mutated: in the
\* little-endian functions of both branches.
SwappedAlike(order, kind, v) == IF kind = "le" THEN Reverse(v) ELSE v

Swapped(order, kind, v) ==
  IF <<order, kind>> \in {<<"big", "le">>, <<"little", "be">>} THEN Reverse(v) ELSE v

\* The bytes a pack function leaves, and what an unpack function makes of them.
Packed(order, kind, v) ==
  IF kind = "str" THEN v ELSE Memory(order, Swapped(order, kind, v))
Unpacked(order, kind, bytes) ==
  IF kind = "str" THEN bytes ELSE Swapped(order, kind, Memory(order, bytes))

\* p += pack_...(p, value) for each of the fields.
Pack(order, fields, values) ==
  LET written[i \in 0 .. Len(fields)] ==
        IF i = 0 THEN <<>>
        ELSE written[i - 1] \o Packed(order, fields[i].kind, values[i])
  IN  written[Len(fields)]

\* p += unpack_...(p, &value) for each of the fields.
Offset(fields, i) ==
  LET p[j \in 0 .. Len(fields)] == IF j = 0 THEN 0 ELSE p[j - 1] + fields[j].len
  IN  p[i - 1]
Unpack(order, fields, wire) ==
  [i \in DOMAIN fields |->
     Unpacked(order, fields[i].kind,
              SubSeq(wire, Offset(fields, i) + 1, Offset(fields, i) + fields[i].len))]

-----------------------------------------------------------------------------
Bits(byte) == {i \in 0 .. 7 : (byte \div 2 ^ i) % 2 = 1}
Poly == {0, 13, 15}  \* 0xa001

Xor(a, b) == (a \ b) \cup (b \ a)

\* One turn of the inner loop.  Mutated: tmp is taken after the shift.
ShiftTmpLate(word) ==
  LET shifted == {b - 1 : b \in word \ {0}}
  IN  IF 0 \in shifted THEN Xor(shifted, Poly) ELSE shifted

Shift(word) ==
  LET shifted == {b - 1 : b \in word \ {0}}
  IN  IF 0 \in word THEN Xor(shifted, Poly) ELSE shifted

Shifts(word, n) ==
  LET after[j \in Nat] == IF j = 0 THEN word ELSE Shift(after[j - 1])
  IN  after[n]

\* One turn of the outer loop: a byte, and eight shifts.  Mutated: seven.
AddByteSeven(word, byte) == Shifts(Xor(byte, word), 7)
AddByte(word, byte) == Shifts(Xor(byte, word), 8)

\* The loop over some more bytes, and over a message, which is the result of
\* crc_be16(); crc_le16() swaps its bytes.
AddBytes(word, data) ==
  LET after[i \in 0 .. Len(data)] == IF i = 0 THEN word ELSE AddByte(after[i - 1], data[i])
  IN  after[Len(data)]
CrcBe16(data) == AddBytes(0 .. 15, data)
CrcLe16(data) == {IF b < 8 THEN b + 8 ELSE b - 8 : b \in CrcBe16(data)}
=============================================================================
