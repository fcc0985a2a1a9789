------------------------------ MODULE TextBytes -------------------------------
(***************************************************************************)
(* What encrypt.c and utils.c do to the bytes of a text: Pkcs5 on it, and  *)
(* before that Bytes, which takes its first bytes for the values of some   *)
(* fields, and all of it for a message that is to be checked.              *)
(***************************************************************************)
EXTENDS Pkcs5, Bytes

CONSTANTS
  FieldLists,  \* the fields of some messages
  MaxBurst,    \* the bits from the first wrong one to the last
  MaxDamaged   \* the length of a message with wrong bits

\* A burst is no longer than the checksum.
ASSUME BytesAssumption ==
  /\ FieldLists \subseteq Seq(Field)
  /\ MaxBurst \in 1 .. 16
  /\ MaxDamaged \in Nat

\* The first bytes of the text, as the values of some fields.
Values(fields) ==
  [i \in DOMAIN fields |-> SubSeq(src, Offset(fields, i) + 1, Offset(fields, i) + fields[i].len)]

\* The order of a number's bytes that its kind promises.
Wire(kind, v) == IF kind = "le" THEN Reverse(v) ELSE v

\* Some values, packed by one machine and unpacked by another: be is the most
\* significant byte first, le the least, without gaps.
PackUnpack(fields, values, sender, receiver) ==
  LET wire == Pack(sender, fields, values)
  IN  /\ Len(wire) = Offset(fields, Len(fields) + 1)
      /\ \A i \in DOMAIN fields :
           SubSeq(wire, Offset(fields, i) + 1, Offset(fields, i + 1))
             = Wire(fields[i].kind, values[i])
      /\ Unpack(receiver, fields, wire) = values

\* utils.c, pack_ and unpack_: what one machine packs another unpacks, and the
\* bytes between them do not depend on either.
WireForm ==
  pc = "encrypt" =>
    \A fields \in {f \in FieldLists : Offset(f, Len(f) + 1) <= Len(src)} :
      \A sender, receiver \in Order : PackUnpack(fields, Values(fields), sender, receiver)

\* The bits of a message, the lowest of each byte first, with those of burst
\* inverted.
Data(text) == [i \in DOMAIN text |-> Bits(text[i])]
Damaged(data, burst) ==
  [i \in DOMAIN data |-> Xor(data[i], {b \in 0 .. 7 : 8 * (i - 1) + b \in burst})]
Bursts(first, length) == {{first} \cup {first + k : k \in rest} : rest \in SUBSET (1 .. length - 1)}

\* utils.c, the checksums: wrong bits that are close to each other are found,
\* wherever they are and over however many bytes.
Detected ==
  pc = "encrypt" /\ Len(src) <= MaxDamaged =>
    LET bits == 0 .. 8 * Len(src) - 1
    IN  \A first \in bits : \A burst \in Bursts(first, MaxBurst) :
          burst \subseteq bits => CrcBe16(Damaged(Data(src), burst)) # CrcBe16(Data(src))

\* A receiver may run the same loop over message and checksum and compare with
\* zero, if crc_le16() was packed with pack_be16() or crc_be16() with
\* pack_le16(), on a machine of either order.
Number(word) == <<{b - 8 : b \in word \ 0 .. 7}, word \cap 0 .. 7>>
Residue ==
  pc = "encrypt" =>
    LET data == Data(src)
    IN  \A order \in Order :
          /\ AddBytes(CrcBe16(data), Packed(order, "be", Number(CrcLe16(data)))) = {}
          /\ AddBytes(CrcBe16(data), Packed(order, "le", Number(CrcBe16(data)))) = {}
=============================================================================
