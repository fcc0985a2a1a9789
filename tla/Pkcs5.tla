-------------------------------- MODULE Pkcs5 --------------------------------
(***************************************************************************)
(* AES_ECB_PKCS5_Encrypt() and AES_ECB_PKCS5_Decrypt() of src/src/         *)
(* encrypt.c: one text encrypted, and what comes out decrypted.            *)
(*                                                                         *)
(* AES itself is opaque: a cipher block is a record of the clear block it  *)
(* was made from.  What is modelled is what the two functions add: the     *)
(* padding done by hand, the blocks EVP_DecryptUpdate() holds back because *)
(* its own padding was never turned off, the lengths that base64 gives     *)
(* back, and the unpadding.  Base64 turns 3 bytes into 4 characters.       *)
(***************************************************************************)
EXTENDS Integers, SequencesExt

CONSTANTS
  BlockSize,   \* AES_BLOCK_SIZE
  Text,        \* the texts to encrypt, sequences of bytes
  Garbage      \* what a buffer that was not written may hold

\* As of 16, three bytes leave one over; a block is not too short for the
\* buffer that base64 gets.
ASSUME BlockAssumption ==
  /\ BlockSize \in Nat /\ BlockSize >= 7
  /\ BlockSize % 3 = 1
  /\ \A text \in Text : text \in Seq(0 .. 255)
  /\ Garbage \subseteq 0 .. 255

VARIABLES
  pc,        \* what is executed
  src,       \* the text
  base64_en, \* both functions' parameter
  outLen,    \* *outLen of the function running
  cipher,    \* the blocks of the cipher text
  room,      \* the size of the buffer for its base64 form
  chars,     \* the length of its base64 form
  out,       \* Decrypt's buffer up to the length it returns
  error      \* history: has an OpenSSL call of Decrypt failed?

vars == <<pc, src, base64_en, outLen, cipher, room, chars, out, error>>

Init ==
  /\ pc = "encrypt"
  /\ src \in Text
  /\ base64_en \in BOOLEAN
  /\ outLen = 0
  /\ cipher = <<>>
  /\ room = 0
  /\ chars = 0
  /\ out = <<>>
  /\ error = FALSE

-----------------------------------------------------------------------------
(***************************************************************************)
(* AES_ECB_PKCS5_Encrypt().                                                *)
(***************************************************************************)

\* Mutated: a text that fills its blocks gets no block of padding.
BlockCountTight(n) == (n + BlockSize - 1) \div BlockSize
BlockCount(n) == n \div BlockSize + 1

\* memset() of the whole buffer with the padding, then memcpy() of the text.
Pad(s) ==
  [i \in 1 .. BlockSize * BlockCount(Len(s)) |->
     IF i <= Len(s) THEN s[i] ELSE BlockSize - (Len(s) % BlockSize)]

Block(bytes, k) == SubSeq(bytes, BlockSize * (k - 1) + 1, BlockSize * k)
Clear(blocks) ==
  [i \in 1 .. BlockSize * Len(blocks) |->
     blocks[((i - 1) \div BlockSize) + 1].clear[((i - 1) % BlockSize) + 1]]

\* EVP_EncryptUpdate() gives every whole block at once; *outLen is and stays
\* the length of the cipher text, also when it is base64 that is returned.
EncryptUpdate ==
  /\ pc = "encrypt"
  /\ pc' = IF base64_en THEN "encode" ELSE "decrypt"
  /\ cipher' = [k \in 1 .. BlockCount(Len(src)) |-> [clear |-> Block(Pad(src), k)]]
  /\ outLen' = BlockSize * BlockCount(Len(src))
  /\ UNCHANGED <<src, base64_en, room, chars, out, error>>

\* The size that malloc() is asked for.  Mutated: four characters for each
\* three bytes, none for a rest or the NUL.
RoomTight(n) == 4 * (n \div 3)
Room(n) == 2 * n

\* EVP_EncodeBlock(): four characters for each three bytes begun, and a NUL.
Encoded(n) == 4 * ((n + 2) \div 3)

Encode ==
  /\ pc = "encode"
  /\ pc' = "decrypt"
  /\ room' = Room(outLen)
  /\ chars' = Encoded(outLen)
  /\ UNCHANGED <<src, base64_en, outLen, cipher, out, error>>

\* An OpenSSL call of Encrypt fails.  It returns NULL, without base64 a buffer
\* of zeros, unless it loops.
EncryptFails ==
  /\ pc = "encrypt"
  /\ pc' \in {"error_loop", "failed"}
  /\ UNCHANGED <<src, base64_en, outLen, cipher, room, chars, out, error>>

\* handleOpenSSLErrors() asks once for the error and then loops on the same
\* value for as long as it is not zero.
HandleOpenSSLErrors ==
  /\ pc = "error_loop"
  /\ UNCHANGED vars

-----------------------------------------------------------------------------
(***************************************************************************)
(* AES_ECB_PKCS5_Decrypt() of the result.                                  *)
(***************************************************************************)

\* What EVP_DecryptUpdate() is given: the cipher text, or srcLen*3/4 bytes,
\* which are the cipher text and the zeros of base64's own padding.
InputLen == IF base64_en THEN (chars * 3) \div 4 ELSE outLen

\* It keeps back the last block when the input ends with a whole one, for
\* EVP_DecryptFinal() to look at, which is never called; otherwise it keeps
\* back the bytes after the last whole block.
DecryptUpdate ==
  /\ pc = "decrypt"
  /\ pc' = "unpad"
  /\ outLen' = IF InputLen % BlockSize = 0
               THEN InputLen - BlockSize
               ELSE BlockSize * (InputLen \div BlockSize)
  /\ out' = Clear(cipher)
  /\ UNCHANGED <<src, base64_en, cipher, room, chars, error>>

\* An OpenSSL call of Decrypt fails, and unless it loops the unpadding goes on
\* with a buffer that was not written and *outLen as the caller has it.
DecryptFails ==
  /\ pc = "decrypt"
  /\ pc' \in {"error_loop", "unpad"}
  /\ error' = TRUE
  /\ out' \in {[i \in 1 .. outLen |-> byte] : byte \in Garbage}
  /\ UNCHANGED <<src, base64_en, outLen, cipher, room, chars>>

\* The last byte given back is taken for the padding.  Before the buffer
\* there is no byte, and a length below zero is one that no buffer has.
Unpad ==
  /\ pc = "unpad"
  /\ \/ /\ outLen = 0
        /\ pc' = "before_buffer"
        /\ UNCHANGED <<outLen, out>>
     \/ /\ outLen > 0
        /\ outLen' = outLen - out[outLen]
        /\ IF outLen' < 0
           THEN pc' = "before_buffer" /\ UNCHANGED out
           ELSE pc' = "done" /\ out' = SubSeq(out, 1, outLen')
  /\ UNCHANGED <<src, base64_en, cipher, room, chars, error>>

-----------------------------------------------------------------------------
Next ==
  \/ EncryptUpdate
  \/ Encode
  \/ EncryptFails
  \/ HandleOpenSSLErrors
  \/ DecryptUpdate
  \/ DecryptFails
  \/ Unpad

Spec == Init /\ [][Next]_vars

FairSpec == Spec /\ WF_vars(Next)

-----------------------------------------------------------------------------
(***************************************************************************)
(* Properties.                                                             *)
(***************************************************************************)

\* An unpadding by the book: the last byte says how many to take off.
Unpadded(s) == SubSeq(s, 1, Len(s) - Last(s))

\* What is sent can be read: whoever decrypts all the blocks and takes off
\* the padding has the text, for every length, multiples of the block too.
CipherReadable == cipher # <<>> => Unpadded(Clear(cipher)) = src

\* The characters of base64 and the NUL behind them fit the buffer that
\* Encrypt allocates, whatever the rest that the cipher text leaves over.
EncodedFits == chars > 0 => chars + 1 <= room

\* encrypt.c on Decrypt, "the value returned is the plain text", when no call
\* of OpenSSL fails.
DecryptReturnsPlain ==
  ~error /\ pc \in {"done", "before_buffer"} => pc = "done" /\ out = src

\* encrypt.c on Encrypt, "the string returned": it returns, whatever OpenSSL
\* does.
EncryptReturns == <>(pc \in {"decrypt", "failed"})
=============================================================================
