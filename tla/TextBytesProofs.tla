--------------------------- MODULE TextBytesProofs ----------------------------
(***************************************************************************)
(* Proofs about Pkcs5, for texts of any length and blocks of any size, and *)
(* about Bytes, for fields and values of any number and messages of any    *)
(* length.                                                                 *)
(***************************************************************************)
EXTENDS TextBytes, WellFoundedInduction, TLAPS

-----------------------------------------------------------------------------
(***************************************************************************)
(* Induction, and what a function that is defined by recursion has for     *)
(* values.  The smallest number of a set is what a well-founded order      *)
(* gives; a smallest counterexample stands for an induction.               *)
(***************************************************************************)

\* A set of numbers that is not empty has a smallest one.
LEMMA Smallest ==
  ASSUME NEW S \in SUBSET Nat, S # {}
  PROVE  \E n \in S : \A m \in S : n <= m
<1> DEFINE R == OpToRel(<, Nat)
<1>1. IsWellFoundedOn(R, Nat)
  BY NatLessThanWellFounded
<1>2. \A m, n \in Nat : <<m, n>> \in R <=> m < n
  BY DEF OpToRel
<1> HIDE DEF R
<1>3. PICK n \in S : \A m \in S : ~ (<<m, n>> \in R)
  BY <1>1, WFMin
<1>4. \A m \in S : n \in Nat /\ m \in Nat /\ ~ (m < n)
  BY <1>2, <1>3
<1> QED
  BY <1>4

\* Induction for a set: without its step there would be a smallest number
\* outside.
LEMMA Induct ==
  ASSUME NEW S, 0 \in S, \A n \in Nat : n \in S => n + 1 \in S
  PROVE  \A n \in Nat : n \in S
<1> SUFFICES ASSUME NEW k \in Nat, k \notin S
             PROVE  FALSE
  OBVIOUS
<1> DEFINE Missing == {n \in Nat : n \notin S}
<1>1. PICK n \in Missing : \A m \in Missing : n <= m
  BY Smallest
<1>2. n # 0 /\ n \in Nat
  BY <1>1
<1>3. n - 1 \in Nat /\ n - 1 \notin Missing
  BY <1>1, <1>2
<1>4. n - 1 \in S /\ (n - 1) + 1 = n
  BY <1>2, <1>3
<1> QED
  BY <1>1, <1>3, <1>4

\* f[0] = a and f[i] = F[i][f[i - 1]] define a function: on each 0 .. n there is
\* one by induction, any two agree, and their last values are the function.
Recursive(D, S, a, F) ==
  /\ D \in SUBSET Nat
  /\ \A n \in D : 0 .. n \subseteq D
  /\ a \in S
  /\ F \in [D \ {0} -> [S -> S]]
Function(D, S, a, F) ==
  \E f \in [D -> S] : \A i \in D : f[i] = IF i = 0 THEN a ELSE F[i][f[i - 1]]

\* By induction, there is such a function.
LEMMA Recursion == \A D, S, a, F : Recursive(D, S, a, F) => Function(D, S, a, F)
<1> SUFFICES ASSUME NEW D, NEW S, NEW a, NEW F, Recursive(D, S, a, F)
             PROVE  Function(D, S, a, F)
  OBVIOUS
<1> USE DEF Recursive
<1> DEFINE Initial(n, h) ==
      h \in [0 .. n -> S] /\ \A i \in 0 .. n : h[i] = IF i = 0 THEN a ELSE F[i][h[i - 1]]
<1> DEFINE Has == {n \in Nat : n \in D => \E h : Initial(n, h)}
<1>1. 0 \in Has
  <2>1. Initial(0, [i \in 0 .. 0 |-> a])
    OBVIOUS
  <2> QED
    BY <2>1
<1>2. ASSUME NEW n \in Nat, n \in Has
      PROVE  n + 1 \in Has
  <2> SUFFICES ASSUME n + 1 \in D
               PROVE  \E h : Initial(n + 1, h)
    OBVIOUS
  <2>1. n \in D
    BY n \in 0 .. n + 1
  <2>2. PICK h : Initial(n, h)
    BY <1>2, <2>1
  <2> DEFINE k == [i \in 0 .. n + 1 |-> IF i <= n THEN h[i] ELSE F[n + 1][h[n]]]
  <2>3. h[n] \in S /\ F[n + 1][h[n]] \in S
    BY <2>2
  <2>4. k \in [0 .. n + 1 -> S]
    BY <2>2, <2>3
  <2>5. ASSUME NEW i \in 0 .. n + 1
        PROVE  k[i] = IF i = 0 THEN a ELSE F[i][k[i - 1]]
    <3>1. CASE i = n + 1
      <4>1. k[i] = F[i][h[n]] /\ k[i - 1] = h[n] /\ i # 0
        BY <3>1
      <4> QED
        BY <4>1
    <3>2. CASE i # n + 1
      <4>1. i \in 0 .. n /\ k[i] = h[i]
        BY <3>2
      <4>2. i # 0 => k[i - 1] = h[i - 1]
        BY <3>2
      <4> QED
        BY <2>2, <4>1, <4>2
    <3> QED
      BY <3>1, <3>2
  <2> QED
    BY <2>4, <2>5
<1> HIDE DEF Has
<1>3. \A n \in D : \E h : Initial(n, h)
  <2>1. \A n \in Nat : n \in Has
    BY <1>1, <1>2, Induct
  <2> QED
    BY <2>1 DEF Has
<1> DEFINE H(n) == CHOOSE h : Initial(n, h)
<1>4. \A n \in D : Initial(n, H(n))
  BY <1>3
<1>5. ASSUME NEW m \in Nat, NEW n \in Nat, m <= n, NEW h, NEW k, Initial(m, h), Initial(n, k)
      PROVE  \A i \in 0 .. m : h[i] = k[i]
  <2> DEFINE Same == {i \in Nat : i <= m => h[i] = k[i]}
  <2>1. 0 \in Same
    BY <1>5
  <2>2. ASSUME NEW i \in Nat, i \in Same
        PROVE  i + 1 \in Same
    <3> SUFFICES ASSUME i + 1 <= m
                 PROVE  h[i + 1] = k[i + 1]
      OBVIOUS
    <3>1. h[i] = k[i] /\ i + 1 \in 0 .. m /\ i + 1 \in 0 .. n /\ i + 1 # 0 /\ (i + 1) - 1 = i
      BY <1>5, <2>2
    <3> QED
      BY <1>5, <3>1
  <2> HIDE DEF Same
  <2>3. \A i \in Nat : i \in Same
    BY <2>1, <2>2, Induct
  <2> QED
    BY <2>3 DEF Same
<1> HIDE DEF H
<1> DEFINE f == [n \in D |-> H(n)[n]]
<1>6. f \in [D -> S]
  BY <1>4
<1>7. ASSUME NEW i \in D
      PROVE  f[i] = IF i = 0 THEN a ELSE F[i][f[i - 1]]
  <2>1. CASE i = 0
    BY <1>4, <2>1
  <2>2. CASE i # 0
    <3>1. i - 1 \in D /\ i - 1 \in Nat /\ i - 1 <= i
      BY <2>2, i - 1 \in 0 .. i
    <3>2. H(i - 1)[i - 1] = H(i)[i - 1]
      <4>1. Initial(i - 1, H(i - 1)) /\ Initial(i, H(i))
        BY <1>4, <3>1
      <4> HIDE DEF Initial
      <4>2. \A j \in 0 .. i - 1 : H(i - 1)[j] = H(i)[j]
        BY <1>5, <3>1, <4>1
      <4> QED
        BY <3>1, <4>2
    <3>3. H(i)[i] = F[i][H(i)[i - 1]]
      BY <1>4, <2>2
    <3> QED
      BY <2>2, <3>1, <3>2, <3>3
  <2> QED
    BY <2>1, <2>2
<1> QED
  BY <1>6, <1>7 DEF Function

-----------------------------------------------------------------------------
(***************************************************************************)
(* Pkcs5.                                                                  *)
(***************************************************************************)

\* A quotient and a remainder are those of the number they make up.
LEMMA Divided ==
  ASSUME NEW q \in Nat, NEW r \in 0 .. BlockSize - 1
  PROVE  /\ (BlockSize * q + r) \div BlockSize = q
         /\ (BlockSize * q + r) % BlockSize = r
<1> DEFINE n == BlockSize * q + r
<1>1. BlockSize \in Nat /\ BlockSize >= 7
  BY BlockAssumption
<1>2. n \in Nat /\ n = BlockSize * q + r
  BY <1>1
<1> HIDE DEF n
<1>3. n \div BlockSize = q
  BY <1>1, <1>2, Z3
<1>4. n % BlockSize = r
  BY <1>1, <1>2, Z3
<1> QED
  BY <1>3, <1>4 DEF n

\* A number of bytes is made up of whole blocks and a rest.
LEMMA Division ==
  ASSUME NEW n \in Nat
  PROVE  /\ n \div BlockSize \in Nat
         /\ n % BlockSize \in 0 .. BlockSize - 1
         /\ n = BlockSize * (n \div BlockSize) + (n % BlockSize)
<1> DEFINE q == n \div BlockSize
<1>1. BlockSize \in Nat /\ BlockSize >= 7
  BY BlockAssumption
<1>2. q \in Nat /\ n % BlockSize \in 0 .. BlockSize - 1
  BY <1>1
<1>3. BlockSize * q <= n /\ n < BlockSize * q + BlockSize
  BY <1>1, Z3
<1>4. BlockSize * q \in Nat
  BY <1>1, <1>2
<1> HIDE DEF q
<1>5. PICK r \in 0 .. BlockSize - 1 : n = BlockSize * q + r
  <2>1. n - BlockSize * q \in 0 .. BlockSize - 1 /\ n = BlockSize * q + (n - BlockSize * q)
    BY <1>1, <1>3, <1>4
  <2> QED
    BY <2>1
<1>6. n % BlockSize = r
  BY <1>2, <1>5, Divided
<1> QED
  BY <1>2, <1>5, <1>6 DEF q

\* The blocks of a padded text are its bytes and a rest of one byte or more.
LEMMA PaddedLength ==
  ASSUME NEW n \in Nat
  PROVE  /\ BlockCount(n) \in Nat \ {0}
         /\ BlockSize * BlockCount(n) \in Nat
         /\ BlockSize * BlockCount(n) = n + (BlockSize - (n % BlockSize))
         /\ n % BlockSize \in 0 .. BlockSize - 1
<1> DEFINE q == n \div BlockSize  r == n % BlockSize
<1>1. BlockSize \in Nat /\ BlockSize >= 7
  BY BlockAssumption
<1>2. q \in Nat /\ r \in 0 .. BlockSize - 1 /\ n = BlockSize * q + r
  BY Division
<1>3. BlockCount(n) = q + 1
  BY DEF BlockCount
<1> HIDE DEF q, r
<1>4. BlockSize * (q + 1) = BlockSize * q + BlockSize /\ BlockSize * q \in Nat
  BY <1>1, <1>2
<1>5. BlockSize * (q + 1) = n + (BlockSize - r)
  BY <1>1, <1>2, <1>4
<1> QED
  <2>1. BlockSize * BlockCount(n) = n + (BlockSize - r) /\ BlockCount(n) \in Nat \ {0}
    BY <1>2, <1>3, <1>5
  <2>2. n + (BlockSize - r) \in Nat
    BY <1>1, <1>2
  <2> QED
    BY <1>2, <2>1, <2>2 DEF r

\* An index is a block of its own and a place in it.
LEMMA Place ==
  ASSUME NEW K \in Nat, NEW i \in 1 .. BlockSize * K
  PROVE  /\ ((i - 1) \div BlockSize) + 1 \in 1 .. K
         /\ ((i - 1) % BlockSize) + 1 \in 1 .. BlockSize
         /\ BlockSize * ((i - 1) \div BlockSize) + ((i - 1) % BlockSize) + 1 = i
<1> DEFINE q == (i - 1) \div BlockSize  r == (i - 1) % BlockSize
<1>1. BlockSize \in Nat /\ BlockSize >= 7
  BY BlockAssumption
<1>2. BlockSize * K \in Nat
  BY <1>1
<1>3. q \in Nat /\ r \in 0 .. BlockSize - 1 /\ i - 1 = BlockSize * q + r
  <2>1. i - 1 \in Nat
    BY <1>2
  <2> QED
    BY <2>1, Division
<1> HIDE DEF q, r
<1>4. BlockSize * q \in Nat /\ BlockSize * q < BlockSize * K
  BY <1>1, <1>2, <1>3
<1>5. q < K
  <2> SUFFICES ASSUME q >= K
               PROVE  FALSE
    BY <1>3
  <2>1. PICK d \in Nat : q = K + d
    <3>1. q - K \in Nat /\ q = K + (q - K)
      BY <1>3
    <3> QED
      BY <3>1
  <2>2. BlockSize * q = BlockSize * K + BlockSize * d /\ BlockSize * d \in Nat
    BY <1>1, <2>1
  <2> QED
    BY <1>2, <1>4, <2>2
<1>6. q + 1 \in 1 .. K /\ r + 1 \in 1 .. BlockSize /\ BlockSize * q + r + 1 = i
  BY <1>1, <1>3, <1>4, <1>5
<1> QED
  BY <1>6 DEF q, r

\* The blocks, one behind the other, are the padded text.
LEMMA ClearOfBlocks ==
  ASSUME NEW s \in Seq(0 .. 255)
  PROVE  Clear([k \in 1 .. BlockCount(Len(s)) |-> [clear |-> Block(Pad(s), k)]]) = Pad(s)
<1> DEFINE K == BlockCount(Len(s))
           blocks == [k \in 1 .. K |-> [clear |-> Block(Pad(s), k)]]
<1>1. Len(s) \in Nat /\ BlockSize \in Nat /\ BlockSize >= 7
  BY BlockAssumption
<1>2. K \in Nat /\ Len(blocks) = K
  BY <1>1, PaddedLength
<1>3. Pad(s) = [i \in 1 .. BlockSize * K |->
                  IF i <= Len(s) THEN s[i] ELSE BlockSize - (Len(s) % BlockSize)]
  BY DEF Pad
<1>4. Clear(blocks) = [i \in 1 .. BlockSize * K |->
                         blocks[((i - 1) \div BlockSize) + 1].clear[((i - 1) % BlockSize) + 1]]
  BY <1>2 DEF Clear
<1>5. ASSUME NEW i \in 1 .. BlockSize * K
      PROVE  blocks[((i - 1) \div BlockSize) + 1].clear[((i - 1) % BlockSize) + 1] = Pad(s)[i]
  <2> DEFINE q == (i - 1) \div BlockSize  r == (i - 1) % BlockSize
  <2>1. q + 1 \in 1 .. K /\ r + 1 \in 1 .. BlockSize /\ BlockSize * q + r + 1 = i
    BY <1>2, Place
  <2>2. q \in Nat /\ r \in Nat
    <3>1. BlockSize * K \in Nat
      BY <1>1, <1>2
    <3>2. i - 1 \in Nat
      BY <3>1
    <3>3. q \in Nat /\ r \in 0 .. BlockSize - 1
      BY <3>2, Division
    <3> HIDE DEF q, r, K
    <3> QED
      BY <1>1, <3>3
  <2> HIDE DEF q, r, K
  <2>3. blocks[q + 1].clear = SubSeq(Pad(s), BlockSize * q + 1, BlockSize * (q + 1))
    <3>1. (q + 1) - 1 = q
      BY <2>2
    <3> QED
      BY <2>1, <3>1 DEF Block
  <2>4. BlockSize * (q + 1) = BlockSize * q + BlockSize /\ BlockSize * q \in Nat
    BY <1>1, <2>2
  <2>5. SubSeq(Pad(s), BlockSize * q + 1, BlockSize * (q + 1))[r + 1] = Pad(s)[i]
    <3> DEFINE a == BlockSize * q  b == BlockSize * (q + 1)  bytes == Pad(s)
    <3>1. a \in Nat /\ b = a + BlockSize /\ r + 1 \in 1 .. BlockSize /\ a + r + 1 = i
      BY <2>1, <2>4
    <3> HIDE DEF a, b, bytes
    <3>2. r + 1 \in 1 .. b - (a + 1) + 1 /\ (a + 1) + (r + 1) - 1 = i
      BY <1>1, <2>2, <3>1
    <3>3. SubSeq(bytes, a + 1, b)[r + 1] = bytes[(a + 1) + (r + 1) - 1]
      BY <1>1, <2>2, <3>1, <3>2
    <3>4. SubSeq(bytes, a + 1, b)[r + 1] = bytes[i]
      BY <3>2, <3>3
    <3> QED
      BY <3>4 DEF a, b, bytes
  <2> QED
    BY <2>3, <2>5 DEF q, r
<1> HIDE DEF K, blocks
<1> QED
  BY <1>3, <1>4, <1>5 DEF K, blocks

\* The padding says how much of it there is.
LEMMA PadUnpadded ==
  ASSUME NEW s \in Seq(0 .. 255)
  PROVE  Unpadded(Pad(s)) = s
<1> DEFINE n == Len(s)  rest == BlockSize - (n % BlockSize)  N == BlockSize * BlockCount(n)
<1>1. n \in Nat /\ N \in Nat /\ N = n + rest /\ rest \in Nat /\ rest >= 1
  <2>1. n \in Nat
    OBVIOUS
  <2>2. N \in Nat /\ N = n + rest /\ n % BlockSize \in 0 .. BlockSize - 1
    BY <2>1, PaddedLength
  <2> QED
    BY <2>1, <2>2, BlockAssumption
<1>2. Pad(s) = [i \in 1 .. N |-> IF i <= n THEN s[i] ELSE rest]
  BY DEF Pad
<1> HIDE DEF rest, N
<1>3. Len(Pad(s)) = N /\ Last(Pad(s)) = rest
  <2>1. Len(Pad(s)) = N
    BY <1>1, <1>2
  <2>2. N \in 1 .. N /\ ~ (N <= n)
    BY <1>1
  <2> QED
    BY <1>2, <2>1, <2>2 DEF Last
<1>4. Unpadded(Pad(s)) = SubSeq(Pad(s), 1, n)
  BY <1>1, <1>3 DEF Unpadded
<1>5. SubSeq(Pad(s), 1, n) = [i \in 1 .. n |-> s[i]]
  BY <1>1, <1>2
<1>6. [i \in 1 .. n |-> s[i]] = s
  OBVIOUS
<1> QED
  BY <1>4, <1>5, <1>6

-----------------------------------------------------------------------------
\* The cipher text is of the text, and base64 gets all of it.
CipherOfText ==
  cipher # <<>> => cipher = [k \in 1 .. BlockCount(Len(src)) |-> [clear |-> Block(Pad(src), k)]]
Unencoded == pc \in {"encrypt", "encode"} => chars = 0
LengthOfCipher ==
  pc = "encode" => cipher # <<>> /\ outLen = BlockSize * Len(cipher)
CharsOfCipher ==
  chars > 0 =>
    LET n == BlockSize * Len(cipher)
    IN  cipher # <<>> /\ chars = Encoded(n) /\ room = Room(n)
CipherIInv ==
  /\ src \in Text
  /\ CipherOfText
  /\ Unencoded
  /\ LengthOfCipher
  /\ CharsOfCipher

\* The inductive invariant of Pkcs5 holds in every reachable state.
LEMMA CipherInvariant == Spec => []CipherIInv
<1> USE DEF CipherIInv, CipherOfText, Unencoded, LengthOfCipher, CharsOfCipher
<1>1. Init => CipherIInv
  BY DEF Init
<1>2. CipherIInv /\ [Next]_vars => CipherIInv'
  <2> SUFFICES ASSUME CipherIInv, [Next]_vars
               PROVE  CipherIInv'
    OBVIOUS
  <2>1. CASE EncryptUpdate
    <3> DEFINE K == BlockCount(Len(src))
    <3>1. K \in Nat \ {0}
      <4>1. src \in Seq(0 .. 255)
        BY BlockAssumption
      <4> QED
        BY <4>1, PaddedLength
    <3>2. src' = src /\ chars' = chars /\ outLen' = BlockSize * K
          /\ cipher' = [k \in 1 .. K |-> [clear |-> Block(Pad(src), k)]]
      BY <2>1 DEF EncryptUpdate
    <3> HIDE DEF K
    <3>3. Len(cipher') = K /\ cipher' # <<>>
      BY <3>1, <3>2
    <3>4. chars' = 0
      BY <2>1 DEF EncryptUpdate
    <3>5. CharsOfCipher'
      BY <3>4
    <3> HIDE DEF CharsOfCipher
    <3> QED
      BY <3>2, <3>3, <3>4, <3>5 DEF K
  <2>2. CASE Encode
    BY <2>2 DEF Encode
  <2>3. CASE EncryptFails
    BY <2>3 DEF EncryptFails
  <2>4. CASE HandleOpenSSLErrors
    BY <2>4 DEF HandleOpenSSLErrors, vars
  <2>5. CASE DecryptUpdate
    BY <2>5 DEF DecryptUpdate
  <2>6. CASE Unpad
    BY <2>6 DEF Unpad
  <2>7. CASE DecryptFails
    BY <2>7 DEF DecryptFails
  <2>8. CASE UNCHANGED vars
    BY <2>8 DEF vars
  <2> QED
    BY <2>1, <2>2, <2>3, <2>4, <2>5, <2>6, <2>7, <2>8 DEF Next
<1> QED
  BY <1>1, <1>2, PTL DEF Spec

\* What is sent can be read: whoever decrypts all the blocks and takes off the
\* padding has the text, whatever text and size of block.
THEOREM Readable == Spec => []CipherReadable
<1>1. CipherIInv => CipherReadable
  <2> SUFFICES ASSUME CipherIInv, cipher # <<>>
               PROVE  Unpadded(Clear(cipher)) = src
    BY DEF CipherReadable
  <2>1. src \in Seq(0 .. 255)
    BY BlockAssumption DEF CipherIInv
  <2>2. Clear(cipher) = Pad(src)
    BY <2>1, ClearOfBlocks DEF CipherIInv, CipherOfText
  <2> QED
    BY <2>1, <2>2, PadUnpadded
<1> QED
  BY <1>1, CipherInvariant, PTL

\* encrypt.c, *outLen * 2: what Encrypt allocates has room for the characters
\* of base64 and the NUL behind them, whatever the text.  A block of 7 bytes or
\* more is what it takes; a buffer of a third more, BlockSize 16, is too small.
THEOREM Fits == Spec => []EncodedFits
<1>1. CipherIInv => EncodedFits
  <2> SUFFICES ASSUME CipherIInv, chars > 0
               PROVE  chars + 1 <= room
    BY DEF EncodedFits
  <2> DEFINE K == BlockCount(Len(src))  n == BlockSize * K
  <2>1. K \in Nat \ {0} /\ n \in Nat
    <3>1. Len(src) \in Nat
      BY BlockAssumption DEF CipherIInv
    <3> QED
      BY <3>1, PaddedLength
  <2>2. BlockSize * Len(cipher) = n /\ chars = Encoded(n) /\ room = Room(n)
    <3> HIDE DEF K
    <3>1. cipher = [k \in 1 .. K |-> [clear |-> Block(Pad(src), k)]]
      BY DEF CipherIInv, CipherOfText, CharsOfCipher, K
    <3>2. Len(cipher) = K
      BY <2>1, <3>1
    <3> QED
      BY <3>2 DEF CipherIInv, CharsOfCipher
  <2>3. n >= 7
    <3> HIDE DEF K
    <3>1. PICK d \in Nat : K = d + 1
      BY <2>1, K - 1 \in Nat /\ K = (K - 1) + 1
    <3>2. n = BlockSize * d + BlockSize /\ BlockSize * d \in Nat
      BY <3>1, BlockAssumption
    <3> QED
      BY <3>2, BlockAssumption
  <2> HIDE DEF n
  <2>4. chars = 4 * ((n + 2) \div 3) /\ chars \in Nat
    BY <2>1, <2>2 DEF Encoded
  <2>5. room = 2 * n
    BY <2>2 DEF Room
  <2>6. chars + 1 <= 2 * n
    BY <2>1, <2>3, <2>4
  <2> QED
    BY <2>5, <2>6
<1> QED
  BY <1>1, CipherInvariant, PTL

-----------------------------------------------------------------------------
(***************************************************************************)
(* Packing.                                                                *)
(***************************************************************************)

\* p moves over each field by its length.
LEMMA Offsets ==
  ASSUME NEW fields \in Seq(Field)
  PROVE  /\ Offset(fields, 1) = 0
         /\ \A i \in 1 .. Len(fields) : Offset(fields, i + 1) = Offset(fields, i) + fields[i].len
         /\ \A i \in 1 .. Len(fields) + 1 : Offset(fields, i) \in Nat
<1> DEFINE D == 0 .. Len(fields)
           F == [i \in D \ {0} |-> [n \in Nat |-> n + fields[i].len]]
           p == CHOOSE f : f = [j \in D |-> IF j = 0 THEN 0 ELSE f[j - 1] + fields[j].len]
<1>1. \A i \in 1 .. Len(fields) : fields[i].len \in Nat
  BY DEF Field, Numbers
<1>2. F \in [D \ {0} -> [Nat -> Nat]]
  BY <1>1
<1>3. Recursive(D, Nat, 0, F)
  BY <1>2 DEF Recursive
<1>4. PICK f \in [D -> Nat] : \A i \in D : f[i] = IF i = 0 THEN 0 ELSE F[i][f[i - 1]]
  <2> HIDE DEF D, F
  <2> QED
    BY <1>3, Recursion DEF Function
<1>5. f = [j \in D |-> IF j = 0 THEN 0 ELSE f[j - 1] + fields[j].len]
  <2>1. \A i \in D : i # 0 => F[i][f[i - 1]] = f[i - 1] + fields[i].len
    <3>1. \A i \in D : i # 0 => i - 1 \in D
      OBVIOUS
    <3>2. \A i \in D : i # 0 => f[i - 1] \in Nat
      BY <1>4, <3>1
    <3> QED
      BY <3>2
  <2> HIDE DEF D, F
  <2> QED
    BY <1>4, <2>1
<1>6. p = [j \in D |-> IF j = 0 THEN 0 ELSE p[j - 1] + fields[j].len]
  <2> HIDE DEF D
  <2> QED
    BY <1>5
<1>7. \A i : Offset(fields, i) = p[i - 1]
  BY DEF Offset
<1> HIDE DEF p
<1>8. p[0] = 0 /\ \A i \in 1 .. Len(fields) : p[i] = p[i - 1] + fields[i].len
  BY <1>6
<1> DEFINE Good == {i \in Nat : i <= Len(fields) => p[i] \in Nat}
<1>9. \A i \in Nat : i \in Good
  <2>1. 0 \in Good
    BY <1>8
  <2>2. ASSUME NEW i \in Nat, i \in Good
        PROVE  i + 1 \in Good
    <3> SUFFICES ASSUME i + 1 <= Len(fields)
                 PROVE  p[i + 1] \in Nat
      OBVIOUS
    <3>1. i + 1 \in 1 .. Len(fields) /\ (i + 1) - 1 = i /\ p[i] \in Nat
      BY <2>2
    <3>2. p[i + 1] = p[i] + fields[i + 1].len /\ fields[i + 1].len \in Nat
      BY <1>1, <1>8, <3>1
    <3> QED
      BY <3>1, <3>2
  <2> HIDE DEF Good
  <2> QED
    BY <2>1, <2>2, Induct
<1>10. \A i \in 1 .. Len(fields) : (i + 1) - 1 = i
  OBVIOUS
<1>11. \A i \in 1 .. Len(fields) + 1 : p[i - 1] \in Nat
  BY <1>9, \A i \in 1 .. Len(fields) + 1 : i - 1 \in Nat /\ i - 1 <= Len(fields)
<1> HIDE DEF Good
<1>12. Offset(fields, 1) = 0
  BY <1>7, <1>8, 1 - 1 = 0
<1>13. \A i \in 1 .. Len(fields) : Offset(fields, i + 1) = Offset(fields, i) + fields[i].len
  BY <1>7, <1>8, <1>10
<1>14. \A i \in 1 .. Len(fields) + 1 : Offset(fields, i) \in Nat
  BY <1>7, <1>11
<1> QED
  BY <1>12, <1>13, <1>14

\* BYTE_SWAP twice is nothing.
LEMMA Reversed ==
  ASSUME NEW S, NEW s \in Seq(S)
  PROVE  /\ Reverse(s) \in Seq(S)
         /\ Len(Reverse(s)) = Len(s)
         /\ Reverse(Reverse(s)) = s
<1>1. Reverse(s) = [i \in 1 .. Len(s) |-> s[(Len(s) - i) + 1]]
  BY DEF Reverse
<1>2. Reverse(s) \in Seq(S) /\ Len(Reverse(s)) = Len(s)
  BY <1>1
<1>3. Reverse(Reverse(s)) = [i \in 1 .. Len(s) |-> Reverse(s)[(Len(s) - i) + 1]]
  BY <1>2 DEF Reverse
<1>4. \A i \in 1 .. Len(s) : Reverse(s)[(Len(s) - i) + 1] = s[i]
  BY <1>1
<1> QED
  BY <1>2, <1>3, <1>4

\* On the wire, a number is what its kind promises, and is read back, whatever
\* the machines.
LEMMA PackedWire ==
  ASSUME NEW S, NEW v \in Seq(S), NEW kind \in {"be", "le", "str"}, NEW order \in Order
  PROVE  /\ Packed(order, kind, v) = Wire(kind, v)
         /\ Unpacked(order, kind, Wire(kind, v)) = v
         /\ Wire(kind, v) \in Seq(S)
         /\ Len(Wire(kind, v)) = Len(v)
<1>1. /\ Reverse(v) \in Seq(S)
      /\ Len(Reverse(v)) = Len(v)
      /\ Reverse(Reverse(v)) = v
  BY Reversed
<1> QED
  BY <1>1 DEF Packed, Unpacked, Wire, Memory, Swapped, Order

\* Sequences with the same elements are the same.
LEMMA SameSequence ==
  ASSUME NEW S, NEW u \in Seq(S), NEW v \in Seq(S), Len(u) = Len(v),
         \A i \in 1 .. Len(v) : u[i] = v[i]
  PROVE  u = v
  OBVIOUS

\* Two sequences, one behind the other, are as long as both.
LEMMA AppendedLength ==
  ASSUME NEW S, NEW s \in Seq(S), NEW t \in Seq(S)
  PROVE  s \o t \in Seq(S) /\ Len(s \o t) = Len(s) + Len(t)
  OBVIOUS

\* What was appended is at the end.
LEMMA AppendedPart ==
  ASSUME NEW S, NEW s \in Seq(S), NEW t \in Seq(S)
  PROVE  SubSeq(s \o t, Len(s) + 1, Len(s) + Len(t)) = t
<1> DEFINE u == SubSeq(s \o t, Len(s) + 1, Len(s) + Len(t))
<1>1. s \o t \in Seq(S) /\ Len(s \o t) = Len(s) + Len(t)
  OBVIOUS
<1>2. u \in Seq(S) /\ Len(u) = Len(t)
  BY <1>1
<1>3. \A i \in 1 .. Len(t) : u[i] = t[i]
  BY <1>1
<1> HIDE DEF u
<1>4. u = t
  BY <1>2, <1>3, SameSequence
<1> QED
  BY <1>4 DEF u

\* What was there before is where it was.
LEMMA Appended ==
  ASSUME NEW S, NEW s \in Seq(S), NEW t \in Seq(S), NEW m \in Nat, NEW n \in Nat, n <= Len(s)
  PROVE  SubSeq(s \o t, m + 1, n) = SubSeq(s, m + 1, n)
<1> DEFINE u == SubSeq(s \o t, m + 1, n)  v == SubSeq(s, m + 1, n)
<1>1. s \o t \in Seq(S) /\ Len(s \o t) = Len(s) + Len(t)
  OBVIOUS
<1>2. CASE m + 1 <= n
  <2>1. u \in Seq(S) /\ v \in Seq(S) /\ Len(u) = Len(v) /\ Len(v) = n - m
    BY <1>1, <1>2
  <2>2. \A i \in 1 .. Len(v) : u[i] = v[i]
    BY <1>1, <1>2
  <2> HIDE DEF u, v
  <2>3. u = v
    BY <2>1, <2>2, SameSequence
  <2> QED
    BY <2>3 DEF u, v
<1>3. CASE m + 1 > n
  BY <1>1, <1>3
<1> QED
  BY <1>2, <1>3

\* What is on the wire after some of the fields: each where it belongs.
OnWire(S, fields, values, wire, n) ==
  /\ wire \in Seq(S)
  /\ Len(wire) = Offset(fields, n + 1)
  /\ \A i \in 1 .. n :
       /\ Offset(fields, i + 1) <= Len(wire)
       /\ SubSeq(wire, Offset(fields, i) + 1, Offset(fields, i + 1)) = Wire(fields[i].kind, values[i])

\* By induction over the fields, p += pack_...() puts each where it belongs.
LEMMA PackedFields ==
  ASSUME NEW S, NEW fields \in Seq(Field), NEW order \in Order, NEW values,
         \A i \in 1 .. Len(fields) : values[i] \in Seq(S) /\ Len(values[i]) = fields[i].len
  PROVE  OnWire(S, fields, values, Pack(order, fields, values), Len(fields))
<1> DEFINE D == 0 .. Len(fields)
           F == [i \in D \ {0} |-> [s \in Seq(S) |-> s \o Packed(order, fields[i].kind, values[i])]]
           written == CHOOSE f : f = [i \in D |-> IF i = 0 THEN <<>>
                                  ELSE f[i - 1] \o Packed(order, fields[i].kind, values[i])]
<1>1. \A i \in 1 .. Len(fields) :
        /\ Packed(order, fields[i].kind, values[i]) = Wire(fields[i].kind, values[i])
        /\ Wire(fields[i].kind, values[i]) \in Seq(S)
        /\ Len(Wire(fields[i].kind, values[i])) = fields[i].len
  <2>1. \A i \in 1 .. Len(fields) : fields[i].kind \in {"be", "le", "str"}
    BY DEF Field, Numbers
  <2>2. ASSUME NEW i \in 1 .. Len(fields)
        PROVE  /\ Packed(order, fields[i].kind, values[i]) = Wire(fields[i].kind, values[i])
               /\ Wire(fields[i].kind, values[i]) \in Seq(S)
               /\ Len(Wire(fields[i].kind, values[i])) = Len(values[i])
    <3> DEFINE kind == fields[i].kind  v == values[i]
    <3>1. kind \in {"be", "le", "str"} /\ v \in Seq(S)
      BY <2>1
    <3> HIDE DEF kind, v
    <3>2. /\ Packed(order, kind, v) = Wire(kind, v)
          /\ Wire(kind, v) \in Seq(S)
          /\ Len(Wire(kind, v)) = Len(v)
      BY <3>1, PackedWire
    <3> QED
      BY <3>2 DEF kind, v
  <2> QED
    BY <2>2
<1>2. F \in [D \ {0} -> [Seq(S) -> Seq(S)]]
  <2>1. \A i \in D \ {0} : Packed(order, fields[i].kind, values[i]) \in Seq(S)
    BY <1>1
  <2>2. \A i \in D \ {0}, s \in Seq(S) : s \o Packed(order, fields[i].kind, values[i]) \in Seq(S)
    BY <2>1
  <2> QED
    BY <2>2
<1>3. Recursive(D, Seq(S), <<>>, F)
  BY <1>2 DEF Recursive
<1>4. PICK f \in [D -> Seq(S)] : \A i \in D : f[i] = IF i = 0 THEN <<>> ELSE F[i][f[i - 1]]
  <2> HIDE DEF D, F
  <2> QED
    BY <1>3, Recursion DEF Function
<1>5. f = [i \in D |-> IF i = 0 THEN <<>>
                       ELSE f[i - 1] \o Packed(order, fields[i].kind, values[i])]
  <2>1. \A i \in D : i # 0 => i - 1 \in D
    OBVIOUS
  <2>2. \A i \in D : i # 0 =>
          F[i][f[i - 1]] = f[i - 1] \o Packed(order, fields[i].kind, values[i])
    <3>1. \A i \in D : i # 0 => f[i - 1] \in Seq(S)
      BY <1>4, <2>1
    <3> QED
      BY <3>1
  <2> HIDE DEF D, F
  <2> QED
    BY <1>4, <2>2
<1>6. written = [i \in D |-> IF i = 0 THEN <<>>
                             ELSE written[i - 1] \o Packed(order, fields[i].kind, values[i])]
  <2> HIDE DEF D
  <2> QED
    BY <1>5
<1>7. Pack(order, fields, values) = written[Len(fields)]
  BY DEF Pack
<1> HIDE DEF written
<1>8. /\ written[0] = <<>>
      /\ \A i \in 1 .. Len(fields) :
           written[i] = written[i - 1] \o Wire(fields[i].kind, values[i])
  <2>1. written[0] = <<>>
    BY <1>6
  <2>2. ASSUME NEW i \in 1 .. Len(fields)
        PROVE  written[i] = written[i - 1] \o Wire(fields[i].kind, values[i])
    <3>1. i \in D /\ i # 0
      OBVIOUS
    <3> HIDE DEF D
    <3>2. written[i] = written[i - 1] \o Packed(order, fields[i].kind, values[i])
      BY <1>6, <3>1
    <3> QED
      BY <1>1, <3>2
  <2> QED
    BY <2>1, <2>2
<1> DEFINE Good == {n \in Nat : n <= Len(fields) => OnWire(S, fields, values, written[n], n)}
<1>9. 0 \in Good
  <2>1. written[0] \in Seq(S) /\ Len(written[0]) = Offset(fields, 0 + 1)
    BY <1>8, Offsets
  <2> QED
    BY <2>1 DEF OnWire
<1>10. ASSUME NEW n \in Nat, n \in Good
       PROVE  n + 1 \in Good
  <2> SUFFICES ASSUME n + 1 <= Len(fields)
               PROVE  OnWire(S, fields, values, written[n + 1], n + 1)
    OBVIOUS
  <2> DEFINE k == n + 1  s == written[n]  t == Wire(fields[k].kind, values[k])
  <2>1. k \in 1 .. Len(fields) /\ k - 1 = n /\ OnWire(S, fields, values, s, n)
    BY <1>10
  <2>2. s \in Seq(S) /\ t \in Seq(S) /\ Len(t) = fields[k].len /\ written[k] = s \o t
    BY <1>1, <1>8, <2>1 DEF OnWire
  <2>3. /\ Len(s) = Offset(fields, k)
        /\ Offset(fields, k + 1) = Len(s) + Len(t)
        /\ \A i \in 1 .. k + 1 : Offset(fields, i) \in Nat
    BY <2>1, <2>2, Offsets DEF OnWire
  <2> HIDE DEF k, s, t, Good
  <2>4. /\ written[k] \in Seq(S)
        /\ Len(written[k]) = Len(s) + Len(t)
        /\ SubSeq(written[k], Len(s) + 1, Len(s) + Len(t)) = t
        /\ \A i, j \in Nat : j <= Len(s) => SubSeq(written[k], i + 1, j) = SubSeq(s, i + 1, j)
    <3>1. s \o t \in Seq(S) /\ Len(s \o t) = Len(s) + Len(t)
      BY <2>2, AppendedLength
    <3>2. SubSeq(s \o t, Len(s) + 1, Len(s) + Len(t)) = t
      BY <2>2, AppendedPart
    <3>3. ASSUME NEW i \in Nat, NEW j \in Nat, j <= Len(s)
          PROVE  SubSeq(s \o t, i + 1, j) = SubSeq(s, i + 1, j)
      BY <2>2, <3>3, Appended
    <3> QED
      BY <2>2, <3>1, <3>2, <3>3
  <2>5. ASSUME NEW i \in 1 .. k
        PROVE  /\ Offset(fields, i + 1) <= Len(written[k])
               /\ SubSeq(written[k], Offset(fields, i) + 1, Offset(fields, i + 1))
                    = Wire(fields[i].kind, values[i])
    <3>1. CASE i = k
      <4>1. Offset(fields, i + 1) = Len(written[k])
        BY <2>3, <2>4, <3>1
      <4>2. Len(written[k]) \in Nat
        BY <2>4
      <4> QED
        <5>1. SubSeq(written[k], Offset(fields, k) + 1, Offset(fields, k + 1)) = t
          BY <2>3, <2>4
        <5>2. Offset(fields, i + 1) <= Len(written[k])
          BY <4>1, <4>2
        <5> QED
          BY <3>1, <5>1, <5>2 DEF t
    <3>2. CASE i # k
      <4>1. i \in 1 .. n /\ Offset(fields, i) \in Nat /\ Offset(fields, i + 1) \in Nat
        BY <2>1, <2>3, <3>2
      <4>2. /\ Offset(fields, i + 1) <= Len(s)
            /\ SubSeq(s, Offset(fields, i) + 1, Offset(fields, i + 1)) = Wire(fields[i].kind, values[i])
        BY <2>1, <4>1 DEF OnWire
      <4>3. Len(s) \in Nat /\ Len(t) \in Nat
        BY <2>2
      <4>4. SubSeq(written[k], Offset(fields, i) + 1, Offset(fields, i + 1))
              = SubSeq(s, Offset(fields, i) + 1, Offset(fields, i + 1))
        BY <2>4, <4>1, <4>2
      <4>5. Offset(fields, i + 1) <= Len(written[k])
        BY <2>4, <4>1, <4>2, <4>3
      <4> QED
        BY <4>2, <4>4, <4>5
    <3> QED
      BY <3>1, <3>2
  <2>6. OnWire(S, fields, values, written[k], k)
    BY <2>3, <2>4, <2>5 DEF OnWire
  <2> QED
    BY <2>6 DEF k
<1> HIDE DEF Good
<1>11. \A n \in Nat : n \in Good
  BY <1>9, <1>10, Induct
<1>12. OnWire(S, fields, values, written[Len(fields)], Len(fields))
  BY <1>11 DEF Good
<1> QED
  BY <1>7, <1>12

\* The values of some fields, of any bytes.
FieldValues(S, fields, values) ==
  /\ values = [i \in DOMAIN fields |-> values[i]]
  /\ \A i \in DOMAIN fields : values[i] \in Seq(S) /\ Len(values[i]) = fields[i].len

\* What one machine packs another unpacks, whatever the fields, their values
\* and the orders of both machines; and each field is where the lengths of those
\* before it put it, in the order of bytes that its kind promises.
THEOREM PackUnpackAny ==
  ASSUME NEW S, NEW fields \in Seq(Field), NEW values, FieldValues(S, fields, values),
         NEW sender \in Order, NEW receiver \in Order
  PROVE  PackUnpack(fields, values, sender, receiver)
<1> DEFINE wire == Pack(sender, fields, values)
<1>1. \A i \in 1 .. Len(fields) : values[i] \in Seq(S) /\ Len(values[i]) = fields[i].len
  BY DEF FieldValues
<1>2. OnWire(S, fields, values, wire, Len(fields))
  BY <1>1, PackedFields
<1> HIDE DEF wire
<1>3. Len(wire) = Offset(fields, Len(fields) + 1)
  BY <1>2 DEF OnWire
<1>4. \A i \in 1 .. Len(fields) :
        SubSeq(wire, Offset(fields, i) + 1, Offset(fields, i + 1))
          = Wire(fields[i].kind, values[i])
  BY <1>2 DEF OnWire
<1>5. ASSUME NEW i \in 1 .. Len(fields)
      PROVE  Unpacked(receiver, fields[i].kind,
               SubSeq(wire, Offset(fields, i) + 1, Offset(fields, i) + fields[i].len)) = values[i]
  <2>1. Offset(fields, i + 1) = Offset(fields, i) + fields[i].len
    BY Offsets
  <2> DEFINE kind == fields[i].kind  v == values[i]
  <2>2. kind \in {"be", "le", "str"} /\ v \in Seq(S)
    BY <1>1 DEF Field, Numbers
  <2> HIDE DEF kind, v
  <2>3. Unpacked(receiver, kind, Wire(kind, v)) = v
    BY <2>2, PackedWire
  <2> QED
    BY <1>4, <2>1, <2>3 DEF kind, v
<1>6. Unpack(receiver, fields, wire) = values
  <2>1. DOMAIN fields = 1 .. Len(fields)
    OBVIOUS
  <2>2. Unpack(receiver, fields, wire) = [i \in DOMAIN fields |-> values[i]]
    BY <1>5, <2>1 DEF Unpack
  <2> QED
    BY <2>2 DEF FieldValues
<1> QED
  BY <1>3, <1>4, <1>6 DEF wire, PackUnpack

\* A part inside a sequence is as long as it should be.
LEMMA Part ==
  ASSUME NEW S, NEW s \in Seq(S), NEW a \in Nat, NEW n \in Nat, a + n <= Len(s)
  PROVE  SubSeq(s, a + 1, a + n) \in Seq(S) /\ Len(SubSeq(s, a + 1, a + n)) = n
<1>1. CASE n = 0
  BY <1>1
<1>2. CASE n > 0
  BY <1>2
<1> QED
  BY <1>1, <1>2

\* No field begins behind the end of the last one.
LEMMA OffsetsRise ==
  ASSUME NEW fields \in Seq(Field), NEW i \in 1 .. Len(fields) + 1
  PROVE  Offset(fields, i) <= Offset(fields, Len(fields) + 1)
<1> DEFINE last == Len(fields) + 1
           Good == {n \in Nat : n < last => Offset(fields, last - n) <= Offset(fields, last)}
<1>1. \A j \in 1 .. last : Offset(fields, j) \in Nat
  BY Offsets
<1>2. 0 \in Good
  BY <1>1
<1>3. ASSUME NEW n \in Nat, n \in Good
      PROVE  n + 1 \in Good
  <2> SUFFICES ASSUME n + 1 < last
               PROVE  Offset(fields, last - (n + 1)) <= Offset(fields, last)
    OBVIOUS
  <2> DEFINE j == last - (n + 1)
  <2>1. j \in 1 .. Len(fields) /\ j + 1 = last - n /\ j + 1 \in 1 .. last
    OBVIOUS
  <2>2. Offset(fields, j + 1) <= Offset(fields, last)
    BY <1>3, <2>1
  <2> HIDE DEF j
  <2>3. Offset(fields, j + 1) = Offset(fields, j) + fields[j].len /\ fields[j].len \in Nat
    <3>1. Offset(fields, j + 1) = Offset(fields, j) + fields[j].len
      BY <2>1, Offsets
    <3>2. fields[j] \in Field
      BY <2>1
    <3> QED
      BY <3>1, <3>2 DEF Field, Numbers
  <2>4. Offset(fields, j) <= Offset(fields, j + 1)
    BY <1>1, <2>1, <2>3
  <2>5. Offset(fields, j) <= Offset(fields, last)
    BY <1>1, <2>1, <2>2, <2>4
  <2> QED
    BY <2>5 DEF j
<1> HIDE DEF Good
<1>4. \A n \in Nat : n \in Good
  BY <1>2, <1>3, Induct
<1>5. last - i \in Nat /\ last - i < last /\ last - (last - i) = i
  OBVIOUS
<1> QED
  BY <1>4, <1>5 DEF Good

\* utils.c, pack_ and unpack_: the first bytes of any text are packed and
\* unpacked again.
THEOREM WireFormKept == Spec => []WireForm
<1>1. CipherIInv => WireForm
  <2> SUFFICES ASSUME CipherIInv,
                      NEW fields \in FieldLists, Offset(fields, Len(fields) + 1) <= Len(src),
                      NEW sender \in Order, NEW receiver \in Order
               PROVE  PackUnpack(fields, Values(fields), sender, receiver)
    BY DEF WireForm
  <2> DEFINE v == Values(fields)  S == 0 .. 255
  <2>1. fields \in Seq(Field) /\ src \in Seq(S)
    BY BlockAssumption, BytesAssumption DEF CipherIInv
  <2> HIDE DEF S
  <2>2. ASSUME NEW i \in DOMAIN fields
        PROVE  v[i] \in Seq(S) /\ Len(v[i]) = fields[i].len
    <3> DEFINE a == Offset(fields, i)  n == fields[i].len
    <3>1. i \in 1 .. Len(fields)
      BY <2>1
    <3>2. n \in Nat
      BY <2>1, <3>1 DEF Field, Numbers
    <3>3. a \in Nat /\ Offset(fields, i + 1) = a + n
      BY <2>1, <3>1, Offsets
    <3>4. a + n <= Len(src)
      <4>1. i + 1 \in 1 .. Len(fields) + 1
        BY <2>1, <3>1
      <4>2. Offset(fields, i + 1) <= Offset(fields, Len(fields) + 1)
        BY <2>1, <4>1, OffsetsRise
      <4>3. Offset(fields, Len(fields) + 1) \in Nat
        BY <2>1, Offsets
      <4>4. Len(src) \in Nat
        BY <2>1
      <4> QED
        BY <3>2, <3>3, <4>2, <4>3, <4>4
    <3>5. v[i] = SubSeq(src, a + 1, a + n)
      BY DEF Values
    <3> HIDE DEF a, n, v
    <3>6. SubSeq(src, a + 1, a + n) \in Seq(S) /\ Len(SubSeq(src, a + 1, a + n)) = n
      BY <2>1, <3>2, <3>3, <3>4, Part
    <3> QED
      BY <3>5, <3>6 DEF n
  <2>3. v = [i \in DOMAIN fields |-> v[i]]
    BY DEF Values
  <2>4. FieldValues(S, fields, v)
    BY <2>2, <2>3 DEF FieldValues
  <2> HIDE DEF v
  <2>5. PackUnpack(fields, v, sender, receiver)
    BY <2>1, <2>4, PackUnpackAny
  <2> QED
    BY <2>5 DEF v
<1> QED
  BY <1>1, CipherInvariant, PTL

-----------------------------------------------------------------------------
(***************************************************************************)
(* The checksum.  A shift is linear and loses no bit that is set: its      *)
(* polynomial has the highest bit.                                         *)
(***************************************************************************)

Word == SUBSET (0 .. 15)
Byte == SUBSET (0 .. 7)

\* A bit of a ^ b is set if it is in one of the two.
LEMMA XorWord ==
  ASSUME NEW a \in Word, NEW b \in Word
  PROVE  /\ Xor(a, b) \in Word
         /\ \A x : x \in Xor(a, b) <=> ~ (x \in a <=> x \in b)
  BY DEF Xor, Word

\* A bit after a shift is the one above it, inverted by the polynomial if the
\* lowest bit was set.
LEMMA ShiftBit ==
  ASSUME NEW w \in Word
  PROVE  /\ Shift(w) \in Word
         /\ \A x \in 0 .. 15 : x \in Shift(w) <=> ~ (x + 1 \in w <=> 0 \in w /\ x \in {0, 13, 15})
<1> DEFINE shifted == {b - 1 : b \in w \ {0}}
<1>1. shifted \in Word /\ \A x \in 0 .. 15 : x \in shifted <=> x + 1 \in w
  <2>1. \A x \in 0 .. 15 : x + 1 \in w => x \in shifted
    <3> TAKE x \in 0 .. 15
    <3> HAVE x + 1 \in w
    <3>1. x + 1 \in w \ {0} /\ x = (x + 1) - 1
      OBVIOUS
    <3> QED
      BY <3>1
  <2>2. \A x \in shifted : x \in 0 .. 15 /\ x + 1 \in w
    BY DEF Word
  <2> QED
    BY <2>1, <2>2 DEF Word
<1>2. {0, 13, 15} \in Word
  BY DEF Word
<1>3. Shift(w) = IF 0 \in w THEN Xor(shifted, {0, 13, 15}) ELSE shifted
  BY DEF Shift, Poly
<1> HIDE DEF shifted
<1>4. CASE 0 \in w
  BY <1>1, <1>2, <1>3, <1>4, XorWord
<1>5. CASE 0 \notin w
  BY <1>1, <1>3, <1>5
<1> QED
  BY <1>4, <1>5

\* Words with the same bits are the same.
LEMMA SameWord ==
  ASSUME NEW a \in Word, NEW b \in Word, \A x \in 0 .. 15 : x \in a <=> x \in b
  PROVE  a = b
  BY DEF Word

\* The shift of a difference is the difference of the shifts.
LEMMA ShiftLinear ==
  ASSUME NEW a \in Word, NEW b \in Word
  PROVE  Shift(Xor(a, b)) = Xor(Shift(a), Shift(b))
<1>1. Xor(a, b) \in Word /\ Shift(a) \in Word /\ Shift(b) \in Word
  BY XorWord, ShiftBit
<1>2. Shift(Xor(a, b)) \in Word /\ Xor(Shift(a), Shift(b)) \in Word
  BY <1>1, XorWord, ShiftBit
<1>3. ASSUME NEW x \in 0 .. 15
      PROVE  x \in Shift(Xor(a, b)) <=> x \in Xor(Shift(a), Shift(b))
  <2>1. x \in Shift(Xor(a, b)) <=>
          ~ (x + 1 \in Xor(a, b) <=> 0 \in Xor(a, b) /\ x \in {0, 13, 15})
    BY <1>1, ShiftBit
  <2>2. x \in Shift(a) <=> ~ (x + 1 \in a <=> 0 \in a /\ x \in {0, 13, 15})
    BY ShiftBit
  <2>3. x \in Shift(b) <=> ~ (x + 1 \in b <=> 0 \in b /\ x \in {0, 13, 15})
    BY ShiftBit
  <2>4. /\ x + 1 \in Xor(a, b) <=> ~ (x + 1 \in a <=> x + 1 \in b)
        /\ 0 \in Xor(a, b) <=> ~ (0 \in a <=> 0 \in b)
    BY XorWord
  <2>5. x \in Xor(Shift(a), Shift(b)) <=> ~ (x \in Shift(a) <=> x \in Shift(b))
    BY <1>1, XorWord
  <2> QED
    BY <2>1, <2>2, <2>3, <2>4, <2>5
<1> QED
  BY <1>2, <1>3, SameWord

\* No word but zero is shifted to zero: a lowest bit that leaves sets the
\* highest.
LEMMA ShiftNonzero ==
  ASSUME NEW w \in Word, w # {}
  PROVE  Shift(w) # {}
<1>1. CASE 0 \in w
  <2>1. 16 \notin w
    BY DEF Word
  <2>2. 15 \in Shift(w)
    BY <1>1, <2>1, ShiftBit
  <2> QED
    BY <2>2
<1>2. CASE 0 \notin w
  <2>1. PICK b : b \in w
    OBVIOUS
  <2>2. b - 1 \in 0 .. 15 /\ (b - 1) + 1 = b
    BY <1>2, <2>1 DEF Word
  <2>3. b - 1 \in Shift(w)
    BY <1>2, <2>1, <2>2, ShiftBit
  <2> QED
    BY <2>3
<1> QED
  BY <1>1, <1>2

\* The inner loop, turn by turn.
LEMMA ShiftsRec ==
  ASSUME NEW w \in Word
  PROVE  /\ Shifts(w, 0) = w
         /\ \A n \in Nat : Shifts(w, n + 1) = Shift(Shifts(w, n))
<1> DEFINE F == [i \in Nat \ {0} |-> [u \in Word |-> Shift(u)]]
           after == CHOOSE f : f = [j \in Nat |-> IF j = 0 THEN w ELSE Shift(f[j - 1])]
<1>1. F \in [Nat \ {0} -> [Word -> Word]]
  BY ShiftBit
<1>2. Recursive(Nat, Word, w, F)
  BY <1>1 DEF Recursive
<1>3. PICK f \in [Nat -> Word] : \A i \in Nat : f[i] = IF i = 0 THEN w ELSE F[i][f[i - 1]]
  <2> HIDE DEF F
  <2>1. Function(Nat, Word, w, F)
    BY <1>2, Recursion
  <2> QED
    BY <2>1 DEF Function
<1>4. f = [j \in Nat |-> IF j = 0 THEN w ELSE Shift(f[j - 1])]
  <2>1. \A i \in Nat : i # 0 => i - 1 \in Nat
    OBVIOUS
  <2>2. \A i \in Nat : i # 0 => F[i][f[i - 1]] = Shift(f[i - 1])
    <3>1. \A i \in Nat : i # 0 => f[i - 1] \in Word
      BY <1>3, <2>1
    <3> QED
      BY <3>1
  <2> HIDE DEF F
  <2> QED
    BY <1>3, <2>2
<1>5. after = [j \in Nat |-> IF j = 0 THEN w ELSE Shift(after[j - 1])]
  BY <1>4
<1>6. \A n : Shifts(w, n) = after[n]
  BY DEF Shifts
<1> HIDE DEF after
<1>7. after[0] = w
  BY <1>5
<1>8. \A n \in Nat : after[n + 1] = Shift(after[n])
  <2>1. \A n \in Nat : n + 1 \in Nat /\ n + 1 # 0 /\ (n + 1) - 1 = n
    OBVIOUS
  <2> QED
    BY <1>5, <2>1
<1> QED
  BY <1>6, <1>7, <1>8

\* Any number of shifts gives a word, and zero only of zero.
LEMMA ShiftsWord ==
  ASSUME NEW w \in Word
  PROVE  \A n \in Nat : Shifts(w, n) \in Word /\ (w # {} => Shifts(w, n) # {})
<1> DEFINE Good == {n \in Nat : Shifts(w, n) \in Word /\ (w # {} => Shifts(w, n) # {})}
<1>1. 0 \in Good
  BY ShiftsRec
<1>2. ASSUME NEW n \in Nat, n \in Good
      PROVE  n + 1 \in Good
  <2>1. Shifts(w, n + 1) = Shift(Shifts(w, n))
    BY ShiftsRec
  <2> QED
    BY <1>2, <2>1, ShiftBit, ShiftNonzero
<1> HIDE DEF Good
<1>3. \A n \in Nat : n \in Good
  BY <1>1, <1>2, Induct
<1> QED
  BY <1>3 DEF Good

\* Any number of shifts is linear.
LEMMA ShiftsLinear ==
  ASSUME NEW a \in Word, NEW b \in Word
  PROVE  \A n \in Nat : Shifts(Xor(a, b), n) = Xor(Shifts(a, n), Shifts(b, n))
<1> DEFINE Good == {n \in Nat : Shifts(Xor(a, b), n) = Xor(Shifts(a, n), Shifts(b, n))}
<1>1. Xor(a, b) \in Word
  BY XorWord
<1>2. 0 \in Good
  BY <1>1, ShiftsRec
<1>3. ASSUME NEW n \in Nat, n \in Good
      PROVE  n + 1 \in Good
  <2>1. Shifts(a, n) \in Word /\ Shifts(b, n) \in Word
    BY ShiftsWord
  <2>2. Shift(Shifts(Xor(a, b), n)) = Xor(Shift(Shifts(a, n)), Shift(Shifts(b, n)))
    BY <1>3, <2>1, ShiftLinear
  <2> QED
    BY <1>1, <2>2, ShiftsRec
<1> HIDE DEF Good
<1>4. \A n \in Nat : n \in Good
  BY <1>2, <1>3, Induct
<1> QED
  BY <1>4 DEF Good

\* Shifts after shifts are that many more.
LEMMA ShiftsAdded ==
  ASSUME NEW w \in Word, NEW m \in Nat
  PROVE  \A n \in Nat : Shifts(w, m + n) = Shifts(Shifts(w, m), n)
<1> DEFINE Good == {n \in Nat : Shifts(w, m + n) = Shifts(Shifts(w, m), n)}
<1>1. Shifts(w, m) \in Word
  BY ShiftsWord
<1>2. 0 \in Good
  BY <1>1, ShiftsRec, m + 0 = m
<1>3. ASSUME NEW n \in Nat, n \in Good
      PROVE  n + 1 \in Good
  <2>1. m + n \in Nat /\ m + (n + 1) = (m + n) + 1
    OBVIOUS
  <2>2. Shifts(w, (m + n) + 1) = Shift(Shifts(w, m + n))
    BY <2>1, ShiftsRec
  <2>3. Shifts(Shifts(w, m), n + 1) = Shift(Shifts(Shifts(w, m), n))
    BY <1>1, ShiftsRec
  <2> QED
    BY <1>3, <2>1, <2>2, <2>3
<1> HIDE DEF Good
<1>4. \A n \in Nat : n \in Good
  BY <1>2, <1>3, Induct
<1> QED
  BY <1>4 DEF Good

\* As long as the bits shifted out are not set, a shift is only a shift.
LEMMA ShiftsClean ==
  ASSUME NEW w \in Word, NEW k \in 0 .. 16, \A x \in w : x >= k
  PROVE  Shifts(w, k) = {x - k : x \in w}
<1> DEFINE Good == {n \in Nat : n <= k =>
                      \A x \in 0 .. 15 : x \in Shifts(w, n) <=> x + n \in w}
<1>1. 0 \in Good
  BY ShiftsRec
<1>2. ASSUME NEW n \in Nat, n \in Good
      PROVE  n + 1 \in Good
  <2> SUFFICES ASSUME n + 1 <= k, NEW x \in 0 .. 15
               PROVE  x \in Shifts(w, n + 1) <=> x + (n + 1) \in w
    OBVIOUS
  <2> DEFINE u == Shifts(w, n)
  <2>1. u \in Word /\ Shifts(w, n + 1) = Shift(u)
    BY ShiftsRec, ShiftsWord
  <2>2. \A y \in 0 .. 15 : y \in u <=> y + n \in w
    BY <1>2
  <2> HIDE DEF u, Good
  <2>3. 0 \notin u
    BY <2>2
  <2>4. x \in Shift(u) <=> x + 1 \in u
    BY <2>1, <2>3, ShiftBit
  <2>5. x + 1 \in u <=> x + (n + 1) \in w
    BY <2>1, <2>2 DEF Word
  <2> QED
    BY <2>1, <2>4, <2>5
<1> HIDE DEF Good
<1>3. \A n \in Nat : n \in Good
  BY <1>1, <1>2, Induct
<1>4. \A x \in 0 .. 15 : x \in Shifts(w, k) <=> x + k \in w
  BY <1>3 DEF Good
<1>5. Shifts(w, k) \in Word
  BY ShiftsWord
<1>6. {x - k : x \in w} \in Word /\ \A x \in 0 .. 15 : x \in {y - k : y \in w} <=> x + k \in w
  <2>1. \A y \in w : y - k \in 0 .. 15
    BY DEF Word
  <2>2. \A x \in 0 .. 15 : \A y \in w : x = y - k => y = x + k
    BY DEF Word
  <2>3. \A x \in 0 .. 15 : x + k \in w => x = (x + k) - k
    OBVIOUS
  <2> QED
    BY <2>1, <2>2, <2>3 DEF Word
<1> QED
  BY <1>4, <1>5, <1>6, SameWord

\* A turn of the outer loop gives a word.
LEMMA AddByteWord ==
  ASSUME NEW w \in Word, NEW b \in Byte
  PROVE  AddByte(w, b) \in Word
<1>1. Xor(b, w) \in Word
  BY XorWord DEF Word, Byte
<1> QED
  BY <1>1, ShiftsWord DEF AddByte

\* The outer loop, turn by turn.
LEMMA AddBytesRec ==
  ASSUME NEW w \in Word, NEW data \in Seq(Byte)
  PROVE  \E after \in [0 .. Len(data) -> Word] :
           /\ after[0] = w
           /\ \A i \in 1 .. Len(data) : after[i] = AddByte(after[i - 1], data[i])
           /\ AddBytes(w, data) = after[Len(data)]
<1> DEFINE D == 0 .. Len(data)
           F == [i \in D \ {0} |-> [u \in Word |-> AddByte(u, data[i])]]
           after == CHOOSE f : f = [i \in D |-> IF i = 0 THEN w ELSE AddByte(f[i - 1], data[i])]
<1>1. F \in [D \ {0} -> [Word -> Word]]
  <2>1. \A i \in D \ {0} : data[i] \in Byte
    OBVIOUS
  <2>2. \A i \in D \ {0}, u \in Word : AddByte(u, data[i]) \in Word
    BY <2>1, AddByteWord
  <2> HIDE DEF D
  <2> QED
    BY <2>2
<1>2. Recursive(D, Word, w, F)
  BY <1>1 DEF Recursive
<1>3. PICK f \in [D -> Word] : \A i \in D : f[i] = IF i = 0 THEN w ELSE F[i][f[i - 1]]
  <2> HIDE DEF D, F
  <2> QED
    BY <1>2, Recursion DEF Function
<1>4. f = [i \in D |-> IF i = 0 THEN w ELSE AddByte(f[i - 1], data[i])]
  <2>1. \A i \in D : i # 0 => i - 1 \in D
    OBVIOUS
  <2>2. \A i \in D : i # 0 => F[i][f[i - 1]] = AddByte(f[i - 1], data[i])
    <3>1. \A i \in D : i # 0 => f[i - 1] \in Word
      BY <1>3, <2>1
    <3> QED
      BY <3>1
  <2> HIDE DEF D, F
  <2> QED
    BY <1>3, <2>2
<1>5. after = [i \in D |-> IF i = 0 THEN w ELSE AddByte(after[i - 1], data[i])]
  <2> HIDE DEF D
  <2> QED
    BY <1>4
<1>6. AddBytes(w, data) = after[Len(data)]
  BY DEF AddBytes
<1> HIDE DEF after
<1>7. after[0] = w /\ \A i \in 1 .. Len(data) : after[i] = AddByte(after[i - 1], data[i])
  BY <1>5
<1>8. after \in [D -> Word]
  <2> DEFINE Good == {n \in Nat : n <= Len(data) => after[n] \in Word}
  <2>1. 0 \in Good
    BY <1>7
  <2>2. ASSUME NEW n \in Nat, n \in Good
        PROVE  n + 1 \in Good
    <3> SUFFICES ASSUME n + 1 <= Len(data)
                 PROVE  after[n + 1] \in Word
      OBVIOUS
    <3>1. n + 1 \in 1 .. Len(data) /\ (n + 1) - 1 = n /\ data[n + 1] \in Byte
      OBVIOUS
    <3>2. after[n + 1] = AddByte(after[n], data[n + 1]) /\ after[n] \in Word
      BY <1>7, <2>2, <3>1
    <3> QED
      BY <3>1, <3>2, AddByteWord
  <2> HIDE DEF Good
  <2>3. \A n \in Nat : n \in Good
    BY <2>1, <2>2, Induct
  <2>4. \A n \in D : after[n] \in Word
    BY <2>3 DEF Good
  <2> HIDE DEF D
  <2> QED
    BY <1>5, <2>4
<1> QED
  BY <1>6, <1>7, <1>8

\* The bytes of a text, as sets of their bits.
LEMMA DataBytes ==
  ASSUME NEW text \in Seq(0 .. 255)
  PROVE  Data(text) \in Seq(Byte) /\ Len(Data(text)) = Len(text)
<1>1. \A i \in 1 .. Len(text) : Bits(text[i]) \in Byte
  BY DEF Bits, Byte
<1> QED
  BY <1>1 DEF Data

\* A checksum is a word.
LEMMA CrcWord ==
  ASSUME NEW data \in Seq(Byte)
  PROVE  CrcBe16(data) \in Word
<1>1. 0 .. 15 \in Word
  BY DEF Word
<1>2. \E after \in [0 .. Len(data) -> Word] : AddBytes(0 .. 15, data) = after[Len(data)]
  BY <1>1, AddBytesRec
<1>3. AddBytes(0 .. 15, data) \in Word
  BY <1>2
<1> QED
  BY <1>3 DEF CrcBe16

\* A byte that is equal to the low one of the word leaves the high one, and
\* that byte leaves nothing.
LEMMA OwnBytes ==
  ASSUME NEW w \in Word
  PROVE  AddBytes(w, <<w \cap 0 .. 7, {b - 8 : b \in w \ 0 .. 7}>>) = {}
<1> DEFINE low == w \cap 0 .. 7  high == {b - 8 : b \in w \ 0 .. 7}
<1>1. low \in Byte /\ high \in Byte /\ high \in Word /\ low \in Word
  BY DEF Word, Byte
<1>2. AddByte(w, low) = high
  <2>1. Xor(low, w) = w \ 0 .. 7
    BY DEF Xor
  <2>2. w \ 0 .. 7 \in Word /\ \A x \in w \ 0 .. 7 : x >= 8
    BY DEF Word
  <2>3. Shifts(w \ 0 .. 7, 8) = {x - 8 : x \in w \ 0 .. 7}
    BY <2>2, ShiftsClean
  <2> QED
    BY <2>1, <2>3 DEF AddByte
<1>3. AddByte(high, high) = {}
  <2>1. Xor(high, high) = {}
    BY DEF Xor
  <2>2. {} \in Word
    BY DEF Word
  <2>3. Shifts({}, 8) = {x - 8 : x \in {}}
    BY <2>2, ShiftsClean
  <2> HIDE DEF high
  <2> QED
    BY <2>1, <2>3 DEF AddByte
<1> HIDE DEF low, high
<1> DEFINE data == <<low, high>>
<1>4. data \in Seq(Byte) /\ Len(data) = 2 /\ data[1] = low /\ data[2] = high
  BY <1>1
<1> HIDE DEF data
<1>5. PICK after \in [0 .. Len(data) -> Word] :
        /\ after[0] = w
        /\ \A i \in 1 .. Len(data) : after[i] = AddByte(after[i - 1], data[i])
        /\ AddBytes(w, data) = after[Len(data)]
  BY <1>4, AddBytesRec
<1>6. after[1] = AddByte(w, low)
  BY <1>4, <1>5, 1 - 1 = 0
<1>7. after[2] = AddByte(after[1], high)
  BY <1>4, <1>5, 2 - 1 = 1
<1>8. AddBytes(w, data) = {}
  BY <1>2, <1>3, <1>4, <1>5, <1>6, <1>7
<1> QED
  BY <1>8 DEF data, low, high

\* utils.c, crc_le16() and crc_be16(): the checksum behind any message, its low
\* byte first, leaves zero.
THEOREM ResidueZero == Spec => []Residue
<1>1. CipherIInv => Residue
  <2> SUFFICES ASSUME CipherIInv, NEW order \in Order
               PROVE  LET data == Data(src)
                      IN  /\ AddBytes(CrcBe16(data), Packed(order, "be", Number(CrcLe16(data)))) = {}
                          /\ AddBytes(CrcBe16(data), Packed(order, "le", Number(CrcBe16(data)))) = {}
    BY DEF Residue
  <2> DEFINE data == Data(src)  w == CrcBe16(data)
             low == w \cap 0 .. 7  high == {b - 8 : b \in w \ 0 .. 7}
  <2>1. w \in Word
    <3>1. src \in Seq(0 .. 255)
      BY BlockAssumption DEF CipherIInv
    <3>2. data \in Seq(Byte)
      BY <3>1, DataBytes
    <3> HIDE DEF data
    <3> QED
      BY <3>2, CrcWord
  <2> HIDE DEF data
  <2>2. CrcLe16(data) = {IF b < 8 THEN b + 8 ELSE b - 8 : b \in w}
    BY DEF CrcLe16
  <2> HIDE DEF w
  <2>3. Number(CrcLe16(data)) = <<low, high>>
    <3> DEFINE swapped == {IF b < 8 THEN b + 8 ELSE b - 8 : b \in w}
    <3>1. {b - 8 : b \in swapped \ 0 .. 7} = low
      <4>1. \A b \in swapped \ 0 .. 7 : b - 8 \in low
        BY <2>1 DEF Word
      <4>2. \A b \in low : b + 8 \in swapped \ 0 .. 7 /\ b = (b + 8) - 8
        BY <2>1 DEF Word
      <4> QED
        BY <4>1, <4>2
    <3>2. swapped \cap 0 .. 7 = high
      BY <2>1 DEF Word
    <3> HIDE DEF swapped, low, high
    <3>3. CrcLe16(data) = swapped
      BY <2>2 DEF swapped
    <3> QED
      BY <3>1, <3>2, <3>3 DEF Number
  <2>4. Number(w) = <<high, low>>
    BY DEF Number
  <2>5. low \in Byte /\ high \in Byte
    BY <2>1 DEF Word, Byte
  <2>6. AddBytes(w, <<low, high>>) = {}
    BY <2>1, OwnBytes
  <2> HIDE DEF low, high
  <2>7. <<low, high>> \in Seq(Byte) /\ <<high, low>> \in Seq(Byte)
    BY <2>5
  <2>8. Packed(order, "be", <<low, high>>) = <<low, high>>
    BY <2>7, PackedWire DEF Wire
  <2>9. Packed(order, "le", <<high, low>>) = <<low, high>>
    <3>1. Packed(order, "le", <<high, low>>) = Reverse(<<high, low>>)
      BY <2>7, PackedWire DEF Wire
    <3>2. Reverse(<<high, low>>) = <<low, high>>
      BY DEF Reverse
    <3> QED
      BY <3>1, <3>2
  <2> QED
    BY <2>3, <2>4, <2>6, <2>8, <2>9 DEF w, data
<1> QED
  BY <1>1, CipherInvariant, PTL

-----------------------------------------------------------------------------
(***************************************************************************)
(* A burst of wrong bits.  The difference of the two words is added to by  *)
(* the wrong bits alone.  From the byte on after the one where the burst   *)
(* begins, the difference and the wrong bits to come make up a word that   *)
(* is not zero, and that the loop only shifts.                             *)
(***************************************************************************)

\* After a byte, of which one message has some bits wrong, the words differ by
\* what they differed by before and these bits, shifted.
LEMMA AddByteDifference ==
  ASSUME NEW v \in Word, NEW w \in Word, NEW b \in Byte, NEW e \in Byte
  PROVE  Xor(AddByte(v, Xor(b, e)), AddByte(w, b)) = Shifts(Xor(Xor(v, w), e), 8)
<1>1. b \in Word /\ e \in Word
  BY DEF Word, Byte
<1>2. Xor(b, e) \in Word /\ Xor(v, w) \in Word
  BY <1>1, XorWord
<1>3. Xor(Xor(b, e), v) \in Word /\ Xor(b, w) \in Word /\ Xor(Xor(v, w), e) \in Word
  BY <1>1, <1>2, XorWord
<1>4. Xor(Xor(Xor(b, e), v), Xor(b, w)) = Xor(Xor(v, w), e)
  BY DEF Xor
<1>5. Shifts(Xor(Xor(Xor(b, e), v), Xor(b, w)), 8)
        = Xor(Shifts(Xor(Xor(b, e), v), 8), Shifts(Xor(b, w), 8))
  BY <1>3, ShiftsLinear
<1> QED
  BY <1>4, <1>5 DEF AddByte

\* The wrong bits of a byte, and those of the sixteen after it.
Wrong(burst, i) == {b \in 0 .. 7 : 8 * (i - 1) + b \in burst}
ToCome(burst, i) == {x \in 0 .. 15 : 8 * i + x \in burst}

\* Behind the byte where the burst begins: one more byte shifts the difference
\* with what is to come, no more.
LEMMA ToComeNext ==
  ASSUME NEW first \in Nat, NEW burst \in SUBSET (first .. first + 15),
         NEW i \in Nat, first < 8 * i, NEW d \in Word
  PROVE  Xor(Shifts(Xor(d, Wrong(burst, i + 1)), 8), ToCome(burst, i + 1))
           = Shifts(Xor(d, ToCome(burst, i)), 8)
<1> DEFINE wrong == Wrong(burst, i + 1)  high == {x \in ToCome(burst, i) : x >= 8}
<1>1. wrong \in Word /\ high \in Word /\ ToCome(burst, i) \in Word
  BY DEF Word, Wrong, ToCome
<1>2. ToCome(burst, i) = Xor(wrong, high)
  <2>1. (i + 1) - 1 = i
    OBVIOUS
  <2>2. wrong = {b \in 0 .. 7 : 8 * i + b \in burst}
    BY <2>1 DEF Wrong
  <2> QED
    BY <2>2 DEF ToCome, Xor
<1>3. Shifts(high, 8) = {x - 8 : x \in high}
  <2> HIDE DEF high
  <2>1. \A x \in high : x >= 8
    BY DEF high
  <2> QED
    BY <1>1, <2>1, ShiftsClean
<1>4. {x - 8 : x \in high} = ToCome(burst, i + 1)
  <2>1. \A x \in high : x - 8 \in ToCome(burst, i + 1)
    BY DEF ToCome
  <2>2. ASSUME NEW y \in ToCome(burst, i + 1)
        PROVE  y + 8 \in high /\ y = (y + 8) - 8
    <3>1. y \in 0 .. 15 /\ 8 * i + (y + 8) \in burst
      BY DEF ToCome
    <3>2. 8 * i + (y + 8) <= first + 15
      BY <3>1
    <3>3. y + 8 \in 0 .. 15
      BY <3>1, <3>2
    <3> QED
      BY <3>1, <3>3 DEF ToCome
  <2> HIDE DEF high
  <2> QED
    BY <2>1, <2>2
<1> HIDE DEF wrong, high
<1>5. Xor(d, wrong) \in Word
  BY <1>1, XorWord
<1>6. Shifts(Xor(Xor(d, wrong), high), 8) = Xor(Shifts(Xor(d, wrong), 8), Shifts(high, 8))
  BY <1>1, <1>5, ShiftsLinear
<1>7. Xor(Xor(d, wrong), high) = Xor(d, Xor(wrong, high))
  BY DEF Xor
<1> QED
  BY <1>2, <1>3, <1>4, <1>6, <1>7 DEF wrong

\* Where the burst begins.
LEMMA ToComeFirst ==
  ASSUME NEW first \in Nat, NEW burst \in SUBSET (first .. first + 15), first \in burst,
         NEW i \in Nat, NEW s \in 0 .. 7, first = 8 * i + s
  PROVE  Xor(Shifts(Wrong(burst, i + 1), 8), ToCome(burst, i + 1)) # {}
<1> DEFINE wrong == Wrong(burst, i + 1)
           low == {x - s : x \in wrong}
           high == {x \in 8 - s .. 15 : first + x \in burst}
<1>1. wrong = {b \in 0 .. 7 : 8 * i + b \in burst}
  <2>1. (i + 1) - 1 = i
    OBVIOUS
  <2> QED
    BY <2>1 DEF Wrong
<1>2. wrong \in Word /\ \A x \in wrong : x >= s
  BY <1>1 DEF Word
<1>3. high \in Word /\ \A x \in high : x >= 8 - s
  BY DEF Word
<1>4. low \in Word /\ 0 \in low
  <2>1. s \in wrong /\ s - s = 0
    BY <1>1
  <2>2. \A x \in wrong : x - s \in 0 .. 15
    BY <1>1, <1>2
  <2> HIDE DEF wrong
  <2>3. 0 \in low
    BY <2>1
  <2> QED
    BY <2>2, <2>3 DEF Word
<1>5. 0 \notin high
  OBVIOUS
<1>6. {x - (8 - s) : x \in high} = ToCome(burst, i + 1)
  <2>1. \A x \in high : x - (8 - s) \in ToCome(burst, i + 1)
    BY DEF ToCome
  <2>2. ASSUME NEW y \in ToCome(burst, i + 1)
        PROVE  y + (8 - s) \in high /\ y = (y + (8 - s)) - (8 - s)
    <3>1. y \in 0 .. 15 /\ first + (y + (8 - s)) \in burst
      BY DEF ToCome
    <3>2. first + (y + (8 - s)) <= first + 15
      BY <3>1
    <3> QED
      BY <3>1, <3>2
  <2> HIDE DEF high
  <2> QED
    BY <2>1, <2>2
<1> HIDE DEF wrong, high
<1>7. Shifts(wrong, s) = low
  BY <1>2, ShiftsClean
<1>8. Shifts(high, 8 - s) = ToCome(burst, i + 1)
  <2>1. 8 - s \in 0 .. 16
    OBVIOUS
  <2>2. Shifts(high, 8 - s) = {x - (8 - s) : x \in high}
    BY <1>3, <2>1, ShiftsClean
  <2> QED
    BY <1>6, <2>2
<1> HIDE DEF low
<1>9. Shifts(wrong, 8) = Shifts(low, 8 - s)
  <2>1. s \in Nat /\ 8 - s \in Nat /\ s + (8 - s) = 8
    OBVIOUS
  <2>2. Shifts(wrong, s + (8 - s)) = Shifts(Shifts(wrong, s), 8 - s)
    BY <1>2, <2>1, ShiftsAdded
  <2> QED
    BY <1>7, <2>1, <2>2
<1>10. Xor(low, high) \in Word /\ Xor(low, high) # {}
  <2>1. 0 \in Xor(low, high)
    BY <1>4, <1>5 DEF Xor
  <2> QED
    BY <1>3, <1>4, <2>1, XorWord
<1>11. Shifts(Xor(low, high), 8 - s) = Xor(Shifts(low, 8 - s), Shifts(high, 8 - s))
  BY <1>3, <1>4, ShiftsLinear, 8 - s \in Nat
<1>12. Shifts(Xor(low, high), 8 - s) # {}
  BY <1>10, ShiftsWord, 8 - s \in Nat
<1> QED
  BY <1>8, <1>9, <1>11, <1>12 DEF wrong

\* The bytes of a message with wrong bits.
LEMMA DamagedBytes ==
  ASSUME NEW data \in Seq(Byte), NEW burst
  PROVE  /\ Damaged(data, burst) \in Seq(Byte)
         /\ Len(Damaged(data, burst)) = Len(data)
         /\ \A i \in 1 .. Len(data) : Damaged(data, burst)[i] = Xor(data[i], Wrong(burst, i))
<1>1. Damaged(data, burst) = [i \in 1 .. Len(data) |-> Xor(data[i], Wrong(burst, i))]
  BY DEF Damaged, Wrong
<1>2. \A i \in 1 .. Len(data) : Xor(data[i], Wrong(burst, i)) \in Byte
  <2>1. \A i \in 1 .. Len(data) : data[i] \in Byte
    OBVIOUS
  <2> QED
    BY <2>1 DEF Xor, Wrong, Byte
<1> QED
  BY <1>1, <1>2

\* Wrong bits in any message of any length, in sixteen successive ones and no
\* others, change the checksum.
THEOREM BurstDetected ==
  ASSUME NEW data \in Seq(Byte),
         NEW first \in Nat, NEW burst \in SUBSET (first .. first + 15), first \in burst,
         burst \subseteq 0 .. 8 * Len(data) - 1
  PROVE  CrcBe16(Damaged(data, burst)) # CrcBe16(data)
<1> DEFINE n == Len(data)  damaged == Damaged(data, burst)
           start == first \div 8  s == first % 8
<1>1. /\ damaged \in Seq(Byte) /\ Len(damaged) = n
      /\ \A i \in 1 .. n : damaged[i] = Xor(data[i], Wrong(burst, i))
  BY DamagedBytes
<1>2. n \in Nat /\ start \in Nat /\ s \in 0 .. 7 /\ first = 8 * start + s /\ start < n
  OBVIOUS
<1>3. 0 .. 15 \in Word
  BY DEF Word
<1> HIDE DEF damaged, start, s
<1>4. PICK v \in [0 .. n -> Word] :
        /\ v[0] = 0 .. 15
        /\ \A i \in 1 .. n : v[i] = AddByte(v[i - 1], damaged[i])
        /\ AddBytes(0 .. 15, damaged) = v[n]
  BY <1>1, <1>3, AddBytesRec
<1>5. PICK w \in [0 .. n -> Word] :
        /\ w[0] = 0 .. 15
        /\ \A i \in 1 .. n : w[i] = AddByte(w[i - 1], data[i])
        /\ AddBytes(0 .. 15, data) = w[n]
  BY <1>3, AddBytesRec
<1> HIDE DEF n
<1> DEFINE Diff(i) == Xor(v[i], w[i])
<1>6. \A i \in 0 .. n : Diff(i) \in Word
  BY <1>4, <1>5, XorWord
<1>7. ASSUME NEW i \in 1 .. n
      PROVE  Diff(i) = Shifts(Xor(Diff(i - 1), Wrong(burst, i)), 8)
  <2>1. v[i - 1] \in Word /\ w[i - 1] \in Word
    BY <1>2, <1>4, <1>5
  <2>2. data[i] \in Byte /\ Wrong(burst, i) \in Byte
    BY DEF n, Wrong, Byte
  <2>3. v[i] = AddByte(v[i - 1], Xor(data[i], Wrong(burst, i))) /\ w[i] = AddByte(w[i - 1], data[i])
    BY <1>1, <1>4, <1>5
  <2> QED
    BY <2>1, <2>2, <2>3, AddByteDifference
<1> HIDE DEF Diff
<1>8. Diff(start) = {}
  <2> DEFINE Good == {i \in Nat : i <= start => Diff(i) = {}}
  <2>1. 0 \in Good
    BY <1>4, <1>5 DEF Diff, Xor
  <2>2. ASSUME NEW i \in Nat, i \in Good
        PROVE  i + 1 \in Good
    <3> SUFFICES ASSUME i + 1 <= start
                 PROVE  Diff(i + 1) = {}
      OBVIOUS
    <3>1. i + 1 \in 1 .. n /\ (i + 1) - 1 = i /\ Diff(i) = {}
      BY <1>2, <2>2
    <3>2. Wrong(burst, i + 1) = {}
      <4>1. \A b \in 0 .. 7 : 8 * i + b < first
        BY <1>2
      <4> QED
        BY <3>1, <4>1 DEF Wrong
    <3>3. Xor({}, {}) = {} /\ {} \in Word
      BY DEF Xor, Word
    <3>4. Shifts({}, 8) = {x - 8 : x \in {}}
      BY <3>3, ShiftsClean
    <3> QED
      BY <1>7, <3>1, <3>2, <3>3, <3>4
  <2> HIDE DEF Good
  <2>3. \A i \in Nat : i \in Good
    BY <2>1, <2>2, Induct
  <2> QED
    BY <1>2, <2>3 DEF Good
<1>9. Xor(Diff(start + 1), ToCome(burst, start + 1)) # {}
  <2>1. start + 1 \in 1 .. n /\ (start + 1) - 1 = start
    BY <1>2
  <2>2. Xor({}, Wrong(burst, start + 1)) = Wrong(burst, start + 1)
    BY DEF Xor
  <2>3. Diff(start + 1) = Shifts(Wrong(burst, start + 1), 8)
    BY <1>7, <1>8, <2>1, <2>2
  <2> QED
    BY <1>2, <2>3, ToComeFirst
<1>10. Xor(Diff(n), ToCome(burst, n)) # {}
  <2> DEFINE Good == {k \in Nat : start + 1 + k <= n =>
                        Xor(Diff(start + 1 + k), ToCome(burst, start + 1 + k)) # {}}
  <2>1. 0 \in Good
    BY <1>2, <1>9, start + 1 + 0 = start + 1
  <2>2. ASSUME NEW k \in Nat, k \in Good
        PROVE  k + 1 \in Good
    <3> DEFINE i == start + 1 + k
    <3> SUFFICES ASSUME i + 1 <= n
                 PROVE  Xor(Diff(i + 1), ToCome(burst, i + 1)) # {}
      BY <1>2, start + 1 + (k + 1) = i + 1
    <3>1. i \in Nat /\ i \in 0 .. n /\ i + 1 \in 1 .. n /\ (i + 1) - 1 = i /\ first < 8 * i
      BY <1>2
    <3>2. Xor(Diff(i), ToCome(burst, i)) # {}
      BY <2>2, <3>1
    <3> HIDE DEF i, Good
    <3>3. Diff(i) \in Word /\ ToCome(burst, i) \in Word
      BY <1>6, <3>1 DEF ToCome, Word
    <3>4. Diff(i + 1) = Shifts(Xor(Diff(i), Wrong(burst, i + 1)), 8)
      BY <1>7, <3>1
    <3>5. Xor(Diff(i + 1), ToCome(burst, i + 1)) = Shifts(Xor(Diff(i), ToCome(burst, i)), 8)
      BY <3>1, <3>3, <3>4, ToComeNext
    <3>6. Xor(Diff(i), ToCome(burst, i)) \in Word
      BY <3>3, XorWord
    <3> QED
      BY <3>2, <3>5, <3>6, ShiftsWord
  <2> HIDE DEF Good
  <2>3. \A k \in Nat : k \in Good
    BY <2>1, <2>2, Induct
  <2> DEFINE k == n - (start + 1)
  <2>4. k \in Nat /\ start + 1 + k = n
    BY <1>2
  <2> HIDE DEF k
  <2>5. start + 1 + k <= n
    BY <1>2, <2>4
  <2>6. Xor(Diff(start + 1 + k), ToCome(burst, start + 1 + k)) # {}
    BY <2>3, <2>4, <2>5 DEF Good
  <2> QED
    BY <2>4, <2>6
<1>11. ToCome(burst, n) = {}
  <2>1. burst \subseteq 0 .. 8 * n - 1
    BY DEF n
  <2>2. \A x \in 0 .. 15 : 8 * n + x \notin burst
    BY <1>2, <2>1
  <2> QED
    BY <2>2 DEF ToCome
<1>12. v[n] # w[n]
  BY <1>10, <1>11 DEF Diff, Xor
<1> QED
  BY <1>4, <1>5, <1>12 DEF CrcBe16, damaged

\* utils.c, crc_be16(): the bursts of any length up to that of the checksum, in
\* any text.
THEOREM DetectedAlways == Spec => []Detected
<1>1. CipherIInv => Detected
  <2> SUFFICES ASSUME CipherIInv,
                      NEW first \in 0 .. 8 * Len(src) - 1, NEW burst \in Bursts(first, MaxBurst),
                      burst \subseteq 0 .. 8 * Len(src) - 1
               PROVE  CrcBe16(Damaged(Data(src), burst)) # CrcBe16(Data(src))
    BY DEF Detected
  <2>1. src \in Seq(0 .. 255)
    BY BlockAssumption DEF CipherIInv
  <2>2. Data(src) \in Seq(Byte) /\ Len(Data(src)) = Len(src)
    BY <2>1, DataBytes
  <2>3. first \in Nat
    BY <2>1
  <2>4. first \in burst /\ burst \in SUBSET (first .. first + 15)
    <3>1. PICK rest \in SUBSET (1 .. MaxBurst - 1) : burst = {first} \cup {first + k : k \in rest}
      BY DEF Bursts
    <3>2. \A k \in rest : k \in 1 .. 15
      BY BytesAssumption
    <3> QED
      BY <2>3, <3>1, <3>2
  <2> QED
    BY <2>2, <2>3, <2>4, BurstDetected
<1> QED
  BY <1>1, CipherInvariant, PTL
=============================================================================
