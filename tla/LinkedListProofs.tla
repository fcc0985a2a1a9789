-------------------------- MODULE LinkedListProofs ---------------------------
(***************************************************************************)
(* Proofs about LinkedList, for any lists and any entries: the pointer     *)
(* writes of list.h are the operations on sequences that its comments say. *)
(*                                                                         *)
(* First each function is looked at by itself, on a memory m and the rings *)
(* it is called with; then the calls, among all the lists there are.       *)
(***************************************************************************)
EXTENDS LinkedList, SequenceTheorems, TLAPS

-----------------------------------------------------------------------------
(***************************************************************************)
(* Rings.                                                                  *)
(***************************************************************************)

Memory == [next : [Node -> Node], prev : [Node -> Node]]

\* No node is twice on the ring of h and s.
IsRing(h, s) ==
  /\ h \in Node /\ s \in Seq(Node)
  /\ \A i \in 1 .. Len(s) : s[i] # h /\ \A j \in 1 .. Len(s) : s[i] = s[j] => i = j

\* Its positions: the head is at both ends, no other node is at two.
LEMMA Positions ==
  ASSUME NEW h, NEW s, IsRing(h, s)
  PROVE  /\ Len(s) \in Nat /\ DOMAIN s = 1 .. Len(s)
         /\ At(h, s, 0) = h /\ At(h, s, Len(s) + 1) = h
         /\ \A i \in 1 .. Len(s) : At(h, s, i) = s[i]
         /\ \A i \in 0 .. Len(s) + 1 : At(h, s, i) \in Node
         /\ \A i, j \in 0 .. Len(s) : At(h, s, i) = At(h, s, j) => i = j
         /\ \A i, j \in 1 .. Len(s) + 1 : At(h, s, i) = At(h, s, j) => i = j
<1>1. /\ Len(s) \in Nat /\ DOMAIN s = 1 .. Len(s)
      /\ \A i \in 1 .. Len(s) : s[i] \in Node
  BY DEF IsRing
<1>2. /\ At(h, s, 0) = h /\ At(h, s, Len(s) + 1) = h
      /\ \A i \in 1 .. Len(s) : At(h, s, i) = s[i]
  BY <1>1 DEF At
<1>3. /\ \A i \in 0 .. Len(s) + 1 : i \in 1 .. Len(s) \/ i = 0 \/ i = Len(s) + 1
      /\ \A i \in 0 .. Len(s) : i \in 1 .. Len(s) \/ i = 0
      /\ \A i \in 1 .. Len(s) + 1 : i \in 1 .. Len(s) \/ i = Len(s) + 1
  BY <1>1
<1>4. QED
  BY <1>1, <1>2, <1>3 DEF IsRing

\* x is not on the ring of h and s.
OffRing(h, s, x) == \A i \in 0 .. Len(s) : At(h, s, i) # x

\* Nor is it then the head that comes again behind the last entry.
LEMMA OffPositions ==
  ASSUME NEW h, NEW s, IsRing(h, s), NEW x, OffRing(h, s, x)
  PROVE  \A i \in 0 .. Len(s) + 1 : At(h, s, i) # x
<1>1. Len(s) \in Nat /\ At(h, s, Len(s) + 1) = At(h, s, 0)
  BY Positions
<1>2. \A i \in 0 .. Len(s) + 1 : i \in 0 .. Len(s) \/ i = Len(s) + 1
  BY <1>1
<1>3. 0 \in 0 .. Len(s)
  BY <1>1
<1>4. QED
  BY <1>1, <1>2, <1>3 DEF OffRing

\* Neither pointer of x is written between m and n.
Same(m, n, x) == n.next[x] = m.next[x] /\ n.prev[x] = m.prev[x]

\* What the two writes of a link leave in each pointer.
LEMMA Linking ==
  ASSUME NEW m \in Memory, NEW a \in Node, NEW b \in Node
  PROVE  /\ Link(m, a, b) \in Memory
         /\ \A x \in Node : Link(m, a, b).next[x] = IF x = a THEN b ELSE m.next[x]
         /\ \A x \in Node : Link(m, a, b).prev[x] = IF x = b THEN a ELSE m.prev[x]
  BY DEF Link, Memory

\* A list that no pointer is written of stays as it is.
LEMMA CircleKept ==
  ASSUME NEW m, NEW n, NEW h, NEW s, IsRing(h, s), Circle(m, h, s),
         \A i \in 0 .. Len(s) : Same(m, n, At(h, s, i))
  PROVE  Circle(n, h, s)
<1>1. ASSUME NEW i \in 0 .. Len(s)
      PROVE  \E j \in 0 .. Len(s) : At(h, s, i + 1) = At(h, s, j)
  <2>1. CASE i = Len(s)
    <3>1. At(h, s, i + 1) = At(h, s, 0) /\ 0 \in 0 .. Len(s)
      BY <2>1, Positions
    <3>2. QED
      BY <3>1
  <2>2. CASE i # Len(s)
    <3>1. i + 1 \in 0 .. Len(s)
      BY <2>2, Positions
    <3>2. QED
      BY <3>1
  <2>3. QED
    BY <2>1, <2>2
<1>2. ASSUME NEW i \in 0 .. Len(s)
      PROVE  n.prev[At(h, s, i + 1)] = m.prev[At(h, s, i + 1)]
  <2>1. PICK j \in 0 .. Len(s) : At(h, s, i + 1) = At(h, s, j)
    BY <1>1
  <2>2. QED
    BY <2>1 DEF Same
<1>3. QED
  BY <1>2 DEF Circle, Same

\* INIT_LIST_HEAD().
LEMMA EmptyCircle ==
  ASSUME NEW m \in Memory, NEW h \in Node
  PROVE  Circle(INIT_LIST_HEAD(m, h), h, <<>>)
<1>1. Len(<<>>) = 0 /\ \A i : At(h, <<>>, i) = h
  BY DEF At
<1>2. /\ INIT_LIST_HEAD(m, h).next[h] = h
      /\ INIT_LIST_HEAD(m, h).prev[h] = h
  BY Linking DEF INIT_LIST_HEAD
<1>3. QED
  BY <1>1, <1>2 DEF Circle

-----------------------------------------------------------------------------
(***************************************************************************)
(* One entry: __list_add(), list_del(), list_replace().                    *)
(***************************************************************************)

\* t is s with e after its first k elements.
Inserted(s, t, k, e) ==
  /\ t \in Seq(Node) /\ Len(t) = Len(s) + 1
  /\ \A i \in 1 .. Len(t) :
       t[i] = IF i <= k THEN s[i] ELSE IF i = k + 1 THEN e ELSE s[i - 1]

\* t is s without its element k.
Removed(s, t, k) ==
  /\ t \in Seq(Node) /\ Len(t) = Len(s) - 1
  /\ \A i \in 1 .. Len(t) : t[i] = IF i < k THEN s[i] ELSE s[i + 1]

\* t is s with e as its element k.
Replaced(s, t, k, e) ==
  /\ t \in Seq(Node) /\ Len(t) = Len(s)
  /\ \A i \in 1 .. Len(t) : t[i] = IF i = k THEN e ELSE s[i]

\* The pointers that __list_add() writes.
LEMMA InsertPointers ==
  ASSUME NEW m \in Memory, NEW new \in Node, NEW p \in Node, NEW n \in Node, new # p, new # n
  PROVE  /\ ListInsert(m, new, p, n) \in Memory
         /\ \A x \in Node : ListInsert(m, new, p, n).next[x] =
              IF x = p THEN new ELSE IF x = new THEN n ELSE m.next[x]
         /\ \A x \in Node : ListInsert(m, new, p, n).prev[x] =
              IF x = new THEN p ELSE IF x = n THEN new ELSE m.prev[x]
<1> DEFINE m1 == Link(m, new, n)
<1>1. /\ m1 \in Memory
      /\ \A x \in Node : m1.next[x] = IF x = new THEN n ELSE m.next[x]
      /\ \A x \in Node : m1.prev[x] = IF x = n THEN new ELSE m.prev[x]
  <2>1. Link(m, new, n) \in Memory
    BY Linking
  <2>2. \A x \in Node : Link(m, new, n).next[x] = IF x = new THEN n ELSE m.next[x]
    BY Linking
  <2>3. \A x \in Node : Link(m, new, n).prev[x] = IF x = n THEN new ELSE m.prev[x]
    BY Linking
  <2>4. QED
    BY <2>1, <2>2, <2>3
<1> HIDE DEF m1
<1>2. /\ Link(m1, p, new) \in Memory
      /\ \A x \in Node : Link(m1, p, new).next[x] = IF x = p THEN new ELSE m1.next[x]
      /\ \A x \in Node : Link(m1, p, new).prev[x] = IF x = new THEN p ELSE m1.prev[x]
  <2>1. Link(m1, p, new) \in Memory
    BY <1>1, Linking
  <2>2. \A x \in Node : Link(m1, p, new).next[x] = IF x = p THEN new ELSE m1.next[x]
    BY <1>1, Linking
  <2>3. \A x \in Node : Link(m1, p, new).prev[x] = IF x = new THEN p ELSE m1.prev[x]
    BY <1>1, Linking
  <2>4. QED
    BY <2>1, <2>2, <2>3
<1>3. ListInsert(m, new, p, n) = Link(m1, p, new)
  BY DEF ListInsert, m1
<1>4. QED
  BY <1>1, <1>2, <1>3

\* A new entry goes between two neighbours.
LEMMA InsertCircle ==
  ASSUME NEW m \in Memory, NEW h, NEW s, IsRing(h, s), Circle(m, h, s),
         NEW e \in Node, OffRing(h, s, e),
         NEW k \in 0 .. Len(s), NEW t, Inserted(s, t, k, e)
  PROVE  LET n == ListInsert(m, e, At(h, s, k), At(h, s, k + 1))
         IN  /\ n \in Memory
             /\ Circle(n, h, t) /\ IsRing(h, t)
             /\ \A x \in Node : x # e /\ OffRing(h, s, x) => Same(m, n, x)
<1> DEFINE n == Len(s)
           c(i) == At(h, s, i)
           d(i) == At(h, t, i)
           m2 == ListInsert(m, e, c(k), c(k + 1))
<1>1. /\ n \in Nat /\ k \in 0 .. n /\ h \in Node /\ c(0) = h /\ c(n + 1) = h
      /\ \A i \in 1 .. n : c(i) = s[i]
      /\ \A i \in 0 .. n + 1 : c(i) \in Node
      /\ \A i, j \in 0 .. n : c(i) = c(j) => i = j
      /\ \A i, j \in 1 .. n + 1 : c(i) = c(j) => i = j
  <2>1. h \in Node
    BY DEF IsRing
  <2>2. QED
    BY <2>1, Positions
<1>2. /\ Len(t) = n + 1 /\ DOMAIN t = 1 .. n + 1
      /\ \A i \in 1 .. n + 1 : d(i) = t[i]
      /\ d(0) = h /\ d(n + 2) = h
  BY <1>1 DEF Inserted, At
<1>3. \A i \in 0 .. n + 1 : c(i) # e
  BY OffPositions
<1>4. \A i \in 0 .. n + 2 : d(i) = IF i <= k THEN c(i) ELSE IF i = k + 1 THEN e ELSE c(i - 1)
  <2>1. ASSUME NEW i \in 1 .. n + 1
        PROVE  d(i) = IF i <= k THEN c(i) ELSE IF i = k + 1 THEN e ELSE c(i - 1)
    <3>1. t[i] = IF i <= k THEN s[i] ELSE IF i = k + 1 THEN e ELSE s[i - 1]
      BY <1>2 DEF Inserted
    <3>2. /\ i <= k => c(i) = s[i]
          /\ i > k + 1 => c(i - 1) = s[i - 1]
      BY <1>1
    <3>3. QED
      BY <1>1, <1>2, <3>1, <3>2
  <2>2. \A i \in 0 .. n + 2 : i \in 1 .. n + 1 \/ i = 0 \/ i = n + 2
    BY <1>1
  <2>3. /\ d(0) = c(0) /\ 0 <= k
        /\ d(n + 2) = c((n + 2) - 1) /\ ~(n + 2 <= k) /\ n + 2 # k + 1
    BY <1>1, <1>2
  <2>4. QED
    BY <2>1, <2>2, <2>3
<1>5. /\ m2 \in Memory
      /\ \A x \in Node : m2.next[x] = IF x = c(k) THEN e ELSE IF x = e THEN c(k + 1) ELSE m.next[x]
      /\ \A x \in Node : m2.prev[x] = IF x = e THEN c(k) ELSE IF x = c(k + 1) THEN e ELSE m.prev[x]
  <2>1. c(k) \in Node /\ c(k + 1) \in Node /\ e # c(k) /\ e # c(k + 1)
    BY <1>1, <1>3
  <2>2. QED
    BY <2>1, InsertPointers
<1>6. \A i \in 0 .. n : m.next[c(i)] = c(i + 1) /\ m.prev[c(i + 1)] = c(i)
  BY DEF Circle
<1> HIDE DEF c, d, m2, n
<1>7. ASSUME NEW i \in 0 .. n + 1
      PROVE  m2.next[d(i)] = d(i + 1) /\ m2.prev[d(i + 1)] = d(i)
  <2>1. CASE i < k
    <3>1. d(i) = c(i) /\ d(i + 1) = c(i + 1) /\ i \in 0 .. n /\ i + 1 \in 0 .. n + 1
      BY <1>1, <1>4, <2>1
    <3>2. c(i) # c(k) /\ c(i + 1) # c(k + 1)
      BY <1>1, <2>1
    <3>3. QED
      BY <1>1, <1>3, <1>5, <1>6, <3>1, <3>2
  <2>2. CASE i = k
    <3>1. d(i) = c(k) /\ d(i + 1) = e
      BY <1>1, <1>4, <2>2
    <3>2. QED
      BY <1>1, <1>5, <3>1
  <2>3. CASE i = k + 1
    <3>1. d(i) = e /\ d(i + 1) = c(k + 1)
      BY <1>1, <1>4, <2>3
    <3>2. c(k) # e /\ c(k + 1) # e /\ c(k + 1) \in Node
      BY <1>1, <1>3
    <3>3. QED
      BY <1>5, <3>1, <3>2
  <2>4. CASE i > k + 1
    <3>1. d(i) = c(i - 1) /\ d(i + 1) = c(i) /\ i - 1 \in 0 .. n /\ i \in 0 .. n + 1
      BY <1>1, <1>4, <2>4
    <3>2. c(i - 1) # c(k) /\ c(i) # c(k + 1)
      BY <1>1, <2>4
    <3>3. m.next[c(i - 1)] = c(i) /\ m.prev[c(i)] = c(i - 1)
      <4>1. (i - 1) + 1 = i
        BY <1>1
      <4>2. QED
        BY <1>6, <3>1, <4>1
    <3>4. QED
      BY <1>1, <1>3, <1>5, <3>1, <3>2, <3>3
  <2>5. QED
    BY <1>1, <2>1, <2>2, <2>3, <2>4
<1>8. Circle(m2, h, t)
  BY <1>2, <1>7 DEF Circle, d
<1>9. IsRing(h, t)
  <2>1. \A i \in 1 .. n + 1 : d(i) # h
    BY <1>1, <1>3, <1>4
  <2>2. \A i, j \in 1 .. n + 1 : d(i) = d(j) => i = j
    BY <1>1, <1>3, <1>4
  <2>3. \A i \in 1 .. Len(t) : t[i] # h
    BY <1>2, <2>1 DEF d
  <2>4. \A i, j \in 1 .. Len(t) : t[i] = t[j] => i = j
    BY <1>2, <2>2 DEF d
  <2>5. t \in Seq(Node)
    BY DEF Inserted
  <2>6. QED
    BY <1>1, <2>3, <2>4, <2>5 DEF IsRing
<1>10. ASSUME NEW x \in Node, x # e, OffRing(h, s, x)
       PROVE  Same(m, m2, x)
  <2>1. k \in 0 .. n + 1 /\ k + 1 \in 0 .. n + 1
    BY <1>1
  <2>2. x # c(k) /\ x # c(k + 1)
    BY <1>10, <2>1, OffPositions DEF c, n
  <2>3. QED
    BY <1>5, <1>10, <2>2 DEF Same
<1>11. QED
  BY <1>5, <1>8, <1>9, <1>10 DEF m2, c

\* The last entry of two pointers written: a deletion.
LEMMA RemoveCircle ==
  ASSUME NEW m \in Memory, NEW h, NEW s, IsRing(h, s), Circle(m, h, s),
         NEW k \in 1 .. Len(s), NEW t, Removed(s, t, k)
  PROVE  /\ ListDel(m, s[k]) \in Memory
         /\ Circle(ListDel(m, s[k]), h, t) /\ IsRing(h, t)
         /\ \A x \in Node : OffRing(h, s, x) => Same(m, ListDel(m, s[k]), x)
<1> DEFINE n == Len(s)
           c(i) == At(h, s, i)
           d(i) == At(h, t, i)
           m2 == ListDel(m, s[k])
<1>1. /\ n \in Nat /\ k \in 1 .. n /\ h \in Node /\ c(0) = h /\ c(n + 1) = h
      /\ \A i \in 1 .. n : c(i) = s[i]
      /\ \A i \in 0 .. n + 1 : c(i) \in Node
      /\ \A i, j \in 0 .. n : c(i) = c(j) => i = j
      /\ \A i, j \in 1 .. n + 1 : c(i) = c(j) => i = j
  <2>1. h \in Node
    BY DEF IsRing
  <2>2. QED
    BY <2>1, Positions
<1>2. /\ Len(t) = n - 1 /\ DOMAIN t = 1 .. n - 1
      /\ \A i \in 1 .. n - 1 : d(i) = t[i]
      /\ d(0) = h /\ d(n) = h
  BY <1>1 DEF Removed, At
<1>3. \A i \in 0 .. n : m.next[c(i)] = c(i + 1) /\ m.prev[c(i + 1)] = c(i)
  BY DEF Circle
<1>4. \A i \in 0 .. n : d(i) = IF i < k THEN c(i) ELSE c(i + 1)
  <2>1. ASSUME NEW i \in 1 .. n - 1
        PROVE  d(i) = IF i < k THEN c(i) ELSE c(i + 1)
    <3>1. t[i] = IF i < k THEN s[i] ELSE s[i + 1]
      BY <1>2 DEF Removed
    <3>2. c(i) = s[i] /\ c(i + 1) = s[i + 1]
      BY <1>1
    <3>3. QED
      BY <1>2, <3>1, <3>2
  <2>2. \A i \in 0 .. n : i \in 1 .. n - 1 \/ i = 0 \/ i = n
    BY <1>1
  <2>3. QED
    BY <1>1, <1>2, <2>1, <2>2
<1>5. c(k - 1) \in Node /\ c(k + 1) \in Node /\ m2 = Link(m, c(k - 1), c(k + 1))
  <2>1. k - 1 \in 0 .. n /\ k \in 0 .. n /\ k + 1 \in 0 .. n + 1 /\ (k - 1) + 1 = k
    BY <1>1
  <2>2. m.prev[c(k)] = c(k - 1) /\ m.next[c(k)] = c(k + 1)
    BY <1>3, <2>1
  <2>3. QED
    BY <1>1, <2>1, <2>2 DEF ListDel
<1> HIDE DEF c, d, m2, n
<1>6. PICK p \in Node, q \in Node : p = c(k - 1) /\ q = c(k + 1) /\ m2 = Link(m, p, q)
  BY <1>5
<1>7. /\ m2 \in Memory
      /\ \A x \in Node : m2.next[x] = IF x = c(k - 1) THEN c(k + 1) ELSE m.next[x]
      /\ \A x \in Node : m2.prev[x] = IF x = c(k + 1) THEN c(k - 1) ELSE m.prev[x]
  <2>1. Link(m, p, q) \in Memory
    BY Linking
  <2>2. \A x \in Node : Link(m, p, q).next[x] = IF x = p THEN q ELSE m.next[x]
    BY Linking
  <2>3. \A x \in Node : Link(m, p, q).prev[x] = IF x = q THEN p ELSE m.prev[x]
    BY Linking
  <2>4. QED
    BY <1>6, <2>1, <2>2, <2>3
<1>8. ASSUME NEW i \in 0 .. n - 1
      PROVE  m2.next[d(i)] = d(i + 1) /\ m2.prev[d(i + 1)] = d(i)
  <2>1. CASE i < k - 1
    <3>1. d(i) = c(i) /\ d(i + 1) = c(i + 1) /\ i \in 0 .. n
      BY <1>1, <1>4, <2>1
    <3>2. c(i) # c(k - 1) /\ c(i + 1) # c(k + 1) /\ c(i) \in Node /\ c(i + 1) \in Node
      BY <1>1, <2>1
    <3>3. QED
      BY <1>3, <1>7, <3>1, <3>2
  <2>2. CASE i = k - 1
    <3>1. d(i) = c(k - 1) /\ d(i + 1) = c(k + 1)
      BY <1>1, <1>4, <2>2
    <3>2. QED
      BY <1>5, <1>7, <3>1
  <2>3. CASE i > k - 1
    <3>1. d(i) = c(i + 1) /\ d(i + 1) = c((i + 1) + 1) /\ i + 1 \in 0 .. n
      BY <1>1, <1>4, <2>3
    <3>2. /\ c(i + 1) # c(k - 1) /\ c((i + 1) + 1) # c(k + 1)
          /\ c(i + 1) \in Node /\ c((i + 1) + 1) \in Node
      BY <1>1, <2>3
    <3>3. QED
      BY <1>3, <1>7, <3>1, <3>2
  <2>4. QED
    BY <1>1, <2>1, <2>2, <2>3
<1>9. Circle(m2, h, t)
  <2>1. \A i \in 0 .. Len(t) : i \in 0 .. n - 1
    BY <1>1, <1>2
  <2>2. QED
    BY <1>8, <2>1 DEF Circle, d
<1>10. IsRing(h, t)
  <2>1. \A i \in 1 .. n - 1 : d(i) # h
    BY <1>1, <1>4
  <2>2. \A i, j \in 1 .. n - 1 : d(i) = d(j) => i = j
    BY <1>1, <1>4
  <2>3. \A i \in 1 .. Len(t) : t[i] # h
    BY <1>2, <2>1 DEF d
  <2>4. \A i, j \in 1 .. Len(t) : t[i] = t[j] => i = j
    BY <1>2, <2>2 DEF d
  <2>5. t \in Seq(Node)
    BY DEF Removed
  <2>6. QED
    BY <1>1, <2>3, <2>4, <2>5 DEF IsRing
<1>11. ASSUME NEW x \in Node, OffRing(h, s, x)
       PROVE  Same(m, m2, x)
  <2>1. k - 1 \in 0 .. n + 1 /\ k + 1 \in 0 .. n + 1
    BY <1>1
  <2>2. x # c(k - 1) /\ x # c(k + 1)
    BY <1>11, <2>1, OffPositions DEF c, n
  <2>3. QED
    BY <1>7, <2>2 DEF Same
<1>12. QED
  BY <1>7, <1>9, <1>10, <1>11 DEF m2

\* What list_replace() writes when the old node has neighbours p and n other
\* than itself.
LEMMA ReplacePointers ==
  ASSUME NEW m \in Memory, NEW old \in Node, NEW new \in Node, NEW p \in Node, NEW n \in Node,
         m.next[old] = n, m.prev[old] = p, old # n, new # p, new # n
  PROVE  /\ ListReplace(m, old, new) \in Memory
         /\ \A x \in Node : ListReplace(m, old, new).next[x] =
              IF x = p THEN new ELSE IF x = new THEN n ELSE m.next[x]
         /\ \A x \in Node : ListReplace(m, old, new).prev[x] =
              IF x = new THEN p ELSE IF x = n THEN new ELSE m.prev[x]
<1> DEFINE m1 == Link(m, new, n)
<1>1. m1 \in Memory
  BY Linking
<1>2. \A x \in Node : m1.next[x] = IF x = new THEN n ELSE m.next[x]
  BY Linking
<1>3. \A x \in Node : m1.prev[x] = IF x = n THEN new ELSE m.prev[x]
  BY Linking
<1>4. ListReplace(m, old, new) = Link(m1, m1.prev[old], new)
  BY DEF ListReplace
<1> HIDE DEF m1
<1>5. ListReplace(m, old, new) = Link(m1, p, new)
  BY <1>3, <1>4
<1>6. Link(m1, p, new) \in Memory
  BY <1>1, Linking
<1>7. \A x \in Node : Link(m1, p, new).next[x] = IF x = p THEN new ELSE m1.next[x]
  BY <1>1, Linking
<1>8. \A x \in Node : Link(m1, p, new).prev[x] = IF x = new THEN p ELSE m1.prev[x]
  BY <1>1, Linking
<1>9. QED
  BY <1>2, <1>3, <1>5, <1>6, <1>7, <1>8

\* A new entry takes the place of an old one.
LEMMA ReplaceCircle ==
  ASSUME NEW m \in Memory, NEW h, NEW s, IsRing(h, s), Circle(m, h, s),
         NEW e \in Node, OffRing(h, s, e),
         NEW k \in 1 .. Len(s), NEW t, Replaced(s, t, k, e)
  PROVE  /\ ListReplace(m, s[k], e) \in Memory
         /\ Circle(ListReplace(m, s[k], e), h, t) /\ IsRing(h, t)
         /\ \A x \in Node : x # e /\ OffRing(h, s, x) => Same(m, ListReplace(m, s[k], e), x)
<1> DEFINE n == Len(s)
           c(i) == At(h, s, i)
           d(i) == At(h, t, i)
           m2 == ListReplace(m, s[k], e)
<1>1. /\ n \in Nat /\ k \in 1 .. n /\ h \in Node /\ c(0) = h /\ c(n + 1) = h
      /\ \A i \in 1 .. n : c(i) = s[i]
      /\ \A i \in 0 .. n + 1 : c(i) \in Node
      /\ \A i, j \in 0 .. n : c(i) = c(j) => i = j
      /\ \A i, j \in 1 .. n + 1 : c(i) = c(j) => i = j
  <2>1. h \in Node
    BY DEF IsRing
  <2>2. QED
    BY <2>1, Positions
<1>2. /\ t \in Seq(Node) /\ Len(t) = n /\ DOMAIN t = 1 .. n
      /\ \A i \in 1 .. n : d(i) = t[i] /\ t[i] = IF i = k THEN e ELSE s[i]
      /\ d(0) = h /\ d(n + 1) = h
  BY <1>1 DEF At, Replaced
<1>3. \A i \in 0 .. n : m.next[c(i)] = c(i + 1) /\ m.prev[c(i + 1)] = c(i)
  BY DEF Circle
<1>4. \A i \in 0 .. n + 1 : c(i) # e
  BY OffPositions
<1>5. \A i \in 0 .. n + 1 : d(i) = IF i = k THEN e ELSE c(i)
  <2>1. \A i \in 0 .. n + 1 : i \in 1 .. n \/ i = 0 \/ i = n + 1
    BY <1>1
  <2>2. QED
    BY <1>1, <1>2, <2>1
<1>6. /\ m2 \in Memory
      /\ \A x \in Node : m2.next[x] =
           IF x = c(k - 1) THEN e ELSE IF x = e THEN c(k + 1) ELSE m.next[x]
      /\ \A x \in Node : m2.prev[x] =
           IF x = e THEN c(k - 1) ELSE IF x = c(k + 1) THEN e ELSE m.prev[x]
  <2>1. /\ k - 1 \in 0 .. n /\ k \in 0 .. n /\ (k - 1) + 1 = k
        /\ k - 1 \in 0 .. n + 1 /\ k \in 0 .. n + 1 /\ k + 1 \in 0 .. n + 1
    BY <1>1
  <2>2. m.prev[c(k)] = c(k - 1) /\ m.next[c(k)] = c(k + 1) /\ c(k) = s[k]
    BY <1>1, <1>3, <2>1
  <2>3. /\ c(k - 1) \in Node /\ c(k + 1) \in Node /\ c(k) \in Node
        /\ e # c(k - 1) /\ e # c(k + 1) /\ c(k) # c(k + 1)
    BY <1>1, <1>4, <2>1
  <2>4. QED
    BY <2>2, <2>3, ReplacePointers
<1> HIDE DEF c, d, m2, n
<1>7. ASSUME NEW i \in 0 .. n
      PROVE  m2.next[d(i)] = d(i + 1) /\ m2.prev[d(i + 1)] = d(i)
  <2>1. CASE i = k - 1
    <3>1. d(i) = c(k - 1) /\ d(i + 1) = e /\ c(k - 1) \in Node
      BY <1>1, <1>5, <2>1
    <3>2. QED
      BY <1>6, <3>1
  <2>2. CASE i = k
    <3>1. d(i) = e /\ d(i + 1) = c(k + 1) /\ c(k + 1) \in Node
      BY <1>1, <1>5, <2>2
    <3>2. c(k - 1) # e /\ c(k + 1) # e
      BY <1>1, <1>4
    <3>3. QED
      BY <1>6, <3>1, <3>2
  <2>3. CASE i # k - 1 /\ i # k
    <3>1. d(i) = c(i) /\ d(i + 1) = c(i + 1) /\ c(i) \in Node /\ c(i + 1) \in Node
      BY <1>1, <1>5, <2>3
    <3>2. c(i) # c(k - 1) /\ c(i + 1) # c(k + 1) /\ c(i) # e /\ c(i + 1) # e
      BY <1>1, <1>4, <2>3
    <3>3. QED
      BY <1>3, <1>6, <3>1, <3>2
  <2>4. QED
    BY <2>1, <2>2, <2>3
<1>8. Circle(m2, h, t)
  BY <1>2, <1>7 DEF Circle, d
<1>9. IsRing(h, t)
  <2>1. \A i \in 1 .. n : d(i) # h
    BY <1>1, <1>4, <1>5
  <2>2. \A i, j \in 1 .. n : d(i) = d(j) => i = j
    BY <1>1, <1>4, <1>5
  <2>3. Len(t) = n /\ t \in Seq(Node) /\ \A i \in 1 .. n : d(i) = t[i]
    BY <1>2
  <2>4. QED
    BY <1>1, <2>1, <2>2, <2>3 DEF IsRing
<1>10. ASSUME NEW x \in Node, x # e, OffRing(h, s, x)
       PROVE  Same(m, m2, x)
  <2>1. k - 1 \in 0 .. n + 1 /\ k + 1 \in 0 .. n + 1
    BY <1>1
  <2>2. x # c(k - 1) /\ x # c(k + 1)
    BY <1>10, <2>1, OffPositions DEF c, n
  <2>3. QED
    BY <1>6, <1>10, <2>2 DEF Same
<1>11. QED
  BY <1>6, <1>8, <1>9, <1>10 DEF m2

\* A new head takes over the list of an old one, empty or not.
LEMMA ReplaceHeadCircle ==
  ASSUME NEW m \in Memory, NEW h, NEW s, IsRing(h, s), Circle(m, h, s),
         NEW g \in Node, OffRing(h, s, g)
  PROVE  /\ ListReplace(m, h, g) \in Memory
         /\ Circle(ListReplace(m, h, g), g, s) /\ IsRing(g, s)
         /\ \A x \in Node : x # g /\ OffRing(h, s, x) => Same(m, ListReplace(m, h, g), x)
<1> DEFINE n == Len(s)
           c(i) == At(h, s, i)
           d(i) == At(g, s, i)
           m2 == ListReplace(m, h, g)
<1>1. /\ n \in Nat /\ h \in Node /\ c(0) = h /\ c(n + 1) = h
      /\ \A i \in 1 .. n : c(i) = s[i]
      /\ \A i \in 0 .. n + 1 : c(i) \in Node
      /\ \A i, j \in 0 .. n : c(i) = c(j) => i = j
      /\ \A i, j \in 1 .. n + 1 : c(i) = c(j) => i = j
  <2>1. h \in Node
    BY DEF IsRing
  <2>2. QED
    BY <2>1, Positions
<1>2. /\ DOMAIN s = 1 .. n
      /\ d(0) = g /\ d(n + 1) = g
      /\ \A i \in 1 .. n : d(i) = c(i)
  BY <1>1 DEF At, IsRing
<1>3. \A i \in 0 .. n : m.next[c(i)] = c(i + 1) /\ m.prev[c(i + 1)] = c(i)
  BY DEF Circle
<1>4. \A i \in 0 .. n : c(i) # g
  BY DEF OffRing
<1>5. IsRing(g, s)
  BY <1>1, <1>4 DEF IsRing
<1> HIDE DEF c, d, n
<1>6. CASE n = 0
  <2> DEFINE m1 == Link(m, g, h)
  <2>1. m.next[h] = h
    BY <1>1, <1>3, <1>6
  <2>2. m1 \in Memory
    BY <1>1, Linking
  <2>3. \A x \in Node : m1.next[x] = IF x = g THEN h ELSE m.next[x]
    BY <1>1, Linking
  <2>4. \A x \in Node : m1.prev[x] = IF x = h THEN g ELSE m.prev[x]
    BY <1>1, Linking
  <2>5. m2 = Link(m1, m1.prev[h], g)
    BY <2>1 DEF ListReplace
  <2> HIDE DEF m1
  <2>6. m2 = Link(m1, g, g)
    BY <1>1, <2>4, <2>5
  <2> HIDE DEF m2
  <2>7. m2 \in Memory
    BY <2>2, <2>6, Linking
  <2>8. \A x \in Node : m2.next[x] = IF x = g THEN g ELSE m1.next[x]
    BY <2>2, <2>6, Linking
  <2>9. \A x \in Node : m2.prev[x] = IF x = g THEN g ELSE m1.prev[x]
    BY <2>2, <2>6, Linking
  <2>10. Circle(m2, g, s)
    <3>1. \A i \in 0 .. Len(s) : i = 0 /\ d(i) = g /\ d(i + 1) = g
      BY <1>1, <1>2, <1>6 DEF n
    <3>2. QED
      BY <2>8, <2>9, <3>1 DEF Circle, d
  <2>11. \A x \in Node : x # g /\ x # h => Same(m, m2, x)
    BY <2>3, <2>4, <2>8, <2>9 DEF Same
  <2>12. \A x : OffRing(h, s, x) => x # h
    BY <1>1 DEF n, c, OffRing
  <2>13. QED
    BY <1>5, <2>7, <2>10, <2>11, <2>12 DEF m2
<1>7. CASE n > 0
  <2>1. /\ 0 \in 0 .. n /\ 1 \in 0 .. n /\ n \in 0 .. n
        /\ c(1) # h /\ c(1) # g /\ c(n) # g
        /\ c(1) \in Node /\ c(n) \in Node
    BY <1>1, <1>4, <1>7
  <2>2. m.next[h] = c(1) /\ m.prev[h] = c(n)
    BY <1>1, <1>3, <2>1
  <2>3. /\ m2 \in Memory
        /\ \A x \in Node : m2.next[x] = IF x = c(n) THEN g ELSE IF x = g THEN c(1) ELSE m.next[x]
        /\ \A x \in Node : m2.prev[x] = IF x = g THEN c(n) ELSE IF x = c(1) THEN g ELSE m.prev[x]
    BY <1>1, <2>1, <2>2, ReplacePointers
  <2> HIDE DEF m2
  <2>4. ASSUME NEW i \in 0 .. n
        PROVE  m2.next[d(i)] = d(i + 1) /\ m2.prev[d(i + 1)] = d(i)
    <3>1. i = 0 => d(i) = g /\ d(i + 1) = c(1)
      BY <1>1, <1>2, <1>7
    <3>2. i = n => d(i) = c(n) /\ d(i + 1) = g
      BY <1>1, <1>2, <1>7
    <3>3. i # 0 /\ i # n => /\ d(i) = c(i) /\ d(i + 1) = c(i + 1)
                            /\ c(i) # c(n) /\ c(i + 1) # c(1) /\ c(i) # g /\ c(i + 1) # g
                            /\ c(i) \in Node /\ c(i + 1) \in Node
      BY <1>1, <1>2, <1>4
    <3>4. QED
      BY <1>3, <2>1, <2>3, <3>1, <3>2, <3>3
  <2>5. Circle(m2, g, s)
    BY <2>4 DEF Circle, d, n
  <2>6. \A x : OffRing(h, s, x) => x # c(1) /\ x # c(n)
    BY <2>1 DEF c, n, OffRing
  <2>7. \A x \in Node : x # g /\ OffRing(h, s, x) => Same(m, m2, x)
    BY <2>3, <2>6 DEF Same
  <2>8. QED
    BY <1>5, <2>3, <2>5, <2>7 DEF m2
<1>8. QED
  BY <1>1, <1>6, <1>7

-----------------------------------------------------------------------------
(***************************************************************************)
(* Many entries: list_cut_position(), __list_splice().                     *)
(***************************************************************************)

\* A ring is cut behind its entry k: what is before goes to g, the rest stays.
LEMMA CutCircle ==
  ASSUME NEW m \in Memory, NEW h, NEW s, IsRing(h, s), Circle(m, h, s),
         NEW g \in Node, OffRing(h, s, g), NEW k \in 1 .. Len(s),
         NEW t \in Seq(Node), Len(t) = k, \A i \in 1 .. k : t[i] = s[i],
         NEW u \in Seq(Node), Len(u) = Len(s) - k, \A i \in 1 .. Len(s) - k : u[i] = s[k + i]
  PROVE  LET n == ListCutPosition(m, g, h, s[k])
         IN  /\ n \in Memory
             /\ Circle(n, g, t) /\ IsRing(g, t)
             /\ Circle(n, h, u) /\ IsRing(h, u)
             /\ \A x \in Node : x # g /\ OffRing(h, s, x) => Same(m, n, x)
<1> DEFINE n == Len(s)
           c(i) == At(h, s, i)
           d(i) == At(g, t, i)
           r(i) == At(h, u, i)
           m2 == ListCutPosition(m, g, h, s[k])
<1>1. /\ n \in Nat /\ k \in 1 .. n /\ h \in Node /\ c(0) = h /\ c(n + 1) = h
      /\ \A i \in 1 .. n : c(i) = s[i]
      /\ \A i \in 0 .. n + 1 : c(i) \in Node
      /\ \A i, j \in 0 .. n : c(i) = c(j) => i = j
      /\ \A i, j \in 1 .. n + 1 : c(i) = c(j) => i = j
  <2>1. h \in Node
    BY DEF IsRing
  <2>2. QED
    BY <2>1, Positions
<1>2. \A i \in 0 .. n : m.next[c(i)] = c(i + 1) /\ m.prev[c(i + 1)] = c(i)
  BY DEF Circle
<1>3. \A i \in 0 .. n + 1 : c(i) # g
  BY OffPositions
<1>4. /\ d(0) = g /\ d(k + 1) = g /\ \A i \in 1 .. k : d(i) = c(i) /\ t[i] = c(i)
  BY <1>1 DEF At
<1>5. /\ Len(u) = n - k /\ n - k \in Nat /\ DOMAIN u = 1 .. n - k
      /\ \A i \in 1 .. n - k : u[i] = s[k + i]
  BY <1>1
<1>6. /\ r(0) = h /\ r(n - k + 1) = h /\ \A i \in 1 .. n - k : r(i) = c(k + i) /\ u[i] = c(k + i)
  <2>1. r(0) = h /\ r(n - k + 1) = h /\ \A i \in 1 .. n - k : r(i) = u[i]
    BY <1>5 DEF At
  <2>2. \A i \in 1 .. n - k : k + i \in 1 .. n
    BY <1>1
  <2>3. QED
    BY <1>1, <1>5, <2>1, <2>2
<1>7. m2 = Link(Link(Link(m, g, c(1)), c(k), g), h, c(k + 1))
  <2>1. /\ 0 \in 0 .. n /\ 1 \in 0 .. n /\ k \in 0 .. n /\ 1 \in 1 .. n
        /\ 0 + 1 = 1 /\ 1 + 1 = 2
    BY <1>1
  <2>2. m.next[h] = c(1) /\ c(1) # h /\ c(k) # h /\ c(k) = s[k] /\ m.next[c(k)] = c(k + 1)
    BY <1>1, <1>2, <2>1
  <2>3. IsSingular(m, h) => s[k] = m.next[h]
    <3>1. ASSUME IsSingular(m, h) PROVE n = 1
      <4>1. n \in 0 .. n /\ n \in 1 .. n
        BY <1>1
      <4>2. m.prev[h] = c(n)
        BY <1>1, <1>2, <4>1
      <4>3. c(1) = c(n)
        BY <2>2, <3>1, <4>2 DEF IsSingular
      <4>4. QED
        BY <1>1, <2>1, <4>1, <4>3
    <3>2. n = 1 => k = 1
      BY <1>1
    <3>3. QED
      BY <2>2, <3>1, <3>2
  <2>4. ~IsEmpty(m, h)
    BY <2>2 DEF IsEmpty
  <2>5. m2 = Link(Link(Link(m, g, m.next[h]), s[k], g), h, m.next[s[k]])
    BY <2>2, <2>3, <2>4 DEF ListCutPosition
  <2>6. QED
    BY <2>2, <2>5
<1>8. c(1) \in Node /\ c(k) \in Node /\ c(k + 1) \in Node
  BY <1>1
<1> HIDE DEF m2, c, d, r, n
<1>9. /\ m2 \in Memory
      /\ \A x \in Node : m2.next[x] = IF x = h THEN c(k + 1) ELSE IF x = c(k) THEN g
                                      ELSE IF x = g THEN c(1) ELSE m.next[x]
      /\ \A x \in Node : m2.prev[x] = IF x = c(k + 1) THEN h ELSE IF x = g THEN c(k)
                                      ELSE IF x = c(1) THEN g ELSE m.prev[x]
  <2>1. PICK p \in Node, q \in Node, e \in Node : p = c(1) /\ q = c(k) /\ e = c(k + 1)
    BY <1>8
  <2>2. h \in Node
    BY <1>1
  <2> DEFINE m3 == Link(m, g, p)
             m4 == Link(m3, q, g)
             m5 == Link(m4, h, e)
  <2>3. m3 \in Memory
    BY Linking
  <2>4. \A x \in Node : m3.next[x] = IF x = g THEN p ELSE m.next[x]
    BY Linking
  <2>5. \A x \in Node : m3.prev[x] = IF x = p THEN g ELSE m.prev[x]
    BY Linking
  <2> HIDE DEF m3
  <2>6. m4 \in Memory
    BY <2>3, Linking
  <2>7. \A x \in Node : m4.next[x] = IF x = q THEN g ELSE m3.next[x]
    BY <2>3, Linking
  <2>8. \A x \in Node : m4.prev[x] = IF x = g THEN q ELSE m3.prev[x]
    BY <2>3, Linking
  <2> HIDE DEF m4
  <2>9. m5 \in Memory
    BY <2>2, <2>6, Linking
  <2>10. \A x \in Node : m5.next[x] = IF x = h THEN e ELSE m4.next[x]
    BY <2>2, <2>6, Linking
  <2>11. \A x \in Node : m5.prev[x] = IF x = e THEN h ELSE m4.prev[x]
    BY <2>2, <2>6, Linking
  <2>12. m2 = m5
    BY <1>7, <2>1 DEF m3, m4
  <2> HIDE DEF m5
  <2>13. QED
    BY <2>1, <2>4, <2>5, <2>7, <2>8, <2>9, <2>10, <2>11, <2>12
<1>10. /\ g # h /\ c(1) # g /\ c(k) # g /\ c(k + 1) # g /\ c(k) # h /\ c(1) # c(k + 1)
  BY <1>1, <1>3
<1>11. ASSUME NEW i \in 0 .. k
       PROVE  m2.next[d(i)] = d(i + 1) /\ m2.prev[d(i + 1)] = d(i)
  <2>1. ASSUME i # 0, i # k
        PROVE  /\ d(i) = c(i) /\ d(i + 1) = c(i + 1) /\ c(i) \in Node /\ c(i + 1) \in Node
               /\ c(i) # h /\ c(i) # c(k) /\ c(i) # g
               /\ c(i + 1) # c(k + 1) /\ c(i + 1) # c(1) /\ c(i + 1) # g
               /\ m.next[c(i)] = c(i + 1) /\ m.prev[c(i + 1)] = c(i)
    <3>1. i \in 1 .. k /\ i + 1 \in 1 .. k /\ i \in 0 .. n /\ i + 1 \in 1 .. n /\ k + 1 \in 1 .. n + 1
      BY <1>1, <2>1
    <3>2. i + 1 # k + 1 /\ i + 1 # 1 /\ 0 \in 0 .. n /\ k \in 0 .. n /\ 1 \in 1 .. n + 1
      BY <1>1, <2>1
    <3>3. i \in 0 .. n + 1 /\ i + 1 \in 0 .. n + 1 /\ i + 1 \in 1 .. n + 1
      BY <1>1, <3>1
    <3>4. QED
      BY <1>1, <1>2, <1>3, <1>4, <2>1, <3>1, <3>2, <3>3
  <2>2. CASE i = 0
    <3>1. d(i) = g /\ d(i + 1) = c(1)
      BY <1>1, <1>4, <2>2
    <3>2. QED
      BY <1>8, <1>9, <1>10, <3>1
  <2>3. CASE i = k
    <3>1. d(i) = c(k) /\ d(i + 1) = g
      BY <1>1, <1>4, <2>3
    <3>2. QED
      BY <1>8, <1>9, <1>10, <3>1
  <2>4. QED
    BY <1>9, <2>1, <2>2, <2>3
<1>12. ASSUME NEW i \in 0 .. n - k
       PROVE  m2.next[r(i)] = r(i + 1) /\ m2.prev[r(i + 1)] = r(i)
  <2>1. r(i + 1) = c((k + i) + 1)
    <3>1. i = n - k => i + 1 = n - k + 1 /\ (k + i) + 1 = n + 1
      BY <1>1
    <3>2. i # n - k => i + 1 \in 1 .. n - k /\ (k + i) + 1 = k + (i + 1)
      BY <1>1
    <3>3. QED
      BY <1>1, <1>6, <3>1, <3>2
  <2>2. CASE i = 0
    <3>1. r(i) = h /\ r(i + 1) = c(k + 1)
      BY <1>1, <1>6, <2>1, <2>2
    <3>2. QED
      BY <1>1, <1>8, <1>9, <3>1
  <2>3. CASE i # 0
    <3>1. i \in 1 .. n - k /\ k + i \in 0 .. n /\ k + i \in 0 .. n + 1 /\ (k + i) + 1 \in 1 .. n + 1
          /\ (k + i) + 1 \in 0 .. n + 1 /\ k \in 0 .. n /\ k + 1 \in 1 .. n + 1 /\ 1 \in 1 .. n + 1
          /\ 0 \in 0 .. n
      BY <1>1, <2>3
    <3>2. k + i # 0 /\ k + i # k /\ (k + i) + 1 # k + 1 /\ (k + i) + 1 # 1
      BY <1>1, <2>3
    <3>3. r(i) = c(k + i) /\ c(k + i) \in Node /\ c((k + i) + 1) \in Node
      BY <1>1, <1>6, <3>1
    <3>4. c(k + i) # h /\ c(k + i) # c(k) /\ c(k + i) # g
      BY <1>1, <1>3, <3>1, <3>2
    <3>5. c((k + i) + 1) # c(k + 1) /\ c((k + i) + 1) # c(1) /\ c((k + i) + 1) # g
      BY <1>1, <1>3, <3>1, <3>2
    <3>6. m.next[c(k + i)] = c((k + i) + 1) /\ m.prev[c((k + i) + 1)] = c(k + i)
      BY <1>2, <3>1
    <3>7. QED
      BY <1>9, <2>1, <3>3, <3>4, <3>5, <3>6
  <2>4. QED
    BY <2>2, <2>3
<1>13. Circle(m2, g, t) /\ Circle(m2, h, u)
  BY <1>5, <1>11, <1>12 DEF Circle, d, r
<1>14. IsRing(g, t)
  <2>1. \A i \in 1 .. k : t[i] # g
    BY <1>1, <1>3, <1>4
  <2>2. \A i, j \in 1 .. k : t[i] = t[j] => i = j
    BY <1>1, <1>4
  <2>3. QED
    BY <2>1, <2>2 DEF IsRing
<1>15. IsRing(h, u)
  <2>1. \A i \in 1 .. n - k : k + i \in 1 .. n
    BY <1>1
  <2>2. \A i \in 1 .. n - k : u[i] # h
    BY <1>1, <1>6, <2>1
  <2>3. \A i, j \in 1 .. n - k : u[i] = u[j] => i = j
    <3>1. \A i, j \in 1 .. n - k : k + i = k + j => i = j
      BY <1>1
    <3>2. QED
      BY <1>1, <1>6, <2>1, <3>1
  <2>4. QED
    BY <1>1, <1>5, <2>2, <2>3 DEF IsRing
<1>16. ASSUME NEW x \in Node, x # g, OffRing(h, s, x)
       PROVE  Same(m, m2, x)
  <2>1. k \in 0 .. n + 1 /\ k + 1 \in 0 .. n + 1 /\ 1 \in 0 .. n + 1 /\ 0 \in 0 .. n + 1
    BY <1>1
  <2>2. x # c(k) /\ x # c(k + 1) /\ x # c(1) /\ x # c(0)
    BY <1>16, <2>1, OffPositions DEF c, n
  <2>3. QED
    BY <1>1, <1>9, <1>16, <2>2 DEF Same
<1>17. QED
  BY <1>9, <1>13, <1>14, <1>15, <1>16 DEF m2

\* t is s with u after its first k elements.
Spliced(s, u, t, k) ==
  /\ t \in Seq(Node) /\ Len(t) = Len(s) + Len(u)
  /\ \A i \in 1 .. Len(t) :
       t[i] = IF i <= k THEN s[i] ELSE IF i <= k + Len(u) THEN u[i - k] ELSE s[i - Len(u)]

\* The entries of a ring that is not empty go between two neighbours of
\* another.
LEMMA SpliceCircle ==
  ASSUME NEW m \in Memory, NEW h, NEW s, IsRing(h, s), Circle(m, h, s),
         NEW f, NEW u, IsRing(f, u), Circle(m, f, u), u # <<>>,
         \A i \in 0 .. Len(u) : OffRing(h, s, At(f, u, i)),
         NEW k \in 0 .. Len(s), NEW t, Spliced(s, u, t, k)
  PROVE  LET n == Between(m, f, At(h, s, k), At(h, s, k + 1))
         IN  /\ n \in Memory
             /\ Circle(n, h, t) /\ IsRing(h, t)
             /\ \A x \in Node : OffRing(h, s, x) /\ OffRing(f, u, x) => Same(m, n, x)
<1> DEFINE n == Len(s)
           l == Len(u)
           c(i) == At(h, s, i)
           b(i) == At(f, u, i)
           d(i) == At(h, t, i)
           m2 == Between(m, f, c(k), c(k + 1))
<1>1. /\ n \in Nat /\ k \in 0 .. n /\ c(0) = h /\ c(n + 1) = h
      /\ \A i \in 1 .. n : c(i) = s[i]
      /\ \A i \in 0 .. n + 1 : c(i) \in Node
      /\ \A i, j \in 0 .. n : c(i) = c(j) => i = j
      /\ \A i, j \in 1 .. n + 1 : c(i) = c(j) => i = j
  BY Positions
<1>2. /\ l \in Nat /\ b(0) = f /\ b(l + 1) = f
      /\ \A i \in 1 .. l : b(i) = u[i]
      /\ \A i \in 0 .. l + 1 : b(i) \in Node
      /\ \A i, j \in 0 .. l : b(i) = b(j) => i = j
  BY Positions
<1>3. l > 0
  BY <1>2 DEF IsRing
<1>4. \A i \in 0 .. n : m.next[c(i)] = c(i + 1) /\ m.prev[c(i + 1)] = c(i)
  BY DEF Circle
<1>5. \A i \in 0 .. l : m.next[b(i)] = b(i + 1) /\ m.prev[b(i + 1)] = b(i)
  BY DEF Circle
<1>6. \A i \in 0 .. l, j \in 0 .. n + 1 : c(j) # b(i)
  BY OffPositions
<1>7. /\ DOMAIN t = 1 .. n + l /\ n + l \in Nat /\ Len(t) = n + l
      /\ d(0) = h /\ d(n + l + 1) = h
      /\ \A i \in 1 .. n + l : d(i) = t[i]
  BY <1>1, <1>2 DEF Spliced, At
<1>8. \A i \in 1 .. n + l : /\ i <= k => d(i) = c(i)
                            /\ i > k /\ i <= k + l => d(i) = b(i - k)
                            /\ i > k + l => d(i) = c(i - l)
  <2>1. ASSUME NEW i \in 1 .. n + l
        PROVE  t[i] = IF i <= k THEN s[i] ELSE IF i <= k + l THEN u[i - k] ELSE s[i - l]
    BY <1>7 DEF Spliced
  <2>2. ASSUME NEW i \in 1 .. n + l
        PROVE  /\ i <= k => i \in 1 .. n
               /\ i > k /\ i <= k + l => i - k \in 1 .. l /\ ~(i <= k)
               /\ i > k + l => i - l \in 1 .. n /\ ~(i <= k) /\ ~(i <= k + l)
    BY <1>1, <1>2
  <2> HIDE DEF n, l, c, b, d
  <2>3. SUFFICES ASSUME NEW i \in 1 .. n + l
                 PROVE  /\ i <= k => d(i) = c(i)
                        /\ i > k /\ i <= k + l => d(i) = b(i - k)
                        /\ i > k + l => d(i) = c(i - l)
    OBVIOUS
  <2>4. CASE i <= k
    <3>1. i \in 1 .. n /\ ~(i > k) /\ ~(i > k + l)
      BY <1>1, <1>2, <2>2, <2>4
    <3>2. d(i) = t[i] /\ t[i] = s[i] /\ c(i) = s[i]
      BY <1>1, <1>7, <2>1, <2>4, <3>1
    <3>3. QED
      BY <3>1, <3>2
  <2>5. CASE i > k /\ i <= k + l
    <3>1. i - k \in 1 .. l /\ ~(i <= k) /\ ~(i > k + l)
      BY <1>1, <1>2, <2>2, <2>5
    <3>2. d(i) = t[i] /\ t[i] = u[i - k] /\ b(i - k) = u[i - k]
      BY <1>2, <1>7, <2>1, <2>5, <3>1
    <3>3. QED
      BY <3>1, <3>2
  <2>6. CASE i > k + l
    <3>1. i - l \in 1 .. n /\ ~(i <= k) /\ ~(i <= k + l)
      BY <2>2, <2>6
    <3>2. d(i) = t[i] /\ t[i] = s[i - l] /\ c(i - l) = s[i - l]
      BY <1>1, <1>7, <2>1, <3>1
    <3>3. QED
      BY <3>1, <3>2
  <2>7. QED
    BY <1>1, <1>2, <2>4, <2>5, <2>6
<1>9. /\ c(k) \in Node /\ c(k + 1) \in Node /\ b(1) \in Node /\ b(l) \in Node
      /\ m2 = Link(Link(m, c(k), b(1)), b(l), c(k + 1))
  <2>1. /\ 0 \in 0 .. l /\ l \in 0 .. l /\ 0 + 1 = 1 /\ 1 \in 0 .. l + 1 /\ l \in 0 .. l + 1
        /\ k \in 0 .. n + 1 /\ k + 1 \in 0 .. n + 1
    BY <1>1, <1>2, <1>3
  <2>2. m.next[f] = b(1) /\ m.prev[f] = b(l)
    BY <1>2, <1>5, <2>1
  <2>3. QED
    BY <1>1, <1>2, <2>1, <2>2 DEF Between
<1> HIDE DEF n, l, c, b, d, m2
<1>10. /\ m2 \in Memory
       /\ \A x \in Node : m2.next[x] =
            IF x = b(l) THEN c(k + 1) ELSE IF x = c(k) THEN b(1) ELSE m.next[x]
       /\ \A x \in Node : m2.prev[x] =
            IF x = c(k + 1) THEN b(l) ELSE IF x = b(1) THEN c(k) ELSE m.prev[x]
  <2>1. PICK p \in Node, q \in Node, y \in Node, z \in Node :
          p = c(k) /\ q = c(k + 1) /\ y = b(1) /\ z = b(l)
    BY <1>9
  <2> DEFINE m3 == Link(m, p, y)
             m4 == Link(m3, z, q)
  <2>2. m3 \in Memory
    BY Linking
  <2>3. \A x \in Node : m3.next[x] = IF x = p THEN y ELSE m.next[x]
    BY Linking
  <2>4. \A x \in Node : m3.prev[x] = IF x = y THEN p ELSE m.prev[x]
    BY Linking
  <2> HIDE DEF m3
  <2>5. m4 \in Memory
    BY <2>2, Linking
  <2>6. \A x \in Node : m4.next[x] = IF x = z THEN q ELSE m3.next[x]
    BY <2>2, Linking
  <2>7. \A x \in Node : m4.prev[x] = IF x = q THEN z ELSE m3.prev[x]
    BY <2>2, Linking
  <2>8. m2 = m4
    BY <1>9, <2>1 DEF m3
  <2> HIDE DEF m4
  <2>9. QED
    BY <2>1, <2>3, <2>4, <2>5, <2>6, <2>7, <2>8
<1>11. ASSUME NEW i \in 0 .. n + l
       PROVE  m2.next[d(i)] = d(i + 1) /\ m2.prev[d(i + 1)] = d(i)
  <2>1. CASE i < k
    <3>1. i \in 0 .. n /\ i + 1 \in 0 .. n + 1 /\ i \in 0 .. n + 1 /\ l \in 0 .. l /\ 1 \in 0 .. l
          /\ k \in 0 .. n /\ i + 1 \in 1 .. n + 1 /\ k + 1 \in 1 .. n + 1 /\ i # k /\ i + 1 # k + 1
      BY <1>1, <1>2, <1>3, <2>1
    <3>2. d(i) = c(i) /\ d(i + 1) = c(i + 1)
      <4>1. i = 0 \/ (i \in 1 .. n + l /\ i <= k)
        BY <1>1, <1>2, <2>1
      <4>2. i + 1 \in 1 .. n + l /\ i + 1 <= k
        BY <1>1, <1>2, <2>1
      <4>3. QED
        BY <1>1, <1>7, <1>8, <4>1, <4>2
    <3>3. c(i) \in Node /\ c(i + 1) \in Node /\ c(i) # c(k) /\ c(i + 1) # c(k + 1)
      BY <1>1, <3>1
    <3>4. c(i) # b(l) /\ c(i + 1) # b(1)
      BY <1>6, <3>1
    <3>5. m.next[c(i)] = c(i + 1) /\ m.prev[c(i + 1)] = c(i)
      BY <1>4, <3>1
    <3>6. QED
      BY <1>10, <3>2, <3>3, <3>4, <3>5
  <2>2. CASE i = k
    <3>1. d(i) = c(k)
      <4>1. i = 0 \/ (i \in 1 .. n + l /\ i <= k)
        BY <1>1, <1>2, <2>2
      <4>2. QED
        BY <1>1, <1>7, <1>8, <2>2, <4>1
    <3>2. d(i + 1) = b(1)
      <4>1. i + 1 \in 1 .. n + l /\ i + 1 > k /\ i + 1 <= k + l /\ (i + 1) - k = 1
        BY <1>1, <1>2, <1>3, <2>2
      <4>2. QED
        BY <1>8, <4>1
    <3>3. c(k) # b(l) /\ c(k + 1) # b(1)
      <4>1. k \in 0 .. n + 1 /\ k + 1 \in 0 .. n + 1 /\ l \in 0 .. l /\ 1 \in 0 .. l
        BY <1>1, <1>2, <1>3
      <4>2. QED
        BY <1>6, <4>1
    <3>4. QED
      BY <1>9, <1>10, <3>1, <3>2, <3>3
  <2>3. CASE i > k /\ i < k + l
    <3>1. /\ i \in 1 .. n + l /\ i <= k + l /\ i - k \in 0 .. l /\ i - k \in 0 .. l + 1 /\ i - k # l
          /\ l \in 0 .. l
      BY <1>1, <1>2, <2>3
    <3>2. /\ i + 1 \in 1 .. n + l /\ i + 1 > k /\ i + 1 <= k + l /\ (i + 1) - k = (i - k) + 1
          /\ (i - k) + 1 \in 0 .. l /\ (i - k) + 1 \in 0 .. l + 1 /\ (i - k) + 1 # 1
          /\ 1 \in 0 .. l /\ k \in 0 .. n + 1 /\ k + 1 \in 0 .. n + 1
      BY <1>1, <1>2, <2>3
    <3>3. d(i) = b(i - k) /\ d(i + 1) = b((i - k) + 1)
      BY <1>8, <2>3, <3>1, <3>2
    <3>4. /\ b(i - k) \in Node /\ b((i - k) + 1) \in Node
          /\ b(i - k) # b(l) /\ b((i - k) + 1) # b(1)
      BY <1>2, <3>1, <3>2
    <3>5. b(i - k) # c(k) /\ b((i - k) + 1) # c(k + 1)
      BY <1>6, <3>1, <3>2
    <3>6. m.next[b(i - k)] = b((i - k) + 1) /\ m.prev[b((i - k) + 1)] = b(i - k)
      BY <1>5, <3>1
    <3>7. QED
      BY <1>10, <3>3, <3>4, <3>5, <3>6
  <2>4. CASE i = k + l
    <3>1. d(i) = b(l)
      <4>1. i \in 1 .. n + l /\ i > k /\ i <= k + l /\ i - k = l
        BY <1>1, <1>2, <1>3, <2>4
      <4>2. QED
        BY <1>8, <4>1
    <3>2. d(i + 1) = c(k + 1)
      <4>1. CASE k = n
        BY <1>1, <1>7, <2>4, <4>1
      <4>2. CASE k # n
        <5>1. i + 1 \in 1 .. n + l /\ i + 1 > k + l /\ (i + 1) - l = k + 1
          BY <1>1, <1>2, <2>4, <4>2
        <5>2. QED
          BY <1>8, <5>1
      <4>3. QED
        BY <4>1, <4>2
    <3>3. QED
      BY <1>9, <1>10, <3>1, <3>2
  <2>5. CASE i > k + l
    <3>1. /\ i \in 1 .. n + l /\ i - l \in 0 .. n /\ i - l \in 0 .. n + 1 /\ i - l # k /\ k \in 0 .. n
          /\ (i - l) + 1 \in 0 .. n + 1 /\ (i - l) + 1 \in 1 .. n + 1 /\ (i - l) + 1 # k + 1
          /\ k + 1 \in 1 .. n + 1 /\ l \in 0 .. l /\ 1 \in 0 .. l
      BY <1>1, <1>2, <1>3, <2>5
    <3>2. d(i) = c(i - l)
      BY <1>8, <2>5, <3>1
    <3>3. d(i + 1) = c((i - l) + 1)
      <4>1. CASE i = n + l
        <5>1. i + 1 = n + l + 1 /\ (i - l) + 1 = n + 1
          BY <1>1, <1>2, <4>1
        <5>2. QED
          BY <1>1, <1>7, <5>1
      <4>2. CASE i # n + l
        <5>1. i + 1 \in 1 .. n + l /\ i + 1 > k + l /\ (i + 1) - l = (i - l) + 1
          BY <1>1, <1>2, <2>5, <4>2
        <5>2. QED
          BY <1>8, <5>1
      <4>3. QED
        BY <4>1, <4>2
    <3>4. /\ c(i - l) \in Node /\ c((i - l) + 1) \in Node
          /\ c(i - l) # c(k) /\ c((i - l) + 1) # c(k + 1)
      BY <1>1, <3>1
    <3>5. c(i - l) # b(l) /\ c((i - l) + 1) # b(1)
      BY <1>6, <3>1
    <3>6. m.next[c(i - l)] = c((i - l) + 1) /\ m.prev[c((i - l) + 1)] = c(i - l)
      BY <1>4, <3>1
    <3>7. QED
      BY <1>10, <3>2, <3>3, <3>4, <3>5, <3>6
  <2>6. QED
    BY <1>1, <1>2, <2>1, <2>2, <2>3, <2>4, <2>5
<1>12. Circle(m2, h, t)
  BY <1>7, <1>11 DEF Circle, d
<1>13. IsRing(h, t)
  <2>1. \A i \in 1 .. n + l : \/ i \in 1 .. n /\ i <= k /\ d(i) = c(i)
                              \/ i - k \in 1 .. l /\ i > k /\ i <= k + l /\ d(i) = b(i - k)
                              \/ i - l \in 1 .. n /\ i > k + l /\ d(i) = c(i - l)
    BY <1>1, <1>2, <1>8
  <2>2. \A i \in 1 .. n, j \in 1 .. l : c(i) # b(j) /\ c(i) # h /\ b(j) # h
    <3>1. /\ \A i \in 1 .. n : i \in 0 .. n + 1 /\ i \in 0 .. n /\ i # 0
          /\ \A j \in 1 .. l : j \in 0 .. l
          /\ 0 \in 0 .. n + 1 /\ 0 \in 0 .. n
      BY <1>1, <1>2
    <3>2. QED
      BY <1>1, <1>6, <3>1
  <2>3. \A i \in 1 .. n : c(i) # h
    <3>1. \A i \in 1 .. n : i \in 0 .. n /\ i # 0 /\ 0 \in 0 .. n
      BY <1>1
    <3>2. QED
      BY <1>1, <3>1
  <2>4. \A i, j \in 1 .. n : c(i) = c(j) => i = j
    BY <1>1
  <2>5. \A i, j \in 1 .. l : b(i) = b(j) => i = j
    BY <1>2
  <2>6. \A i \in 1 .. n + l : d(i) # h
    <3>1. \A j \in 1 .. l : b(j) # h
      <4>1. \A j \in 1 .. l : j \in 0 .. l
        BY <1>2
      <4>2. 0 \in 0 .. n + 1
        BY <1>1
      <4>3. QED
        BY <1>1, <1>6, <4>1, <4>2
    <3>2. QED
      BY <2>1, <2>3, <3>1
  <2>7. ASSUME NEW i \in 1 .. n + l, NEW j \in 1 .. n + l, d(i) = d(j)
        PROVE  i = j
    <3>1. i - k = j - k \/ i - l = j - l => i = j
      BY <1>1, <1>2
    <3>2. i <= k => ~(i > k) /\ ~(i > k + l)
      BY <1>1, <1>2
    <3>3. QED
      BY <2>1, <2>2, <2>4, <2>5, <2>7, <3>1, <1>1, <1>2
  <2>8. t \in Seq(Node) /\ h \in Node
    BY DEF Spliced, IsRing
  <2>9. QED
    BY <1>7, <2>6, <2>7, <2>8 DEF IsRing
<1>14. ASSUME NEW x \in Node, OffRing(h, s, x), OffRing(f, u, x)
       PROVE  Same(m, m2, x)
  <2>1. k \in 0 .. n + 1 /\ k + 1 \in 0 .. n + 1 /\ 1 \in 0 .. l + 1 /\ l \in 0 .. l + 1
    BY <1>1, <1>2
  <2>2. x # c(k) /\ x # c(k + 1)
    BY <1>14, <2>1, OffPositions DEF c, n
  <2>3. x # b(1) /\ x # b(l)
    BY <1>14, <2>1, OffPositions DEF b, l
  <2>4. QED
    BY <1>10, <2>2, <2>3 DEF Same
<1>15. QED
  BY <1>10, <1>12, <1>13, <1>14 DEF m2, c

-----------------------------------------------------------------------------
(***************************************************************************)
(* All the lists.  The invariant is taken of any memory, lists and valid   *)
(* nodes, so that a function that calls others can be proved from them:    *)
(* list_move() is a deletion and an insertion, the _init functions end in  *)
(* an initialisation.                                                      *)
(***************************************************************************)

Free(l) == {e \in Entries : \A h \in Heads : \A i \in 1 .. Len(l[h]) : l[h][i] # e}

Sound(m, l, v) ==
  /\ m \in Memory /\ l \in [Heads -> Seq(Entries)] /\ v \subseteq Node
  /\ \A h \in Heads : \A i \in 1 .. Len(l[h]) : l[h][i] \in v
  /\ \A h \in Heads : IF h \in v THEN Circle(m, h, l[h]) ELSE l[h] = <<>>
  /\ \A e \in Free(l) \cap v : m.next[e] = e /\ m.prev[e] = e
  /\ \A g, h \in Heads : \A i \in 1 .. Len(l[g]), j \in 1 .. Len(l[h]) :
       l[g][i] = l[h][j] => g = h /\ i = j

\* Every list is a ring, no node is on two of them, and a free entry is on
\* none.
LEMMA Rings ==
  ASSUME NEW m, NEW l, NEW v, Sound(m, l, v)
  PROVE  /\ \A h \in Heads : IsRing(h, l[h])
         /\ \A g, h \in Heads : g # h =>
              \A i \in 0 .. Len(l[g]) : OffRing(h, l[h], At(g, l[g], i))
         /\ \A h \in Heads, e \in Free(l) : e \in Node /\ e \notin Heads /\ OffRing(h, l[h], e)
<1>1. \A h \in Heads : /\ l[h] \in Seq(Entries)
                       /\ Len(l[h]) \in Nat
                       /\ DOMAIN l[h] = 1 .. Len(l[h])
                       /\ \A i \in 1 .. Len(l[h]) : l[h][i] \in Entries
  BY DEF Sound
<1>2. \A h \in Heads : l[h] \in Seq(Node)
  BY <1>1, SeqMonotonic DEF Node
<1>3. \A e \in Entries : e \notin Heads
  BY NodeAssumption
<1>4. \A h \in Heads : IsRing(h, l[h])
  <2>1. \A h \in Heads : \A i, j \in 1 .. Len(l[h]) : l[h][i] = l[h][j] => i = j
    BY DEF Sound
  <2>2. QED
    BY <1>1, <1>2, <1>3, <2>1 DEF IsRing, Node
<1>5. \A h \in Heads : \A i \in 0 .. Len(l[h]) :
        \/ i = 0 /\ At(h, l[h], i) = h
        \/ i \in 1 .. Len(l[h]) /\ At(h, l[h], i) = l[h][i]
  BY <1>1 DEF At
<1>6. ASSUME NEW g \in Heads, NEW h \in Heads, g # h, NEW i \in 0 .. Len(l[g])
      PROVE  OffRing(h, l[h], At(g, l[g], i))
  <2>1. \A j \in 1 .. Len(l[g]), k \in 1 .. Len(l[h]) : l[g][j] # l[h][k]
    BY <1>6 DEF Sound
  <2>2. QED
    BY <1>1, <1>3, <1>5, <1>6, <2>1 DEF OffRing
<1>7. ASSUME NEW h \in Heads, NEW e \in Free(l)
      PROVE  e \in Node /\ e \notin Heads /\ OffRing(h, l[h], e)
  <2>1. e \in Entries /\ \A i \in 1 .. Len(l[h]) : l[h][i] # e
    BY DEF Free
  <2>2. QED
    BY <1>3, <1>5, <2>1 DEF OffRing, Node
<1>8. QED
  BY <1>4, <1>6, <1>7

\* What a function must do to keep the invariant: leave the lists of H as
\* rings, put on them only free entries and entries that were on one of them,
\* no entry on two, and write the pointers of no node on another list.
Keeps(m, l, v, n, k, w, H) ==
  /\ H \subseteq Heads /\ n \in Memory /\ k \in [Heads -> Seq(Entries)] /\ w \subseteq Node
  /\ \A h \in Heads \ H : k[h] = l[h] /\ (h \in w <=> h \in v)
  /\ \A h \in Heads : \A i \in 1 .. Len(k[h]) : k[h][i] \in w
  /\ \A h \in H : /\ IsRing(h, k[h])
                  /\ IF h \in w THEN Circle(n, h, k[h]) ELSE k[h] = <<>>
  /\ \A h \in H : \A i \in 1 .. Len(k[h]) :
       \/ k[h][i] \in Free(l)
       \/ \E g \in H : \E j \in 1 .. Len(l[g]) : k[h][i] = l[g][j]
  /\ \A g, h \in H : g # h =>
       \A i \in 1 .. Len(k[g]), j \in 1 .. Len(k[h]) : k[g][i] # k[h][j]
  /\ \A x \in Node \ Free(l) : (\A h \in H : OffRing(h, l[h], x)) => Same(m, n, x)
  /\ \A e \in Free(k) \cap w : n.next[e] = e /\ n.prev[e] = e

LEMMA Step ==
  ASSUME NEW m, NEW l, NEW v, NEW n, NEW k, NEW w, NEW H,
         Sound(m, l, v), Keeps(m, l, v, n, k, w, H)
  PROVE  Sound(n, k, w)
<1> USE DEF Keeps
<1>1. \A h \in Heads : Len(l[h]) \in Nat /\ Len(k[h]) \in Nat
  BY DEF Sound
<1>2. ASSUME NEW h \in Heads \ H, h \in w
      PROVE  Circle(n, h, k[h])
  <2>1. h \in Heads /\ k[h] = l[h] /\ Circle(m, h, l[h])
    BY <1>2 DEF Sound
  <2>2. IsRing(h, l[h])
    BY Rings
  <2>3. ASSUME NEW i \in 0 .. Len(l[h])
        PROVE  Same(m, n, At(h, l[h], i))
    <3> DEFINE x == At(h, l[h], i)
    <3>1. x \in Node
      <4>1. i \in 0 .. Len(l[h]) + 1
        BY <1>1
      <4>2. QED
        BY <2>2, <4>1, Positions
    <3>2. x \notin Free(l)
      <4>1. \A e \in Free(l) : OffRing(h, l[h], e)
        BY Rings
      <4>2. QED
        BY <4>1 DEF OffRing
    <3>3. \A g \in H : OffRing(g, l[g], x)
      BY Rings
    <3>4. QED
      BY <3>1, <3>2, <3>3
  <2>4. Circle(n, h, l[h])
    BY <2>1, <2>2, <2>3, CircleKept
  <2>5. QED
    BY <2>1, <2>4
<1>3. \A h \in Heads : IF h \in w THEN Circle(n, h, k[h]) ELSE k[h] = <<>>
  BY <1>2 DEF Sound
<1>4. ASSUME NEW a \in H, NEW b \in Heads \ H,
             NEW i \in 1 .. Len(k[a]), NEW j \in 1 .. Len(k[b]), k[a][i] = k[b][j]
      PROVE  FALSE
  <2>1. k[b][j] = l[b][j] /\ j \in 1 .. Len(l[b])
    OBVIOUS
  <2>2. k[a][i] \notin Free(l)
    BY <1>4, <2>1 DEF Free
  <2>3. k[a][i] \in Free(l) \/ \E c \in H : \E p \in 1 .. Len(l[c]) : k[a][i] = l[c][p]
    OBVIOUS
  <2>4. PICK c \in H : \E p \in 1 .. Len(l[c]) : k[a][i] = l[c][p]
    BY <2>2, <2>3
  <2>5. QED
    BY <1>4, <2>1, <2>4 DEF Sound
<1>5. ASSUME NEW g \in Heads, NEW h \in Heads,
             NEW i \in 1 .. Len(k[g]), NEW j \in 1 .. Len(k[h]), k[g][i] = k[h][j]
      PROVE  g = h /\ i = j
  <2>1. CASE g \in H /\ h \in H
    <3>1. g = h
      BY <1>5, <2>1
    <3>2. QED
      BY <1>5, <2>1, <3>1 DEF IsRing
  <2>2. CASE g \in H /\ h \notin H
    BY <1>4, <1>5, <2>2
  <2>3. CASE g \notin H /\ h \in H
    BY <1>4, <1>5, <2>3
  <2>4. CASE g \notin H /\ h \notin H
    BY <1>5, <2>4 DEF Sound
  <2>5. QED
    BY <2>1, <2>2, <2>3, <2>4
<1>6. QED
  BY <1>3, <1>5 DEF Sound

\* INIT_LIST_HEAD() of a head without entries or of a free entry.
LEMMA InitSound ==
  ASSUME NEW m, NEW l, NEW v, Sound(m, l, v),
         NEW x, x \in Free(l) \/ (x \in Heads /\ l[x] = <<>>)
  PROVE  Sound(INIT_LIST_HEAD(m, x), l, v \cup {x})
<1> DEFINE n == INIT_LIST_HEAD(m, x)
<1>1. /\ m \in Memory /\ l \in [Heads -> Seq(Entries)] /\ v \subseteq Node /\ x \in Node
      /\ \A h \in Heads : \A i \in 1 .. Len(l[h]) : l[h][i] \in v
  BY DEF Sound, Free, Node
<1>2. n \in Memory
  BY <1>1, Linking DEF INIT_LIST_HEAD
<1>3. \A y \in Node : n.next[y] = IF y = x THEN x ELSE m.next[y]
  BY <1>1, Linking DEF INIT_LIST_HEAD
<1>4. \A y \in Node : n.prev[y] = IF y = x THEN x ELSE m.prev[y]
  BY <1>1, Linking DEF INIT_LIST_HEAD
<1>5. \A e \in Free(l) \cap (v \cup {x}) : n.next[e] = e /\ n.prev[e] = e
  BY <1>1, <1>3, <1>4 DEF Sound
<1>6. Circle(n, x, <<>>)
  BY <1>1, EmptyCircle
<1> HIDE DEF n
<1>7. CASE x \in Heads /\ l[x] = <<>>
  <2>1. l[x] = <<>>
    BY <1>7
  <2>2. IsRing(x, l[x]) /\ \A y : OffRing(x, l[x], y) => y # x
    <3>1. IsRing(x, l[x])
      BY <1>7, Rings
    <3>2. 0 \in 0 .. Len(l[x]) /\ At(x, l[x], 0) = x
      BY <3>1, Positions
    <3>3. QED
      BY <3>1, <3>2 DEF OffRing
  <2>3. \A y \in Node \ Free(l) : (\A h \in {x} : OffRing(h, l[h], y)) => Same(m, n, y)
    BY <1>3, <1>4, <2>2 DEF Same
  <2>4. Len(<<>>) = 0
    OBVIOUS
  <2>5. /\ \A i \in 1 .. Len(l[x]) : FALSE
        /\ \A h \in {x} : IsRing(h, l[h]) /\ Circle(n, h, l[h])
    BY <1>6, <2>1, <2>2, <2>4
  <2>6. /\ \A h \in Heads \ {x} : h \in v \cup {x} <=> h \in v
        /\ {x} \in SUBSET Heads /\ v \cup {x} \in SUBSET Node
        /\ \A h \in Heads : \A i \in 1 .. Len(l[h]) : l[h][i] \in v \cup {x}
    BY <1>1, <1>7
  <2>7. Keeps(m, l, v, n, l, v \cup {x}, {x})
    BY <1>1, <1>2, <1>5, <2>3, <2>5, <2>6 DEF Keeps
  <2>8. QED
    BY <2>7, Step DEF n
<1>8. CASE x \in Free(l)
  <2>1. x \notin Heads
    BY <1>8, NodeAssumption DEF Free
  <2>2. \A y \in Node \ Free(l) : Same(m, n, y)
    BY <1>3, <1>4, <1>8 DEF Same
  <2>3. /\ \A h \in Heads : h \in v \cup {x} <=> h \in v
        /\ v \cup {x} \in SUBSET Node
        /\ \A h \in Heads : \A i \in 1 .. Len(l[h]) : l[h][i] \in v \cup {x}
    BY <1>1, <2>1
  <2>4. Keeps(m, l, v, n, l, v \cup {x}, {})
    BY <1>1, <1>2, <1>5, <2>2, <2>3 DEF Keeps
  <2>5. QED
    BY <2>4, Step DEF n
<1>9. QED
  BY <1>7, <1>8

\* A function that changes one list.
LEMMA OneList ==
  ASSUME NEW m, NEW l, NEW v, Sound(m, l, v), NEW h \in Heads, NEW n \in Memory,
         NEW t \in Seq(Entries), NEW w, w \subseteq Node,
         IsRing(h, t), Circle(n, h, t), h \in w,
         \A g \in Heads \ {h} : g \in w <=> g \in v,
         \A x \in v : x \in w \/ \E i \in 1 .. Len(l[h]) : x = l[h][i],
         \A i \in 1 .. Len(t) :
           t[i] \in w /\ (t[i] \in Free(l) \/ \E j \in 1 .. Len(l[h]) : t[i] = l[h][j]),
         \A x \in Node : OffRing(h, l[h], x) /\ (\A i \in 1 .. Len(t) : t[i] # x) => Same(m, n, x),
         \A x \in Entries \cap w : x \in v \/ \E i \in 1 .. Len(t) : x = t[i],
         \A j \in 1 .. Len(l[h]) : l[h][j] \in w => \E i \in 1 .. Len(t) : t[i] = l[h][j]
  PROVE  Sound(n, [l EXCEPT ![h] = t], w)
<1> DEFINE k == [l EXCEPT ![h] = t]
<1>1. /\ l \in [Heads -> Seq(Entries)] /\ v \subseteq Node
      /\ k \in [Heads -> Seq(Entries)] /\ k[h] = t /\ \A g \in Heads \ {h} : k[g] = l[g]
  BY DEF Sound
<1> HIDE DEF k
<1>2. \A g \in Heads \ {h} : \A i \in 1 .. Len(k[g]) : k[g][i] \in w
  <2>1. SUFFICES ASSUME NEW g \in Heads \ {h}, NEW i \in 1 .. Len(l[g]), l[g][i] \notin w
                 PROVE  FALSE
    BY <1>1
  <2>2. l[g][i] \in v
    BY DEF Sound
  <2>3. PICK j \in 1 .. Len(l[h]) : l[g][i] = l[h][j]
    BY <2>1, <2>2
  <2>4. QED
    BY <2>3 DEF Sound
<1>3. ASSUME NEW x \in Node \ Free(l), OffRing(h, l[h], x)
      PROVE  Same(m, n, x)
  <2>1. \A i \in 1 .. Len(t) : t[i] # x
    <3>1. SUFFICES ASSUME NEW i \in 1 .. Len(t), t[i] = x PROVE FALSE
      OBVIOUS
    <3>2. PICK j \in 1 .. Len(l[h]) : x = l[h][j]
      BY <1>3, <3>1
    <3>3. At(h, l[h], j) = x /\ j \in 0 .. Len(l[h])
      BY <1>1, <3>2 DEF At
    <3>4. QED
      BY <1>3, <3>3 DEF OffRing
  <2>2. QED
    BY <1>3, <2>1
<1>4. ASSUME NEW e \in Free(k) \cap w
      PROVE  n.next[e] = e /\ n.prev[e] = e
  <2>1. e \in Entries /\ e \in w /\ \A i \in 1 .. Len(t) : t[i] # e
    BY <1>1 DEF Free
  <2>2. e \in v /\ \A j \in 1 .. Len(l[h]) : l[h][j] # e
    BY <2>1
  <2>3. e \in Free(l)
    <3>1. \A g \in Heads \ {h} : \A i \in 1 .. Len(l[g]) : l[g][i] # e
      BY <1>1 DEF Free
    <3>2. QED
      BY <2>1, <2>2, <3>1 DEF Free
  <2>4. OffRing(h, l[h], e) /\ e \in Node
    BY <2>3, Rings
  <2>5. Same(m, n, e)
    BY <2>1, <2>4
  <2>6. QED
    BY <2>2, <2>3, <2>5 DEF Sound, Same
<1>5. Keeps(m, l, v, n, k, w, {h})
  <2>1. /\ {h} \subseteq Heads
        /\ \A g \in Heads \ {h} : k[g] = l[g] /\ (g \in w <=> g \in v)
    BY <1>1
  <2>2. \A g \in Heads : \A i \in 1 .. Len(k[g]) : k[g][i] \in w
    BY <1>1, <1>2
  <2>3. \A g \in {h} : IsRing(g, k[g]) /\ IF g \in w THEN Circle(n, g, k[g]) ELSE k[g] = <<>>
    BY <1>1
  <2>4. \A g \in {h} : \A i \in 1 .. Len(k[g]) :
          \/ k[g][i] \in Free(l)
          \/ \E f \in {h} : \E j \in 1 .. Len(l[f]) : k[g][i] = l[f][j]
    BY <1>1
  <2>5. \A f, g \in {h} : f # g =>
          \A i \in 1 .. Len(k[f]), j \in 1 .. Len(k[g]) : k[f][i] # k[g][j]
    OBVIOUS
  <2>6. \A x \in Node \ Free(l) : (\A g \in {h} : OffRing(g, l[g], x)) => Same(m, n, x)
    BY <1>3
  <2>7. QED
    BY <1>1, <1>4, <2>1, <2>2, <2>3, <2>4, <2>5, <2>6 DEF Keeps
<1>6. QED
  BY <1>5, Step DEF k

\* __list_add() of a free entry between two neighbours of a list.
LEMMA InsertSound ==
  ASSUME NEW m, NEW l, NEW v, Sound(m, l, v), NEW h \in Heads, h \in v, NEW e \in Free(l),
         NEW k \in 0 .. Len(l[h]), NEW t \in Seq(Entries), Inserted(l[h], t, k, e)
  PROVE  Sound(ListInsert(m, e, At(h, l[h], k), At(h, l[h], k + 1)), [l EXCEPT ![h] = t], v \cup {e})
<1> DEFINE s == l[h]
           n == ListInsert(m, e, At(h, s, k), At(h, s, k + 1))
           w == v \cup {e}
<1>1. /\ m \in Memory /\ v \subseteq Node /\ Len(s) \in Nat
      /\ Circle(m, h, s) /\ \A i \in 1 .. Len(s) : s[i] \in v
  BY DEF Sound
<1>2. IsRing(h, s) /\ e \in Node /\ e \notin Heads /\ OffRing(h, s, e)
  BY Rings
<1>3. /\ n \in Memory /\ Circle(n, h, t) /\ IsRing(h, t)
      /\ \A x \in Node : x # e /\ OffRing(h, s, x) => Same(m, n, x)
  <2> HIDE DEF s
  <2>1. k \in 0 .. Len(s) /\ Inserted(s, t, k, e)
    BY DEF s
  <2>2. QED
    BY <1>1, <1>2, <2>1, InsertCircle
<1>4. /\ \A i \in 1 .. Len(t) : t[i] = e \/ \E j \in 1 .. Len(s) : t[i] = s[j]
      /\ \A j \in 1 .. Len(s) : \E i \in 1 .. Len(t) : t[i] = s[j]
      /\ \E i \in 1 .. Len(t) : t[i] = e
  <2> HIDE DEF s
  <2>1. /\ k \in 0 .. Len(s) /\ Len(t) = Len(s) + 1
        /\ \A i \in 1 .. Len(t) : t[i] = IF i <= k THEN s[i] ELSE IF i = k + 1 THEN e ELSE s[i - 1]
    BY DEF s, Inserted
  <2>2. PICK z \in Nat : z = Len(s)
    BY <1>1
  <2>3. \A i \in 1 .. Len(t) : t[i] = e \/ \E j \in 1 .. Len(s) : t[i] = s[j]
    BY <2>1, <2>2
  <2>4. ASSUME NEW j \in 1 .. Len(s) PROVE \E i \in 1 .. Len(t) : t[i] = s[j]
    <3>1. CASE j <= k
      BY <2>1, <2>2, <3>1
    <3>2. CASE j > k
      <4>1. j + 1 \in 1 .. Len(t) /\ ~(j + 1 <= k) /\ j + 1 # k + 1 /\ (j + 1) - 1 = j
        BY <2>1, <2>2, <3>2
      <4>2. t[j + 1] = s[j]
        BY <2>1, <4>1
      <4>3. QED
        BY <4>1, <4>2
    <3>3. QED
      BY <2>1, <2>2, <3>1, <3>2
  <2>5. k + 1 \in 1 .. Len(t) /\ t[k + 1] = e
    <3>1. k + 1 \in 1 .. Len(t) /\ ~(k + 1 <= k)
      BY <2>1, <2>2
    <3>2. QED
      BY <2>1, <3>1
  <2>6. QED
    BY <2>3, <2>4, <2>5
<1> HIDE DEF n
<1>5. /\ w \subseteq Node /\ h \in w
      /\ \A g \in Heads \ {h} : g \in w <=> g \in v
      /\ \A x \in v : x \in w
      /\ \A i \in 1 .. Len(t) : t[i] \in w /\ (t[i] \in Free(l) \/ \E j \in 1 .. Len(s) : t[i] = s[j])
      /\ \A x \in Entries \cap w : x \in v \/ \E i \in 1 .. Len(t) : x = t[i]
  BY <1>1, <1>2, <1>4
<1>6. \A x \in Node : OffRing(h, s, x) /\ (\A i \in 1 .. Len(t) : t[i] # x) => Same(m, n, x)
  BY <1>3, <1>4
<1>7. Sound(n, [l EXCEPT ![h] = t], w)
  BY <1>3, <1>4, <1>5, <1>6, OneList
<1>8. QED
  BY <1>7 DEF n

\* The deletion of an entry from its list; it is free then, and not valid.
LEMMA DeleteSound ==
  ASSUME NEW m, NEW l, NEW v, Sound(m, l, v), NEW h \in Heads,
         NEW k \in 1 .. Len(l[h]), NEW t \in Seq(Entries), Removed(l[h], t, k)
  PROVE  /\ h \in v
         /\ Sound(ListDel(m, l[h][k]), [l EXCEPT ![h] = t], v \ {l[h][k]})
         /\ l[h][k] \in Free([l EXCEPT ![h] = t])
<1> DEFINE s == l[h]
           e == s[k]
           n == ListDel(m, e)
           w == v \ {e}
<1>1. /\ m \in Memory /\ v \subseteq Node /\ Len(s) \in Nat /\ k \in 1 .. Len(s)
      /\ s \in Seq(Entries) /\ e \in Entries
      /\ \A i \in 1 .. Len(s) : s[i] \in v
      /\ \A i, j \in 1 .. Len(s) : s[i] = s[j] => i = j
      /\ \A g \in Heads \ {h} : \A i \in 1 .. Len(l[g]) : l[g][i] # e
  BY DEF Sound
<1>2. h \in v /\ Circle(m, h, s)
  <2>1. s # <<>>
    BY <1>1
  <2>2. QED
    BY <2>1 DEF Sound
<1>3. IsRing(h, s) /\ e \notin Heads
  BY <1>1, Rings, NodeAssumption
<1>4. /\ n \in Memory /\ Circle(n, h, t) /\ IsRing(h, t)
      /\ \A x \in Node : OffRing(h, s, x) => Same(m, n, x)
  <2> HIDE DEF s
  <2>1. k \in 1 .. Len(s) /\ Removed(s, t, k)
    BY DEF s
  <2>2. QED
    BY <1>1, <1>2, <1>3, <2>1, RemoveCircle
<1>5. /\ \A i \in 1 .. Len(t) : \E j \in 1 .. Len(s) : t[i] = s[j] /\ s[j] # e
      /\ \A j \in 1 .. Len(s) : s[j] # e => \E i \in 1 .. Len(t) : t[i] = s[j]
  <2> HIDE DEF s
  <2>1. /\ k \in 1 .. Len(s) /\ Len(t) = Len(s) - 1
        /\ \A i \in 1 .. Len(t) : t[i] = IF i < k THEN s[i] ELSE s[i + 1]
    BY DEF s, Removed
  <2>2. PICK z \in Nat : z = Len(s)
    BY <1>1
  <2>3. \A i \in 1 .. Len(t) : \E j \in 1 .. Len(s) : t[i] = s[j] /\ j # k
    <3>1. SUFFICES ASSUME NEW i \in 1 .. Len(t) PROVE \E j \in 1 .. Len(s) : t[i] = s[j] /\ j # k
      OBVIOUS
    <3>2. CASE i < k
      BY <2>1, <2>2, <3>2
    <3>3. CASE ~(i < k)
      <4>1. i + 1 \in 1 .. Len(s) /\ i + 1 # k /\ t[i] = s[i + 1]
        BY <2>1, <2>2, <3>3
      <4>2. QED
        BY <4>1
    <3>4. QED
      BY <3>2, <3>3
  <2>4. ASSUME NEW j \in 1 .. Len(s), j # k PROVE \E i \in 1 .. Len(t) : t[i] = s[j]
    <3>1. CASE j < k
      BY <2>1, <2>2, <3>1
    <3>2. CASE ~(j < k)
      <4>1. j - 1 \in 1 .. Len(t) /\ ~(j - 1 < k) /\ (j - 1) + 1 = j
        BY <2>1, <2>2, <2>4, <3>2
      <4>2. t[j - 1] = s[j]
        BY <2>1, <4>1
      <4>3. QED
        BY <4>1, <4>2
    <3>3. QED
      BY <3>1, <3>2
  <2>5. QED
    BY <1>1, <2>3, <2>4
<1> HIDE DEF n
<1>6. /\ w \subseteq Node /\ h \in w
      /\ \A g \in Heads \ {h} : g \in w <=> g \in v
      /\ \A x \in v : x \in w \/ \E i \in 1 .. Len(s) : x = s[i]
      /\ \A i \in 1 .. Len(t) : t[i] \in w /\ (t[i] \in Free(l) \/ \E j \in 1 .. Len(s) : t[i] = s[j])
      /\ \A x \in Entries \cap w : x \in v
      /\ \A j \in 1 .. Len(s) : s[j] \in w => \E i \in 1 .. Len(t) : t[i] = s[j]
  BY <1>1, <1>2, <1>3, <1>5
<1>7. Sound(n, [l EXCEPT ![h] = t], w)
  BY <1>4, <1>6, OneList
<1>8. e \in Free([l EXCEPT ![h] = t])
  <2>1. l \in [Heads -> Seq(Entries)]
    BY DEF Sound
  <2>2. \A g \in Heads : [l EXCEPT ![h] = t][g] = IF g = h THEN t ELSE l[g]
    BY <2>1
  <2>3. \A i \in 1 .. Len(t) : t[i] # e
    BY <1>5
  <2>4. QED
    BY <1>1, <2>2, <2>3 DEF Free
<1>9. QED
  BY <1>2, <1>7, <1>8 DEF n

\* list_replace() of an entry by a free one: the old one is free then, and not
\* valid.
LEMMA ReplaceSound ==
  ASSUME NEW m, NEW l, NEW v, Sound(m, l, v), NEW h \in Heads, NEW k \in 1 .. Len(l[h]),
         NEW new \in Free(l), NEW t \in Seq(Entries), Replaced(l[h], t, k, new)
  PROVE  /\ Sound(ListReplace(m, l[h][k], new), [l EXCEPT ![h] = t], (v \ {l[h][k]}) \cup {new})
         /\ l[h][k] \in Free([l EXCEPT ![h] = t]) \ {new}
<1> DEFINE s == l[h]
           e == s[k]
           n == ListReplace(m, e, new)
           w == (v \ {e}) \cup {new}
<1>1. /\ m \in Memory /\ v \subseteq Node /\ Len(s) \in Nat /\ k \in 1 .. Len(s)
      /\ s \in Seq(Entries) /\ e \in Entries
      /\ \A i \in 1 .. Len(s) : s[i] \in v
      /\ \A i, j \in 1 .. Len(s) : s[i] = s[j] => i = j
      /\ \A g \in Heads \ {h} : \A i \in 1 .. Len(l[g]) : l[g][i] # e
  BY DEF Sound
<1>2. h \in v /\ Circle(m, h, s)
  <2>1. s # <<>>
    BY <1>1
  <2>2. QED
    BY <2>1 DEF Sound
<1>3. /\ IsRing(h, s) /\ e \notin Heads
      /\ new \in Node /\ new \notin Heads /\ new \in Entries /\ OffRing(h, s, new)
      /\ \A i \in 1 .. Len(s) : s[i] # new
  BY <1>1, Rings, NodeAssumption DEF Free
<1>4. /\ n \in Memory /\ Circle(n, h, t) /\ IsRing(h, t)
      /\ \A x \in Node : x # new /\ OffRing(h, s, x) => Same(m, n, x)
  <2> HIDE DEF s
  <2>1. k \in 1 .. Len(s) /\ Replaced(s, t, k, new)
    BY DEF s
  <2>2. QED
    BY <1>1, <1>2, <1>3, <2>1, ReplaceCircle
<1>5. Len(t) = Len(s) /\ \A i \in 1 .. Len(s) : t[i] = IF i = k THEN new ELSE s[i]
  BY DEF Replaced
<1>6. \A i \in 1 .. Len(t) : t[i] # e
  BY <1>1, <1>3, <1>5
<1> HIDE DEF n
<1>7. /\ w \subseteq Node /\ h \in w
      /\ \A g \in Heads \ {h} : g \in w <=> g \in v
      /\ \A x \in v : x \in w \/ \E i \in 1 .. Len(s) : x = s[i]
      /\ \A x \in Entries \cap w : x \in v \/ \E i \in 1 .. Len(t) : x = t[i]
  BY <1>1, <1>2, <1>3, <1>5
<1>8. \A i \in 1 .. Len(t) : t[i] \in w /\ (t[i] \in Free(l) \/ \E j \in 1 .. Len(s) : t[i] = s[j])
  BY <1>1, <1>5, <1>6
<1>9. \A j \in 1 .. Len(s) : s[j] \in w => \E i \in 1 .. Len(t) : t[i] = s[j]
  <2>1. SUFFICES ASSUME NEW j \in 1 .. Len(s), s[j] \in w PROVE t[j] = s[j]
    BY <1>5
  <2>2. j # k
    BY <1>3, <2>1
  <2>3. QED
    BY <1>5, <2>2
<1>10. \A x \in Node : OffRing(h, s, x) /\ (\A i \in 1 .. Len(t) : t[i] # x) => Same(m, n, x)
  BY <1>1, <1>4, <1>5
<1> HIDE DEF w, e
<1>11. Sound(n, [l EXCEPT ![h] = t], w)
  BY <1>4, <1>7, <1>8, <1>9, <1>10, OneList
<1>12. e \in Free([l EXCEPT ![h] = t])
  <2>1. l \in [Heads -> Seq(Entries)]
    BY DEF Sound
  <2>2. \A g \in Heads : [l EXCEPT ![h] = t][g] = IF g = h THEN t ELSE l[g]
    BY <2>1
  <2>3. QED
    BY <1>1, <1>6, <2>2 DEF Free
<1>13. e # new
  BY <1>3 DEF e
<1>14. QED
  BY <1>11, <1>12, <1>13 DEF n, w, e

\* Every entry of s is on one of the lists of g and h.
Among(s, l, g, h) ==
  \A i \in 1 .. Len(s) : \/ \E j \in 1 .. Len(l[g]) : s[i] = l[g][j]
                         \/ \E j \in 1 .. Len(l[h]) : s[i] = l[h][j]

\* A function that moves entries between two lists.
LEMMA TwoLists ==
  ASSUME NEW m, NEW l, NEW v, Sound(m, l, v), NEW g \in Heads, NEW h \in Heads, g # h,
         NEW n \in Memory, NEW k \in [Heads -> Seq(Entries)], NEW w, w \subseteq Node,
         \A f \in Heads \ {g, h} : k[f] = l[f],
         \A x \in Node \ {g, h} : x \in w <=> x \in v,
         IsRing(g, k[g]), IF g \in w THEN Circle(n, g, k[g]) ELSE k[g] = <<>>,
         IsRing(h, k[h]), IF h \in w THEN Circle(n, h, k[h]) ELSE k[h] = <<>>,
         Among(k[g], l, g, h), Among(k[h], l, g, h),
         Among(l[g], k, g, h), Among(l[h], k, g, h),
         \A i \in 1 .. Len(k[g]), j \in 1 .. Len(k[h]) : k[g][i] # k[h][j],
         \A x \in Node : OffRing(g, l[g], x) /\ OffRing(h, l[h], x) => Same(m, n, x)
  PROVE  Sound(n, k, w)
<1>1. /\ l \in [Heads -> Seq(Entries)] /\ v \subseteq Node
      /\ \A f \in Heads : \A i \in 1 .. Len(l[f]) : l[f][i] \in v /\ l[f][i] \in Entries
  BY DEF Sound
<1>2. \A e \in Entries : e \notin {g, h} /\ e \in Node /\ (e \in w <=> e \in v)
  BY NodeAssumption DEF Node
<1>3. \A f \in Heads : \A i \in 1 .. Len(k[f]) : k[f][i] \in w
  <2>1. ASSUME NEW s, Among(s, l, g, h), NEW i \in 1 .. Len(s)
        PROVE  s[i] \in w
    <3>1. PICK c \in Heads : \E j \in 1 .. Len(l[c]) : s[i] = l[c][j]
      BY <2>1 DEF Among
    <3>2. QED
      BY <1>1, <1>2, <3>1
  <2>2. \A f \in Heads \ {g, h} : \A i \in 1 .. Len(k[f]) : k[f][i] \in w
    BY <1>1, <1>2
  <2>3. QED
    BY <2>1, <2>2
<1>4. ASSUME NEW e \in Free(k)
      PROVE  e \in Free(l)
  <2>1. e \in Entries /\ \A f \in Heads : \A i \in 1 .. Len(k[f]) : k[f][i] # e
    BY DEF Free
  <2>2. ASSUME NEW s, Among(s, k, g, h), NEW j \in 1 .. Len(s)
        PROVE  s[j] # e
    <3>1. PICK c \in Heads : \E i \in 1 .. Len(k[c]) : s[j] = k[c][i]
      BY <2>2 DEF Among
    <3>2. QED
      BY <2>1, <3>1
  <2>3. \A f \in Heads \ {g, h} : \A j \in 1 .. Len(l[f]) : l[f][j] # e
    BY <2>1
  <2>4. QED
    BY <2>1, <2>2, <2>3 DEF Free
<1>5. ASSUME NEW e \in Free(k) \cap w
      PROVE  n.next[e] = e /\ n.prev[e] = e
  <2>1. e \in Free(l) \cap v /\ e \in Node
    BY <1>2, <1>4 DEF Free
  <2>2. Same(m, n, e)
    <3>1. OffRing(g, l[g], e) /\ OffRing(h, l[h], e)
      BY <2>1, Rings
    <3>2. QED
      BY <2>1, <3>1
  <2>3. QED
    BY <2>1, <2>2 DEF Sound, Same
<1>6. Keeps(m, l, v, n, k, w, {g, h})
  <2>1. /\ {g, h} \subseteq Heads
        /\ \A f \in Heads \ {g, h} : k[f] = l[f] /\ (f \in w <=> f \in v)
    BY DEF Node
  <2>2. \A f \in {g, h} : IsRing(f, k[f]) /\ IF f \in w THEN Circle(n, f, k[f]) ELSE k[f] = <<>>
    OBVIOUS
  <2>3. \A f \in {g, h} : \A i \in 1 .. Len(k[f]) :
          \/ k[f][i] \in Free(l)
          \/ \E c \in {g, h} : \E j \in 1 .. Len(l[c]) : k[f][i] = l[c][j]
    <3>1. SUFFICES ASSUME NEW f \in {g, h}, NEW i \in 1 .. Len(k[f])
                   PROVE  \E c \in {g, h} : \E j \in 1 .. Len(l[c]) : k[f][i] = l[c][j]
      OBVIOUS
    <3>2. \/ \E j \in 1 .. Len(l[g]) : k[f][i] = l[g][j]
          \/ \E j \in 1 .. Len(l[h]) : k[f][i] = l[h][j]
      <4>1. CASE f = g
        BY <4>1 DEF Among
      <4>2. CASE f = h
        BY <4>2 DEF Among
      <4>3. QED
        BY <4>1, <4>2
    <3>3. QED
      BY <3>2
  <2>4. \A a, b \in {g, h} : a # b =>
          \A i \in 1 .. Len(k[a]), j \in 1 .. Len(k[b]) : k[a][i] # k[b][j]
    OBVIOUS
  <2>5. \A x \in Node \ Free(l) : (\A f \in {g, h} : OffRing(f, l[f], x)) => Same(m, n, x)
    OBVIOUS
  <2>6. QED
    BY <1>3, <1>5, <2>1, <2>2, <2>3, <2>4, <2>5 DEF Keeps
<1>7. QED
  BY <1>6, Step

\* A sequence without elements, at any head.
LEMMA EmptyRing ==
  ASSUME NEW h \in Node
  PROVE  /\ IsRing(h, <<>>) /\ Len(<<>>) = 0
         /\ \A x : OffRing(h, <<>>, x) <=> x # h
<1>1. Len(<<>>) = 0 /\ <<>> \in Seq(Node) /\ At(h, <<>>, 0) = h
  BY DEF At
<1>2. QED
  BY <1>1 DEF IsRing, OffRing

\* list_replace() of a head by one without entries.
LEMMA ReplaceHeadSound ==
  ASSUME NEW m, NEW l, NEW v, Sound(m, l, v), NEW h \in Heads, h \in v,
         NEW g \in Heads, g # h, l[g] = <<>>
  PROVE  Sound(ListReplace(m, h, g), [l EXCEPT ![h] = <<>>, ![g] = l[h]], (v \ {h}) \cup {g})
<1> DEFINE s == l[h]
           n == ListReplace(m, h, g)
           k == [l EXCEPT ![h] = <<>>, ![g] = l[h]]
           w == (v \ {h}) \cup {g}
<1>1. /\ m \in Memory /\ v \subseteq Node /\ l \in [Heads -> Seq(Entries)]
      /\ Circle(m, h, s) /\ g \in Node /\ h \in Node
  BY DEF Sound, Node
<1>2. IsRing(h, s) /\ OffRing(h, s, g)
  <2>1. Len(l[g]) = 0 /\ At(g, l[g], 0) = g
    BY DEF At
  <2>2. 0 \in 0 .. Len(l[g])
    BY <2>1
  <2>3. QED
    BY <2>1, <2>2, Rings
<1>3. /\ n \in Memory /\ Circle(n, g, s) /\ IsRing(g, s)
      /\ \A x \in Node : x # g /\ OffRing(h, s, x) => Same(m, n, x)
  <2> HIDE DEF s
  <2>1. QED
    BY <1>1, <1>2, ReplaceHeadCircle
<1>4. /\ k \in [Heads -> Seq(Entries)] /\ k[h] = <<>> /\ k[g] = s
      /\ \A f \in Heads \ {g, h} : k[f] = l[f]
  BY <1>1
<1>5. /\ w \subseteq Node /\ g \in w /\ h \notin w
      /\ \A x \in Node \ {g, h} : x \in w <=> x \in v
  BY <1>1
<1> HIDE DEF k, w, n
<1>6. IsRing(h, k[h]) /\ \A x : OffRing(g, l[g], x) => x # g
  BY <1>1, <1>4, EmptyRing
<1>7. /\ \A i \in 1 .. Len(k[h]) : FALSE
      /\ \A i \in 1 .. Len(l[g]) : FALSE
  BY <1>1, <1>4, EmptyRing
<1>8. Sound(n, k, w)
  <2>1. Among(k[g], l, g, h) /\ Among(k[h], l, g, h)
    BY <1>4, <1>7 DEF Among
  <2>2. Among(l[g], k, g, h) /\ Among(l[h], k, g, h)
    BY <1>4, <1>7 DEF Among
  <2>3. \A i \in 1 .. Len(k[g]), j \in 1 .. Len(k[h]) : k[g][i] # k[h][j]
    BY <1>7
  <2>4. \A x \in Node : OffRing(g, l[g], x) /\ OffRing(h, l[h], x) => Same(m, n, x)
    BY <1>3, <1>6
  <2>5. /\ IsRing(g, k[g]) /\ (IF g \in w THEN Circle(n, g, k[g]) ELSE k[g] = <<>>)
        /\ IsRing(h, k[h]) /\ (IF h \in w THEN Circle(n, h, k[h]) ELSE k[h] = <<>>)
    BY <1>3, <1>4, <1>5, <1>6
  <2>6. n \in Memory
    BY <1>3
  <2>7. QED
    BY <1>4, <1>5, <2>1, <2>2, <2>3, <2>4, <2>5, <2>6, TwoLists
<1>9. QED
  BY <1>8 DEF k, w, n

\* list_cut_position() at an entry, to a head without entries.
LEMMA CutSound ==
  ASSUME NEW m, NEW l, NEW v, Sound(m, l, v), NEW h \in Heads, h \in v,
         NEW g \in Heads, g # h, l[g] = <<>>, NEW p \in 1 .. Len(l[h]),
         NEW k \in [Heads -> Seq(Entries)], \A f \in Heads \ {g, h} : k[f] = l[f],
         Len(k[g]) = p, \A i \in 1 .. p : k[g][i] = l[h][i],
         Len(k[h]) = Len(l[h]) - p, \A i \in 1 .. Len(l[h]) - p : k[h][i] = l[h][p + i]
  PROVE  Sound(ListCutPosition(m, g, h, l[h][p]), k, v \cup {g})
<1> DEFINE s == l[h]
           t == k[g]
           u == k[h]
           n == ListCutPosition(m, g, h, s[p])
           w == v \cup {g}
<1>1. /\ m \in Memory /\ v \subseteq Node /\ Len(s) \in Nat
      /\ Circle(m, h, s) /\ g \in Node /\ h \in Node
      /\ t \in Seq(Node) /\ u \in Seq(Node)
      /\ \A i, j \in 1 .. Len(s) : s[i] = s[j] => i = j
  <2>1. t \in Seq(Node) /\ u \in Seq(Node)
    BY SeqMonotonic DEF Node
  <2>2. QED
    BY <2>1 DEF Sound, Node
<1>2. /\ IsRing(h, s) /\ OffRing(h, s, g)
      /\ \A x : OffRing(g, l[g], x) => x # g
      /\ \A i \in 1 .. Len(l[g]) : FALSE
  <2>1. Len(l[g]) = 0 /\ At(g, l[g], 0) = g
    BY DEF At
  <2>2. 0 \in 0 .. Len(l[g])
    BY <2>1
  <2>3. IsRing(h, s) /\ OffRing(h, s, g)
    BY <2>1, <2>2, Rings
  <2>4. QED
    BY <2>1, <2>2, <2>3 DEF OffRing
<1>3. /\ p \in 1 .. Len(s)
      /\ Len(t) = p /\ \A i \in 1 .. p : t[i] = s[i]
      /\ Len(u) = Len(s) - p /\ \A i \in 1 .. Len(s) - p : u[i] = s[p + i]
  OBVIOUS
<1> HIDE DEF s, t, u
<1>4. /\ n \in Memory
      /\ Circle(n, g, t) /\ IsRing(g, t)
      /\ Circle(n, h, u) /\ IsRing(h, u)
      /\ \A x \in Node : x # g /\ OffRing(h, s, x) => Same(m, n, x)
  <2>1. m \in Memory /\ IsRing(h, s) /\ Circle(m, h, s) /\ g \in Node /\ OffRing(h, s, g)
        /\ t \in Seq(Node) /\ u \in Seq(Node)
    BY <1>1, <1>2
  <2>2. QED
    BY <1>3, <2>1, CutCircle
<1> HIDE DEF n
<1>5. /\ \A i \in 1 .. Len(t) : i \in 1 .. Len(s) /\ t[i] = s[i]
      /\ \A i \in 1 .. Len(u) : p + i \in 1 .. Len(s) /\ u[i] = s[p + i]
      /\ \A i \in 1 .. Len(t), j \in 1 .. Len(u) : i # p + j
      /\ \A j \in 1 .. Len(s) : j \in 1 .. Len(t) \/ (j - p \in 1 .. Len(u) /\ p + (j - p) = j)
  <2>1. /\ \A i \in 1 .. Len(t) : i \in 1 .. Len(s) /\ t[i] = s[i]
        /\ \A i \in 1 .. Len(u) : p + i \in 1 .. Len(s) /\ u[i] = s[p + i]
        /\ \A i \in 1 .. Len(t), j \in 1 .. Len(u) : i # p + j
    BY <1>1, <1>3
  <2>2. ASSUME NEW j \in 1 .. Len(s)
        PROVE  j \in 1 .. Len(t) \/ (j - p \in 1 .. Len(u) /\ p + (j - p) = j)
    <3>1. Len(s) \in Nat /\ p \in 1 .. Len(s) /\ Len(t) = p /\ Len(u) = Len(s) - p
      BY <1>1, <1>3
    <3>2. CASE j \in 1 .. p
      BY <3>1, <3>2
    <3>3. CASE j \notin 1 .. p
      <4>1. /\ j \in Int /\ p \in Int /\ Len(s) \in Int
            /\ p < j /\ j <= Len(s)
        BY <3>1, <3>3
      <4>2. j - p \in 1 .. Len(s) - p /\ p + (j - p) = j
        BY <4>1
      <4>3. QED
        BY <3>1, <4>2
    <3>4. QED
      BY <3>2, <3>3
  <2>3. QED
    BY <2>1, <2>2
<1>6. Among(k[g], l, g, h) /\ Among(k[h], l, g, h)
  <2>1. /\ \A i \in 1 .. Len(t) : \E j \in 1 .. Len(s) : t[i] = s[j]
        /\ \A i \in 1 .. Len(u) : \E j \in 1 .. Len(s) : u[i] = s[j]
    BY <1>5
  <2>2. QED
    BY <2>1 DEF s, t, u, Among
<1>7. Among(l[g], k, g, h) /\ Among(l[h], k, g, h)
  <2>1. ASSUME NEW j \in 1 .. Len(s)
        PROVE  (\E i \in 1 .. Len(t) : t[i] = s[j]) \/ (\E i \in 1 .. Len(u) : u[i] = s[j])
    <3>1. CASE j \in 1 .. Len(t)
      BY <1>5, <3>1
    <3>2. CASE j \notin 1 .. Len(t)
      <4>1. j - p \in 1 .. Len(u) /\ p + (j - p) = j
        BY <1>5, <3>2
      <4>2. u[j - p] = s[j]
        BY <1>5, <4>1
      <4>3. QED
        BY <4>1, <4>2
    <3>3. QED
      BY <3>1, <3>2
  <2>2. Among(l[h], k, g, h)
    BY <2>1 DEF s, t, u, Among
  <2>3. Among(l[g], k, g, h)
    BY <1>2 DEF Among
  <2>4. QED
    BY <2>2, <2>3
<1>8. \A i \in 1 .. Len(k[g]), j \in 1 .. Len(k[h]) : k[g][i] # k[h][j]
  <2>1. \A i \in 1 .. Len(t), j \in 1 .. Len(u) : t[i] # u[j]
    BY <1>1, <1>5
  <2>2. QED
    BY <2>1 DEF t, u
<1>9. \A x \in Node : OffRing(g, l[g], x) /\ OffRing(h, l[h], x) => Same(m, n, x)
  BY <1>2, <1>4 DEF s
<1>10. /\ w \subseteq Node /\ g \in w /\ h \in w
       /\ \A x \in Node \ {g, h} : x \in w <=> x \in v
  BY <1>1
<1>11. /\ IsRing(g, k[g]) /\ (IF g \in w THEN Circle(n, g, k[g]) ELSE k[g] = <<>>)
       /\ IsRing(h, k[h]) /\ (IF h \in w THEN Circle(n, h, k[h]) ELSE k[h] = <<>>)
  BY <1>4, <1>10 DEF t, u
<1> HIDE DEF w
<1>12. Sound(n, k, w)
  BY <1>4, <1>6, <1>7, <1>8, <1>9, <1>10, <1>11, TwoLists
<1>13. QED
  BY <1>12 DEF n, w, s

\* __list_splice() of the list f, which is not empty, into that of h; f is not
\* valid then.
LEMMA SpliceSound ==
  ASSUME NEW m, NEW l, NEW v, Sound(m, l, v), NEW f \in Heads, f \in v, l[f] # <<>>,
         NEW h \in Heads, h \in v, f # h, NEW p \in 0 .. Len(l[h]),
         NEW k \in [Heads -> Seq(Entries)], \A g \in Heads \ {f, h} : k[g] = l[g],
         k[f] = <<>>, Spliced(l[h], l[f], k[h], p)
  PROVE  Sound(Between(m, f, At(h, l[h], p), At(h, l[h], p + 1)), k, v \ {f})
<1> DEFINE s == l[h]
           u == l[f]
           t == k[h]
           n == Between(m, f, At(h, s, p), At(h, s, p + 1))
           w == v \ {f}
<1>1. /\ m \in Memory /\ v \subseteq Node /\ Len(s) \in Nat /\ Len(u) \in Nat
      /\ Circle(m, h, s) /\ Circle(m, f, u) /\ f \in Node /\ h \in Node
  BY DEF Sound, Node
<1>2. /\ IsRing(h, s) /\ IsRing(f, u)
      /\ \A i \in 0 .. Len(u) : OffRing(h, s, At(f, u, i))
  BY Rings
<1>3. p \in 0 .. Len(s) /\ u # <<>> /\ Spliced(s, u, t, p)
  OBVIOUS
<1> HIDE DEF s, t, u
<1>4. /\ n \in Memory /\ Circle(n, h, t) /\ IsRing(h, t)
      /\ \A x \in Node : OffRing(h, s, x) /\ OffRing(f, u, x) => Same(m, n, x)
  BY <1>1, <1>2, <1>3, SpliceCircle
<1> HIDE DEF n
<1>5. PICK y \in Nat, z \in Nat : y = Len(s) /\ z = Len(u)
  BY <1>1
<1>6. /\ Len(t) = y + z /\ p \in 0 .. y
      /\ \A i \in 1 .. Len(t) : t[i] = IF i <= p THEN s[i] ELSE IF i <= p + z THEN u[i - p] ELSE s[i - z]
  BY <1>3, <1>5 DEF Spliced
<1>7. ASSUME NEW i \in 1 .. Len(t)
      PROVE  (\E j \in 1 .. Len(s) : t[i] = s[j]) \/ (\E j \in 1 .. Len(u) : t[i] = u[j])
  <2>1. CASE i <= p
    <3>1. i \in 1 .. Len(s) /\ t[i] = s[i]
      BY <1>5, <1>6, <2>1
    <3>2. QED
      BY <3>1
  <2>2. CASE i > p /\ i <= p + z
    <3>1. i - p \in 1 .. Len(u) /\ t[i] = u[i - p]
      BY <1>5, <1>6, <2>2
    <3>2. QED
      BY <3>1
  <2>3. CASE i > p + z
    <3>1. i - z \in 1 .. Len(s) /\ ~(i <= p) /\ ~(i <= p + z)
      BY <1>5, <1>6, <2>3
    <3>2. t[i] = s[i - z]
      BY <1>6, <3>1
    <3>3. QED
      BY <3>1, <3>2
  <2>4. QED
    BY <1>5, <1>6, <2>1, <2>2, <2>3
<1>8. ASSUME NEW j \in 1 .. Len(s)
      PROVE  \E i \in 1 .. Len(t) : t[i] = s[j]
  <2>1. CASE j <= p
    <3>1. j \in 1 .. Len(t)
      BY <1>5, <1>6, <2>1
    <3>2. QED
      BY <1>6, <2>1, <3>1
  <2>2. CASE j > p
    <3>1. j + z \in 1 .. Len(t) /\ ~(j + z <= p) /\ ~(j + z <= p + z) /\ (j + z) - z = j
      BY <1>5, <1>6, <2>2
    <3>2. t[j + z] = s[j]
      BY <1>6, <3>1
    <3>3. QED
      BY <3>1, <3>2
  <2>3. QED
    BY <1>6, <2>1, <2>2
<1>9. ASSUME NEW j \in 1 .. Len(u)
      PROVE  \E i \in 1 .. Len(t) : t[i] = u[j]
  <2>1. j + p \in 1 .. Len(t) /\ ~(j + p <= p) /\ j + p <= p + z /\ (j + p) - p = j
    BY <1>5, <1>6
  <2>2. t[j + p] = u[j]
    BY <1>6, <2>1
  <2>3. QED
    BY <2>1, <2>2
<1>10. IsRing(f, k[f]) /\ \A i \in 1 .. Len(k[f]) : FALSE
  BY <1>1, EmptyRing
<1>11. Among(k[f], l, f, h) /\ Among(k[h], l, f, h)
  BY <1>7, <1>10 DEF s, t, u, Among
<1>12. Among(l[f], k, f, h) /\ Among(l[h], k, f, h)
  <2>1. Among(l[f], k, f, h)
    BY <1>9 DEF t, u, Among
  <2>2. Among(l[h], k, f, h)
    BY <1>8 DEF s, t, Among
  <2>3. QED
    BY <2>1, <2>2
<1>13. \A i \in 1 .. Len(k[f]), j \in 1 .. Len(k[h]) : k[f][i] # k[h][j]
  BY <1>10
<1>14. \A x \in Node : OffRing(f, l[f], x) /\ OffRing(h, l[h], x) => Same(m, n, x)
  BY <1>4 DEF s, u
<1>15. /\ w \subseteq Node /\ f \notin w /\ h \in w
       /\ \A x \in Node \ {f, h} : x \in w <=> x \in v
  BY <1>1
<1>16. /\ IsRing(f, k[f]) /\ (IF f \in w THEN Circle(n, f, k[f]) ELSE k[f] = <<>>)
       /\ IsRing(h, k[h]) /\ (IF h \in w THEN Circle(n, h, k[h]) ELSE k[h] = <<>>)
  BY <1>4, <1>10, <1>15 DEF t
<1> HIDE DEF w
<1>17. Sound(n, k, w)
  <2>1. n \in Memory /\ f # h /\ w \subseteq Node
    BY <1>4, <1>15
  <2>2. QED
    BY <1>11, <1>12, <1>13, <1>14, <1>15, <1>16, <2>1, TwoLists
<1>18. QED
  BY <1>17 DEF n, w, s

-----------------------------------------------------------------------------
(***************************************************************************)
(* The sequences that the calls make.                                      *)
(***************************************************************************)

\* list_add() puts an entry in front, list_add_tail() behind.
LEMMA AddedSequences ==
  ASSUME NEW s \in Seq(Entries), NEW e \in Entries
  PROVE  /\ <<e>> \o s \in Seq(Entries) /\ Inserted(s, <<e>> \o s, 0, e)
         /\ Append(s, e) \in Seq(Entries) /\ Inserted(s, Append(s, e), Len(s), e)
<1>1. <<e>> \in Seq(Entries) /\ Len(<<e>>) = 1 /\ <<e>>[1] = e
  OBVIOUS
<1>2. PICK n \in Nat : n = Len(s)
  OBVIOUS
<1>3. /\ <<e>> \o s \in Seq(Entries)
      /\ Len(<<e>> \o s) = Len(<<e>>) + Len(s)
      /\ \A i \in 1 .. Len(<<e>>) + Len(s) :
           (<<e>> \o s)[i] = IF i <= Len(<<e>>) THEN <<e>>[i] ELSE s[i - Len(<<e>>)]
  BY <1>1, ConcatProperties, Zenon
<1>4. /\ Append(s, e) \in Seq(Entries) /\ Len(Append(s, e)) = n + 1
      /\ \A i \in 1 .. n + 1 : Append(s, e)[i] = IF i <= n THEN s[i] ELSE e
  BY <1>2
<1>5. \A t \in Seq(Entries) : t \in Seq(Node)
  BY SeqMonotonic DEF Node
<1>6. Inserted(s, <<e>> \o s, 0, e)
  <2>1. PICK t \in Seq(Entries) : t = <<e>> \o s
    BY <1>3
  <2>2. Len(t) = n + 1 /\ \A i \in 1 .. n + 1 : t[i] = IF i <= 1 THEN <<e>>[i] ELSE s[i - 1]
    BY <1>1, <1>2, <1>3, <2>1
  <2>3. \A i \in 1 .. n + 1 : t[i] = IF i <= 0 THEN s[i] ELSE IF i = 0 + 1 THEN e ELSE s[i - 1]
    BY <1>1, <2>2
  <2>4. Inserted(s, t, 0, e)
    BY <1>2, <1>5, <2>2, <2>3 DEF Inserted
  <2>5. QED
    BY <2>1, <2>4
<1>7. Inserted(s, Append(s, e), Len(s), e)
  <2>1. PICK t \in Seq(Entries) : t = Append(s, e)
    BY <1>4
  <2>2. Len(t) = n + 1 /\ \A i \in 1 .. n + 1 : t[i] = IF i <= n THEN s[i] ELSE e
    BY <1>4, <2>1
  <2>3. \A i \in 1 .. n + 1 : t[i] = IF i <= n THEN s[i] ELSE IF i = n + 1 THEN e ELSE s[i - 1]
    BY <2>2
  <2>4. Inserted(s, t, n, e)
    BY <1>2, <1>5, <2>2, <2>3 DEF Inserted
  <2>5. QED
    BY <1>2, <2>1, <2>4
<1>8. QED
  BY <1>3, <1>4, <1>6, <1>7

\* What list_del() takes from a list.
LEMMA RemovedSequence ==
  ASSUME NEW s \in Seq(Entries), NEW k \in 1 .. Len(s)
  PROVE  RemoveAt(s, k) \in Seq(Entries) /\ Removed(s, RemoveAt(s, k), k)
<1>1. PICK n \in Nat : n = Len(s)
  OBVIOUS
<1>2. k \in 1 .. n /\ \A i \in 1 .. n : s[i] \in Entries
  BY <1>1
<1> DEFINE a == SubSeq(s, 1, k - 1)
           b == SubSeq(s, k + 1, n)
<1>3. /\ a \in Seq(Entries) /\ Len(a) = k - 1
      /\ \A i \in 1 .. k - 1 : a[i] = s[i]
  <2>1. /\ 1 \in Int /\ k - 1 \in Int /\ \A i \in 1 .. k - 1 : s[i] \in Entries
    BY <1>2
  <2>2. /\ a \in Seq(Entries) /\ Len(a) = IF 1 <= k - 1 THEN (k - 1) - 1 + 1 ELSE 0
        /\ \A i \in 1 .. (k - 1) - 1 + 1 : a[i] = s[1 + i - 1]
    BY <2>1, SubSeqProperties
  <2> HIDE DEF a
  <2>3. QED
    BY <1>2, <2>2
<1>4. /\ b \in Seq(Entries) /\ Len(b) = n - k
      /\ \A i \in 1 .. n - k : b[i] = s[k + i]
  <2>1. /\ k + 1 \in Int /\ n \in Int /\ \A i \in k + 1 .. n : s[i] \in Entries
    BY <1>2
  <2>2. /\ b \in Seq(Entries) /\ Len(b) = IF k + 1 <= n THEN n - (k + 1) + 1 ELSE 0
        /\ \A i \in 1 .. n - (k + 1) + 1 : b[i] = s[(k + 1) + i - 1]
    BY <2>1, SubSeqProperties
  <2> HIDE DEF b
  <2>3. QED
    BY <1>2, <2>2
<1>5. RemoveAt(s, k) = a \o b
  BY <1>1 DEF RemoveAt
<1> HIDE DEF a, b
<1>6. /\ a \o b \in Seq(Entries)
      /\ Len(a \o b) = Len(a) + Len(b)
      /\ \A i \in 1 .. Len(a) + Len(b) : (a \o b)[i] = IF i <= Len(a) THEN a[i] ELSE b[i - Len(a)]
  BY <1>3, <1>4, ConcatProperties, Zenon
<1>7. PICK t \in Seq(Entries) : t = a \o b
  BY <1>6
<1>8. /\ Len(t) = (k - 1) + (n - k)
      /\ \A i \in 1 .. (k - 1) + (n - k) : t[i] = IF i <= k - 1 THEN a[i] ELSE b[i - (k - 1)]
  BY <1>3, <1>4, <1>6, <1>7
<1>9. \A i \in 1 .. n - 1 : t[i] = IF i < k THEN s[i] ELSE s[i + 1]
  <2>1. SUFFICES ASSUME NEW i \in 1 .. n - 1 PROVE t[i] = IF i < k THEN s[i] ELSE s[i + 1]
    OBVIOUS
  <2>2. CASE i < k
    BY <1>2, <1>3, <1>8, <2>2
  <2>3. CASE ~(i < k)
    <3>1. /\ i \in 1 .. (k - 1) + (n - k) /\ ~(i <= k - 1)
          /\ i - (k - 1) \in 1 .. n - k /\ k + (i - (k - 1)) = i + 1
      BY <1>2, <2>3
    <3>2. t[i] = b[i - (k - 1)] /\ b[i - (k - 1)] = s[i + 1]
      BY <1>4, <1>8, <3>1
    <3>3. QED
      BY <2>3, <3>2
  <2>4. QED
    BY <2>2, <2>3
<1>10. Len(t) = n - 1 /\ t \in Seq(Node)
  BY <1>2, <1>8, SeqMonotonic DEF Node
<1>11. Removed(s, t, k)
  BY <1>1, <1>9, <1>10 DEF Removed
<1>12. QED
  BY <1>5, <1>7, <1>11

\* What list_replace() makes of a list.
LEMMA ReplacedSequence ==
  ASSUME NEW s \in Seq(Entries), NEW k \in 1 .. Len(s), NEW e \in Entries
  PROVE  [s EXCEPT ![k] = e] \in Seq(Entries) /\ Replaced(s, [s EXCEPT ![k] = e], k, e)
<1>1. PICK t : t = [s EXCEPT ![k] = e]
  OBVIOUS
<1>2. t \in Seq(Entries) /\ Len(t) = Len(s) /\ \A i \in 1 .. Len(s) : t[i] = IF i = k THEN e ELSE s[i]
  BY <1>1
<1>3. t \in Seq(Node)
  BY <1>2, SeqMonotonic DEF Node
<1>4. Replaced(s, t, k, e)
  BY <1>2, <1>3 DEF Replaced
<1>5. QED
  BY <1>1, <1>2, <1>4

\* The two parts that list_cut_position() makes of a list.
LEMMA CutSequences ==
  ASSUME NEW s \in Seq(Entries), NEW k \in 0 .. Len(s)
  PROVE  /\ SubSeq(s, 1, k) \in Seq(Entries) /\ Len(SubSeq(s, 1, k)) = k
         /\ \A i \in 1 .. k : SubSeq(s, 1, k)[i] = s[i]
         /\ SubSeq(s, k + 1, Len(s)) \in Seq(Entries) /\ Len(SubSeq(s, k + 1, Len(s))) = Len(s) - k
         /\ \A i \in 1 .. Len(s) - k : SubSeq(s, k + 1, Len(s))[i] = s[k + i]
<1>1. PICK n \in Nat : n = Len(s)
  OBVIOUS
<1>2. k \in 0 .. n /\ \A i \in 1 .. n : s[i] \in Entries
  BY <1>1
<1> DEFINE a == SubSeq(s, 1, k)
           b == SubSeq(s, k + 1, n)
<1>3. /\ a \in Seq(Entries) /\ Len(a) = k
      /\ \A i \in 1 .. k : a[i] = s[i]
  <2>1. /\ 1 \in Int /\ k \in Int /\ \A i \in 1 .. k : s[i] \in Entries
    BY <1>2
  <2>2. /\ a \in Seq(Entries) /\ Len(a) = IF 1 <= k THEN k - 1 + 1 ELSE 0
        /\ \A i \in 1 .. k - 1 + 1 : a[i] = s[1 + i - 1]
    BY <2>1, SubSeqProperties
  <2> HIDE DEF a
  <2>3. QED
    BY <1>2, <2>2
<1>4. /\ b \in Seq(Entries) /\ Len(b) = n - k
      /\ \A i \in 1 .. n - k : b[i] = s[k + i]
  <2>1. /\ k + 1 \in Int /\ n \in Int /\ \A i \in k + 1 .. n : s[i] \in Entries
    BY <1>2
  <2>2. /\ b \in Seq(Entries) /\ Len(b) = IF k + 1 <= n THEN n - (k + 1) + 1 ELSE 0
        /\ \A i \in 1 .. n - (k + 1) + 1 : b[i] = s[(k + 1) + i - 1]
    BY <2>1, SubSeqProperties
  <2> HIDE DEF b
  <2>3. QED
    BY <1>2, <2>2
<1>5. QED
  BY <1>1, <1>3, <1>4

\* list_splice() puts one list in front of another, list_splice_tail() behind.
LEMMA SplicedSequences ==
  ASSUME NEW s \in Seq(Entries), NEW u \in Seq(Entries)
  PROVE  /\ u \o s \in Seq(Entries) /\ Spliced(s, u, u \o s, 0)
         /\ s \o u \in Seq(Entries) /\ Spliced(s, u, s \o u, Len(s))
<1>1. PICK n \in Nat, z \in Nat : n = Len(s) /\ z = Len(u)
  OBVIOUS
<1>2. /\ u \o s \in Seq(Entries) /\ Len(u \o s) = Len(u) + Len(s)
      /\ \A i \in 1 .. Len(u) + Len(s) : (u \o s)[i] = IF i <= Len(u) THEN u[i] ELSE s[i - Len(u)]
  BY ConcatProperties, Zenon
<1>3. /\ s \o u \in Seq(Entries) /\ Len(s \o u) = Len(s) + Len(u)
      /\ \A i \in 1 .. Len(s) + Len(u) : (s \o u)[i] = IF i <= Len(s) THEN s[i] ELSE u[i - Len(s)]
  BY ConcatProperties, Zenon
<1>4. PICK a \in Seq(Entries), b \in Seq(Entries) : a = u \o s /\ b = s \o u
  BY <1>2, <1>3
<1>5. a \in Seq(Node) /\ b \in Seq(Node)
  BY SeqMonotonic DEF Node
<1>6. /\ Len(a) = n + z /\ \A i \in 1 .. n + z : a[i] = IF i <= z THEN u[i] ELSE s[i - z]
      /\ Len(b) = n + z /\ \A i \in 1 .. n + z : b[i] = IF i <= n THEN s[i] ELSE u[i - n]
  BY <1>1, <1>2, <1>3, <1>4
<1>7. /\ \A i \in 1 .. n + z :
           a[i] = IF i <= 0 THEN s[i] ELSE IF i <= 0 + z THEN u[i - 0] ELSE s[i - z]
      /\ \A i \in 1 .. n + z :
           b[i] = IF i <= n THEN s[i] ELSE IF i <= n + z THEN u[i - n] ELSE s[i - z]
  BY <1>6
<1>8. Spliced(s, u, a, 0) /\ Spliced(s, u, b, Len(s))
  BY <1>1, <1>5, <1>6, <1>7 DEF Spliced
<1>9. QED
  BY <1>2, <1>3, <1>4, <1>8

-----------------------------------------------------------------------------
(***************************************************************************)
(* The functions of list.h that a user calls, one by one.                  *)
(***************************************************************************)

\* What the head of a list shows of it.
LEMMA Ends ==
  ASSUME NEW m, NEW l, NEW v, Sound(m, l, v), NEW h \in Heads, h \in v
  PROVE  /\ l[h] \in Seq(Entries) /\ Len(l[h]) \in Nat /\ IsRing(h, l[h]) /\ Circle(m, h, l[h])
         /\ At(h, l[h], 0) = h /\ At(h, l[h], Len(l[h]) + 1) = h
         /\ m.next[h] = At(h, l[h], 1) /\ m.prev[h] = At(h, l[h], Len(l[h]))
         /\ IsEmpty(m, h) <=> l[h] = <<>>
<1>1. l[h] \in Seq(Entries) /\ Len(l[h]) \in Nat /\ IsRing(h, l[h]) /\ Circle(m, h, l[h])
  <2>1. IsRing(h, l[h])
    BY Rings
  <2>2. QED
    BY <2>1 DEF Sound
<1>2. PICK s \in Seq(Entries), n \in Nat : s = l[h] /\ n = Len(s)
  BY <1>1
<1>3. At(h, s, 0) = h /\ At(h, s, n + 1) = h /\ \A i \in 1 .. n : At(h, s, i) = s[i]
  BY <1>1, <1>2, Positions
<1>4. m.next[h] = At(h, s, 1) /\ m.prev[h] = At(h, s, n)
  <2>1. 0 \in 0 .. n /\ n \in 0 .. n /\ 0 + 1 = 1
    OBVIOUS
  <2>2. \A i \in 0 .. n : m.next[At(h, s, i)] = At(h, s, i + 1) /\ m.prev[At(h, s, i + 1)] = At(h, s, i)
    BY <1>1, <1>2 DEF Circle
  <2>3. QED
    BY <1>3, <2>1, <2>2
<1>5. IsEmpty(m, h) <=> s = <<>>
  <2>1. CASE n = 0
    <3>1. s # <<>> => Len(s) \in Nat \ {0}
      BY EmptySeq, Zenon
    <3>2. s = <<>> /\ n + 1 = 1
      BY <1>2, <2>1, <3>1
    <3>3. QED
      BY <1>2, <1>3, <1>4, <3>2 DEF IsEmpty
  <2>2. CASE n # 0
    <3>1. 1 \in 1 .. n
      BY <2>2
    <3>2. s[1] # h
      BY <1>1, <1>2, <3>1 DEF IsRing
    <3>3. QED
      BY <1>2, <1>3, <1>4, <2>2, <3>1, <3>2 DEF IsEmpty
  <2>3. QED
    BY <2>1, <2>2
<1>6. QED
  BY <1>1, <1>2, <1>3, <1>4, <1>5

\* list_add(), list_add_tail().
LEMMA AddSound ==
  ASSUME NEW m, NEW l, NEW v, Sound(m, l, v), NEW h \in Heads, h \in v, NEW e \in Free(l)
  PROVE  /\ Sound(ListAdd(m, e, h), [l EXCEPT ![h] = <<e>> \o l[h]], v \cup {e})
         /\ Sound(ListAddTail(m, e, h), [l EXCEPT ![h] = Append(l[h], e)], v \cup {e})
<1>1. /\ l[h] \in Seq(Entries) /\ Len(l[h]) \in Nat
      /\ At(h, l[h], 0) = h /\ At(h, l[h], Len(l[h]) + 1) = h
      /\ m.next[h] = At(h, l[h], 1) /\ m.prev[h] = At(h, l[h], Len(l[h]))
  BY Ends
<1>2. e \in Entries /\ 0 \in 0 .. Len(l[h]) /\ Len(l[h]) \in 0 .. Len(l[h]) /\ 0 + 1 = 1
  BY <1>1 DEF Free
<1>3. /\ ListAdd(m, e, h) = ListInsert(m, e, At(h, l[h], 0), At(h, l[h], 0 + 1))
      /\ ListAddTail(m, e, h) = ListInsert(m, e, At(h, l[h], Len(l[h])), At(h, l[h], Len(l[h]) + 1))
  BY <1>1 DEF ListAdd, ListAddTail
<1>4. /\ <<e>> \o l[h] \in Seq(Entries) /\ Inserted(l[h], <<e>> \o l[h], 0, e)
      /\ Append(l[h], e) \in Seq(Entries) /\ Inserted(l[h], Append(l[h], e), Len(l[h]), e)
  BY <1>1, <1>2, AddedSequences
<1>5. Sound(ListAdd(m, e, h), [l EXCEPT ![h] = <<e>> \o l[h]], v \cup {e})
  <2>1. PICK t \in Seq(Entries) : t = <<e>> \o l[h] /\ Inserted(l[h], t, 0, e)
    BY <1>4
  <2>2. Sound(ListInsert(m, e, At(h, l[h], 0), At(h, l[h], 0 + 1)), [l EXCEPT ![h] = t], v \cup {e})
    BY <1>2, <2>1, InsertSound
  <2>3. QED
    BY <1>3, <2>1, <2>2
<1>6. Sound(ListAddTail(m, e, h), [l EXCEPT ![h] = Append(l[h], e)], v \cup {e})
  <2>1. PICK t \in Seq(Entries) : t = Append(l[h], e) /\ Inserted(l[h], t, Len(l[h]), e)
    BY <1>4
  <2>2. Sound(ListInsert(m, e, At(h, l[h], Len(l[h])), At(h, l[h], Len(l[h]) + 1)),
              [l EXCEPT ![h] = t], v \cup {e})
    BY <1>2, <2>1, InsertSound
  <2>3. QED
    BY <1>3, <2>1, <2>2
<1>7. QED
  BY <1>5, <1>6

\* list_move(), list_move_tail(): the entry is valid throughout.
LEMMA MoveSound ==
  ASSUME NEW m, NEW l, NEW v, Sound(m, l, v), NEW h \in Heads,
         NEW k \in 1 .. Len(l[h]), NEW t \in Seq(Entries), Removed(l[h], t, k),
         NEW g \in Heads, g \in v, NEW e, e = l[h][k], NEW l1, l1 = [l EXCEPT ![h] = t]
  PROVE  /\ Sound(ListMove(m, e, g), [l1 EXCEPT ![g] = <<e>> \o l1[g]], v)
         /\ Sound(ListMoveTail(m, e, g), [l1 EXCEPT ![g] = Append(l1[g], e)], v)
<1>1. Sound(ListDel(m, e), l1, v \ {e}) /\ e \in Free(l1)
  BY DeleteSound
<1>2. e \in v
  BY DEF Sound
<1>3. g \in v \ {e}
  BY <1>1, Rings
<1> DEFINE m1 == ListDel(m, e)
<1>4. /\ ListMove(m, e, g) = ListAdd(m1, e, g)
      /\ ListMoveTail(m, e, g) = ListAddTail(m1, e, g)
  BY DEF ListMove, ListMoveTail
<1> HIDE DEF m1
<1>5. Sound(m1, l1, v \ {e})
  BY <1>1 DEF m1
<1>6. PICK w : w = v \ {e} /\ w \cup {e} = v
  BY <1>2
<1>7. /\ Sound(ListAdd(m1, e, g), [l1 EXCEPT ![g] = <<e>> \o l1[g]], w \cup {e})
      /\ Sound(ListAddTail(m1, e, g), [l1 EXCEPT ![g] = Append(l1[g], e)], w \cup {e})
  BY <1>1, <1>3, <1>5, <1>6, AddSound
<1>8. QED
  BY <1>4, <1>6, <1>7

-----------------------------------------------------------------------------
(***************************************************************************)
(* The calls of LinkedList.                                                *)
(***************************************************************************)

\* An entry is linked when it has a position on a list.
LEMMA LinkedEntries ==
  ASSUME list \in [Heads -> Seq(Entries)]
  PROVE  /\ \A h \in Heads : DOMAIN list[h] = 1 .. Len(list[h])
         /\ \A x : x \in Linked <=> \E h \in Heads : \E i \in 1 .. Len(list[h]) : list[h][i] = x
         /\ Free(list) = Spare
<1>1. \A h \in Heads : DOMAIN list[h] = 1 .. Len(list[h])
  OBVIOUS
<1>2. \A h \in Heads : \A x : x \in Range(list[h]) <=> \E i \in 1 .. Len(list[h]) : list[h][i] = x
  BY <1>1 DEF Range
<1>3. \A x : x \in Linked <=> \E h \in Heads : x \in Range(list[h])
  BY DEF Linked, On
<1>4. \A x : x \in Linked <=> \E h \in Heads : \E i \in 1 .. Len(list[h]) : list[h][i] = x
  BY <1>2, <1>3
<1>5. Free(list) = Spare
  BY <1>4 DEF Free, Spare
<1>6. QED
  BY <1>1, <1>4, <1>5

\* The entries that LinkedList calls spare are the free ones.
LEMMA SpareIsFree ==
  ASSUME Sound(mem, list, valid)
  PROVE  Spare = Free(list)
<1>1. list \in [Heads -> Seq(Entries)]
  BY DEF Sound
<1>2. QED
  BY <1>1, LinkedEntries

\* The inductive invariant of LinkedList, in the terms of these proofs.
LEMMA InvariantIsSound ==
  IInv <=> Sound(mem, list, valid)
<1>1. ASSUME list \in [Heads -> Seq(Entries)]
      PROVE  /\ \A h \in Heads : DOMAIN list[h] = 1 .. Len(list[h])
             /\ \A x : x \in Linked <=> \E h \in Heads : \E i \in 1 .. Len(list[h]) : list[h][i] = x
             /\ Free(list) = Spare
  BY <1>1, LinkedEntries
<1>2. TypeOK <=> /\ mem \in Memory /\ list \in [Heads -> Seq(Entries)] /\ valid \subseteq Node
                 /\ \A h \in Heads : \A i \in 1 .. Len(list[h]) : list[h][i] \in valid
  <2>1. ASSUME list \in [Heads -> Seq(Entries)]
        PROVE  Linked \subseteq valid <=>
                 \A h \in Heads : \A i \in 1 .. Len(list[h]) : list[h][i] \in valid
    BY <1>1, <2>1
  <2>2. QED
    BY <2>1 DEF TypeOK, Memory
<1>3. CASE ~ TypeOK
  BY <1>2, <1>3 DEF IInv, Represents, Sound
<1>4. CASE TypeOK
  <2>1. /\ \A h \in Heads : DOMAIN list[h] = 1 .. Len(list[h])
        /\ Free(list) = Spare
    BY <1>1, <1>2, <1>4
  <2>2. ((\A h \in Lists : Circle(mem, h, list[h])) /\ (\A h \in Heads \ Lists : list[h] = <<>>))
          <=> \A h \in Heads : IF h \in valid THEN Circle(mem, h, list[h]) ELSE list[h] = <<>>
    BY DEF Lists
  <2>3. QED
    BY <1>2, <1>4, <2>1, <2>2 DEF IInv, Represents, Apart, Sound
<1>5. QED
  BY <1>3, <1>4

\* The position of an entry on its list.
LEMMA IndexFound ==
  ASSUME Sound(mem, list, valid), NEW h \in Heads, NEW e \in On(h)
  PROVE  /\ list[h] \in Seq(Entries) /\ e \in Entries /\ e \in valid
         /\ Index(h, e) \in 1 .. Len(list[h]) /\ list[h][Index(h, e)] = e
<1>1. list[h] \in Seq(Entries) /\ DOMAIN list[h] = 1 .. Len(list[h])
  BY DEF Sound
<1>2. \E i \in DOMAIN list[h] : list[h][i] = e
  BY DEF On, Range
<1>3. Index(h, e) \in DOMAIN list[h] /\ list[h][Index(h, e)] = e
  BY <1>2 DEF Index
<1>4. QED
  BY <1>1, <1>3 DEF Sound

\* Every function of list.h, called as its comment asks, keeps all lists what
\* they are.
LEMMA StepInvariant ==
  IInv /\ [Next]_vars => IInv'
<1> SUFFICES ASSUME IInv, [Next]_vars
             PROVE  Sound(mem', list', valid')
  <2>1. IInv' <=> Sound(mem, list, valid)'
    BY InvariantIsSound, PTL
  <2>2. QED
    BY <2>1
<1>1. Sound(mem, list, valid)
  BY InvariantIsSound
<1>2. /\ list \in [Heads -> Seq(Entries)] /\ valid \subseteq Node /\ Spare = Free(list)
      /\ \A e \in Entries : e \notin Heads
  BY <1>1, SpareIsFree, NodeAssumption DEF Sound
<1>3. ASSUME NEW n \in Node, Initialise(n)
      PROVE  Sound(mem', list', valid')
  <2>1. n \in Free(list) \/ (n \in Heads /\ list[n] = <<>>)
    BY <1>1, <1>2, <1>3 DEF Initialise, Sound
  <2>2. QED
    BY <1>1, <1>3, <2>1, InitSound DEF Initialise
<1>4. ASSUME NEW e \in Entries, NEW h \in Heads, Add(e, h)
      PROVE  Sound(mem', list', valid')
  <2>1. e \in Free(list) /\ h \in valid /\ valid' = valid \cup {e}
    BY <1>2, <1>4 DEF Add, Lists
  <2>2. /\ Sound(ListAdd(mem, e, h), [list EXCEPT ![h] = <<e>> \o list[h]], valid \cup {e})
        /\ Sound(ListAddTail(mem, e, h), [list EXCEPT ![h] = Append(list[h], e)], valid \cup {e})
    BY <1>1, <2>1, AddSound
  <2>3. QED
    BY <1>4, <2>1, <2>2 DEF Add
<1>5. ASSUME NEW e \in Entries, NEW h \in Heads, Delete(h, e)
      PROVE  Sound(mem', list', valid')
  <2> DEFINE k == Index(h, e)
             t == RemoveAt(list[h], k)
             l1 == [list EXCEPT ![h] = t]
  <2>1. list[h] \in Seq(Entries) /\ k \in 1 .. Len(list[h]) /\ list[h][k] = e /\ e \in valid
    BY <1>1, <1>5, IndexFound DEF Delete
  <2>2. t \in Seq(Entries) /\ Removed(list[h], t, k)
    BY <2>1, RemovedSequence
  <2>3. list' = l1
    BY <1>5 DEF Delete
  <2> HIDE DEF k, t
  <2>4. Sound(ListDel(mem, e), l1, valid \ {e}) /\ e \in Free(l1)
    BY <1>1, <2>1, <2>2, DeleteSound
  <2> HIDE DEF l1
  <2>5. Sound(INIT_LIST_HEAD(ListDel(mem, e), e), l1, (valid \ {e}) \cup {e})
    BY <2>4, InitSound
  <2>6. (valid \ {e}) \cup {e} = valid
    BY <2>1
  <2>7. QED
    BY <1>5, <2>3, <2>4, <2>5, <2>6 DEF Delete
<1>6. ASSUME NEW e \in Entries, NEW new \in Entries, NEW h \in Heads, Replace(h, e, new)
      PROVE  Sound(mem', list', valid')
  <2> DEFINE k == Index(h, e)
             t == [list[h] EXCEPT ![k] = new]
             l1 == [list EXCEPT ![h] = t]
             w == (valid \ {e}) \cup {new}
  <2>1. /\ list[h] \in Seq(Entries) /\ k \in 1 .. Len(list[h]) /\ list[h][k] = e /\ e \in valid
        /\ new \in Free(list)
    BY <1>1, <1>2, <1>6, IndexFound DEF Replace
  <2>2. t \in Seq(Entries) /\ Replaced(list[h], t, k, new)
    BY <2>1, ReplacedSequence
  <2>3. list' = l1
    BY <1>6 DEF Replace
  <2> HIDE DEF k, t
  <2>4. Sound(ListReplace(mem, e, new), l1, w) /\ e \in Free(l1)
    BY <1>1, <2>1, <2>2, ReplaceSound
  <2> HIDE DEF l1
  <2>5. Sound(INIT_LIST_HEAD(ListReplace(mem, e, new), e), l1, w \cup {e})
    BY <2>4, InitSound
  <2>6. w \cup {e} = valid \cup {new}
    BY <2>1
  <2>7. QED
    BY <1>6, <2>3, <2>4, <2>5, <2>6 DEF Replace
<1>7. ASSUME NEW h \in Heads, NEW new \in Heads, ReplaceHead(h, new)
      PROVE  Sound(mem', list', valid')
  <2> DEFINE l1 == [list EXCEPT ![h] = <<>>, ![new] = list[h]]
             w == (valid \ {h}) \cup {new}
  <2>1. h \in valid /\ new # h /\ list[new] = <<>> /\ list' = l1
    BY <1>7 DEF ReplaceHead, Lists
  <2>2. Sound(ListReplace(mem, h, new), l1, w)
    BY <1>1, <2>1, ReplaceHeadSound
  <2>3. l1[h] = <<>>
    BY <1>2, <2>1
  <2> HIDE DEF l1
  <2>4. Sound(INIT_LIST_HEAD(ListReplace(mem, h, new), h), l1, w \cup {h})
    BY <2>2, <2>3, InitSound
  <2>5. w \cup {h} = valid \cup {new}
    BY <2>1
  <2>6. QED
    BY <1>7, <2>1, <2>2, <2>4, <2>5 DEF ReplaceHead
<1>8. ASSUME NEW e \in Entries, NEW h \in Heads, NEW h2 \in Heads, Move(h, e, h2)
      PROVE  Sound(mem', list', valid')
  <2> DEFINE k == Index(h, e)
             t == RemoveAt(list[h], k)
             l1 == [list EXCEPT ![h] = t]
  <2>1. /\ list[h] \in Seq(Entries) /\ k \in 1 .. Len(list[h]) /\ list[h][k] = e
        /\ h2 \in valid /\ valid' = valid
    BY <1>1, <1>8, IndexFound DEF Move, Lists
  <2>2. t \in Seq(Entries) /\ Removed(list[h], t, k)
    BY <2>1, RemovedSequence
  <2>3. \/ mem' = ListMove(mem, e, h2) /\ list' = [l1 EXCEPT ![h2] = <<e>> \o l1[h2]]
        \/ mem' = ListMoveTail(mem, e, h2) /\ list' = [l1 EXCEPT ![h2] = Append(l1[h2], e)]
    BY <1>8 DEF Move
  <2> HIDE DEF k, t
  <2>4. /\ Sound(ListMove(mem, e, h2), [l1 EXCEPT ![h2] = <<e>> \o l1[h2]], valid)
        /\ Sound(ListMoveTail(mem, e, h2), [l1 EXCEPT ![h2] = Append(l1[h2], e)], valid)
    BY <1>1, <2>1, <2>2, MoveSound
  <2> HIDE DEF l1
  <2>5. QED
    BY <2>1, <2>3, <2>4
<1>9. ASSUME NEW h \in Heads, RotateLeft(h)
      PROVE  Sound(mem', list', valid')
  <2>1. /\ list[h] \in Seq(Entries) /\ Len(list[h]) \in Nat /\ h \in valid /\ valid' = valid
        /\ mem.next[h] = At(h, list[h], 1)
        /\ IsEmpty(mem, h) <=> list[h] = <<>>
    BY <1>1, <1>9, Ends DEF RotateLeft, Lists
  <2>2. CASE list[h] = <<>>
    <3>1. mem' = mem /\ list' = list
      BY <1>2, <1>9, <2>1, <2>2 DEF RotateLeft, ListRotateLeft
    <3>2. QED
      BY <1>1, <2>1, <3>1
  <2>3. CASE list[h] # <<>>
    <3> DEFINE e == list[h][1]
               t == Tail(list[h])
               l1 == [list EXCEPT ![h] = t]
    <3>1. 1 \in 1 .. Len(list[h])
      BY <2>1, <2>3, EmptySeq
    <3>2. mem.next[h] = e
      <4>1. DOMAIN list[h] = 1 .. Len(list[h])
        BY <2>1
      <4>2. QED
        BY <2>1, <3>1, <4>1 DEF At
    <3>3. mem' = ListMoveTail(mem, e, h) /\ list' = [list EXCEPT ![h] = Append(t, e)]
      <4>1. ~ IsEmpty(mem, h)
        BY <2>1, <2>3
      <4>2. mem' = ListMoveTail(mem, mem.next[h], h)
        BY <1>9, <4>1 DEF RotateLeft, ListRotateLeft
      <4>3. list' = [list EXCEPT ![h] = Append(t, e)]
        BY <1>9, <2>3 DEF RotateLeft
      <4>4. QED
        BY <3>2, <4>2, <4>3
    <3>4. t \in Seq(Entries) /\ Removed(list[h], t, 1)
      <4>1. /\ t \in Seq(Entries) /\ Len(t) = Len(list[h]) - 1
            /\ \A i \in 1 .. Len(t) : t[i] = list[h][i + 1]
        BY <2>1, <2>3, HeadTailProperties
      <4>2. t \in Seq(Node)
        BY <4>1, SeqMonotonic DEF Node
      <4>3. \A i \in 1 .. Len(t) : ~(i < 1)
        BY <2>1, <4>1
      <4> HIDE DEF t
      <4>4. QED
        BY <4>1, <4>2, <4>3 DEF Removed
    <3>5. l1[h] = t /\ [l1 EXCEPT ![h] = Append(t, e)] = [list EXCEPT ![h] = Append(t, e)]
      BY <1>2
    <3> HIDE DEF t
    <3>6. Sound(ListMoveTail(mem, e, h), [l1 EXCEPT ![h] = Append(l1[h], e)], valid)
      BY <1>1, <2>1, <3>1, <3>4, MoveSound
    <3> HIDE DEF e, l1
    <3>7. QED
      BY <2>1, <3>3, <3>5, <3>6
  <2>4. QED
    BY <2>2, <2>3
<1>10. ASSUME NEW to \in Heads, NEW h \in Heads, NEW i \in 0 .. Len(list[h]), CutPosition(to, h, i)
       PROVE  Sound(mem', list', valid')
  <2>1. /\ list[h] \in Seq(Entries) /\ Len(list[h]) \in Nat /\ h \in valid /\ to # h /\ list[to] = <<>>
        /\ IsEmpty(mem, h) <=> list[h] = <<>>
    BY <1>1, <1>10, Ends DEF CutPosition, Lists
  <2>2. /\ list' \in [Heads -> Seq(Entries)]
        /\ \A f \in Heads \ {to, h} : list'[f] = list[f]
        /\ list'[to] = SubSeq(list[h], 1, i) /\ list'[h] = SubSeq(list[h], i + 1, Len(list[h]))
        /\ SubSeq(list[h], 1, i) \in Seq(Entries)
        /\ SubSeq(list[h], i + 1, Len(list[h])) \in Seq(Entries)
    <3>1. /\ SubSeq(list[h], 1, i) \in Seq(Entries)
          /\ SubSeq(list[h], i + 1, Len(list[h])) \in Seq(Entries)
      BY <2>1, CutSequences
    <3>2. list' = [list EXCEPT ![to] = SubSeq(list[h], 1, i), ![h] = SubSeq(list[h], i + 1, Len(list[h]))]
      BY <1>2, <1>10, <2>1 DEF CutPosition
    <3>3. QED
      BY <1>2, <2>1, <3>1, <3>2
  <2>3. CASE i = 0
    <3>1. list'[to] = list[to] /\ list'[h] = list[h]
      <4>1. SubSeq(list[h], 1, 0) = <<>>
        BY SubSeqEmpty
      <4>2. SubSeq(list[h], 0 + 1, Len(list[h])) = list[h]
        BY <2>1, SubSeqFull
      <4>3. QED
        BY <2>1, <2>2, <2>3, <4>1, <4>2
    <3>2. list' = list
      <4>1. \A f \in Heads : list'[f] = list[f]
        BY <2>2, <3>1
      <4>2. QED
        BY <1>2, <2>2, <4>1
    <3>3. CASE list[h] = <<>>
      <4>1. mem' = mem /\ valid' = valid
        BY <1>10, <2>1, <3>3 DEF CutPosition, ListCutPosition
      <4>2. QED
        BY <1>1, <3>2, <4>1
    <3>4. CASE list[h] # <<>>
      <4>1. mem' = INIT_LIST_HEAD(mem, to) /\ valid' = valid \cup {to}
        BY <1>10, <2>1, <2>3, <3>4 DEF CutPosition, ListCutPosition
      <4>2. QED
        BY <1>1, <2>1, <3>2, <4>1, InitSound
    <3>5. QED
      BY <3>3, <3>4
  <2>4. CASE i # 0
    <3>1. i \in 1 .. Len(list[h]) /\ list[h] # <<>>
      BY <2>1, <2>4
    <3>2. mem' = ListCutPosition(mem, to, h, list[h][i]) /\ valid' = valid \cup {to}
      BY <1>10, <2>4, <3>1 DEF CutPosition
    <3>3. PICK k \in [Heads -> Seq(Entries)] : k = list'
      BY <2>2
    <3>4. /\ Len(k[to]) = i /\ \A j \in 1 .. i : k[to][j] = list[h][j]
          /\ Len(k[h]) = Len(list[h]) - i /\ \A j \in 1 .. Len(list[h]) - i : k[h][j] = list[h][i + j]
          /\ \A f \in Heads \ {to, h} : k[f] = list[f]
      <4>1. /\ Len(SubSeq(list[h], 1, i)) = i
            /\ \A j \in 1 .. i : SubSeq(list[h], 1, i)[j] = list[h][j]
            /\ Len(SubSeq(list[h], i + 1, Len(list[h]))) = Len(list[h]) - i
            /\ \A j \in 1 .. Len(list[h]) - i :
                 SubSeq(list[h], i + 1, Len(list[h]))[j] = list[h][i + j]
        BY <2>1, CutSequences
      <4>2. QED
        BY <2>2, <3>3, <4>1
    <3>5. Sound(ListCutPosition(mem, to, h, list[h][i]), k, valid \cup {to})
      BY <1>1, <2>1, <3>1, <3>4, CutSound
    <3>6. QED
      BY <3>2, <3>3, <3>5
  <2>5. QED
    BY <2>3, <2>4
<1>11. ASSUME NEW from \in Heads, NEW h \in Heads, Splice(from, h)
       PROVE  Sound(mem', list', valid')
  <2> DEFINE front == [list EXCEPT ![h] = list[from] \o list[h], ![from] = <<>>]
             back  == [list EXCEPT ![h] = list[h] \o list[from], ![from] = <<>>]
             w == valid \ {from}
  <2>1. /\ from \in valid /\ h \in valid /\ from # h
        /\ list[from] \in Seq(Entries) /\ list[h] \in Seq(Entries) /\ Len(list[h]) \in Nat
    BY <1>2, <1>11 DEF Splice, Lists
  <2>2. \/ mem' = ListSplice(mem, from, h) /\ list' = front
           /\ valid' = IF list[from] = <<>> THEN valid ELSE w
        \/ mem' = ListSpliceTail(mem, from, h) /\ list' = back
           /\ valid' = IF list[from] = <<>> THEN valid ELSE w
        \/ mem' = ListSpliceInit(mem, from, h) /\ list' = front /\ valid' = valid
        \/ mem' = ListSpliceTailInit(mem, from, h) /\ list' = back /\ valid' = valid
    BY <1>11 DEF Splice
  <2>3. /\ IsEmpty(mem, from) <=> list[from] = <<>>
        /\ mem.next[h] = At(h, list[h], 1) /\ mem.prev[h] = At(h, list[h], Len(list[h]))
        /\ At(h, list[h], 0) = h /\ At(h, list[h], Len(list[h]) + 1) = h
    BY <1>1, <2>1, Ends
  <2>4. CASE list[from] = <<>>
    <3>1. /\ <<>> \o list[h] = list[h] /\ list[h] \o <<>> = list[h]
      BY <2>1, ConcatEmptySeq
    <3>2. front = list /\ back = list
      BY <1>2, <2>1, <2>4, <3>1
    <3>3. mem' = mem /\ list' = list /\ valid' = valid
      BY <2>2, <2>3, <2>4, <3>2
         DEF ListSplice, ListSpliceTail, ListSpliceInit, ListSpliceTailInit
    <3>4. QED
      BY <1>1, <3>3
  <2>5. CASE list[from] # <<>>
    <3>1. /\ list[from] \o list[h] \in Seq(Entries)
          /\ Spliced(list[h], list[from], list[from] \o list[h], 0)
          /\ list[h] \o list[from] \in Seq(Entries)
          /\ Spliced(list[h], list[from], list[h] \o list[from], Len(list[h]))
      BY <2>1, SplicedSequences
    <3>2. /\ front \in [Heads -> Seq(Entries)] /\ back \in [Heads -> Seq(Entries)]
          /\ front[from] = <<>> /\ back[from] = <<>>
          /\ front[h] = list[from] \o list[h] /\ back[h] = list[h] \o list[from]
          /\ \A g \in Heads \ {from, h} : front[g] = list[g] /\ back[g] = list[g]
      <4>1. PICK a \in Seq(Entries), b \in Seq(Entries) :
              a = list[from] \o list[h] /\ b = list[h] \o list[from]
        BY <3>1
      <4>2. /\ front = [list EXCEPT ![h] = a, ![from] = <<>>]
            /\ back = [list EXCEPT ![h] = b, ![from] = <<>>]
        BY <4>1
      <4> HIDE DEF front, back
      <4>3. /\ front \in [Heads -> Seq(Entries)] /\ front[from] = <<>> /\ front[h] = a
            /\ \A g \in Heads \ {from, h} : front[g] = list[g]
        <5>1. list \in [Heads -> Seq(Entries)] /\ from \in Heads /\ h \in Heads /\ from # h
          BY <1>2, <2>1
        <5>2. <<>> \in Seq(Entries)
          OBVIOUS
        <5>3. QED
          BY <4>2, <5>1, <5>2
      <4>4. /\ back \in [Heads -> Seq(Entries)] /\ back[from] = <<>> /\ back[h] = b
            /\ \A g \in Heads \ {from, h} : back[g] = list[g]
        BY <1>2, <2>1, <4>2
      <4>5. QED
        BY <4>1, <4>3, <4>4
    <3> HIDE DEF front, back
    <3>3. Sound(ListSplice(mem, from, h), front, w)
      <4>1. 0 \in 0 .. Len(list[h]) /\ 0 + 1 = 1
        BY <2>1
      <4>2. Spliced(list[h], list[from], front[h], 0)
        BY <3>1, <3>2
      <4>3. Sound(Between(mem, from, At(h, list[h], 0), At(h, list[h], 0 + 1)), front, w)
        BY <1>1, <2>1, <2>5, <3>2, <4>1, <4>2, SpliceSound
      <4>4. ListSplice(mem, from, h) = Between(mem, from, At(h, list[h], 0), At(h, list[h], 0 + 1))
        BY <2>3, <2>5, <4>1 DEF ListSplice
      <4>5. QED
        BY <4>3, <4>4
    <3>4. Sound(ListSpliceTail(mem, from, h), back, w)
      <4>1. Len(list[h]) \in 0 .. Len(list[h])
        BY <2>1
      <4>2. Spliced(list[h], list[from], back[h], Len(list[h]))
        BY <3>1, <3>2
      <4>3. Sound(Between(mem, from, At(h, list[h], Len(list[h])), At(h, list[h], Len(list[h]) + 1)),
                  back, w)
        BY <1>1, <2>1, <2>5, <3>2, <4>1, <4>2, SpliceSound
      <4>4. ListSpliceTail(mem, from, h) =
              Between(mem, from, At(h, list[h], Len(list[h])), At(h, list[h], Len(list[h]) + 1))
        BY <2>3, <2>5 DEF ListSpliceTail
      <4>5. QED
        BY <4>3, <4>4
    <3>5. /\ Sound(INIT_LIST_HEAD(ListSplice(mem, from, h), from), front, w \cup {from})
          /\ Sound(INIT_LIST_HEAD(ListSpliceTail(mem, from, h), from), back, w \cup {from})
      BY <3>2, <3>3, <3>4, InitSound
    <3>6. w \cup {from} = valid
      BY <2>1
    <3>7. /\ ListSpliceInit(mem, from, h) = INIT_LIST_HEAD(ListSplice(mem, from, h), from)
          /\ ListSpliceTailInit(mem, from, h) = INIT_LIST_HEAD(ListSpliceTail(mem, from, h), from)
      BY <2>3, <2>5 DEF ListSpliceInit, ListSpliceTailInit
    <3> HIDE DEF w
    <3>8. QED
      BY <2>2, <2>5, <3>3, <3>4, <3>5, <3>6, <3>7
  <2>6. QED
    BY <2>4, <2>5
<1>12. CASE UNCHANGED vars
  BY <1>1, <1>12 DEF vars
<1>13. QED
  BY <1>3, <1>4, <1>5, <1>6, <1>7, <1>8, <1>9, <1>10, <1>11, <1>12 DEF Next

\* LIST_HEAD_INIT: the lists are empty.
LEMMA InitInvariant ==
  Init => IInv
<1> SUFFICES ASSUME Init PROVE Sound(mem, list, valid)
  BY InvariantIsSound
<1>1. /\ mem \in Memory /\ \A x \in Node : mem.next[x] = x /\ mem.prev[x] = x
      /\ list \in [Heads -> Seq(Entries)] /\ \A h \in Heads : list[h] = <<>> /\ h \in Node
      /\ valid = Heads /\ valid \subseteq Node
  BY DEF Init, Memory, Node
<1>2. Len(<<>>) = 0 /\ \A h, i : At(h, <<>>, i) = h
  BY DEF At
<1>3. \A h \in Heads : \A i \in 1 .. Len(list[h]) : FALSE
  BY <1>1, <1>2
<1>4. \A h \in Heads : Circle(mem, h, list[h])
  BY <1>1, <1>2 DEF Circle
<1>5. \A e \in Free(list) : e \notin valid
  BY <1>1, NodeAssumption DEF Free
<1>6. QED
  BY <1>1, <1>3, <1>4, <1>5 DEF Sound

\* What list_empty(), list_is_singular() and list_is_last() read of a list's
\* pointers is what holds of its sequence.
LEMMA TestsOfAList ==
  IInv => Observed
<1> SUFFICES ASSUME IInv, NEW h \in Lists
             PROVE  /\ IsEmpty(mem, h) <=> list[h] = <<>>
                    /\ IsEmpty(mem, h) => mem.prev[h] = h
                    /\ IsSingular(mem, h) <=> Len(list[h]) = 1
                    /\ \A e \in On(h) : IsLast(mem, e, h) <=> e = Last(list[h])
  BY DEF Observed
<1>1. Sound(mem, list, valid) /\ h \in Heads /\ h \in valid
  BY InvariantIsSound DEF Lists
<1>2. PICK s \in Seq(Entries), n \in Nat : s = list[h] /\ n = Len(s)
  BY <1>1, Ends
<1>3. /\ IsRing(h, s) /\ Circle(mem, h, s)
      /\ mem.next[h] = At(h, s, 1) /\ mem.prev[h] = At(h, s, n)
      /\ IsEmpty(mem, h) <=> s = <<>>
  BY <1>1, <1>2, Ends
<1>4. /\ At(h, s, 0) = h /\ At(h, s, n + 1) = h
      /\ \A i \in 1 .. n : At(h, s, i) = s[i]
      /\ \A i, j \in 0 .. n : At(h, s, i) = At(h, s, j) => i = j
      /\ \A i, j \in 1 .. n + 1 : At(h, s, i) = At(h, s, j) => i = j
  BY <1>2, <1>3, Positions
<1>5. s = <<>> <=> n = 0
  <2>1. s # <<>> => Len(s) \in Nat \ {0}
    BY EmptySeq, Zenon
  <2>2. Len(<<>>) = 0
    OBVIOUS
  <2>3. QED
    BY <1>2, <2>1, <2>2
<1>6. IsEmpty(mem, h) => mem.prev[h] = h
  BY <1>3, <1>4, <1>5
<1>7. IsSingular(mem, h) <=> n = 1
  <2>1. CASE n = 0
    BY <1>3, <1>5, <2>1 DEF IsSingular
  <2>2. CASE n # 0
    <3>1. 1 \in 0 .. n /\ n \in 0 .. n
      BY <2>2
    <3>2. At(h, s, 1) = At(h, s, n) <=> n = 1
      BY <1>4, <3>1
    <3>3. QED
      BY <1>3, <1>5, <2>2, <3>2 DEF IsSingular
  <2>3. QED
    BY <2>1, <2>2
<1>8. ASSUME NEW e \in On(h)
      PROVE  IsLast(mem, e, h) <=> e = Last(s)
  <2>1. PICK i \in 1 .. n : s[i] = e
    BY <1>1, <1>2, IndexFound
  <2>2. mem.next[e] = At(h, s, i + 1)
    <3>1. i \in 0 .. n /\ i \in 1 .. n
      BY <2>1
    <3>2. mem.next[At(h, s, i)] = At(h, s, i + 1)
      BY <1>2, <1>3, <3>1 DEF Circle
    <3>3. QED
      BY <1>4, <2>1, <3>2
  <2>3. mem.next[e] = h <=> i = n
    <3>1. i + 1 \in 1 .. n + 1 /\ n + 1 \in 1 .. n + 1 /\ (i + 1 = n + 1 <=> i = n)
      BY <2>1
    <3>2. QED
      BY <1>4, <2>2, <3>1
  <2>4. e = s[n] <=> i = n
    <3>1. i \in 0 .. n /\ n \in 0 .. n /\ n \in 1 .. n
      BY <2>1
    <3>2. QED
      BY <1>4, <2>1, <3>1
  <2>5. Last(s) = s[n]
    BY <1>2 DEF Last
  <2>6. QED
    BY <2>3, <2>4, <2>5 DEF IsLast
<1>9. QED
  BY <1>2, <1>3, <1>6, <1>7, <1>8

-----------------------------------------------------------------------------
(***************************************************************************)
(* The theorems.                                                           *)
(***************************************************************************)

\* The lists are rings with their entries in order, no entry is on two lists or
\* twice on one, and a head given up has none.
THEOREM ListsAreApart == Spec => []IInv
<1>1. QED
  BY InitInvariant, StepInvariant, PTL DEF Spec

\* After any calls of list.h, made as its comments ask, the pointers of every
\* list are, in both directions, the sequence of entries the comments describe.
THEOREM ListsRepresented == Spec => []Represents
<1>1. IInv => Represents
  BY DEF IInv
<1>2. QED
  BY <1>1, ListsAreApart, PTL

\* list_empty(), list_is_singular() and list_is_last() never answer anything
\* else than what is so of the entries added and deleted.
THEOREM TestsAreRight == Spec => []Observed
<1>1. QED
  BY TestsOfAList, ListsAreApart, PTL

=============================================================================
