----------------------------- MODULE LinkedList ------------------------------
(***************************************************************************)
(* The doubly linked lists of src/src/include/list.h: every operation as   *)
(* the pointer writes it makes, beside what it means for the sequences of  *)
(* entries on the lists.                                                   *)
(*                                                                         *)
(* A memory m is a record of two functions, m.next and m.prev.  The        *)
(* callers modelled use the operations as their comments ask: an entry is  *)
(* added to one list at a time, deleted from the list it is on, and a head *)
(* left over by list_splice() or list_replace() is initialised or given    *)
(* up before it is used again.                                             *)
(***************************************************************************)
EXTENDS SequencesExt

CONSTANTS
  Heads,    \* the list heads
  Entries    \* the entries

ASSUME NodeAssumption == Heads \cap Entries = {}

VARIABLES
  mem,     \* the pointers
  list,    \* history: the entries on each list
  valid    \* the nodes whose pointers mean something: a list, or "on no list"

vars == <<mem, list, valid>>

Node == Heads \cup Entries
On(h) == Range(list[h])
Linked == UNION {On(h) : h \in Heads}
Spare == Entries \ Linked
Lists == Heads \cap valid
Index(h, e) == CHOOSE i \in DOMAIN list[h] : list[h][i] = e

TypeOK ==
  /\ mem \in [next : [Node -> Node], prev : [Node -> Node]]
  /\ list \in [Heads -> Seq(Entries)]
  /\ valid \in SUBSET Node
  /\ Linked \subseteq valid

-----------------------------------------------------------------------------
(***************************************************************************)
(* The functions of list.h, on a memory m.                                 *)
(***************************************************************************)

\* a->next = b; b->prev = a
Link(m, a, b) ==
  [next |-> [m.next EXCEPT ![a] = b], prev |-> [m.prev EXCEPT ![b] = a]]

INIT_LIST_HEAD(m, h) == Link(m, h, h)

\* __list_add().  Mutated: one of the four pointers forgotten.
ListInsertOneWay(m, new, prev, next) ==
  [Link(Link(m, new, next), prev, new) EXCEPT !.prev[next] = m.prev[next]]
ListInsert(m, new, prev, next) == Link(Link(m, new, next), prev, new)

ListAdd(m, new, head) == ListInsert(m, new, head, m.next[head])
ListAddTail(m, new, head) == ListInsert(m, new, m.prev[head], head)

\* __list_del_entry(), list_del().
ListDel(m, entry) == Link(m, m.prev[entry], m.next[entry])

\* new's second link is made from what the first one left at old: for an
\* empty old that is new itself.
ListReplace(m, old, new) ==
  LET m1 == Link(m, new, m.next[old])
  IN  Link(m1, m1.prev[old], new)

\* list_move(), list_move_tail(): the neighbours are read after the deletion.
ListMove(m, entry, head) == ListAdd(ListDel(m, entry), entry, head)
ListMoveTail(m, entry, head) == ListAddTail(ListDel(m, entry), entry, head)

IsEmpty(m, h) == m.next[h] = h
IsSingular(m, h) == ~IsEmpty(m, h) /\ m.next[h] = m.prev[h]
IsLast(m, e, h) == m.next[e] = h

ListRotateLeft(m, h) == IF IsEmpty(m, h) THEN m ELSE ListMoveTail(m, m.next[h], h)

\* list_cut_position(), with its two early returns.  Mutated: without
\* new_first saved before entry->next is overwritten.
ListCutPositionLate(m, to, h, entry) ==
  IF IsEmpty(m, h) \/ (IsSingular(m, h) /\ entry \notin {h, m.next[h]})
  THEN m
  ELSE IF entry = h
       THEN INIT_LIST_HEAD(m, to)
       ELSE LET m1 == Link(Link(m, to, m.next[h]), entry, to)
            IN  Link(m1, h, m1.next[entry])
ListCutPosition(m, to, h, entry) ==
  IF IsEmpty(m, h) \/ (IsSingular(m, h) /\ entry \notin {h, m.next[h]})
  THEN m
  ELSE IF entry = h
       THEN INIT_LIST_HEAD(m, to)
       ELSE Link(Link(Link(m, to, m.next[h]), entry, to), h, m.next[entry])

\* __list_splice() between prev and next; from itself is not touched.
Between(m, from, prev, next) ==
  Link(Link(m, prev, m.next[from]), m.prev[from], next)

ListSplice(m, from, h) ==
  IF IsEmpty(m, from) THEN m ELSE Between(m, from, h, m.next[h])
ListSpliceTail(m, from, h) ==
  IF IsEmpty(m, from) THEN m ELSE Between(m, from, m.prev[h], h)
ListSpliceInit(m, from, h) ==
  IF IsEmpty(m, from) THEN m ELSE INIT_LIST_HEAD(ListSplice(m, from, h), from)
ListSpliceTailInit(m, from, h) ==
  IF IsEmpty(m, from) THEN m ELSE INIT_LIST_HEAD(ListSpliceTail(m, from, h), from)

-----------------------------------------------------------------------------
(***************************************************************************)
(* The calls a user of list.h may make.                                    *)
(***************************************************************************)

\* LIST_HEAD_INIT for the heads; the entries are in no defined state, which
\* any contents may stand for.
Init ==
  /\ mem = [next |-> [n \in Node |-> n], prev |-> [n \in Node |-> n]]
  /\ list = [h \in Heads |-> <<>>]
  /\ valid = Heads

\* A head whose list was given away is made a list again; a spare entry too
\* may be initialised.
Initialise(n) ==
  /\ n \in (Heads \cup Spare) \ valid
  /\ mem' = INIT_LIST_HEAD(mem, n)
  /\ valid' = valid \cup {n}
  /\ UNCHANGED list

Add(e, h) ==
  /\ e \in Spare
  /\ h \in Lists
  /\ \/ /\ mem' = ListAdd(mem, e, h)
        /\ list' = [list EXCEPT ![h] = <<e>> \o @]
     \/ /\ mem' = ListAddTail(mem, e, h)
        /\ list' = [list EXCEPT ![h] = Append(@, e)]
  /\ valid' = valid \cup {e}

\* list_del() leaves the entry pointing into the list, list_del_init() does
\* not.
Delete(h, e) ==
  /\ e \in On(h)
  /\ \/ /\ mem' = ListDel(mem, e)
        /\ valid' = valid \ {e}
     \/ /\ mem' = INIT_LIST_HEAD(ListDel(mem, e), e)
        /\ UNCHANGED valid
  /\ list' = [list EXCEPT ![h] = RemoveAt(@, Index(h, e))]

\* list_replace(), list_replace_init() of an entry by a spare one.
Replace(h, e, new) ==
  /\ e \in On(h)
  /\ new \in Spare
  /\ \/ /\ mem' = ListReplace(mem, e, new)
        /\ valid' = (valid \ {e}) \cup {new}
     \/ /\ mem' = INIT_LIST_HEAD(ListReplace(mem, e, new), e)
        /\ valid' = valid \cup {new}
  /\ list' = [list EXCEPT ![h][Index(h, e)] = new]

\* The same of a head, whose whole list, empty or not, gets a new head.
ReplaceHead(h, new) ==
  /\ h \in Lists
  /\ new \in Heads \ {h}
  /\ list[new] = <<>>
  /\ \/ /\ mem' = ListReplace(mem, h, new)
        /\ valid' = (valid \ {h}) \cup {new}
     \/ /\ mem' = INIT_LIST_HEAD(ListReplace(mem, h, new), h)
        /\ valid' = valid \cup {new}
  /\ list' = [list EXCEPT ![h] = <<>>, ![new] = list[h]]

\* list_move(), list_move_tail(), also within one list.
Move(h, e, h2) ==
  /\ e \in On(h)
  /\ h2 \in Lists
  /\ LET without == [list EXCEPT ![h] = RemoveAt(@, Index(h, e))]
     IN  \/ /\ mem' = ListMove(mem, e, h2)
            /\ list' = [without EXCEPT ![h2] = <<e>> \o @]
         \/ /\ mem' = ListMoveTail(mem, e, h2)
            /\ list' = [without EXCEPT ![h2] = Append(@, e)]
  /\ UNCHANGED valid

RotateLeft(h) ==
  /\ h \in Lists
  /\ mem' = ListRotateLeft(mem, h)
  /\ list' = [list EXCEPT ![h] = IF @ = <<>> THEN @ ELSE Append(Tail(@), @[1])]
  /\ UNCHANGED valid

\* list_cut_position() at position i of h (0: the head itself), to a list
\* that is empty or given up.  An empty h leaves that as it is.
CutPosition(to, h, i) ==
  /\ h \in Lists
  /\ to \in Heads \ {h}
  /\ list[to] = <<>>
  /\ i \in 0 .. Len(list[h])
  /\ mem' = ListCutPosition(mem, to, h, IF i = 0 THEN h ELSE list[h][i])
  /\ list' = [list EXCEPT ![to] = SubSeq(list[h], 1, i),
                          ![h] = SubSeq(@, i + 1, Len(@))]
  /\ valid' = IF list[h] = <<>> THEN valid ELSE valid \cup {to}

\* The four list_splice()s.  Without _init the emptied head still points at
\* the entries that are now on the other list.
Splice(from, h) ==
  /\ from \in Lists
  /\ h \in Lists \ {from}
  /\ LET front == [list EXCEPT ![h] = list[from] \o @, ![from] = <<>>]
         back  == [list EXCEPT ![h] = @ \o list[from], ![from] = <<>>]
     IN  \/ /\ mem' = ListSplice(mem, from, h) /\ list' = front
            /\ valid' = IF list[from] = <<>> THEN valid ELSE valid \ {from}
         \/ /\ mem' = ListSpliceTail(mem, from, h) /\ list' = back
            /\ valid' = IF list[from] = <<>> THEN valid ELSE valid \ {from}
         \/ /\ mem' = ListSpliceInit(mem, from, h) /\ list' = front
            /\ UNCHANGED valid
         \/ /\ mem' = ListSpliceTailInit(mem, from, h) /\ list' = back
            /\ UNCHANGED valid

Next ==
  \/ \E n \in Node : Initialise(n)
  \/ \E e \in Entries, h \in Heads : Add(e, h)
  \/ \E e \in Entries, h \in Heads : Delete(h, e)
  \/ \E e, new \in Entries, h \in Heads : Replace(h, e, new)
  \/ \E h, new \in Heads : ReplaceHead(h, new)
  \/ \E e \in Entries, h, h2 \in Heads : Move(h, e, h2)
  \/ \E h \in Heads : RotateLeft(h)
  \/ \E to, h \in Heads : \E i \in 0 .. Len(list[h]) : CutPosition(to, h, i)
  \/ \E from, h \in Heads : Splice(from, h)

Spec == Init /\ [][Next]_vars

-----------------------------------------------------------------------------
(***************************************************************************)
(* Properties.                                                             *)
(***************************************************************************)

\* The ring of head h and the entries s: h has position 0, and again the one
\* behind the last entry.
At(h, s, i) == IF i \in DOMAIN s THEN s[i] ELSE h

\* The pointers of m, in both directions, are this ring.
Circle(m, h, s) ==
  \A i \in 0 .. Len(s) :
    /\ m.next[At(h, s, i)] = At(h, s, i + 1)
    /\ m.prev[At(h, s, i + 1)] = At(h, s, i)

\* After any sequence of calls every list's pointers are exactly the sequence
\* of entries that the comments of list.h describe, and an initialised entry
\* on no list points at itself (and the types).
Represents ==
  /\ TypeOK
  /\ \A h \in Lists : Circle(mem, h, list[h])
  /\ \A e \in Spare \cap valid : mem.next[e] = e /\ mem.prev[e] = e

\* The tests of list.h answer for the pointers what holds of the sequence.
\* list_empty() of a head given up does not, and is not asked.
Observed ==
  \A h \in Lists :
    /\ IsEmpty(mem, h) <=> list[h] = <<>>
    /\ IsEmpty(mem, h) => mem.prev[h] = h
    /\ IsSingular(mem, h) <=> Len(list[h]) = 1
    /\ \A e \in On(h) : IsLast(mem, e, h) <=> e = Last(list[h])

\* No entry is on two lists or twice on one, and a head given up has none.
Apart ==
  /\ \A g, h \in Heads : \A i \in DOMAIN list[g], j \in DOMAIN list[h] :
       list[g][i] = list[h][j] => g = h /\ i = j
  /\ \A h \in Heads \ Lists : list[h] = <<>>

\* The inductive invariant of the proofs.
IInv == Represents /\ Apart
=============================================================================
