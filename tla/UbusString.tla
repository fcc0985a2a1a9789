----------------------------- MODULE UbusString ------------------------------
(***************************************************************************)
(* The one buffer that ubus_get_string() of src/src/serv_ubus.c keeps from *)
(* call to call: `static char *ret' and `static char size', whose eight    *)
(* bits cannot hold every length it is given.  char is unsigned, as on ARM *)
(* (where it is signed, 128 is negative and the first malloc() fails).     *)
(*                                                                         *)
(* A string is abstracted to its length.  Of the buffer it matters how     *)
(* much was allocated, and whether its first byte is NUL.                  *)
(***************************************************************************)
EXTENDS Naturals

CONSTANTS
  Size0,    \* the initial size           (128)
  CharMod,  \* the values of a char       (256)
  Length    \* the lengths of the strings that ubus methods return

ASSUME CharAssumption ==
  /\ Size0 \in Nat \ {0}
  /\ CharMod \in Nat
  /\ Size0 < CharMod
  /\ Length \subseteq Nat \ {0}

VARIABLES
  at,     \* what the call executes
  alloc,  \* the length of the block at ret, 0 for NULL
  size,   \* the static size
  byte0,  \* ret[0]: NUL, or anything else
  zeros,  \* the leading bytes of ret known to be NUL since memset()
  reply,  \* the length of the string that came, 0 without one
  result  \* of the last call: NULL, or how the string is returned

stringVars == <<at, alloc, size, byte0, zeros, reply, result>>

Results == {"null", "exact", "cut", "unterminated"}

StringTypeOK ==
  /\ at \in {"idle", "call", "store"}
  /\ alloc \in Nat
  /\ size \in 0 .. CharMod - 1
  /\ byte0 \in {"nul", "other"}
  /\ zeros \in Nat
  /\ reply \in Length \cup {0}
  /\ result \in Results

StringInit ==
  /\ at = "idle"
  /\ alloc = 0
  /\ size = Size0
  /\ byte0 = "other"
  /\ zeros = 0
  /\ reply = 0
  /\ result = "null"

\* The function is entered: the first time the buffer is allocated (and not
\* yet written); each time its first size bytes are cleared.  Mutated: they
\* are not, or the first only.
EnterNoClear ==
  /\ at = "idle"
  /\ at' = "call"
  /\ alloc' = IF alloc = 0 THEN size ELSE alloc
  /\ byte0' = IF alloc = 0 THEN "nul" ELSE byte0
  /\ zeros' = 0
  /\ UNCHANGED <<size, reply, result>>

Enter ==
  /\ at = "idle"
  /\ at' = "call"
  /\ alloc' = IF alloc = 0 THEN size ELSE alloc
  /\ byte0' = IF size > 0 THEN "nul" ELSE byte0
  /\ zeros' = size
  /\ UNCHANGED <<size, reply, result>>

\* ubus_get_option() finds no such string: no object, no reply in time, no
\* such member, one of another type, or an empty one.
NoString ==
  /\ at = "call"
  /\ at' = "idle"
  /\ reply' = 0
  /\ result' = IF byte0 = "nul" THEN "null" ELSE "cut"
  /\ UNCHANGED <<alloc, size, byte0, zeros>>

\* A string of length n comes; a longer one than fits makes the buffer grow
\* (or shrink), and size is cut to a char.  Mutated: realloc() forgets the
\* NUL; a string of the length of the buffer is taken to fit.
StringComesNoNul(n) ==
  /\ at = "call"
  /\ at' = "store"
  /\ reply' = n
  /\ IF n >= size
     THEN alloc' = n /\ size' = (n + 1) % CharMod
     ELSE UNCHANGED <<alloc, size>>
  /\ UNCHANGED <<byte0, zeros, result>>

StringComesTight(n) ==
  /\ at = "call"
  /\ at' = "store"
  /\ reply' = n
  /\ IF n > size
     THEN alloc' = n + 1 /\ size' = (n + 1) % CharMod
     ELSE UNCHANGED <<alloc, size>>
  /\ UNCHANGED <<byte0, zeros, result>>

StringComes(n) ==
  /\ at = "call"
  /\ at' = "store"
  /\ reply' = n
  /\ IF n >= size
     THEN alloc' = n + 1 /\ size' = (n + 1) % CharMod
     ELSE UNCHANGED <<alloc, size>>
  /\ UNCHANGED <<byte0, zeros, result>>

\* strncpy() writes size bytes: the string and NULs, or as much of it as goes
\* in, without a NUL.  What follows it then is a cleared byte, or one that
\* was never written or belongs to an earlier string.
Store ==
  /\ at = "store"
  /\ at' = "idle"
  /\ byte0' = IF size > 0 THEN "other" ELSE byte0
  /\ \/ /\ size = 0
        /\ result' = IF byte0 = "nul" THEN "null" ELSE "cut"
     \/ /\ reply < size
        /\ result' = "exact"
     \/ /\ size > 0 /\ size <= reply
        /\ result' \in IF size < zeros THEN {"cut"} ELSE {"cut", "unterminated"}
  /\ UNCHANGED <<alloc, size, zeros, reply>>

StringNext ==
  \/ Enter
  \/ NoString
  \/ \E n \in Length : StringComes(n)
  \/ Store

StringSpec == StringInit /\ [][StringNext]_stringVars

-----------------------------------------------------------------------------
(***************************************************************************)
(* Properties.                                                             *)
(***************************************************************************)

\* memset() and strncpy() never write beyond the buffer, however size was
\* cut, whatever strings came before.
InBounds == alloc > 0 => size <= alloc

\* A string whose length and NUL fit a char is returned as it came, also
\* after any strings that did not fit.
ShortIsExact ==
  at = "idle" /\ reply # 0 /\ (reply + 1 < CharMod) => result = "exact"

\* A call that gets no string returns NULL, never the string of an earlier
\* call that is still in the buffer.
NothingStale == at = "idle" /\ reply = 0 => result = "null"

\* Why: a size cut to 0, which leaves memset() nothing to clear, leaves an
\* empty string in the buffer.
EmptyWhenZero ==
  /\ at = "idle" /\ alloc > 0 /\ size = 0 => byte0 = "nul"
  /\ alloc = 0 => size > 0
BlankInCall == at # "idle" => byte0 = "nul" /\ alloc > 0

\* In the middle of a call: size is what the string that came made it.
StoreFits ==
  at = "store" => reply \in Length /\ (reply + 1 < CharMod => reply < size)

\* The inductive invariant of the proofs.
StringIInv ==
  /\ StringTypeOK
  /\ InBounds
  /\ ShortIsExact
  /\ NothingStale
  /\ EmptyWhenZero
  /\ BlankInCall
  /\ StoreFits
=============================================================================
