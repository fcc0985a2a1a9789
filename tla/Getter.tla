------------------------------- MODULE Getter --------------------------------
(***************************************************************************)
(* What a caller of ubus_get_int() or ubus_get_string() relies on: the     *)
(* call is one atomic reading of the provider's datum, somewhere between   *)
(* its beginning and its end, or it gives the default.  It never gives     *)
(* what was true only before it began.                                     *)
(***************************************************************************)
CONSTANTS
  Value,  \* what the provider may report
  None    \* no datum: of the provider, of a reading, of the caller

VARIABLES
  datum,    \* what the provider would report now
  calling,  \* whether a call is being made
  reading,  \* what this call has read so far
  answer    \* what the call returned, None for the default

vars == <<datum, calling, reading, answer>>

Init ==
  /\ datum \in Value \cup {None}
  /\ calling = FALSE
  /\ reading = None
  /\ answer = None

Change ==
  /\ datum' \in Value \cup {None}
  /\ UNCHANGED <<calling, reading, answer>>

Begin ==
  /\ ~calling
  /\ calling' = TRUE
  /\ answer' = None
  /\ UNCHANGED <<datum, reading>>

Read ==
  /\ calling
  /\ reading' = datum
  /\ UNCHANGED <<datum, calling, answer>>

End ==
  /\ calling
  /\ calling' = FALSE
  /\ answer' \in {reading, None}
  /\ reading' = None
  /\ UNCHANGED datum

Next == Change \/ Begin \/ Read \/ End

Spec == Init /\ [][Next]_vars
=============================================================================
