---------------------------- MODULE DurableRegister ----------------------------
(***************************************************************************)
(* What a user's state looks like from outside: a value in memory and a    *)
(* durable one behind it.  It knows no timers, files or failed writes.     *)
(***************************************************************************)
EXTENDS Naturals

VARIABLES up, value, durable,
          next  \* the number of the next value

vars == <<up, value, durable, next>>

Init == up = TRUE /\ value = 0 /\ durable = 0 /\ next = 1

Set ==
  /\ up
  /\ value' = next
  /\ next' = next + 1
  /\ UNCHANGED <<up, durable>>

\* The durable value moves forward, but not beyond the one in memory.
Persist ==
  /\ up
  /\ durable' \in durable..value
  /\ UNCHANGED <<up, value, next>>

\* Whatever was not durable is lost; nothing else is.
Stop  == up /\ up' = FALSE /\ value' = 0 /\ UNCHANGED <<durable, next>>
Start == ~up /\ up' = TRUE /\ value' = durable /\ UNCHANGED <<durable, next>>

Next == Set \/ Persist \/ Stop \/ Start

Spec == Init /\ [][Next]_vars
=============================================================================
