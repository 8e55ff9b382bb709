--------------------------------- MODULE Clock ---------------------------------
(***************************************************************************)
(* What a hybrid logical clock promises (spec Part 16, core/time-oracle):  *)
(* while it is open every reading is later than the one before it, until   *)
(* the logical part is at its limit, and no reading runs ahead of what the *)
(* host's clock has shown.                                                 *)
(***************************************************************************)
EXTENDS Integers

CONSTANT Limit      \* the largest logical part

VARIABLES
  opened,           \* there is a clock
  reading,          \* its last reading, [physical, logical]
  shown             \* the latest time the host's clock has shown

(* Readings are ordered by their physical, then by their logical part.     *)
Later(a, b) ==
  \/ a.physical > b.physical
  \/ a.physical = b.physical /\ a.logical > b.logical

Init == opened = FALSE

Show == shown' > shown /\ UNCHANGED <<opened, reading>>

Open ==
  /\ ~opened /\ opened'
  /\ reading'.physical <= shown
  /\ UNCHANGED shown

Tick ==
  /\ opened /\ opened'
  /\ Later(reading', reading)
  /\ reading'.physical <= shown
  /\ UNCHANGED shown

Close == opened /\ ~opened' /\ UNCHANGED <<reading, shown>>

Next == Show \/ Open \/ Tick \/ Close

(* A reading repeats, a stuttering step, only at the limit.                *)
Spec == Init /\ [][Next]_<<opened, reading, shown>>
===============================================================================
