------------------------------- MODULE TapeLog -------------------------------
(***************************************************************************)
(* What the tape promises to one who replays it: rows are only added, in   *)
(* the order in which their messages came, none twice; some are missing.   *)
(***************************************************************************)
EXTENDS Naturals, Sequences

CONSTANTS Batch   \* the rows of one insert, at most

VARIABLE tape     \* the numbers of the messages whose rows are in the table

Init == tape = <<>>

Later(rows) ==
  \A i, j \in DOMAIN rows : i < j => rows[i] < rows[j]

Record ==
  /\ Len(tape') \in Len(tape) + 1 .. Len(tape) + Batch
  /\ SubSeq(tape', 1, Len(tape)) = tape
  /\ Later(tape')

Spec == Init /\ [][Record]_tape
=============================================================================
