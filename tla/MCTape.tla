-------------------------------- MODULE MCTape --------------------------------
(***************************************************************************)
(* A small instance of Tape.                                               *)
(***************************************************************************)
EXTENDS TapeProps
===============================================================================
