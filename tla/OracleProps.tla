------------------------------- MODULE OracleProps -------------------------------
(***************************************************************************)
(* What the time oracle must guarantee, on the state machine of            *)
(* TimeOracle.tla.                                                         *)
(***************************************************************************)
EXTENDS TimeOracle

Reading == [physical : 0 .. MaxWall, logical : 0 .. MaxLogical]

AtMostOne(S) == {None} \cup {<<x>> : x \in S}

(* The type of every variable.                                             *)
TypeOK ==
  /\ wall \in 0 .. MaxWall /\ highest \in 0 .. MaxWall
  /\ before \in -1 .. MaxWall
  /\ phase \in {"down", "restarting", "up", "stopped"}
  /\ shutdown \in BOOLEAN /\ behind \in BOOLEAN
  /\ clock \in Reading
  /\ read \in [Task -> AtMostOne(0 .. MaxWall)]
  /\ hand \in AtMostOne(Reading)
  /\ published \in AtMostOne(Reading)

(* hlc.rs:6, "monotonic across clock jitter and minor regressions": the    *)
(* clock of one process is an abstract clock, however many callers read    *)
(* the time before they take the lock and in whatever order they get it,   *)
(* and however far the host's clock is stepped back in between.            *)
Abstract == INSTANCE Clock WITH
  Limit <- MaxLogical, opened <- phase = "up", reading <- clock, shown <- highest

ImplementsClock == Abstract!Spec

(* What subscribers hear does not go back, across failed publishes and     *)
(* restarts: a tick that is not later than the one before it on the topic  *)
(* comes from a clock at its limit, or from a process that has started at  *)
(* a time the host's clock had shown before: never merely from a restart.  *)
TopicForward ==
  [][published # None /\ published' # published =>
       \/ Abstract!Later(published'[1], published[1])
       \/ published'[1].logical = MaxLogical
       \/ behind]_vars
===============================================================================
