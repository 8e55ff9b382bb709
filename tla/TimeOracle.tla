------------------------------- MODULE TimeOracle -------------------------------
(***************************************************************************)
(* The time oracle (core/time-oracle): a hybrid logical clock (hlc.rs)     *)
(* behind a mutex, and the agent that publishes a tick of it at every      *)
(* interval (main.rs).  The host's clock may be stepped back; the process  *)
(* may crash, and starts again with a new clock.                           *)
(***************************************************************************)
EXTENDS Integers

CONSTANTS
  Task,         \* the callers of tick; the clock can be shared
  Oracle,       \* the caller that is the agent: it publishes what it gets
  MaxLogical,   \* u32::MAX
  MaxWall       \* bound on the host's clock

ASSUME OracleAssumption ==
  Oracle \in Task /\ MaxLogical \in Nat /\ MaxWall \in Nat

VARIABLES
  wall,         \* the host's clock
  highest,      \* history: the latest time it has shown
  phase,        \* the process: "down", "restarting", "up" or "stopped"
  shutdown,     \* the shutdown token is cancelled
  clock,        \* the state of the Hlc: [physical, logical]
  read,         \* the time each caller has read and not used: at most one
  hand,         \* the tick the agent is about to publish: at most one
  published,    \* the last tick on the topic: at most one
  before,       \* history: highest when the last process crashed
  behind        \* history: when the process started, the host's clock had
                \* been stepped back, to a time not later than before

vars == <<wall, highest, phase, shutdown, clock, read, hand, published, before, behind>>

None == <<>>

Init ==
  /\ wall \in 0 .. MaxWall
  /\ highest = wall
  /\ phase = "restarting"
  /\ shutdown = FALSE
  /\ clock = [physical |-> 0, logical |-> 0]
  /\ read = [t \in Task |-> None]
  /\ hand = None
  /\ published = None
  /\ before = -1
  /\ behind = FALSE

-----------------------------------------------------------------------------
(* The host's clock.  A process takes some time to start again.            *)
WallForward ==
  /\ wall < MaxWall
  /\ wall' = wall + 1
  /\ highest' = IF wall' > highest THEN wall' ELSE highest
  /\ phase' = IF phase = "down" THEN "restarting" ELSE phase
  /\ UNCHANGED <<shutdown, clock, read, hand, published, before, behind>>

WallBack ==
  /\ \E earlier \in 0 .. wall - 1 : wall' = earlier
  /\ UNCHANGED <<highest, phase, shutdown, clock, read, hand, published, before, behind>>

-----------------------------------------------------------------------------
(* Hlc::new, and the start of the agent.                                   *)
Start ==
  /\ phase = "restarting"
  /\ phase' = "up"
  /\ clock' = [physical |-> wall, logical |-> 0]
  /\ behind' = (wall <= before)
  /\ UNCHANGED <<wall, highest, shutdown, read, hand, published, before>>

(* tick reads the host's clock before it takes the lock.  The agent calls  *)
(* it when its loop is idle, which prefers the shutdown to its interval.   *)
ReadWall(t) ==
  /\ phase = "up"
  /\ read[t] = None
  /\ t = Oracle => hand = None /\ ~shutdown
  /\ read' = [read EXCEPT ![t] = <<wall>>]
  /\ UNCHANGED <<wall, highest, phase, shutdown, clock, hand, published, before, behind>>

(* Slips: an equal time starts a new count; a late caller sets it back.    *)
AfterNotLess(c, time) ==
  IF time >= c.physical
    THEN [physical |-> time, logical |-> 0]
    ELSE [c EXCEPT !.logical = IF @ < MaxLogical THEN @ + 1 ELSE MaxLogical]

AfterUnequal(c, time) ==
  IF time # c.physical
    THEN [physical |-> time, logical |-> 0]
    ELSE [c EXCEPT !.logical = IF @ < MaxLogical THEN @ + 1 ELSE MaxLogical]

After(c, time) ==
  IF time > c.physical
    THEN [physical |-> time, logical |-> 0]
    ELSE [c EXCEPT !.logical = IF @ < MaxLogical THEN @ + 1 ELSE MaxLogical]

Advance(t) ==
  /\ read[t] # None
  /\ clock' = After(clock, read[t][1])
  /\ hand' = IF t = Oracle THEN <<clock'>> ELSE hand
  /\ read' = [read EXCEPT ![t] = None]
  /\ UNCHANGED <<wall, highest, phase, shutdown, published, before, behind>>

(* The agent publishes its tick; an error is logged, the tick is lost.     *)
Publish ==
  /\ hand # None
  /\ hand' = None
  /\ published' \in {hand, published}
  /\ UNCHANGED <<wall, highest, phase, shutdown, clock, read, before, behind>>

Cancel ==
  /\ phase = "up"
  /\ shutdown' = TRUE
  /\ UNCHANGED <<wall, highest, phase, clock, read, hand, published, before, behind>>

(* run returns; the process ends with it.                                  *)
Return ==
  /\ phase = "up" /\ shutdown
  /\ read[Oracle] = None /\ hand = None
  /\ phase' = "stopped"
  /\ read' = [t \in Task |-> None]
  /\ UNCHANGED <<wall, highest, shutdown, clock, hand, published, before, behind>>

Crash ==
  /\ phase = "up"
  /\ phase' = "down"
  /\ shutdown' = FALSE
  /\ read' = [t \in Task |-> None]
  /\ hand' = None
  /\ before' = highest
  /\ UNCHANGED <<wall, highest, clock, published, behind>>

Next ==
  \/ WallForward \/ WallBack
  \/ Start \/ Publish \/ Cancel \/ Return \/ Crash
  \/ \E t \in Task : ReadWall(t) \/ Advance(t)

Spec == Init /\ [][Next]_vars
===============================================================================
