---------------------------- MODULE PySupervisor ----------------------------
(***************************************************************************)
(* The Python agent runtime (core/obsidian-agent-py/obsidian_agent/        *)
(* supervisor.py and heartbeat.py): one supervision loop per agent, all in *)
(* one asyncio TaskGroup, which cancels every other loop when one raises.  *)
(*                                                                         *)
(* A step is what one task does between two awaits.  A cancelled task is   *)
(* always suspended in an await, and the cancellation is raised there.     *)
(* Failure times are not kept: how many of the earlier failures are still  *)
(* in the window is a choice.                                              *)
(***************************************************************************)
EXTENDS Lifecycle, Naturals

CONSTANTS
  Agent,        \* the registered agents
  Finite,       \* those whose run may return before the shutdown
  Silent,       \* those whose topics may carry no more messages
  Unbuildable,  \* those whose factory may raise
  Unreachable,  \* those whose NATS server may be out of reach
  Budget,       \* restart_budget
  MaxFailures,  \* bound on the failures of an agent
  None          \* no beat, no outcome

Outcome == {"returned", "raised", "cancelled", "killed"}

ASSUME PyAssumption ==
  /\ Budget \in Nat /\ MaxFailures \in Nat
  /\ Finite \cup Silent \cup Unbuildable \cup Unreachable \subseteq Agent
  /\ None \notin State \cup Outcome

VARIABLES
  up,         \* the process runs
  shutdown,   \* the shutdown event is set
  aborted,    \* the task group has cancelled its tasks
  pc,         \* the await in which each supervision loop is suspended
  outcome,    \* how each loop ends, once that is decided
  connected,  \* each loop's NATS connection is not closed
  status,     \* the status handle of the current instance
  heartbeats, \* the heartbeat tasks of each agent that still exist
  recent,     \* the length of restart_history
  wire,       \* the last heartbeat published for each agent
  instance,   \* history: how many instances the factory built
  closings,   \* history: on how many of them shutdown() was called
  failures    \* history: how many of them failed

auditVars == <<instance, closings, failures>>
vars == <<up, shutdown, aborted, pc, outcome, connected, status, heartbeats,
          recent, wire, instance, closings, failures>>

(* init or run of an instance has begun and shutdown() has not.            *)
Serving == {"init", "run"}

Init ==
  /\ up = TRUE
  /\ shutdown = FALSE
  /\ aborted = FALSE
  /\ pc = [a \in Agent |-> "connect"]
  /\ outcome = [a \in Agent |-> None]
  /\ connected = [a \in Agent |-> FALSE]
  /\ status = [a \in Agent |-> "Booting"]
  /\ heartbeats = [a \in Agent |-> {}]
  /\ recent = [a \in Agent |-> 0]
  /\ wire = [a \in Agent |-> [instance |-> 0, status |-> None]]
  /\ instance = [a \in Agent |-> 0]
  /\ closings = [a \in Agent |-> 0]
  /\ failures = [a \in Agent |-> 0]

-----------------------------------------------------------------------------
(* _agent_supervisor_loop                                                  *)

Goto(a, place) == pc' = [pc EXCEPT ![a] = place]

(* The loop is left: its finally closes the connection.                    *)
Leave(a, how) ==
  /\ outcome' = [outcome EXCEPT ![a] = how]
  /\ Goto(a, "disconnect")

(* The top of the while: the shutdown ends it; else the heartbeat task is  *)
(* created, then the agent.                                                *)
Loop(a) ==
  \/ /\ shutdown
     /\ Leave(a, "returned")
     /\ UNCHANGED <<status, heartbeats, instance>>
  \/ /\ ~shutdown
     /\ status' = [status EXCEPT ![a] = "Booting"]
     /\ heartbeats' = [heartbeats EXCEPT ![a] = @ \cup
          {[instance |-> instance[a] + 1, cancelled |-> FALSE]}]
     /\ \/ /\ instance' = [instance EXCEPT ![a] = @ + 1]
           /\ Goto(a, "init")
           /\ UNCHANGED outcome
        \/ /\ a \in Unbuildable
           /\ Leave(a, "raised")
           /\ UNCHANGED instance

Connect(a) ==
  /\ pc[a] = "connect"
  /\ \/ /\ connected' = [connected EXCEPT ![a] = TRUE]
        /\ Loop(a)
     \/ /\ a \in Unreachable
        /\ outcome' = [outcome EXCEPT ![a] = "raised"]
        /\ Goto(a, "ended")
        /\ UNCHANGED <<connected, status, heartbeats, instance>>
  /\ UNCHANGED <<up, shutdown, aborted, recent, wire, closings, failures>>

InitReturns(a) ==
  /\ pc[a] = "init"
  /\ status' = [status EXCEPT ![a] = "Active"]
  /\ Goto(a, "run")
  /\ UNCHANGED <<up, shutdown, aborted, outcome, connected, heartbeats, recent, wire, auditVars>>

(* An agent looks at the shutdown when it has received a message.          *)
RunReturns(a) ==
  /\ pc[a] = "run"
  /\ shutdown \/ a \in Finite
  /\ closings' = [closings EXCEPT ![a] = @ + 1]
  /\ Goto(a, "close_clean")
  /\ UNCHANGED <<up, shutdown, aborted, outcome, connected, status, heartbeats, recent, wire,
                 instance, failures>>

(* init or run raises.                                                     *)
Fails(a) ==
  /\ pc[a] \in Serving
  /\ failures[a] < MaxFailures
  /\ failures' = [failures EXCEPT ![a] = @ + 1]
  /\ closings' = [closings EXCEPT ![a] = @ + 1]
  /\ Goto(a, "close_failed")
  /\ UNCHANGED <<up, shutdown, aborted, outcome, connected, status, heartbeats, recent, wire,
                 instance>>

(* shutdown() returns, or raises what is only logged.                      *)
CloseClean(a) ==
  /\ pc[a] = "close_clean"
  /\ Goto(a, "join")
  /\ UNCHANGED <<up, shutdown, aborted, outcome, connected, status, heartbeats, recent, wire, auditVars>>

Cancel(tasks) == {[t EXCEPT !.cancelled = TRUE] : t \in tasks}

(* A slip: the heartbeat of a failed instance is not cancelled but left.   *)
CloseFailedNoCancel(a) ==
  /\ pc[a] = "close_failed"
  /\ Goto(a, "backoff")
  /\ UNCHANGED <<up, shutdown, aborted, outcome, connected, status, heartbeats, recent, wire, auditVars>>

CloseFailed(a) ==
  /\ pc[a] = "close_failed"
  /\ heartbeats' = [heartbeats EXCEPT ![a] = Cancel(@)]
  /\ Goto(a, "join_cancelled")
  /\ UNCHANGED <<up, shutdown, aborted, outcome, connected, status, recent, wire, auditVars>>

(* A slip: the loop waits for the heartbeat before it is cancelled.        *)
CloseCancelledJoins(a) ==
  /\ pc[a] = "close_cancelled"
  /\ heartbeats[a] = {}
  /\ Goto(a, "disconnect")
  /\ UNCHANGED <<up, shutdown, aborted, outcome, connected, status, heartbeats, recent, wire, auditVars>>

(* shutdown() in the finally of a cancelled instance; its heartbeat task   *)
(* is left behind.                                                         *)
CloseCancelled(a) ==
  /\ pc[a] = "close_cancelled"
  /\ Goto(a, "disconnect")
  /\ UNCHANGED <<up, shutdown, aborted, outcome, connected, status, heartbeats, recent, wire, auditVars>>

Join(a) ==
  /\ pc[a] = "join"
  /\ heartbeats[a] = {}
  /\ Leave(a, "returned")
  /\ UNCHANGED <<up, shutdown, aborted, connected, status, heartbeats, recent, wire, auditVars>>

(* _exceeds_restart_budget: the failure is appended; of the earlier ones   *)
(* any number may have left the window.                                    *)
Counts(a) == 1 .. recent[a] + 1

(* The cancelled heartbeat task has ended: the failure is counted.         *)
JoinCancelled(a) ==
  /\ pc[a] = "join_cancelled"
  /\ heartbeats[a] = {}
  /\ \E count \in Counts(a) :
       /\ recent' = [recent EXCEPT ![a] = count]
       /\ IF count > Budget
            THEN Leave(a, "raised")
            ELSE Goto(a, "backoff") /\ UNCHANGED outcome
  /\ UNCHANGED <<up, shutdown, aborted, connected, status, heartbeats, wire, auditVars>>

(* The backoff ends with the shutdown, or with its time.                   *)
BackoffEnds(a) ==
  /\ pc[a] = "backoff"
  /\ Loop(a)
  /\ UNCHANGED <<up, shutdown, aborted, connected, recent, wire, closings, failures>>

(* nats.close(): a connection that is not there cannot be drained.         *)
Disconnect(a) ==
  /\ pc[a] = "disconnect"
  /\ \/ connected' = [connected EXCEPT ![a] = FALSE] /\ UNCHANGED outcome
     \/ /\ a \in Unreachable
        /\ outcome' = [outcome EXCEPT ![a] = "raised"]
        /\ UNCHANGED connected
  /\ Goto(a, "ended")
  /\ UNCHANGED <<up, shutdown, aborted, status, heartbeats, recent, wire, auditVars>>

-----------------------------------------------------------------------------
(* run_heartbeat_loop                                                      *)

Publish(a, t, beat) ==
  \/ connected[a] /\ wire' = [wire EXCEPT ![a] = [instance |-> t.instance, status |-> beat]]
  \/ UNCHANGED wire

HeartbeatBeat(a, t) ==
  /\ ~t.cancelled
  /\ ~shutdown
  /\ Publish(a, t, status[a])
  /\ UNCHANGED heartbeats

(* A slip: the last beat does not end the task.                            *)
HeartbeatLastStays(a, t) ==
  /\ ~t.cancelled
  /\ shutdown
  /\ Publish(a, t, "Retired")
  /\ UNCHANGED heartbeats

HeartbeatLast(a, t) ==
  /\ ~t.cancelled
  /\ shutdown
  /\ Publish(a, t, "Retired")
  /\ heartbeats' = [heartbeats EXCEPT ![a] = @ \ {t}]

HeartbeatCancelled(a, t) ==
  /\ t.cancelled
  /\ heartbeats' = [heartbeats EXCEPT ![a] = @ \ {t}]
  /\ UNCHANGED wire

Heartbeat(a) ==
  /\ \E t \in heartbeats[a] :
       HeartbeatBeat(a, t) \/ HeartbeatLast(a, t) \/ HeartbeatCancelled(a, t)
  /\ UNCHANGED <<up, shutdown, aborted, pc, outcome, connected, status, recent, auditVars>>

-----------------------------------------------------------------------------
(* Supervisor.run and the signal handler.                                  *)

(* A slip: the agent's shutdown() is not in a finally.                     *)
CancelledAtAnyPlace(place) ==
  CASE place \in {"connect", "ended"} -> "ended"
    [] place = "join_cancelled" -> "join_cancelled"
    [] OTHER -> "disconnect"

(* A slip: an error handler of init and run that also catches the          *)
(* cancellation.                                                           *)
CancelledUnlessServing(place) ==
  CASE place \in {"connect", "ended"} -> "ended"
    [] place \in Serving \cup {"join_cancelled"} -> place
    [] OTHER -> "disconnect"

(* Where a loop suspended at a place goes when it is cancelled there: one  *)
(* that awaits the heartbeat task it has cancelled itself takes the        *)
(* cancellation for that task's and goes on.                               *)
CancelledAt(place) ==
  CASE place \in {"connect", "ended"} -> "ended"
    [] place \in Serving -> "close_cancelled"
    [] place = "join_cancelled" -> "join_cancelled"
    [] OTHER -> "disconnect"

(* One loop has raised: the group cancels the others, once.  A drain that  *)
(* is cancelled may go on or leave its connection open.                    *)
GroupAborts ==
  /\ up
  /\ ~aborted
  /\ \E a \in Agent : pc[a] = "ended" /\ outcome[a] = "raised"
  /\ aborted' = TRUE
  /\ \E torn \in SUBSET {a \in Agent : pc[a] = "disconnect"} :
       /\ pc' = [a \in Agent |-> IF a \in torn THEN "ended" ELSE CancelledAt(pc[a])]
       /\ outcome' = [a \in Agent |->
            IF a \in torn \/ CancelledAt(pc[a]) # pc[a]
              THEN "cancelled" ELSE outcome[a]]
  /\ heartbeats' = [a \in Agent |->
       IF pc[a] = "join" THEN Cancel(heartbeats[a]) ELSE heartbeats[a]]
  /\ closings' = [a \in Agent |->
       IF pc'[a] = "close_cancelled" THEN closings[a] + 1 ELSE closings[a]]
  /\ UNCHANGED <<up, shutdown, connected, status, recent, wire, instance, failures>>

(* The group is left once every loop has ended; what tasks remain are      *)
(* cancelled with the event loop.                                          *)
ProcessEnds ==
  /\ up
  /\ \A a \in Agent : pc[a] = "ended"
  /\ aborted \/ \A a \in Agent : outcome[a] # "raised"
  /\ up' = FALSE
  /\ heartbeats' = [a \in Agent |-> {}]
  /\ UNCHANGED <<shutdown, aborted, pc, outcome, connected, status, recent, wire, auditVars>>

FirstSignal ==
  /\ up
  /\ ~shutdown
  /\ shutdown' = TRUE
  /\ UNCHANGED <<up, aborted, pc, outcome, connected, status, heartbeats, recent, wire, auditVars>>

SecondSignal ==
  /\ up
  /\ shutdown
  /\ up' = FALSE
  /\ heartbeats' = [a \in Agent |-> {}]
  /\ pc' = [a \in Agent |-> "ended"]
  /\ outcome' = [a \in Agent |-> IF pc[a] = "ended" THEN outcome[a] ELSE "killed"]
  /\ UNCHANGED <<shutdown, aborted, connected, status, recent, wire, auditVars>>

-----------------------------------------------------------------------------
LoopStep(a) ==
  \/ Connect(a)
  \/ InitReturns(a) \/ RunReturns(a) \/ Fails(a)
  \/ CloseClean(a) \/ CloseFailed(a) \/ CloseCancelled(a)
  \/ Join(a) \/ JoinCancelled(a) \/ BackoffEnds(a)
  \/ Disconnect(a)

Next ==
  \/ \E a \in Agent : LoopStep(a) \/ Heartbeat(a)
  \/ GroupAborts \/ ProcessEnds
  \/ FirstSignal \/ SecondSignal

Spec == Init /\ [][Next]_vars

(* The event loop runs every task that is ready; init and shutdown return. *)
(* A run returns once the shutdown is set and, for it to look, a message   *)
(* has come: on the topics of a Silent agent none has to.  Nothing has to  *)
(* fail, and nobody has to ask for the shutdown.                           *)
Progress(a) ==
  \/ Connect(a) \/ InitReturns(a)
  \/ shutdown /\ a \notin Silent /\ RunReturns(a)
  \/ CloseClean(a) \/ CloseFailed(a) \/ CloseCancelled(a)
  \/ Join(a) \/ JoinCancelled(a) \/ BackoffEnds(a)
  \/ Disconnect(a)

FairSpec ==
  /\ Spec
  /\ \A a \in Agent : WF_vars(Progress(a)) /\ WF_vars(Heartbeat(a))
  /\ WF_vars(GroupAborts) /\ WF_vars(ProcessEnds)
=============================================================================
