----------------------------- MODULE Supervisor -----------------------------
(***************************************************************************)
(* The Rust agent runtime (core/obsidian-agent-rs/src/supervisor.rs and    *)
(* heartbeat.rs): one supervision loop per agent, with a restart budget    *)
(* over a sliding window, one heartbeat task per agent instance, and a     *)
(* shutdown token that all of them share.                                  *)
(*                                                                         *)
(* Time is a discrete clock; a timer may fire late, never early.           *)
(***************************************************************************)
EXTENDS Lifecycle, Integers, Sequences

CONSTANTS
  Agent,        \* the registered agents
  Finite,       \* those whose run may return Ok before the shutdown
  Panicking,    \* those whose code may panic
  Unreachable,  \* those whose NATS connection may be refused
  Budget,       \* restart_budget
  Window,       \* restart_window
  Backoff,      \* restart_backoff
  MaxTime,      \* bound on the time of failures
  None          \* no beat

ASSUME TimeAssumption ==
  /\ Budget \in Nat /\ Window \in Nat /\ MaxTime \in Nat
  /\ Backoff \in Nat \ {0}

ASSUME AgentAssumption ==
  Finite \subseteq Agent /\ Panicking \subseteq Agent /\ Unreachable \subseteq Agent

ASSUME BeatAssumption == None \notin State

VARIABLES
  now,        \* the monotonic clock
  shutdown,   \* the shutdown token is cancelled
  signals,    \* the signals the handler has received
  pc,         \* where each supervision loop is
  status,     \* the status handle of the current instance
  heartbeats, \* the heartbeat tasks of each agent that still exist
  history,    \* restart_history, the ring buffer of failure times
  wire,       \* the last heartbeat published for each agent
  instance,   \* history: how many instances were created
  closed,     \* history: how many of them had shutdown() run to its end
  failures    \* history: the times of all failures

clockVars == <<now, shutdown, signals>>
auditVars == <<instance, closed, failures>>
vars == <<now, shutdown, signals, pc, status, heartbeats, history, wire,
          instance, closed, failures>>

(* An agent's code is running in init, run and shutdown.                   *)
Alive == {"init", "run", "closing", "closing_failed"}

Ended == {"exited", "retired", "unconnected", "panicked", "killed"}

Init ==
  /\ now = 0
  /\ shutdown = FALSE
  /\ signals = 0
  /\ pc = [a \in Agent |-> "connect"]
  /\ status = [a \in Agent |-> "Booting"]
  /\ heartbeats = [a \in Agent |-> {}]
  /\ history = [a \in Agent |-> <<>>]
  /\ wire = [a \in Agent |-> [instance |-> 0, status |-> None]]
  /\ instance = [a \in Agent |-> 0]
  /\ closed = [a \in Agent |-> 0]
  /\ failures = [a \in Agent |-> <<>>]

Goto(a, place) == pc' = [pc EXCEPT ![a] = place]

-----------------------------------------------------------------------------
(* agent_supervisor_loop                                                   *)

Connect(a) ==
  /\ pc[a] = "connect"
  /\ \/ Goto(a, "loop")
     \/ a \in Unreachable /\ Goto(a, "unconnected")
  /\ UNCHANGED <<clockVars, status, heartbeats, history, wire, auditVars>>

(* The top of the loop: nothing is created once the shutdown is seen.      *)
LoopExit(a) ==
  /\ pc[a] = "loop"
  /\ shutdown
  /\ Goto(a, "exited")
  /\ UNCHANGED <<clockVars, status, heartbeats, history, wire, auditVars>>

LoopCreate(a) ==
  /\ pc[a] = "loop"
  /\ ~shutdown
  /\ instance' = [instance EXCEPT ![a] = @ + 1]
  /\ heartbeats' = [heartbeats EXCEPT ![a] = @ \cup
       {[instance |-> instance[a] + 1, beat |-> None, aborted |-> FALSE]}]
  /\ status' = [status EXCEPT ![a] = "Booting"]
  /\ Goto(a, "init")
  /\ UNCHANGED <<clockVars, history, wire, closed, failures>>

InitOk(a) ==
  /\ pc[a] = "init"
  /\ status' = [status EXCEPT ![a] = "Active"]
  /\ Goto(a, "run")
  /\ UNCHANGED <<clockVars, heartbeats, history, wire, auditVars>>

(* init or run returns an error.                                           *)
Fails(a) ==
  /\ pc[a] \in {"init", "run"}
  /\ now < MaxTime
  /\ Goto(a, "closing_failed")
  /\ UNCHANGED <<clockVars, status, heartbeats, history, wire, auditVars>>

RunOk(a) ==
  /\ pc[a] = "run"
  /\ shutdown \/ a \in Finite
  /\ Goto(a, "closing")
  /\ UNCHANGED <<clockVars, status, heartbeats, history, wire, auditVars>>

(* A panic unwinds the loop's own task; the heartbeat task is detached.    *)
Panics(a) ==
  /\ a \in Panicking
  /\ pc[a] \in Alive
  /\ Goto(a, "panicked")
  /\ UNCHANGED <<clockVars, status, heartbeats, history, wire, auditVars>>

(* A slip: a failure exactly one window old is dropped.                    *)
ExpireAtWindow(times, time) ==
  LET front == CHOOSE i \in DOMAIN times :
        /\ time - times[i] < Window
        /\ \A j \in DOMAIN times : j < i => time - times[j] >= Window
  IN SubSeq(times, front, Len(times))

(* push_back, then pop_front everything older than the window.             *)
Expire(times, time) ==
  LET front == CHOOSE i \in DOMAIN times :
        /\ time - times[i] <= Window
        /\ \A j \in DOMAIN times : j < i => time - times[j] > Window
  IN SubSeq(times, front, Len(times))

Recorded(a) == Expire(Append(history[a], now), now)

(* A slip: the old instance's task goes on.                                *)
AbortNothing(tasks) == tasks

(* abort() drops a task at its next await; a poll that has read the status *)
(* may still publish it.                                                   *)
Abort(tasks) == {[t EXCEPT !.aborted = TRUE] : t \in {u \in tasks : u.beat # None}}

(* A slip: one failure too few.                                            *)
ExceedsBudgetEarly(a) == Len(Recorded(a)) >= Budget

ExceedsBudget(a) == Len(Recorded(a)) > Budget

(* shutdown() returns (its own error is ignored) after a failure: the      *)
(* heartbeat is aborted and the budget consulted.                          *)
CloseFailed(a) ==
  /\ pc[a] = "closing_failed"
  /\ closed' = [closed EXCEPT ![a] = @ + 1]
  /\ heartbeats' = [heartbeats EXCEPT ![a] = Abort(@)]
  /\ failures' = [failures EXCEPT ![a] = Append(@, now)]
  /\ history' = [history EXCEPT ![a] = Recorded(a)]
  /\ Goto(a, IF ExceedsBudget(a) THEN "retired" ELSE "backoff")
  /\ UNCHANGED <<clockVars, status, wire, instance>>

(* A slip: shutdown() is called on the failure path only.                  *)
CloseCleanWithoutShutdown(a) ==
  /\ pc[a] = "closing"
  /\ Goto(a, "join_heartbeat")
  /\ UNCHANGED <<clockVars, status, heartbeats, history, wire, auditVars>>

(* shutdown() returns after a clean run: the loop joins the heartbeat.     *)
CloseClean(a) ==
  /\ pc[a] = "closing"
  /\ closed' = [closed EXCEPT ![a] = @ + 1]
  /\ Goto(a, "join_heartbeat")
  /\ UNCHANGED <<clockVars, status, heartbeats, history, wire, instance, failures>>

JoinHeartbeat(a) ==
  /\ pc[a] = "join_heartbeat"
  /\ \A t \in heartbeats[a] : t.aborted
  /\ Goto(a, "exited")
  /\ UNCHANGED <<clockVars, status, heartbeats, history, wire, auditVars>>

(* select!, biased to the shutdown.                                        *)
WakeAt(a) == history[a][Len(history[a])] + Backoff

BackoffExit(a) ==
  /\ pc[a] = "backoff"
  /\ shutdown
  /\ Goto(a, "exited")
  /\ UNCHANGED <<clockVars, status, heartbeats, history, wire, auditVars>>

(* A slip: the sleep only ends with the shutdown.                          *)
BackoffEndsWithShutdown(a) ==
  /\ pc[a] = "backoff"
  /\ shutdown
  /\ now >= WakeAt(a)
  /\ Goto(a, "loop")
  /\ UNCHANGED <<clockVars, status, heartbeats, history, wire, auditVars>>

BackoffEnds(a) ==
  /\ pc[a] = "backoff"
  /\ ~shutdown
  /\ now >= WakeAt(a)
  /\ Goto(a, "loop")
  /\ UNCHANGED <<clockVars, status, heartbeats, history, wire, auditVars>>

-----------------------------------------------------------------------------
(* run_heartbeat_loop: a tick reads the status and publishes it; once the  *)
(* shutdown is seen, one last beat says Retired and the task returns.      *)

Beats(a, t, beat) ==
  /\ heartbeats' = [heartbeats EXCEPT ![a] = (@ \ {t}) \cup {[t EXCEPT !.beat = beat]}]
  /\ UNCHANGED <<clockVars, pc, status, history, wire, auditVars>>

HeartbeatTick(a, t) ==
  /\ t.beat = None
  /\ ~shutdown
  /\ Beats(a, t, status[a])

HeartbeatLast(a, t) ==
  /\ t.beat = None
  /\ shutdown
  /\ Beats(a, t, "Retired")

(* A slip: the last beat does not end the task.                            *)
HeartbeatPublishGoesOn(a, t) ==
  /\ t.beat # None
  /\ \/ wire' = [wire EXCEPT ![a] = [instance |-> t.instance, status |-> t.beat]]
     \/ UNCHANGED wire
  /\ heartbeats' = [heartbeats EXCEPT ![a] =
       (@ \ {t}) \cup {[u EXCEPT !.beat = None] : u \in {v \in {t} : ~v.aborted}}]
  /\ UNCHANGED <<clockVars, pc, status, history, auditVars>>

(* A publish that fails is logged; an aborted task ends with it.           *)
HeartbeatPublish(a, t) ==
  /\ t.beat # None
  /\ \/ wire' = [wire EXCEPT ![a] = [instance |-> t.instance, status |-> t.beat]]
     \/ UNCHANGED wire
  /\ heartbeats' = [heartbeats EXCEPT ![a] =
       (@ \ {t}) \cup {[u EXCEPT !.beat = None] :
                         u \in {v \in {t} : ~v.aborted /\ v.beat # "Retired"}}]
  /\ UNCHANGED <<clockVars, pc, status, history, auditVars>>

-----------------------------------------------------------------------------
(* spawn_signal_handler, and an external owner of the token.               *)

FirstSignal ==
  /\ signals = 0
  /\ signals' = 1
  /\ shutdown' = TRUE
  /\ UNCHANGED <<now, pc, status, heartbeats, history, wire, auditVars>>

CancelToken ==
  /\ ~shutdown
  /\ shutdown' = TRUE
  /\ UNCHANGED <<now, signals, pc, status, heartbeats, history, wire, auditVars>>

(* The process exits: every task is gone.                                  *)
SecondSignal ==
  /\ signals = 1
  /\ \E a \in Agent : pc[a] \notin Ended
  /\ signals' = 2
  /\ pc' = [a \in Agent |-> IF pc[a] \in Ended THEN pc[a] ELSE "killed"]
  /\ heartbeats' = [a \in Agent |-> {}]
  /\ UNCHANGED <<now, shutdown, status, history, wire, auditVars>>

(* The clock passes MaxTime only to let a backoff end.  A poll that was    *)
(* running when its task was aborted takes less than one unit of time.     *)
Tick ==
  /\ now < MaxTime \/ \E a \in Agent : pc[a] = "backoff" /\ now < WakeAt(a)
  /\ \A a \in Agent : \A t \in heartbeats[a] : ~t.aborted
  /\ now' = now + 1
  /\ UNCHANGED <<shutdown, signals, pc, status, heartbeats, history, wire, auditVars>>

-----------------------------------------------------------------------------
Loop(a) ==
  \/ Connect(a)
  \/ LoopExit(a) \/ LoopCreate(a)
  \/ InitOk(a) \/ Fails(a) \/ RunOk(a) \/ Panics(a)
  \/ CloseFailed(a) \/ CloseClean(a) \/ JoinHeartbeat(a)
  \/ BackoffExit(a) \/ BackoffEnds(a)

Heartbeat(a) ==
  \E t \in heartbeats[a] :
    HeartbeatTick(a, t) \/ HeartbeatLast(a, t) \/ HeartbeatPublish(a, t)

Next ==
  \/ \E a \in Agent : Loop(a) \/ Heartbeat(a)
  \/ FirstSignal \/ CancelToken \/ SecondSignal
  \/ Tick

Spec == Init /\ [][Next]_vars

(* The executor polls a task that can run, and time passes.  The agents    *)
(* keep their contract: init and shutdown return, and run returns once the *)
(* shutdown is seen.  A run may go on for ever without failing, and nobody *)
(* has to ask for the shutdown.                                            *)
Progress(a) ==
  \/ Connect(a) \/ LoopExit(a) \/ LoopCreate(a) \/ InitOk(a)
  \/ shutdown /\ RunOk(a)
  \/ CloseFailed(a) \/ CloseClean(a) \/ JoinHeartbeat(a)
  \/ BackoffExit(a) \/ BackoffEnds(a)

FairSpec ==
  /\ Spec
  /\ \A a \in Agent : WF_vars(Progress(a)) /\ WF_vars(Heartbeat(a))
  /\ WF_vars(Tick)
=============================================================================
