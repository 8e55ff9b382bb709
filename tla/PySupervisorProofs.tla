--------------------------- MODULE PySupervisorProofs ---------------------------
(***************************************************************************)
(* Proofs about the Python agent runtime: for any agents, budget and       *)
(* number of failures, whatever the order of failures, cancellations and   *)
(* signals.                                                                *)
(***************************************************************************)
EXTENDS PySupervisorProps, TLAPS

(* The loop has decided how it ends exactly when it is past its last       *)
(* instance, or its cancelled instance is closing; a killed one is over.   *)
OutcomeOK(a) ==
  /\ outcome[a] = None <=> pc[a] \notin {"close_cancelled", "disconnect", "ended"}
  /\ outcome[a] = "killed" => pc[a] = "ended"

(* Each instance is closed once, and the one that serves is not yet.       *)
ClosingsOK(a) ==
  outcome[a] # "killed" =>
    instance[a] = closings[a] + (IF pc[a] \in Serving THEN 1 ELSE 0)

(* There is one heartbeat task at most, none where the loop would create   *)
(* one, nor after a failure too many or a clean return.                    *)
HeartbeatsOK(a) ==
  /\ \A s, t \in heartbeats[a] : s = t
  /\ pc[a] \in {"connect", "backoff"} \/ outcome[a] = "returned" => heartbeats[a] = {}
  /\ recent[a] > Budget => heartbeats[a] = {} /\ pc[a] \in {"disconnect", "ended"}
  /\ \A t \in heartbeats[a] : outcome[a] = None => t.instance = instance[a]

(* A loop that a cancellation may miss has had a failure, as has one that  *)
(* a cancellation has missed.                                              *)
FailuresOK(a) ==
  /\ pc[a] \in {"close_failed", "join_cancelled", "backoff"} => failures[a] > 0
  /\ aborted /\ outcome[a] = None => failures[a] > 0

(* The beats that may still come are of the last one's instance or a later *)
(* one, and after a Retired there are none.                                *)
WireOK(a) ==
  /\ status[a] # "Retired"
  /\ outcome[a] = None => wire[a].instance <= instance[a]
  /\ \A t \in heartbeats[a] : wire[a].instance <= t.instance
  /\ wire[a].status = "Retired" => shutdown /\ heartbeats[a] = {}

AgentOK(a) ==
  OutcomeOK(a) /\ ClosingsOK(a) /\ HeartbeatsOK(a) /\ FailuresOK(a) /\ WireOK(a)

PyInv == TypeOK /\ \A a \in Agent : AgentOK(a)

-----------------------------------------------------------------------------
(* The types.                                                              *)

(* What the supervisor starts with is of the types.                        *)
LEMMA InitTyped == Init => TypeOK
<1> SUFFICES ASSUME Init PROVE TypeOK
  OBVIOUS
<1>1. /\ up \in BOOLEAN /\ shutdown \in BOOLEAN /\ aborted \in BOOLEAN
      /\ connected \in [Agent -> BOOLEAN]
  BY Zenon DEF Init
<1>2. pc \in [Agent -> Place]
  BY DEF Init, Place
<1>3. outcome \in [Agent -> Outcome \cup {None}]
  BY DEF Init
<1>4. status \in [Agent -> State]
  BY DEF Init, State
<1>5. heartbeats \in [Agent -> SUBSET Task]
  BY DEF Init
<1>6. [instance |-> 0, status |-> None] \in [instance : Nat, status : State \cup {None}]
  OBVIOUS
<1>7. wire \in [Agent -> [instance : Nat, status : State \cup {None}]]
  BY <1>6 DEF Init
<1>8. /\ recent \in [Agent -> Nat] /\ instance \in [Agent -> Nat]
      /\ closings \in [Agent -> Nat] /\ failures \in [Agent -> Nat]
  BY DEF Init
<1> QED BY <1>1, <1>2, <1>3, <1>4, <1>5, <1>7, <1>8 DEF TypeOK

(* A cancelled task is a task.                                             *)
LEMMA CancelTyped ==
  ASSUME NEW tasks \in SUBSET Task
  PROVE  Cancel(tasks) \in SUBSET Task
BY DEF Cancel, Task

(* The top of the while keeps the types.                                   *)
LEMMA LoopTyped ==
  ASSUME TypeOK, NEW a \in Agent, Loop(a)
  PROVE  /\ pc' \in [Agent -> Place]
         /\ outcome' \in [Agent -> Outcome \cup {None}]
         /\ status' \in [Agent -> State]
         /\ heartbeats' \in [Agent -> SUBSET Task]
         /\ instance' \in [Agent -> Nat]
<1>1. instance[a] + 1 \in Nat
  BY DEF TypeOK
<1>2. [instance |-> instance[a] + 1, cancelled |-> FALSE] \in Task
  BY <1>1 DEF Task
<1>3. heartbeats' \in [Agent -> SUBSET Task]
  <2>1. heartbeats[a] \cup {[instance |-> instance[a] + 1, cancelled |-> FALSE]}
          \in SUBSET Task
    BY <1>2 DEF TypeOK
  <2>2. CASE UNCHANGED heartbeats
    BY <2>2 DEF TypeOK
  <2>3. CASE heartbeats' = [heartbeats EXCEPT ![a] = @ \cup
               {[instance |-> instance[a] + 1, cancelled |-> FALSE]}]
    BY <2>1, <2>3 DEF TypeOK
  <2> QED BY <2>2, <2>3 DEF Loop
<1>4. /\ pc' \in [Agent -> Place]
      /\ outcome' \in [Agent -> Outcome \cup {None}]
  BY DEF TypeOK, Loop, Leave, Goto, Place, Serving, Outcome
<1>5. status' \in [Agent -> State]
  <2>1. "Booting" \in State
    BY DEF State
  <2> QED BY <2>1 DEF TypeOK, Loop
<1>6. instance' \in [Agent -> Nat]
  BY <1>1 DEF TypeOK, Loop
<1> QED BY <1>3, <1>4, <1>5, <1>6

(* As does every step of a supervision loop.                               *)
LEMMA LoopStepTyped ==
  ASSUME TypeOK, NEW a \in Agent, LoopStep(a)
  PROVE  TypeOK'
<1>1. CASE Connect(a)
  <2>1. connected' \in [Agent -> BOOLEAN]
    BY <1>1 DEF TypeOK, Connect
  <2>2. CASE Loop(a)
    BY <1>1, <2>1, <2>2, LoopTyped DEF TypeOK, Connect, auditVars
  <2>3. CASE /\ outcome' = [outcome EXCEPT ![a] = "raised"]
             /\ Goto(a, "ended")
             /\ UNCHANGED <<connected, status, heartbeats, instance>>
    BY <1>1, <2>3 DEF TypeOK, Connect, Goto, Place, Outcome
  <2> QED BY <1>1, <2>2, <2>3 DEF Connect
<1>2. CASE BackoffEnds(a)
  BY <1>2, LoopTyped DEF TypeOK, BackoffEnds
<1>3. CASE InitReturns(a)
  BY <1>3 DEF TypeOK, InitReturns, Goto, Place, Serving, State, auditVars
<1>4. CASE RunReturns(a)
  BY <1>4 DEF TypeOK, RunReturns, Goto, Place
<1>5. CASE Fails(a)
  BY <1>5 DEF TypeOK, Fails, Goto, Place
<1>6. CASE CloseClean(a) \/ CloseCancelled(a)
  BY <1>6 DEF TypeOK, CloseClean, CloseCancelled, Goto, Place, auditVars
<1>7. CASE CloseFailed(a)
  <2>1. heartbeats' \in [Agent -> SUBSET Task]
    BY <1>7, CancelTyped DEF TypeOK, CloseFailed
  <2> QED BY <1>7, <2>1 DEF TypeOK, CloseFailed, Goto, Place, auditVars
<1>8. CASE Join(a)
  BY <1>8 DEF TypeOK, Join, Leave, Goto, Place, Outcome, auditVars
<1>9. CASE JoinCancelled(a)
  <2>1. PICK count \in Counts(a) :
          /\ recent' = [recent EXCEPT ![a] = count]
          /\ IF count > Budget
               THEN Leave(a, "raised")
               ELSE Goto(a, "backoff") /\ UNCHANGED outcome
    BY <1>9 DEF JoinCancelled
  <2>2. count \in Nat
    BY DEF Counts, TypeOK
  <2>3. recent' \in [Agent -> Nat]
    BY <2>1, <2>2 DEF TypeOK
  <2>4. pc' \in [Agent -> Place] /\ outcome' \in [Agent -> Outcome \cup {None}]
    BY <2>1 DEF TypeOK, Leave, Goto, Place, Outcome
  <2> QED BY <1>9, <2>3, <2>4 DEF TypeOK, JoinCancelled, auditVars
<1>10. CASE Disconnect(a)
  <2>1. connected' \in [Agent -> BOOLEAN] /\ outcome' \in [Agent -> Outcome \cup {None}]
    BY <1>10 DEF TypeOK, Disconnect, Outcome
  <2> QED BY <1>10, <2>1 DEF TypeOK, Disconnect, Goto, Place, auditVars
<1> QED BY <1>1, <1>2, <1>3, <1>4, <1>5, <1>6, <1>7, <1>8, <1>9, <1>10 DEF LoopStep

(* Every step of a heartbeat task.                                         *)
LEMMA HeartbeatTyped ==
  ASSUME TypeOK, NEW a \in Agent, Heartbeat(a)
  PROVE  TypeOK'
<1>1. PICK t \in heartbeats[a] :
        HeartbeatBeat(a, t) \/ HeartbeatLast(a, t) \/ HeartbeatCancelled(a, t)
  BY DEF Heartbeat
<1>2. t \in Task /\ t.instance \in Nat
  BY DEF TypeOK, Task
<1>3. ASSUME NEW beat \in State, Publish(a, t, beat)
      PROVE  wire' \in [Agent -> [instance : Nat, status : State \cup {None}]]
  BY <1>2, <1>3 DEF Publish, TypeOK
<1>4. status[a] \in State /\ "Retired" \in State
  BY DEF TypeOK, State
<1>5. wire' \in [Agent -> [instance : Nat, status : State \cup {None}]]
  BY <1>1, <1>3, <1>4 DEF HeartbeatBeat, HeartbeatLast, HeartbeatCancelled, TypeOK
<1>6. heartbeats' \in [Agent -> SUBSET Task]
  BY <1>1 DEF HeartbeatBeat, HeartbeatLast, HeartbeatCancelled, TypeOK
<1> QED BY <1>5, <1>6 DEF Heartbeat, TypeOK, auditVars

(* The cancellation of the group.                                          *)
LEMMA GroupAbortsTyped ==
  ASSUME TypeOK, GroupAborts
  PROVE  TypeOK'
<1>1. PICK torn \in SUBSET {a \in Agent : pc[a] = "disconnect"} :
        /\ pc' = [a \in Agent |-> IF a \in torn THEN "ended" ELSE CancelledAt(pc[a])]
        /\ outcome' = [a \in Agent |->
             IF a \in torn \/ CancelledAt(pc[a]) # pc[a] THEN "cancelled" ELSE outcome[a]]
  BY DEF GroupAborts
<1>2. \A place : CancelledAt(place) \in Place
  BY DEF CancelledAt, Place, Serving
<1>3. pc' \in [Agent -> Place] /\ outcome' \in [Agent -> Outcome \cup {None}]
  BY <1>1, <1>2 DEF TypeOK, Place, Outcome
<1>4. heartbeats' \in [Agent -> SUBSET Task]
  BY CancelTyped DEF TypeOK, GroupAborts
<1>5. closings' \in [Agent -> Nat]
  BY DEF TypeOK, GroupAborts
<1> QED BY <1>3, <1>4, <1>5 DEF TypeOK, GroupAborts

(* And every step of the process.                                          *)
LEMMA StepTyped ==
  ASSUME TypeOK, [Next]_vars
  PROVE  TypeOK'
<1>1. CASE ProcessEnds
  BY <1>1 DEF TypeOK, ProcessEnds, auditVars
<1>2. CASE FirstSignal
  BY <1>2 DEF TypeOK, FirstSignal, auditVars
<1>3. CASE SecondSignal
  BY <1>3 DEF TypeOK, SecondSignal, Place, Outcome, auditVars
<1>4. CASE UNCHANGED vars
  BY <1>4 DEF TypeOK, vars
<1> QED BY <1>1, <1>2, <1>3, <1>4, LoopStepTyped, HeartbeatTyped, GroupAbortsTyped DEF Next

-----------------------------------------------------------------------------
(* The agent that takes the step.                                          *)

(* To cancel the tasks of an agent leaves one what was one, of the same    *)
(* instance.                                                               *)
LEMMA CancelOne ==
  ASSUME NEW tasks \in SUBSET Task
  PROVE  /\ (\A s, t \in tasks : s = t) => \A s, t \in Cancel(tasks) : s = t
         /\ \A t \in Cancel(tasks) : \E s \in tasks : t.instance = s.instance
         /\ tasks = {} => Cancel(tasks) = {}
<1>1. ASSUME NEW t \in Cancel(tasks)
      PROVE  \E s \in tasks : t = [s EXCEPT !.cancelled = TRUE] /\ t.instance = s.instance
  BY <1>1 DEF Cancel, Task
<1> QED BY <1>1

(* The invariant holds when the supervisor starts.                         *)
LEMMA InitInv == Init => PyInv
<1> SUFFICES ASSUME Init PROVE PyInv
  OBVIOUS
<1>1. TypeOK
  BY InitTyped
<1>2. ASSUME NEW a \in Agent
      PROVE  AgentOK(a)
  <2>1. /\ pc[a] = "connect" /\ outcome[a] = None /\ status[a] = "Booting"
        /\ heartbeats[a] = {} /\ recent[a] = 0 /\ instance[a] = 0 /\ closings[a] = 0
        /\ wire[a] = [instance |-> 0, status |-> None] /\ ~aborted
    BY DEF Init
  <2>2. None # "killed" /\ None # "Retired" /\ None # "returned"
    BY PyAssumption DEF Outcome, State
  <2>3. OutcomeOK(a) /\ ClosingsOK(a) /\ FailuresOK(a)
    BY <2>1, <2>2 DEF OutcomeOK, ClosingsOK, FailuresOK, Serving
  <2>4. HeartbeatsOK(a) /\ WireOK(a)
    BY <2>1, <2>2, PyAssumption DEF HeartbeatsOK, WireOK
  <2> QED BY <2>3, <2>4 DEF AgentOK
<1> QED BY <1>1, <1>2 DEF PyInv

(* The top of the while, for the agent whose loop is there.                *)
LEMMA LoopInv ==
  ASSUME TypeOK, NEW a \in Agent, AgentOK(a), pc[a] \in {"connect", "backoff"}, Loop(a),
         UNCHANGED <<shutdown, aborted, recent, wire, closings, failures>>
  PROVE  AgentOK(a)'
<1>1. /\ outcome[a] = None /\ heartbeats[a] = {} /\ instance[a] = closings[a]
      /\ recent[a] <= Budget /\ wire[a].instance <= instance[a]
  BY PyAssumption DEF AgentOK, OutcomeOK, ClosingsOK, HeartbeatsOK, WireOK, TypeOK, Serving, Outcome
<1>2. instance[a] \in Nat /\ wire[a].instance \in Nat /\ recent[a] \in Nat
  BY DEF TypeOK
<1>3. None \notin Outcome
  BY PyAssumption
<1>4. CASE shutdown /\ Leave(a, "returned") /\ UNCHANGED <<status, heartbeats, instance>>
  <2>1. /\ pc'[a] = "disconnect" /\ outcome'[a] = "returned" /\ heartbeats'[a] = {}
        /\ status'[a] = status[a] /\ instance'[a] = instance[a] /\ shutdown'
    BY <1>1, <1>4 DEF Leave, Goto, TypeOK
  <2>2. OutcomeOK(a)' /\ ClosingsOK(a)' /\ FailuresOK(a)'
    BY <1>1, <1>3, <2>1 DEF AgentOK, OutcomeOK, ClosingsOK, FailuresOK, Serving, Outcome
  <2>3. HeartbeatsOK(a)' /\ WireOK(a)'
    BY <1>1, <1>2, <1>3, <2>1 DEF AgentOK, HeartbeatsOK, WireOK, Outcome
  <2> QED BY <2>2, <2>3 DEF AgentOK
<1>5. CASE ~shutdown /\ ~(shutdown /\ Leave(a, "returned"))
  <2>1. /\ heartbeats'[a] = {[instance |-> instance[a] + 1, cancelled |-> FALSE]}
        /\ status'[a] = "Booting"
    BY <1>1, <1>5 DEF Loop, TypeOK
  <2>2. \/ pc'[a] = "init" /\ outcome'[a] = None /\ instance'[a] = instance[a] + 1
        \/ pc'[a] = "disconnect" /\ outcome'[a] = "raised" /\ instance'[a] = instance[a]
    BY <1>1, <1>5 DEF Loop, Leave, Goto, TypeOK
  <2>3. OutcomeOK(a)' /\ FailuresOK(a)'
    BY <1>1, <1>3, <2>2 DEF AgentOK, OutcomeOK, FailuresOK, Outcome
  <2>4. ClosingsOK(a)'
    BY <1>1, <1>2, <2>2 DEF ClosingsOK, Serving, TypeOK
  <2>5. HeartbeatsOK(a)'
    BY <1>1, <1>2, <1>3, <2>1, <2>2, PyAssumption DEF HeartbeatsOK, Outcome
  <2>6. WireOK(a)'
    BY <1>1, <1>2, <1>3, <1>5, <2>1, <2>2 DEF AgentOK, WireOK, Outcome
  <2> QED BY <2>3, <2>4, <2>5, <2>6 DEF AgentOK
<1> QED BY <1>4, <1>5 DEF Loop

(* Every step of the agent's own loop, one place after the other.          *)
LEMMA LoopStepInv ==
  ASSUME TypeOK, NEW a \in Agent, AgentOK(a), LoopStep(a)
  PROVE  AgentOK(a)'
<1> USE DEF AgentOK
<1>t. /\ instance[a] \in Nat /\ closings[a] \in Nat /\ failures[a] \in Nat
      /\ recent[a] \in Nat /\ wire[a].instance \in Nat
  BY DEF TypeOK
<1>n. None \notin Outcome
  BY PyAssumption
<1>1. CASE Connect(a)
  <2>1. CASE Loop(a)
    BY <1>1, <2>1, LoopInv DEF Connect
  <2>2. CASE /\ outcome' = [outcome EXCEPT ![a] = "raised"]
             /\ Goto(a, "ended")
             /\ UNCHANGED <<connected, status, heartbeats, instance>>
    <3>1. pc'[a] = "ended" /\ outcome'[a] = "raised" /\ heartbeats[a] = {} /\ recent[a] <= Budget
      BY <1>1, <1>t, <2>2, PyAssumption DEF Connect, Goto, TypeOK, HeartbeatsOK
    <3> QED BY <1>1, <1>t, <1>n, <2>2, <3>1, PyAssumption
            DEF Connect, TypeOK, OutcomeOK, ClosingsOK, HeartbeatsOK, FailuresOK, WireOK, Serving,
                Outcome
  <2> QED BY <1>1, <2>1, <2>2 DEF Connect
<1>2. CASE InitReturns(a)
  <2>1. pc[a] = "init" /\ pc'[a] = "run" /\ status'[a] = "Active"
    BY <1>2 DEF InitReturns, Goto, TypeOK
  <2> QED BY <1>2, <1>t, <2>1
          DEF InitReturns, OutcomeOK, ClosingsOK, HeartbeatsOK, FailuresOK, WireOK, Serving, auditVars
<1>3. CASE RunReturns(a)
  <2>1. pc[a] = "run" /\ pc'[a] = "close_clean" /\ closings'[a] = closings[a] + 1
    BY <1>3 DEF RunReturns, Goto, TypeOK
  <2> QED BY <1>3, <1>t, <2>1
          DEF RunReturns, OutcomeOK, ClosingsOK, HeartbeatsOK, FailuresOK, WireOK, Serving
<1>4. CASE Fails(a)
  <2>1. /\ pc[a] \in Serving /\ pc'[a] = "close_failed"
        /\ closings'[a] = closings[a] + 1 /\ failures'[a] = failures[a] + 1
    BY <1>4 DEF Fails, Goto, TypeOK
  <2> QED BY <1>4, <1>t, <2>1
          DEF Fails, OutcomeOK, ClosingsOK, HeartbeatsOK, FailuresOK, WireOK, Serving
<1>5. CASE CloseClean(a)
  <2>1. pc[a] = "close_clean" /\ pc'[a] = "join"
    BY <1>5 DEF CloseClean, Goto, TypeOK
  <2> QED BY <1>5, <1>t, <2>1
          DEF CloseClean, OutcomeOK, ClosingsOK, HeartbeatsOK, FailuresOK, WireOK, Serving, auditVars
<1>6. CASE CloseFailed(a)
  <2>1. pc[a] = "close_failed" /\ pc'[a] = "join_cancelled" /\ heartbeats'[a] = Cancel(heartbeats[a])
    BY <1>6 DEF CloseFailed, Goto, TypeOK
  <2>2. OutcomeOK(a)' /\ ClosingsOK(a)' /\ FailuresOK(a)'
    BY <1>6, <1>t, <2>1 DEF CloseFailed, OutcomeOK, ClosingsOK, FailuresOK, Serving, auditVars
  <2>3. heartbeats[a] \in SUBSET Task
    BY DEF TypeOK
  <2>4. /\ (\A s, t \in heartbeats[a] : s = t) => \A s, t \in heartbeats'[a] : s = t
        /\ \A t \in heartbeats'[a] : \E s \in heartbeats[a] : t.instance = s.instance
        /\ heartbeats[a] = {} => heartbeats'[a] = {}
    BY <2>1, <2>3, CancelOne
  <2>5. /\ outcome'[a] = outcome[a] /\ recent'[a] = recent[a] /\ instance'[a] = instance[a]
        /\ wire'[a] = wire[a] /\ status'[a] = status[a] /\ shutdown' = shutdown
    BY <1>6 DEF CloseFailed, auditVars
  <2>6. HeartbeatsOK(a)'
    BY <2>1, <2>4, <2>5 DEF HeartbeatsOK
  <2>7. WireOK(a)'
    BY <2>4, <2>5 DEF WireOK
  <2> QED BY <2>2, <2>6, <2>7
<1>7. CASE CloseCancelled(a)
  <2>1. pc[a] = "close_cancelled" /\ pc'[a] = "disconnect"
    BY <1>7 DEF CloseCancelled, Goto, TypeOK
  <2> QED BY <1>7, <1>t, <2>1
          DEF CloseCancelled, OutcomeOK, ClosingsOK, HeartbeatsOK, FailuresOK, WireOK, Serving, auditVars
<1>8. CASE Join(a)
  <2>1. pc[a] = "join" /\ pc'[a] = "disconnect" /\ heartbeats[a] = {} /\ outcome'[a] = "returned"
    BY <1>8 DEF Join, Leave, Goto, TypeOK
  <2> QED BY <1>8, <1>t, <1>n, <2>1
          DEF Join, OutcomeOK, ClosingsOK, HeartbeatsOK, FailuresOK, WireOK, Serving, Outcome, auditVars
<1>9. CASE JoinCancelled(a)
  <2>1. PICK count \in Counts(a) :
          /\ recent' = [recent EXCEPT ![a] = count]
          /\ IF count > Budget
               THEN Leave(a, "raised")
               ELSE Goto(a, "backoff") /\ UNCHANGED outcome
    BY <1>9 DEF JoinCancelled
  <2>2. count \in Nat /\ recent'[a] = count /\ heartbeats[a] = {} /\ pc[a] = "join_cancelled"
    BY <1>9, <2>1 DEF Counts, TypeOK, JoinCancelled
  <2>3. \/ count > Budget /\ pc'[a] = "disconnect" /\ outcome'[a] = "raised"
        \/ count <= Budget /\ pc'[a] = "backoff" /\ outcome'[a] = outcome[a]
    BY <2>1, <2>2, PyAssumption DEF Leave, Goto, TypeOK
  <2>4. heartbeats'[a] = {}
    BY <1>9, <2>2 DEF JoinCancelled
  <2>5. OutcomeOK(a)' /\ ClosingsOK(a)' /\ FailuresOK(a)'
    BY <1>9, <1>t, <1>n, <2>2, <2>3
       DEF JoinCancelled, OutcomeOK, ClosingsOK, FailuresOK, Serving, Outcome, auditVars
  <2>6. HeartbeatsOK(a)'
    BY <2>2, <2>3, <2>4, PyAssumption DEF HeartbeatsOK
  <2>7. WireOK(a)'
    BY <1>9, <1>t, <1>n, <2>2, <2>3, <2>4
       DEF JoinCancelled, OutcomeOK, WireOK, Outcome, auditVars
  <2> QED BY <2>5, <2>6, <2>7
<1>10. CASE BackoffEnds(a)
  BY <1>10, LoopInv DEF BackoffEnds
<1>11. CASE Disconnect(a)
  <2>1. /\ pc[a] = "disconnect" /\ pc'[a] = "ended"
        /\ outcome'[a] = outcome[a] \/ outcome'[a] = "raised"
    BY <1>11 DEF Disconnect, Goto, TypeOK
  <2> QED BY <1>11, <1>t, <1>n, <2>1
          DEF Disconnect, OutcomeOK, ClosingsOK, HeartbeatsOK, FailuresOK, WireOK, Serving, Outcome,
              auditVars
<1> QED BY <1>1, <1>2, <1>3, <1>4, <1>5, <1>6, <1>7, <1>8, <1>9, <1>10, <1>11 DEF LoopStep

(* Every step of a heartbeat task of the agent.                            *)
LEMMA HeartbeatInv ==
  ASSUME TypeOK, NEW a \in Agent, AgentOK(a), Heartbeat(a)
  PROVE  AgentOK(a)'
<1>1. PICK t \in heartbeats[a] :
        HeartbeatBeat(a, t) \/ HeartbeatLast(a, t) \/ HeartbeatCancelled(a, t)
  BY DEF Heartbeat
<1>2. /\ t.instance \in Nat /\ wire[a].instance \in Nat /\ instance[a] \in Nat
      /\ heartbeats[a] = {t} /\ wire[a].instance <= t.instance
      /\ outcome[a] = None => t.instance = instance[a]
      /\ wire[a].status # "Retired" /\ status[a] # "Retired"
  BY DEF TypeOK, Task, AgentOK, HeartbeatsOK, WireOK
<1>3. /\ shutdown' = shutdown /\ aborted' = aborted
      /\ pc'[a] = pc[a] /\ outcome'[a] = outcome[a] /\ status'[a] = status[a]
      /\ recent'[a] = recent[a] /\ instance'[a] = instance[a] /\ closings'[a] = closings[a]
      /\ failures'[a] = failures[a]
  BY DEF Heartbeat, auditVars
<1>4. \/ /\ heartbeats'[a] = heartbeats[a]
         /\ wire'[a] = wire[a] \/ wire'[a] = [instance |-> t.instance, status |-> status[a]]
      \/ /\ heartbeats'[a] = {}
         /\ \/ wire'[a] = wire[a]
            \/ shutdown /\ wire'[a] = [instance |-> t.instance, status |-> "Retired"]
  BY <1>1, <1>2 DEF HeartbeatBeat, HeartbeatLast, HeartbeatCancelled, Publish, TypeOK
<1>5. OutcomeOK(a)' /\ ClosingsOK(a)' /\ FailuresOK(a)'
  BY <1>3 DEF AgentOK, OutcomeOK, ClosingsOK, FailuresOK
<1>6. HeartbeatsOK(a)'
  BY <1>2, <1>3, <1>4 DEF AgentOK, HeartbeatsOK
<1>7. WireOK(a)'
  BY <1>2, <1>3, <1>4 DEF AgentOK, WireOK
<1> QED BY <1>5, <1>6, <1>7 DEF AgentOK

-----------------------------------------------------------------------------
(* The other agents, and the process.                                      *)

(* What the invariant reads of an agent, but for the shutdown.             *)
Kept(b) ==
  /\ pc'[b] = pc[b] /\ outcome'[b] = outcome[b] /\ status'[b] = status[b]
  /\ heartbeats'[b] = heartbeats[b] /\ recent'[b] = recent[b] /\ wire'[b] = wire[b]
  /\ instance'[b] = instance[b] /\ closings'[b] = closings[b] /\ failures'[b] = failures[b]

(* An agent that a step does not touch keeps its part of the invariant,    *)
(* unless the shutdown is taken back or the group is cancelled.            *)
LEMMA KeptInv ==
  ASSUME NEW b \in Agent, AgentOK(b), Kept(b), shutdown => shutdown', aborted' = aborted
  PROVE  AgentOK(b)'
BY DEF AgentOK, OutcomeOK, ClosingsOK, HeartbeatsOK, FailuresOK, WireOK, Kept

(* No loop touches another agent than its own.                             *)
LEMMA OthersKept ==
  ASSUME TypeOK, NEW a \in Agent, NEW b \in Agent, b # a, LoopStep(a) \/ Heartbeat(a)
  PROVE  Kept(b) /\ shutdown' = shutdown /\ aborted' = aborted
<1>1. CASE Connect(a) \/ BackoffEnds(a)
  BY <1>1 DEF Connect, BackoffEnds, Loop, Leave, Goto, Kept, TypeOK
<1>2. CASE InitReturns(a) \/ RunReturns(a) \/ Fails(a) \/ CloseClean(a)
  BY <1>2 DEF InitReturns, RunReturns, Fails, CloseClean, Goto, Kept, TypeOK, auditVars
<1>3. CASE CloseFailed(a) \/ CloseCancelled(a) \/ Join(a)
  BY <1>3 DEF CloseFailed, CloseCancelled, Join, Leave, Goto, Kept, TypeOK, auditVars
<1>4. CASE JoinCancelled(a) \/ Disconnect(a)
  BY <1>4 DEF JoinCancelled, Disconnect, Leave, Goto, Kept, TypeOK, auditVars
<1>5. CASE Heartbeat(a)
  BY <1>5 DEF Heartbeat, HeartbeatBeat, HeartbeatLast, HeartbeatCancelled, Publish, Kept, TypeOK,
              auditVars
<1> QED BY <1>1, <1>2, <1>3, <1>4, <1>5 DEF LoopStep

(* The cancellation finds every loop in an await.  Those it misses were    *)
(* joining the heartbeat of an instance that had failed.                   *)
LEMMA GroupAbortsInv ==
  ASSUME TypeOK, NEW a \in Agent, AgentOK(a), GroupAborts
  PROVE  AgentOK(a)'
<1>1. PICK torn \in SUBSET {b \in Agent : pc[b] = "disconnect"} :
        /\ pc' = [b \in Agent |-> IF b \in torn THEN "ended" ELSE CancelledAt(pc[b])]
        /\ outcome' = [b \in Agent |->
             IF b \in torn \/ CancelledAt(pc[b]) # pc[b] THEN "cancelled" ELSE outcome[b]]
  BY DEF GroupAborts
<1>2. /\ shutdown' = shutdown /\ status'[a] = status[a] /\ recent'[a] = recent[a]
      /\ wire'[a] = wire[a] /\ instance'[a] = instance[a] /\ failures'[a] = failures[a]
  BY DEF GroupAborts
<1>3. closings'[a] = IF pc'[a] = "close_cancelled" THEN closings[a] + 1 ELSE closings[a]
  BY DEF GroupAborts
<1>4. heartbeats'[a] = heartbeats[a] \/ heartbeats'[a] = Cancel(heartbeats[a])
  BY DEF GroupAborts
<1>5. /\ (\A s, t \in heartbeats[a] : s = t) => \A s, t \in heartbeats'[a] : s = t
      /\ \A t \in heartbeats'[a] : \E s \in heartbeats[a] : t.instance = s.instance
      /\ heartbeats[a] = {} => heartbeats'[a] = {}
  <2>1. heartbeats[a] \in SUBSET Task
    BY DEF TypeOK
  <2> QED BY <1>4, <2>1, CancelOne
<1>n. None \notin Outcome
  BY PyAssumption
<1>6. \/ /\ pc[a] \in {"connect", "disconnect"} /\ pc'[a] = "ended"
         /\ outcome'[a] = "cancelled"
      \/ pc[a] = "ended" /\ pc'[a] = "ended" /\ outcome'[a] = outcome[a]
      \/ pc[a] = "disconnect" /\ pc'[a] = "disconnect" /\ outcome'[a] = outcome[a]
      \/ pc[a] \in Serving /\ pc'[a] = "close_cancelled" /\ outcome'[a] = "cancelled"
      \/ pc[a] = "join_cancelled" /\ pc'[a] = pc[a] /\ outcome'[a] = outcome[a]
      \/ /\ pc[a] \in {"close_clean", "close_failed", "close_cancelled", "join", "backoff"}
         /\ pc'[a] = "disconnect" /\ outcome'[a] = "cancelled"
  BY <1>1 DEF CancelledAt, TypeOK, Place, Serving
<1>7. OutcomeOK(a)'
  BY <1>6, <1>n DEF AgentOK, OutcomeOK, Outcome, Serving
<1>8. ClosingsOK(a)'
  BY <1>2, <1>3, <1>6 DEF AgentOK, OutcomeOK, ClosingsOK, TypeOK, Serving
<1>9. HeartbeatsOK(a)'
  BY <1>2, <1>5, <1>6, <1>n DEF AgentOK, OutcomeOK, HeartbeatsOK, Outcome, Serving
<1>10. FailuresOK(a)'
  BY <1>2, <1>6, <1>n DEF AgentOK, OutcomeOK, FailuresOK, Outcome, Serving
<1>11. WireOK(a)'
  BY <1>2, <1>5, <1>6, <1>n DEF AgentOK, OutcomeOK, WireOK, Outcome, Serving
<1> QED BY <1>7, <1>8, <1>9, <1>10, <1>11 DEF AgentOK

(* The signals and the end of the process.                                 *)
LEMMA ProcessInv ==
  ASSUME TypeOK, NEW a \in Agent, AgentOK(a), ProcessEnds \/ FirstSignal \/ SecondSignal
  PROVE  AgentOK(a)'
<1>n. None \notin Outcome
  BY PyAssumption
<1>1. CASE FirstSignal
  <2>1. Kept(a) /\ shutdown' /\ aborted' = aborted
    BY <1>1 DEF FirstSignal, Kept, auditVars
  <2> QED BY <2>1, KeptInv
<1>2. CASE ProcessEnds
  <2>1. /\ heartbeats'[a] = {} /\ pc[a] = "ended"
        /\ pc' = pc /\ outcome' = outcome /\ status' = status /\ recent' = recent /\ wire' = wire
        /\ instance' = instance /\ closings' = closings /\ failures' = failures
        /\ shutdown' = shutdown /\ aborted' = aborted
    BY <1>2 DEF ProcessEnds, auditVars
  <2> QED BY <2>1 DEF AgentOK, OutcomeOK, ClosingsOK, HeartbeatsOK, FailuresOK, WireOK
<1>3. CASE SecondSignal
  <2>1. /\ heartbeats'[a] = {} /\ pc'[a] = "ended" /\ shutdown' = shutdown
        /\ outcome'[a] = IF pc[a] = "ended" THEN outcome[a] ELSE "killed"
        /\ status' = status /\ recent' = recent /\ wire' = wire /\ shutdown
        /\ instance' = instance /\ closings' = closings /\ failures' = failures
        /\ aborted' = aborted
    BY <1>3 DEF SecondSignal, auditVars
  <2>2. outcome'[a] # None
    BY <2>1, <1>n DEF AgentOK, OutcomeOK, Outcome
  <2>3. OutcomeOK(a)' /\ FailuresOK(a)'
    BY <2>1, <2>2 DEF OutcomeOK, FailuresOK
  <2>4. ClosingsOK(a)'
    BY <2>1 DEF AgentOK, OutcomeOK, ClosingsOK, Serving
  <2>5. HeartbeatsOK(a)' /\ WireOK(a)'
    BY <2>1, <2>2 DEF AgentOK, HeartbeatsOK, WireOK
  <2> QED BY <2>3, <2>4, <2>5 DEF AgentOK
<1> QED BY <1>1, <1>2, <1>3

(* Every step of the runtime keeps the invariant.                          *)
LEMMA StepInv ==
  ASSUME PyInv, [Next]_vars
  PROVE  PyInv'
<1>1. TypeOK /\ TypeOK'
  BY StepTyped DEF PyInv
<1>2. ASSUME NEW a \in Agent
      PROVE  AgentOK(a)'
  <2>1. AgentOK(a)
    BY DEF PyInv
  <2>2. CASE UNCHANGED vars
    BY <2>1, <2>2, KeptInv DEF Kept, vars
  <2>3. CASE \E b \in Agent : LoopStep(b) \/ Heartbeat(b)
    <3>1. PICK b \in Agent : LoopStep(b) \/ Heartbeat(b)
      BY <2>3
    <3>2. CASE b = a
      BY <1>1, <2>1, <3>1, <3>2, LoopStepInv, HeartbeatInv
    <3>3. CASE b # a
      BY <1>1, <2>1, <3>1, <3>3, OthersKept, KeptInv
    <3> QED BY <3>2, <3>3
  <2> QED BY <1>1, <2>1, <2>2, <2>3, GroupAbortsInv, ProcessInv DEF Next
<1> QED BY <1>1, <1>2 DEF PyInv

(* The invariant of the Python runtime, for any number of agents, any      *)
(* restart budget and any order of failures, cancellations and signals.    *)
THEOREM PyInvariant == Spec => []PyInv
<1>1. Init => PyInv
  BY InitInv
<1>2. PyInv /\ [Next]_vars => PyInv'
  BY StepInv
<1> QED BY <1>1, <1>2, PTL DEF Spec

-----------------------------------------------------------------------------
(* What follows.                                                           *)

(* The types of PySupervisorProps hold: no place is left without a next    *)
(* one and no status, outcome or beat is made up.                          *)
THEOREM PyTypeCorrect == Spec => []TypeOK
<1>1. PyInv => TypeOK
  BY DEF PyInv
<1> QED BY <1>1, PyInvariant, PTL

(* agent.py:34: shutdown() is called once on every instance, on whatever   *)
(* path its run is left; a failure that meets the cancellation of the      *)
(* group does not close it twice.                                          *)
THEOREM PyShutdownCalledOnce == Spec => []ShutdownCalledOnce
<1>1. PyInv => ShutdownCalledOnce
  BY DEF PyInv, AgentOK, ClosingsOK, ShutdownCalledOnce
<1> QED BY <1>1, PyInvariant, PTL

(* A restart never meets the heartbeat of the instance before it: the loop *)
(* has one heartbeat task at most, and it is of the instance it is busy    *)
(* with.                                                                   *)
THEOREM PyHeartbeatOwned == Spec => []HeartbeatOwned
<1>1. PyInv => HeartbeatOwned
  BY DEF PyInv, AgentOK, HeartbeatsOK, HeartbeatOwned
<1> QED BY <1>1, PyInvariant, PTL

(* A loop that the cancellation of the group missed was joining the        *)
(* heartbeat of an instance that had failed: a healthy agent is reached.   *)
THEOREM PyAbortReachesHealthy == Spec => []AbortReachesHealthy
<1>1. PyInv => AbortReachesHealthy
  BY DEF PyInv, AgentOK, FailuresOK, AbortReachesHealthy
<1> QED BY <1>1, PyInvariant, PTL

(* No observer of an agent's subject sees a beat of an earlier instance    *)
(* after one of a later, or anything after a Retired.                      *)
THEOREM PyBeatsInOrder == Spec => BeatsInOrder
<1>1. ASSUME PyInv, [Next]_vars, NEW a \in Agent
      PROVE  /\ wire'[a].instance >= wire[a].instance
             /\ wire[a].status = "Retired" => wire'[a] = wire[a]
  <2>1. wire[a].instance \in Nat
    BY <1>1 DEF PyInv, TypeOK
  <2>2. CASE wire'[a] = wire[a]
    BY <2>1, <2>2
  <2>3. CASE \E t \in heartbeats[a] : wire'[a].instance = t.instance
    BY <1>1, <2>1, <2>3 DEF PyInv, TypeOK, Task, AgentOK, WireOK
  <2>4. CASE Heartbeat(a)
    <3>1. PICK t \in heartbeats[a] :
            HeartbeatBeat(a, t) \/ HeartbeatLast(a, t) \/ HeartbeatCancelled(a, t)
      BY <2>4 DEF Heartbeat
    <3>2. wire'[a] = wire[a] \/ wire'[a].instance = t.instance
      BY <1>1, <3>1 DEF HeartbeatBeat, HeartbeatLast, HeartbeatCancelled, Publish, PyInv, TypeOK
    <3> QED BY <2>2, <2>3, <3>2
  <2>5. CASE \E b \in Agent : LoopStep(b)
    BY <2>2, <2>5 DEF LoopStep, Connect, InitReturns, RunReturns, Fails, CloseClean, CloseFailed,
                      CloseCancelled, Join, JoinCancelled, BackoffEnds, Disconnect
  <2>6. CASE \E b \in Agent : b # a /\ Heartbeat(b)
    BY <1>1, <2>2, <2>6, OthersKept DEF PyInv, Kept
  <2>7. CASE GroupAborts \/ ProcessEnds \/ FirstSignal \/ SecondSignal \/ UNCHANGED vars
    BY <2>2, <2>7 DEF GroupAborts, ProcessEnds, FirstSignal, SecondSignal, vars
  <2> QED BY <1>1, <2>4, <2>5, <2>6, <2>7 DEF Next
<1>2. PyInv /\ [Next]_vars =>
        \A a \in Agent : /\ wire'[a].instance >= wire[a].instance
                         /\ wire[a].status = "Retired" => wire'[a] = wire[a]
  BY <1>1
<1> QED BY <1>2, PyInvariant, PTL DEF Spec, BeatsInOrder
=============================================================================
