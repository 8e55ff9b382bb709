-------------------------- MODULE PySupervisorProps --------------------------
(***************************************************************************)
(* What the Python agent runtime must guarantee, on the state machine of   *)
(* PySupervisor.tla.                                                       *)
(***************************************************************************)
EXTENDS PySupervisor

Place ==
  Serving \cup {"connect", "close_clean", "close_failed", "close_cancelled",
                "join", "join_cancelled", "backoff", "disconnect", "ended"}

Task == [instance : Nat, cancelled : BOOLEAN]

(* The type of every variable.                                             *)
TypeOK ==
  /\ up \in BOOLEAN /\ shutdown \in BOOLEAN /\ aborted \in BOOLEAN
  /\ pc \in [Agent -> Place]
  /\ outcome \in [Agent -> Outcome \cup {None}]
  /\ connected \in [Agent -> BOOLEAN]
  /\ status \in [Agent -> State]
  /\ heartbeats \in [Agent -> SUBSET Task]
  /\ recent \in [Agent -> Nat]
  /\ wire \in [Agent -> [instance : Nat, status : State \cup {None}]]
  /\ instance \in [Agent -> Nat]
  /\ closings \in [Agent -> Nat]
  /\ failures \in [Agent -> Nat]

(* agent.py:34: shutdown is called once after run exits, on whatever path: *)
(* a clean return, a failure, or a cancellation because of another agent.  *)
(* Only a second signal skips it.                                          *)
ShutdownCalledOnce ==
  \A a \in Agent : outcome[a] # "killed" =>
    instance[a] = closings[a] + (IF pc[a] \in Serving THEN 1 ELSE 0)

(* A heartbeat task speaks for the instance its loop is busy with.  Only a *)
(* loop that is cancelled, or whose factory raised, leaves one behind: not *)
(* one that backs off, that returned, or that spent its budget.            *)
HeartbeatOwned ==
  \A a \in Agent :
    /\ \A s, t \in heartbeats[a] : s = t
    /\ pc[a] = "backoff" \/ outcome[a] = "returned" => heartbeats[a] = {}
    /\ outcome[a] = "raised" /\ recent[a] > Budget => heartbeats[a] = {}
    /\ \A t \in heartbeats[a] : outcome[a] = None => t.instance = instance[a]

(* What an observer of system.heartbeat.<agent> sees never goes back: no   *)
(* beat of an earlier instance after one of a later, and nothing after a   *)
(* Retired.                                                                *)
BeatsInOrder ==
  [][\A a \in Agent :
       /\ wire'[a].instance >= wire[a].instance
       /\ wire[a].status = "Retired" => wire'[a] = wire[a]]_vars

(* A healthy agent does not outlive the cancellation of its group: the     *)
(* loops that miss it were joining the heartbeat of a failed instance.     *)
AbortReachesHealthy ==
  \A a \in Agent : aborted /\ outcome[a] = None => failures[a] > 0

(* A loop that raised takes the process down, unless a sibling missed the  *)
(* cancellation.                                                           *)
RaiseEndsProcess ==
  (\E a \in Agent : pc[a] = "ended" /\ outcome[a] = "raised")
    ~> (~up \/ \E a \in Agent : aborted /\ outcome[a] = None)

(* A shutdown ends the process, unless an agent waits in its run for a     *)
(* message that does not come; and then every other loop has ended.        *)
Idle(a) == a \in Silent /\ pc[a] = "run"

OnlyIdleOutlives ==
  shutdown ~> \/ ~up
              \/ /\ \E a \in Agent : Idle(a)
                 /\ \A a \in Agent : Idle(a) \/ pc[a] = "ended"

(* agent.py:31: run "must return when ctx.shutdown is set", and with it    *)
(* every loop, the group and the process, whether messages come or not.    *)
ShutdownCompletes == shutdown ~> ~up
=============================================================================
