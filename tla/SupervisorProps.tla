--------------------------- MODULE SupervisorProps ---------------------------
(***************************************************************************)
(* What the agent runtime must guarantee, on the state machine of          *)
(* Supervisor.tla.                                                         *)
(***************************************************************************)
EXTENDS Supervisor

Place ==
  Alive \cup Ended \cup {"connect", "loop", "join_heartbeat", "backoff"}

Task == [instance : Nat, beat : State \cup {None}, aborted : BOOLEAN]

(* The type of every variable.                                             *)
TypeOK ==
  /\ now \in Nat
  /\ shutdown \in BOOLEAN
  /\ signals \in 0 .. 2
  /\ pc \in [Agent -> Place]
  /\ status \in [Agent -> State]
  /\ heartbeats \in [Agent -> SUBSET Task]
  /\ history \in [Agent -> Seq(Nat)]
  /\ wire \in [Agent -> [instance : Nat, status : State \cup {None}]]
  /\ instance \in [Agent -> Nat]
  /\ closed \in [Agent -> Nat]
  /\ failures \in [Agent -> Seq(Nat)]

-----------------------------------------------------------------------------
(* Of the failures i .. i + Budget of one agent, all lie in one window.    *)
TooMany(a, i) ==
  failures[a][i + Budget] - failures[a][i] <= Window

(* The restart budget: however failures and windows overlap, an agent that *)
(* failed more than Budget times in a window is not created again; only    *)
(* its last failure can be one too many, and then its loop has ended.      *)
BudgetRespected ==
  \A a \in Agent : \A i \in 1 .. Len(failures[a]) - Budget :
    TooMany(a, i) => i + Budget = Len(failures[a]) /\ pc[a] = "retired"

(* The budget is not spent early: an agent is given up only when its last  *)
(* Budget + 1 failures lie in one window, whatever was trimmed before.     *)
(* That is the policy of supervisor.rs:37-38 ("restarts more than          *)
(* `restart_budget` times") and of the code; docs/whitepaper/07-agent-     *)
(* runtime.md:66 gives an agent up one failure earlier, at the fifth for a *)
(* budget of five.                                                         *)
RetiredOverBudget ==
  \A a \in Agent : pc[a] = "retired" =>
    /\ Len(failures[a]) > Budget
    /\ TooMany(a, Len(failures[a]) - Budget)

(* agent.rs:61: shutdown is called once on every instance whose init has   *)
(* begun, before the next instance is created and before the loop ends.    *)
(* Only the instance that panicked is left, the last of its agent, which   *)
(* supervisor.rs:29-36 wants shut down and created again.                  *)
ShutdownOnce ==
  \A a \in Agent : pc[a] # "killed" =>
    instance[a] = closed[a] + (IF pc[a] \in Alive \cup {"panicked"} THEN 1 ELSE 0)

(* A heartbeat task that has not been aborted speaks for the instance that *)
(* lives now: there is one while it runs (until the shutdown stops it),    *)
(* and none once the instance is gone.  An instance that panicked counts as*)
(* one that runs: nothing ends its heartbeat but the shutdown.             *)
Beating(a) == {t \in heartbeats[a] : ~t.aborted}

HeartbeatPerInstance ==
  \A a \in Agent :
    IF pc[a] \in Alive \cup {"join_heartbeat", "panicked"}
      THEN /\ \A s, t \in Beating(a) : s = t
           /\ \A t \in Beating(a) : t.instance = instance[a]
           /\ ~shutdown => Beating(a) # {}
      ELSE Beating(a) = {}

(* What an observer of system.heartbeat.<agent> sees never goes back: no   *)
(* beat of an earlier instance after one of a later, and nothing after a   *)
(* Retired.                                                                *)
BeatsInOrder ==
  [][\A a \in Agent :
       /\ wire'[a].instance >= wire[a].instance
       /\ wire[a].status = "Retired" => wire'[a] = wire[a]]_vars

(* A loop that can see the shutdown ends: run() returns to main.           *)
ShutdownCompletes ==
  shutdown ~> \A a \in Agent : pc[a] \in Ended

(* An agent that failed runs again, unless its loop has ended.             *)
RestartFollows ==
  \A a \in Agent :
    pc[a] = "closing_failed" ~> pc[a] \in {"init"} \cup Ended

-----------------------------------------------------------------------------
(* The inductive invariants of the proofs.                                 *)

(* The trimmed history is what is left of all failures: the last ones, all *)
(* in the window of the last; it exceeds the budget when the loop gave up. *)
HistoryOK(a) ==
  LET f == failures[a]
      h == history[a]
      dropped == Len(f) - Len(h)
  IN
  /\ Len(h) <= Len(f)
  /\ \A i \in 1 .. Len(h) : h[i] = f[dropped + i]
  /\ \A i \in 1 .. Len(f) : f[i] <= now
  /\ \A i, j \in 1 .. Len(f) : i <= j => f[i] <= f[j]
  /\ \A i \in 1 .. dropped : f[Len(f)] - f[i] > Window
  /\ \A i \in 1 .. Len(h) : f[Len(f)] - h[i] <= Window
  /\ pc[a] = "retired" <=> Len(h) > Budget
  /\ \A i \in 1 .. Len(f) - Budget :
       TooMany(a, i) => i + Budget = Len(f) /\ pc[a] = "retired"

(* One heartbeat task at most, of the current instance; an aborted one is  *)
(* gone before the backoff is over.                                        *)
HeartbeatOK(a) ==
  /\ \A s, t \in heartbeats[a] : s = t
  /\ \A t \in heartbeats[a] :
       /\ t.instance = instance[a]
       /\ t.beat = "Retired" => shutdown
       /\ t.aborted => pc[a] \in {"backoff", "exited", "retired"}
       /\ t.aborted /\ pc[a] = "backoff" =>
            history[a] # <<>> /\ now = history[a][Len(history[a])]
       /\ ~t.aborted => pc[a] \in Alive \cup {"join_heartbeat", "panicked"}
  /\ pc[a] \in Alive \cup {"join_heartbeat", "panicked"} /\ ~shutdown =>
       heartbeats[a] # {}
  /\ wire[a].instance <= instance[a]
  /\ wire[a].status = "Retired" => shutdown /\ heartbeats[a] = {}
  /\ status[a] \in {"Booting", "Active"}

ClosedOK(a) ==
  pc[a] # "killed" =>
    instance[a] = closed[a] + (IF pc[a] \in Alive \cup {"panicked"} THEN 1 ELSE 0)

SupervisorInv ==
  /\ TypeOK
  /\ signals # 0 => shutdown
  /\ \A a \in Agent : HistoryOK(a) /\ HeartbeatOK(a) /\ ClosedOK(a)
=============================================================================
