--------------------------- MODULE SupervisorProofs ---------------------------
(***************************************************************************)
(* Proofs about the agent runtime of Supervisor.tla, for any set of agents *)
(* and any budget, window and backoff.                                     *)
(***************************************************************************)
EXTENDS SupervisorProps, SequenceTheorems, WellFoundedInduction, TLAPS

-----------------------------------------------------------------------------
(* Facts about the data.                                                   *)

(* A set of naturals has a least element.                                  *)
LEMMA LeastNatural ==
  ASSUME NEW T \in SUBSET Nat, T # {}
  PROVE  \E x \in T : \A y \in T : x <= y
<1> DEFINE R == OpToRel(<, Nat)
<1>1. IsWellFoundedOn(R, Nat)
  BY NatLessThanWellFounded
<1>2. \A x, y \in Nat : x < y => <<x, y>> \in R
  BY DEF OpToRel
<1> HIDE DEF R
<1>3. PICK x \in T : \A y \in T : ~ (<<y, x>> \in R)
  BY <1>1, WFMin
<1>4. ASSUME NEW y \in T PROVE x <= y
  <2>1. x \in Nat /\ y \in Nat /\ ~(y < x)
    BY <1>2, <1>3
  <2> QED
    BY <2>1
<1> QED
  BY <1>4

(* pop_front stops, at the latest, at the time just pushed.                *)
LEMMA ExpireShape ==
  ASSUME NEW times \in Seq(Nat), NEW time \in Nat,
         times # <<>>, times[Len(times)] = time
  PROVE  \E front \in 1 .. Len(times) :
           /\ Expire(times, time) = SubSeq(times, front, Len(times))
           /\ time - times[front] <= Window
           /\ \A j \in 1 .. front - 1 : time - times[j] > Window
<1> DEFINE Fresh == {i \in 1 .. Len(times) : time - times[i] <= Window}
<1>1. Len(times) \in Nat /\ Len(times) > 0 /\ DOMAIN times = 1 .. Len(times)
  BY EmptySeq
<1>2. Fresh \in SUBSET Nat /\ Len(times) \in Fresh
  BY <1>1, TimeAssumption
<1>3. PICK first \in Fresh : \A y \in Fresh : first <= y
  <2> HIDE DEF Fresh
  <2> QED
    BY <1>2, LeastNatural
<1> DEFINE Front(i) == /\ time - times[i] <= Window
                       /\ \A j \in DOMAIN times : j < i => time - times[j] > Window
           front == CHOOSE i \in DOMAIN times : Front(i)
<1>4. first \in DOMAIN times /\ Front(first)
  <2>1. ASSUME NEW j \in DOMAIN times, j < first PROVE time - times[j] > Window
    <3>1. j \notin Fresh /\ j \in 1 .. Len(times) /\ times[j] \in Nat
      BY <1>1, <1>3, <2>1
    <3> QED
      BY <3>1, TimeAssumption
  <2> QED
    BY <1>1, <1>3, <2>1
<1>5. front \in DOMAIN times /\ Front(front)
  <2> HIDE DEF Front
  <2> QED
    BY <1>4, Zenon
<1>6. Expire(times, time) = SubSeq(times, front, Len(times))
  BY Zenon DEF Expire
<1>7. /\ front \in 1 .. Len(times)
      /\ time - times[front] <= Window
      /\ \A j \in 1 .. front - 1 : time - times[j] > Window
  <2> HIDE DEF front
  <2>1. front \in 1 .. Len(times) /\ time - times[front] <= Window
    BY <1>1, <1>5
  <2>2. ASSUME NEW j \in 1 .. front - 1 PROVE time - times[j] > Window
    <3>1. j \in DOMAIN times /\ j < front
      BY <1>1, <2>1
    <3> QED
      BY <1>5, <3>1
  <2> QED
    BY <2>1, <2>2
<1> HIDE DEF front
<1> QED
  BY <1>6, <1>7, Zenon

(* A heartbeat task changes what it is about to send.                      *)
LEMMA TaskExcept ==
  ASSUME NEW t \in Task, NEW b \in State \cup {None}
  PROVE  LET u == [t EXCEPT !.beat = b] IN
         /\ u \in Task /\ u.beat = b
         /\ u.instance = t.instance /\ u.aborted = t.aborted
  BY DEF Task

(* An aborted task is a task.                                              *)
LEMMA TaskAborted ==
  ASSUME NEW t \in Task
  PROVE  LET u == [t EXCEPT !.aborted = TRUE] IN
         /\ u \in Task /\ u.beat = t.beat
         /\ u.instance = t.instance /\ u.aborted
  BY DEF Task

(* What is kept of the history with the new failure at its end.            *)
LEMMA RecordedShape ==
  ASSUME TypeOK, NEW a \in Agent
  PROVE  LET n == Len(history[a])
             h == [i \in 1 .. n + 1 |-> IF i = n + 1 THEN now ELSE history[a][i]]
         IN \E front \in 1 .. n + 1 :
              /\ Recorded(a) \in Seq(Nat)
              /\ Len(Recorded(a)) = n + 2 - front
              /\ \A i \in 1 .. n + 2 - front : Recorded(a)[i] = h[front - 1 + i]
              /\ now - h[front] <= Window
              /\ \A j \in 1 .. front - 1 : now - h[j] > Window
<1> DEFINE n == Len(history[a])
           h == [i \in 1 .. n + 1 |-> IF i = n + 1 THEN now ELSE history[a][i]]
           times == Append(history[a], now)
<1>1. history[a] \in Seq(Nat) /\ now \in Nat /\ n \in Nat
  BY DEF TypeOK
<1>2. /\ times \in Seq(Nat) /\ Len(times) = n + 1
      /\ \A i \in 1 .. n + 1 : times[i] = h[i]
  BY <1>1
<1> HIDE DEF h, times
<1>3. times # <<>> /\ times[Len(times)] = now
  <2>1. h[n + 1] = now
    BY <1>1 DEF h
  <2>2. times[n + 1] = now
    BY <1>1, <1>2, <2>1
  <2> QED
    BY <1>1, <1>2, <2>2, EmptySeq
<1>4. PICK front \in 1 .. n + 1 :
        /\ Expire(times, now) = SubSeq(times, front, n + 1)
        /\ now - times[front] <= Window
        /\ \A j \in 1 .. front - 1 : now - times[j] > Window
  BY <1>1, <1>2, <1>3, ExpireShape
<1>5. Recorded(a) = SubSeq(times, front, n + 1)
  BY <1>4 DEF Recorded, times
<1>6. /\ SubSeq(times, front, n + 1) \in Seq(Nat)
      /\ Len(SubSeq(times, front, n + 1)) = n + 2 - front
      /\ \A i \in 1 .. n + 2 - front :
           SubSeq(times, front, n + 1)[i] = times[front - 1 + i]
  <2> HIDE DEF n
  <2> QED
    BY <1>1, <1>2, SubSeqProperties
<1>7. \A i \in 1 .. n + 2 - front : front - 1 + i \in 1 .. n + 1
  BY <1>1
<1>8. /\ \A i \in 1 .. n + 2 - front : Recorded(a)[i] = h[front - 1 + i]
      /\ now - h[front] <= Window
      /\ \A j \in 1 .. front - 1 : now - h[j] > Window
  <2> HIDE DEF n
  <2>1. front \in 1 .. n + 1 /\ \A j \in 1 .. front - 1 : j \in 1 .. n + 1
    BY <1>1
  <2>2. \A i \in 1 .. n + 2 - front : Recorded(a)[i] = h[front - 1 + i]
    BY <1>2, <1>5, <1>6, <1>7
  <2> QED
    BY <1>2, <1>4, <2>1, <2>2
<1>9. Recorded(a) \in Seq(Nat) /\ Len(Recorded(a)) = n + 2 - front
  BY <1>5, <1>6
<1> QED
  BY <1>8, <1>9, Zenon DEF h

-----------------------------------------------------------------------------
(* Type correctness.                                                       *)

(* The initial state is well typed, ...                                    *)
LEMMA InitTyped == Init => TypeOK
<1> SUFFICES ASSUME Init PROVE TypeOK
  OBVIOUS
<1> DEFINE silent == [instance |-> 0, status |-> None]
<1>1. now \in Nat /\ signals \in 0 .. 2
  BY DEF Init
<1>6. shutdown \in BOOLEAN
  BY Zenon DEF Init
<1>5. pc \in [Agent -> Place] /\ status \in [Agent -> State]
  BY DEF Init, Place, State
<1>2. /\ heartbeats \in [Agent -> SUBSET Task]
      /\ instance \in [Agent -> Nat]
      /\ closed \in [Agent -> Nat]
  BY DEF Init
<1>3. history \in [Agent -> Seq(Nat)] /\ failures \in [Agent -> Seq(Nat)]
  BY EmptySeq DEF Init
<1>4. wire \in [Agent -> [instance : Nat, status : State \cup {None}]]
  <2>1. silent \in [instance : Nat, status : State \cup {None}]
    OBVIOUS
  <2>2. wire = [a \in Agent |-> silent]
    BY DEF Init
  <2> HIDE DEF silent
  <2> QED
    BY <2>1, <2>2
<1> QED
  BY <1>1, <1>2, <1>3, <1>4, <1>5, <1>6 DEF TypeOK

(* ... and every step keeps it so.                                         *)
LEMMA StepTyped ==
  ASSUME TypeOK, [Next]_vars PROVE TypeOK'
<1>1. \A a \in Agent : Recorded(a) \in Seq(Nat)
  BY RecordedShape
<1>2. ASSUME NEW a \in Agent, Loop(a) PROVE TypeOK'
  <2>1. CASE Connect(a)
    BY <2>1 DEF TypeOK, Connect, Goto, Place, Ended, clockVars, auditVars
  <2>2. CASE LoopExit(a)
    BY <2>2 DEF TypeOK, LoopExit, Goto, Place, Ended, clockVars, auditVars
  <2>3. CASE LoopCreate(a)
    <3> DEFINE t == [instance |-> instance[a] + 1, beat |-> None, aborted |-> FALSE]
    <3>1. t \in Task
      BY DEF TypeOK, Task
    <3> HIDE DEF t
    <3>2. heartbeats' = [heartbeats EXCEPT ![a] = @ \cup {t}]
      BY <2>3 DEF LoopCreate, t
    <3>3. heartbeats' \in [Agent -> SUBSET Task]
      BY <3>1, <3>2 DEF TypeOK
    <3> QED
      BY <2>3, <3>3 DEF TypeOK, LoopCreate, Goto, Place, Alive, State, clockVars
  <2>4. CASE InitOk(a)
    BY <2>4 DEF TypeOK, InitOk, Goto, Place, Alive, State, clockVars, auditVars
  <2>5. CASE Fails(a) \/ RunOk(a) \/ Panics(a)
    BY <2>5 DEF TypeOK, Fails, RunOk, Panics, Goto, Place, Alive, Ended,
       clockVars, auditVars
  <2>6. CASE CloseFailed(a)
    <3> DEFINE tasks == Abort(heartbeats[a])
    <3>1. tasks \subseteq Task
      BY TaskAborted DEF TypeOK, Abort
    <3> HIDE DEF tasks
    <3>2. heartbeats' = [heartbeats EXCEPT ![a] = tasks]
      BY <2>6 DEF CloseFailed, tasks
    <3>3. heartbeats' \in [Agent -> SUBSET Task]
      BY <3>1, <3>2 DEF TypeOK
    <3>4. history' \in [Agent -> Seq(Nat)] /\ failures' \in [Agent -> Seq(Nat)]
      BY <2>6, <1>1 DEF TypeOK, CloseFailed
    <3> QED
      BY <2>6, <3>3, <3>4 DEF TypeOK, CloseFailed, Goto, Place, Ended, clockVars
  <2>7. CASE CloseClean(a)
    BY <2>7 DEF TypeOK, CloseClean, Goto, Place, clockVars
  <2>8. CASE JoinHeartbeat(a) \/ BackoffExit(a) \/ BackoffEnds(a)
    BY <2>8 DEF TypeOK, JoinHeartbeat, BackoffExit, BackoffEnds, Goto, Place,
       Ended, clockVars, auditVars
  <2> QED
    BY <1>2, <2>1, <2>2, <2>3, <2>4, <2>5, <2>6, <2>7, <2>8 DEF Loop
<1>3. ASSUME NEW a \in Agent, NEW t \in heartbeats[a],
             HeartbeatTick(a, t) \/ HeartbeatLast(a, t)
      PROVE  TypeOK'
  <2>1. PICK b \in State : Beats(a, t, b)
    BY <1>3 DEF HeartbeatTick, HeartbeatLast, TypeOK, State
  <2> DEFINE u == [t EXCEPT !.beat = b]
  <2>2. t \in Task /\ u \in Task
    BY TaskExcept DEF TypeOK
  <2> HIDE DEF u
  <2>3. heartbeats' = [heartbeats EXCEPT ![a] = (@ \ {t}) \cup {u}]
    BY <2>1 DEF Beats, u
  <2>4. heartbeats' \in [Agent -> SUBSET Task]
    BY <2>2, <2>3 DEF TypeOK
  <2> QED
    BY <2>1, <2>4 DEF TypeOK, Beats, clockVars, auditVars
<1>4. ASSUME NEW a \in Agent, NEW t \in heartbeats[a], HeartbeatPublish(a, t)
      PROVE  TypeOK'
  <2>1. t \in Task
    BY DEF TypeOK
  <2> DEFINE rest == {[u EXCEPT !.beat = None] :
                        u \in {v \in {t} : ~v.aborted /\ v.beat # "Retired"}}
             w == [instance |-> t.instance, status |-> t.beat]
  <2>2. rest \subseteq Task
    BY <2>1, TaskExcept
  <2>3. w \in [instance : Nat, status : State \cup {None}]
    BY <2>1 DEF Task
  <2> HIDE DEF rest, w
  <2>4. heartbeats' = [heartbeats EXCEPT ![a] = (@ \ {t}) \cup rest]
    BY <1>4 DEF HeartbeatPublish, rest
  <2>5. wire' = [wire EXCEPT ![a] = w] \/ wire' = wire
    BY <1>4 DEF HeartbeatPublish, w
  <2>6. heartbeats' \in [Agent -> SUBSET Task]
    BY <2>2, <2>4 DEF TypeOK
  <2>7. wire' \in [Agent -> [instance : Nat, status : State \cup {None}]]
    BY <2>3, <2>5 DEF TypeOK
  <2> QED
    BY <1>4, <2>6, <2>7 DEF TypeOK, HeartbeatPublish, clockVars, auditVars
<1>5. CASE FirstSignal \/ CancelToken \/ Tick
  <2>1. CASE FirstSignal \/ CancelToken
    <3>1. signals' \in 0 .. 2 /\ shutdown' = TRUE
      BY <2>1 DEF TypeOK, FirstSignal, CancelToken
    <3>2. shutdown' \in BOOLEAN
      BY <3>1, Zenon
    <3>3. UNCHANGED <<now, pc, status, heartbeats, history, wire, auditVars>>
      BY <2>1 DEF FirstSignal, CancelToken
    <3> QED
      BY <3>1, <3>2, <3>3 DEF TypeOK, auditVars
  <2>2. CASE Tick
    <3>1. now' \in Nat
      BY <2>2 DEF TypeOK, Tick
    <3>2. UNCHANGED <<shutdown, signals, pc, status, heartbeats, history, wire, auditVars>>
      BY <2>2 DEF Tick
    <3> QED
      BY <3>1, <3>2 DEF TypeOK, auditVars
  <2> QED
    BY <1>5, <2>1, <2>2
<1>6. CASE SecondSignal
  <2>1. pc' \in [Agent -> Place]
    BY <1>6 DEF TypeOK, SecondSignal, Place, Ended
  <2>2. heartbeats' \in [Agent -> SUBSET Task]
    BY <1>6 DEF SecondSignal
  <2> QED
    BY <1>6, <2>1, <2>2 DEF TypeOK, SecondSignal, auditVars
<1>7. CASE UNCHANGED vars
  BY <1>7 DEF TypeOK, vars
<1> QED
  BY <1>2, <1>3, <1>4, <1>5, <1>6, <1>7 DEF Next, Heartbeat

-----------------------------------------------------------------------------
(* The restart budget.                                                     *)

(* What a step may do to the failures of one agent.                        *)
Quiet(a) ==
  /\ history'[a] = history[a]
  /\ failures'[a] = failures[a]
  /\ now' >= now
  /\ pc'[a] = "retired" <=> pc[a] = "retired"

(* Only a failed closing writes to an agent's failures.                    *)
LEMMA FailureSteps ==
  ASSUME TypeOK, [Next]_vars, NEW a \in Agent
  PROVE  CloseFailed(a) \/ Quiet(a)
<1>1. now >= now
  BY DEF TypeOK
<1>2. ASSUME NEW b \in Agent, Loop(b) PROVE CloseFailed(a) \/ Quiet(a)
  <2>1. CASE Connect(b) \/ LoopExit(b) \/ LoopCreate(b) \/ InitOk(b)
    BY <1>1, <2>1 DEF Quiet, TypeOK, Connect, LoopExit, LoopCreate, InitOk, Goto,
       clockVars, auditVars
  <2>2. CASE Fails(b) \/ RunOk(b) \/ Panics(b)
    BY <1>1, <2>2 DEF Quiet, TypeOK, Fails, RunOk, Panics, Goto, Alive,
       clockVars, auditVars
  <2>3. CASE CloseFailed(b)
    BY <1>1, <2>3 DEF Quiet, TypeOK, CloseFailed, Goto, clockVars
  <2>4. CASE CloseClean(b)
    BY <1>1, <2>4 DEF Quiet, TypeOK, CloseClean, Goto, clockVars
  <2>5. CASE JoinHeartbeat(b) \/ BackoffExit(b) \/ BackoffEnds(b)
    BY <1>1, <2>5 DEF Quiet, TypeOK, JoinHeartbeat, BackoffExit, BackoffEnds, Goto,
       clockVars, auditVars
  <2> QED
    BY <1>2, <2>1, <2>2, <2>3, <2>4, <2>5 DEF Loop
<1>3. ASSUME NEW b \in Agent, Heartbeat(b) PROVE Quiet(a)
  <2>1. UNCHANGED <<now, pc, history, failures>>
    BY <1>3 DEF Heartbeat, HeartbeatTick, HeartbeatLast, HeartbeatPublish, Beats,
       clockVars, auditVars
  <2> QED
    BY <1>1, <2>1 DEF Quiet
<1>4. CASE FirstSignal \/ CancelToken \/ UNCHANGED vars
  <2>1. UNCHANGED <<now, pc, history, failures>>
    BY <1>4 DEF FirstSignal, CancelToken, auditVars, vars
  <2> QED
    BY <1>1, <2>1 DEF Quiet
<1>5. CASE SecondSignal
  <2>1. UNCHANGED <<now, history, failures>>
    BY <1>5 DEF SecondSignal, auditVars
  <2>2. pc'[a] = IF pc[a] \in Ended THEN pc[a] ELSE "killed"
    BY <1>5 DEF SecondSignal
  <2> QED
    BY <1>1, <2>1, <2>2 DEF Quiet, Ended
<1>6. CASE Tick
  <2>1. now' = now + 1 /\ UNCHANGED <<pc, history, failures>>
    BY <1>6 DEF Tick, auditVars
  <2> QED
    BY <2>1 DEF Quiet, TypeOK
<1> QED
  BY <1>2, <1>3, <1>4, <1>5, <1>6 DEF Next

(* A non-decreasing f of m + 1 times whose first d + front - 1 are out of the *)
(* window of the last, and the others in it.                               *)
LEMMA Trimmed ==
  ASSUME NEW m \in Nat, NEW d \in 0 .. m, NEW front \in 1 .. m - d + 1, NEW f,
         \A i \in 1 .. m + 1 : f[i] \in Nat,
         \A i, j \in 1 .. m + 1 : i <= j => f[i] <= f[j],
         \A i \in 1 .. d : f[m] - f[i] > Window,
         \A j \in 1 .. front - 1 : f[m + 1] - f[d + j] > Window,
         f[m + 1] - f[d + front] <= Window,
         \A i \in 1 .. m - Budget : f[i + Budget] - f[i] > Window
  PROVE  /\ \A i \in 1 .. d + front - 1 : f[m + 1] - f[i] > Window
         /\ \A i \in d + front .. m + 1 : f[m + 1] - f[i] <= Window
         /\ \A i \in 1 .. m + 1 - Budget : f[i + Budget] - f[i] <= Window =>
              i + Budget = m + 1 /\ i >= d + front
<1>1. ASSUME NEW i \in 1 .. d + front - 1 PROVE f[m + 1] - f[i] > Window
  <2>1. CASE i <= d
    <3>1. i \in 1 .. d /\ i \in 1 .. m + 1 /\ m \in 1 .. m + 1 /\ m + 1 \in 1 .. m + 1
      BY <2>1
    <3>2. f[m] - f[i] > Window /\ f[m] <= f[m + 1]
      BY <3>1
    <3>3. f[m] \in Nat /\ f[i] \in Nat /\ f[m + 1] \in Nat
      BY <3>1
    <3> QED
      BY <3>2, <3>3, TimeAssumption
  <2>2. CASE i > d
    <3>1. i - d \in 1 .. front - 1 /\ d + (i - d) = i
      BY <2>2
    <3> QED
      BY <3>1
  <2> QED
    BY <2>1, <2>2
<1>2. ASSUME NEW i \in d + front .. m + 1 PROVE f[m + 1] - f[i] <= Window
  <2>1. d + front \in 1 .. m + 1 /\ i \in 1 .. m + 1 /\ d + front <= i
    OBVIOUS
  <2>2. f[d + front] <= f[i] /\ f[d + front] \in Nat /\ f[i] \in Nat /\ f[m + 1] \in Nat
    BY <2>1
  <2> QED
    BY <2>2, TimeAssumption
<1>3. ASSUME NEW i \in 1 .. m + 1 - Budget, f[i + Budget] - f[i] <= Window
      PROVE  i + Budget = m + 1 /\ i >= d + front
  <2>1. i \in 1 .. m + 1 /\ i + Budget \in 1 .. m + 1
    BY TimeAssumption
  <2>2. f[i] \in Nat /\ f[i + Budget] \in Nat
    BY <2>1
  <2>3. ~(i \in 1 .. m - Budget)
    BY <1>3, <2>2, TimeAssumption
  <2>4. i + Budget = m + 1
    BY <2>1, <2>3, TimeAssumption
  <2>5. ~(i \in 1 .. d + front - 1)
    BY <1>1, <1>3, <2>2, <2>4, TimeAssumption
  <2> QED
    BY <2>1, <2>4, <2>5
<1> QED
  BY <1>1, <1>2, <1>3

(* Every step keeps what is kept of the history of failures.               *)
LEMMA HistoryStep ==
  ASSUME TypeOK, TypeOK', [Next]_vars, NEW a \in Agent, HistoryOK(a)
  PROVE  HistoryOK(a)'
<1> DEFINE f == failures[a]  h == history[a]  m == Len(f)  n == Len(h)  d == m - n
<1>1. /\ f \in Seq(Nat) /\ h \in Seq(Nat) /\ now \in Nat
      /\ m \in Nat /\ n \in Nat /\ d \in Nat
  BY DEF TypeOK, HistoryOK
<1>2. CASE Quiet(a)
  <2>1. now' \in Nat /\ now' >= now
    BY <1>2 DEF Quiet, TypeOK
  <2>2. \A i \in 1 .. m : f[i] \in Nat /\ f[i] <= now
    BY <1>1 DEF HistoryOK
  <2>3. \A i \in 1 .. m : f[i] <= now'
    <3> HIDE DEF f, m
    <3> QED
      BY <1>1, <2>1, <2>2
  <2> QED
    BY <1>2, <2>3, Zenon DEF Quiet, HistoryOK, TooMany
<1>3. CASE CloseFailed(a)
  <2> DEFINE f2 == failures'[a]  h2 == history'[a]
  <2>1. /\ pc[a] = "closing_failed" /\ now' = now
        /\ f2 = Append(f, now) /\ h2 = Recorded(a)
        /\ pc'[a] = "retired" <=> Len(h2) > Budget
    BY <1>3 DEF CloseFailed, ExceedsBudget, Goto, TypeOK, clockVars
  <2>2. \A i \in 1 .. m - Budget : ~TooMany(a, i)
    BY <2>1 DEF HistoryOK
  <2>3. /\ n <= m
        /\ \A i \in 1 .. n : h[i] = f[d + i]
        /\ \A i \in 1 .. m : f[i] <= now
        /\ \A i, j \in 1 .. m : i <= j => f[i] <= f[j]
        /\ \A i \in 1 .. d : f[m] - f[i] > Window
    BY DEF HistoryOK
  <2>4. \A i \in 1 .. m - Budget : ~(f[i + Budget] - f[i] <= Window)
    BY <2>2 DEF TooMany
  <2>5. /\ Len(f2) = m + 1
        /\ f2[m + 1] = now
        /\ \A i \in 1 .. m : f2[i] = f[i]
    BY <1>1, <2>1
  <2>6. d = m - n /\ \A i \in 1 .. m : f[i] \in Nat
    BY <1>1
  <2>7. PICK front \in 1 .. n + 1 :
          LET hh == [i \in 1 .. n + 1 |-> IF i = n + 1 THEN now ELSE h[i]] IN
          /\ Len(h2) = n + 2 - front
          /\ \A i \in 1 .. n + 2 - front : h2[i] = hh[front - 1 + i]
          /\ now - hh[front] <= Window
          /\ \A j \in 1 .. front - 1 : now - hh[j] > Window
    <3> HIDE DEF h2
    <3> QED
      BY <2>1, RecordedShape
  <2> HIDE DEF f, h, m, n, d, f2, h2
  <2> DEFINE hh == [i \in 1 .. n + 1 |-> IF i = n + 1 THEN now ELSE h[i]]
  <2>8. \A i \in 1 .. n + 1 : hh[i] = f2[d + i]
    <3>1. ASSUME NEW i \in 1 .. n PROVE hh[i] = f2[d + i]
      <4>1. hh[i] = h[i] /\ d + i \in 1 .. m
        BY <1>1, <2>6
      <4> QED
        BY <2>3, <2>5, <4>1
    <3>2. d + (n + 1) = m + 1 /\ hh[n + 1] = now
      BY <1>1, <2>6
    <3> HIDE DEF hh
    <3>3. ASSUME NEW i \in 1 .. n + 1 PROVE hh[i] = f2[d + i]
      <4>1. i = n + 1 \/ i \in 1 .. n
        BY <1>1
      <4> QED
        BY <2>5, <3>1, <3>2, <4>1
    <3> QED
      BY <3>3
  <2>9. /\ Len(h2) = n + 2 - front
        /\ \A i \in 1 .. n + 2 - front : h2[i] = hh[front - 1 + i]
        /\ now - hh[front] <= Window
        /\ \A j \in 1 .. front - 1 : now - hh[j] > Window
    BY <2>7
  <2> HIDE DEF hh
  <2>10. front \in 1 .. m - d + 1 /\ d \in 0 .. m /\ front \in 1 .. n + 1
    BY <1>1, <2>6
  <2>11. /\ Len(h2) <= Len(f2) /\ Len(f2) - Len(h2) = d + front - 1
         /\ \A i \in 1 .. Len(h2) : h2[i] = f2[d + front - 1 + i]
    <3>1. ASSUME NEW i \in 1 .. Len(h2) PROVE h2[i] = f2[d + front - 1 + i]
      <4>1. /\ i \in 1 .. n + 2 - front /\ front - 1 + i \in 1 .. n + 1
            /\ d + (front - 1 + i) = d + front - 1 + i
        BY <1>1, <2>6, <2>9, <2>10
      <4> QED
        BY <2>8, <2>9, <4>1
    <3> QED
      BY <1>1, <2>5, <2>6, <2>9, <2>10, <3>1
  <2>12. \A i \in 1 .. m + 1 : f2[i] \in Nat /\ f2[i] <= now
    <3>1. ASSUME NEW i \in 1 .. m + 1 PROVE f2[i] \in Nat /\ f2[i] <= now
      <4>1. i = m + 1 \/ i \in 1 .. m
        BY <1>1
      <4>2. now <= now
        BY <1>1
      <4> QED
        BY <1>1, <2>3, <2>5, <2>6, <4>1, <4>2
    <3> QED
      BY <3>1
  <2>13. \A i, j \in 1 .. m + 1 : i <= j => f2[i] <= f2[j]
    <3>1. ASSUME NEW i \in 1 .. m + 1, NEW j \in 1 .. m + 1, i <= j PROVE f2[i] <= f2[j]
      <4>1. j = m + 1 \/ (i \in 1 .. m /\ j \in 1 .. m)
        BY <1>1, <3>1
      <4> QED
        BY <2>3, <2>5, <2>12, <3>1, <4>1
    <3> QED
      BY <3>1
  <2>14. \A i \in 1 .. d : f2[m] - f2[i] > Window
    <3>1. ASSUME NEW i \in 1 .. d PROVE f2[m] - f2[i] > Window
      <4>1. i \in 1 .. m /\ m \in 1 .. m
        BY <1>1, <2>10
      <4> QED
        BY <2>3, <2>5, <4>1
    <3> QED
      BY <3>1
  <2>15. /\ \A j \in 1 .. front - 1 : f2[m + 1] - f2[d + j] > Window
         /\ f2[m + 1] - f2[d + front] <= Window
    <3>1. \A j \in 1 .. front - 1 : j \in 1 .. n + 1
      BY <1>1, <2>10
    <3> QED
      BY <2>5, <2>8, <2>9, <2>10, <3>1
  <2>16. \A i \in 1 .. m - Budget : f2[i + Budget] - f2[i] > Window
    <3>1. ASSUME NEW i \in 1 .. m - Budget PROVE f2[i + Budget] - f2[i] > Window
      <4>1. i \in 1 .. m /\ i + Budget \in 1 .. m
        BY <1>1, TimeAssumption
      <4>2. f[i] \in Nat /\ f[i + Budget] \in Nat /\ ~(f[i + Budget] - f[i] <= Window)
        BY <2>4, <2>6, <4>1
      <4>3. f[i + Budget] - f[i] > Window
        BY <4>2, TimeAssumption
      <4> QED
        BY <2>5, <4>1, <4>3
    <3> QED
      BY <3>1
  <2>17. /\ \A i \in 1 .. d + front - 1 : f2[m + 1] - f2[i] > Window
         /\ \A i \in d + front .. m + 1 : f2[m + 1] - f2[i] <= Window
         /\ \A i \in 1 .. m + 1 - Budget : f2[i + Budget] - f2[i] <= Window =>
              i + Budget = m + 1 /\ i >= d + front
    BY <1>1, <2>10, <2>12, <2>13, <2>14, <2>15, <2>16, Trimmed
  <2>18. \A i \in 1 .. Len(h2) : f2[m + 1] - h2[i] <= Window
    <3>1. \A i \in 1 .. Len(h2) : d + front - 1 + i \in d + front .. m + 1
      BY <1>1, <2>6, <2>9, <2>10
    <3> QED
      BY <2>11, <2>17, <3>1
  <2>19. ASSUME NEW i \in 1 .. m + 1 - Budget, f2[i + Budget] - f2[i] <= Window
         PROVE  i + Budget = m + 1 /\ pc'[a] = "retired"
    <3>1. i + Budget = m + 1 /\ i >= d + front
      BY <2>17, <2>19
    <3>2. Len(h2) > Budget
      BY <1>1, <2>6, <2>9, <2>10, <3>1, TimeAssumption
    <3> QED
      BY <2>1, <3>1, <3>2
  <2>20. /\ \A i \in 1 .. Len(h2) : h2[i] = f2[Len(f2) - Len(h2) + i]
         /\ \A i \in 1 .. Len(h2) : f2[Len(f2)] - h2[i] <= Window
    BY <2>5, <2>11, <2>18
  <2>21. /\ \A i \in 1 .. Len(f2) : f2[i] <= now'
         /\ \A i, j \in 1 .. Len(f2) : i <= j => f2[i] <= f2[j]
    BY <2>1, <2>5, <2>12, <2>13
  <2>22. \A i \in 1 .. Len(f2) - Len(h2) : f2[Len(f2)] - f2[i] > Window
    BY <2>5, <2>11, <2>17
  <2>23. \A i \in 1 .. Len(f2) - Budget : f2[i + Budget] - f2[i] <= Window =>
           i + Budget = Len(f2) /\ pc'[a] = "retired"
    <3>1. Len(f2) - Budget = m + 1 - Budget /\ Len(f2) = m + 1
      BY <1>1, <2>5, TimeAssumption
    <3> QED
      BY <3>1, <2>19, Zenon
  <2> QED
    BY <2>1, <2>11, <2>20, <2>21, <2>22, <2>23, Zenon DEF HistoryOK, TooMany, f2, h2
<1> QED
  BY <1>2, <1>3, FailureSteps

-----------------------------------------------------------------------------
(* The heartbeat tasks.                                                    *)

(* What a step of another agent leaves of one agent's state.               *)
Untouched(a) ==
  /\ UNCHANGED <<now, shutdown>>
  /\ pc'[a] = pc[a] /\ status'[a] = status[a]
  /\ heartbeats'[a] = heartbeats[a] /\ history'[a] = history[a]
  /\ wire'[a] = wire[a] /\ instance'[a] = instance[a] /\ closed'[a] = closed[a]

(* One agent's loop or heartbeat does not touch another agent.             *)
LEMMA OtherAgent ==
  ASSUME TypeOK, NEW a \in Agent, NEW b \in Agent, a # b, Loop(b) \/ Heartbeat(b)
  PROVE  Untouched(a)
<1>1. CASE Connect(b) \/ LoopExit(b) \/ LoopCreate(b) \/ InitOk(b)
  BY <1>1 DEF Untouched, TypeOK, Connect, LoopExit, LoopCreate, InitOk, Goto,
     clockVars, auditVars
<1>2. CASE Fails(b) \/ RunOk(b) \/ Panics(b)
  BY <1>2 DEF Untouched, TypeOK, Fails, RunOk, Panics, Goto, clockVars, auditVars
<1>3. CASE CloseFailed(b) \/ CloseClean(b)
  BY <1>3 DEF Untouched, TypeOK, CloseFailed, CloseClean, Goto, clockVars
<1>4. CASE JoinHeartbeat(b) \/ BackoffExit(b) \/ BackoffEnds(b)
  BY <1>4 DEF Untouched, TypeOK, JoinHeartbeat, BackoffExit, BackoffEnds, Goto,
     clockVars, auditVars
<1>5. CASE Heartbeat(b)
  BY <1>5 DEF Untouched, TypeOK, Heartbeat, HeartbeatTick, HeartbeatLast,
     HeartbeatPublish, Beats, clockVars, auditVars
<1> QED
  BY <1>1, <1>2, <1>3, <1>4, <1>5 DEF Loop

(* Away from these places there is no heartbeat task.                      *)
LEMMA NoTask ==
  ASSUME NEW a \in Agent, HeartbeatOK(a),
         pc[a] \notin Alive \cup {"join_heartbeat", "panicked", "backoff", "exited", "retired"}
  PROVE  heartbeats[a] = {}
  BY DEF HeartbeatOK

(* The supervision loop of the agent itself.                               *)
LEMMA HeartbeatLoopStep ==
  ASSUME TypeOK, TypeOK', NEW a \in Agent, HeartbeatOK(a), Loop(a)
  PROVE  HeartbeatOK(a)'
<1>1. CASE Connect(a) \/ LoopExit(a)
  <2>1. heartbeats[a] = {}
    BY <1>1, NoTask DEF Connect, LoopExit, Alive
  <2>2. /\ pc'[a] \in {"loop", "unconnected", "exited"}
        /\ UNCHANGED <<shutdown, status, heartbeats, wire, instance>>
    BY <1>1 DEF Connect, LoopExit, Goto, TypeOK, clockVars, auditVars
  <2> QED
    BY <2>1, <2>2 DEF HeartbeatOK, Alive
<1>2. CASE LoopCreate(a)
  <2> DEFINE t == [instance |-> instance[a] + 1, beat |-> None, aborted |-> FALSE]
  <2>1. heartbeats[a] = {}
    BY <1>2, NoTask DEF LoopCreate, Alive
  <2>2. t.instance = instance[a] + 1 /\ t.beat = None /\ ~t.aborted
    OBVIOUS
  <2>3. heartbeats'[a] = {t}
    <3> HIDE DEF t
    <3>1. heartbeats' = [heartbeats EXCEPT ![a] = @ \cup {t}]
      BY <1>2 DEF LoopCreate, t
    <3> QED
      BY <2>1, <3>1 DEF TypeOK
  <2> HIDE DEF t
  <2>4. /\ pc'[a] = "init" /\ status'[a] = "Booting" /\ instance'[a] = instance[a] + 1
        /\ ~shutdown /\ UNCHANGED <<shutdown, wire>>
    BY <1>2 DEF LoopCreate, Goto, TypeOK, clockVars
  <2>5. wire'[a].instance <= instance'[a]
    BY <2>4 DEF HeartbeatOK, TypeOK
  <2>6. wire'[a].status # "Retired"
    BY <2>4 DEF HeartbeatOK
  <2>7. None # "Retired"
    BY BeatAssumption DEF State
  <2> QED
    BY <2>2, <2>3, <2>4, <2>5, <2>6, <2>7 DEF HeartbeatOK, Alive
<1>3. CASE InitOk(a) \/ Fails(a) \/ RunOk(a) \/ CloseClean(a)
  <2>1. /\ pc[a] \in Alive /\ pc'[a] \in Alive \cup {"join_heartbeat"}
        /\ status'[a] \in {status[a], "Active"}
        /\ UNCHANGED <<shutdown, heartbeats, wire, instance>>
    BY <1>3 DEF InitOk, Fails, RunOk, CloseClean, Goto, TypeOK, Alive, clockVars, auditVars
  <2> QED
    BY <2>1 DEF HeartbeatOK, Alive
<1>4. CASE Panics(a)
  <2>1. /\ pc[a] \in Alive /\ pc'[a] = "panicked"
        /\ UNCHANGED <<shutdown, status, heartbeats, wire, instance>>
    BY <1>4 DEF Panics, Goto, TypeOK, clockVars, auditVars
  <2> QED
    BY <2>1 DEF HeartbeatOK, Alive
<1>5. CASE CloseFailed(a)
  <2>1. /\ pc'[a] \in {"retired", "backoff"}
        /\ heartbeats'[a] = Abort(heartbeats[a])
        /\ UNCHANGED <<now, shutdown, status, wire, instance>>
        /\ history'[a] = Recorded(a)
    BY <1>5 DEF CloseFailed, Goto, TypeOK, clockVars
  <2>2. history'[a] # <<>> /\ now = history'[a][Len(history'[a])]
    <3> DEFINE n == Len(history[a])
               h == [i \in 1 .. n + 1 |-> IF i = n + 1 THEN now ELSE history[a][i]]
    <3>1. PICK front \in 1 .. n + 1 :
            /\ Len(Recorded(a)) = n + 2 - front
            /\ \A i \in 1 .. n + 2 - front : Recorded(a)[i] = h[front - 1 + i]
      BY RecordedShape
    <3>2. n \in Nat /\ h[n + 1] = now
      BY DEF TypeOK
    <3> HIDE DEF n, h
    <3>3. /\ Len(Recorded(a)) > 0 /\ Len(Recorded(a)) \in 1 .. n + 2 - front
          /\ front - 1 + Len(Recorded(a)) = n + 1
      BY <3>1, <3>2
    <3> QED
      BY <2>1, <3>1, <3>2, <3>3, EmptySeq
  <2>3. ASSUME NEW s \in heartbeats'[a]
        PROVE  \E u \in heartbeats[a] :
                 /\ s = [u EXCEPT !.aborted = TRUE]
                 /\ s.instance = u.instance /\ s.beat = u.beat /\ s.aborted
    <3>1. PICK u \in heartbeats[a] : s = [u EXCEPT !.aborted = TRUE]
      BY <2>1, <2>3 DEF Abort
    <3>2. heartbeats[a] \subseteq Task
      BY DEF TypeOK
    <3>3. u \in Task
      BY <3>2
    <3> QED
      BY <3>1, <3>3, TaskAborted
  <2>4. ASSUME NEW s \in heartbeats'[a], NEW t \in heartbeats'[a] PROVE s = t
    <3>1. PICK u \in heartbeats[a] : s = [u EXCEPT !.aborted = TRUE]
      BY <2>3
    <3>2. PICK v \in heartbeats[a] : t = [v EXCEPT !.aborted = TRUE]
      BY <2>3
    <3>3. u = v
      BY DEF HeartbeatOK
    <3> QED
      BY <3>1, <3>2, <3>3
  <2>5. \A t \in heartbeats'[a] :
          t.instance = instance'[a] /\ t.aborted /\ (t.beat = "Retired" => shutdown')
    BY <2>1, <2>3 DEF HeartbeatOK
  <2>6. wire'[a].instance <= instance'[a] /\ status'[a] \in {"Booting", "Active"}
    BY <2>1 DEF HeartbeatOK
  <2>7. wire'[a].status = "Retired" => shutdown' /\ heartbeats'[a] = {}
    BY <2>1, <2>3 DEF HeartbeatOK
  <2> QED
    BY <2>1, <2>2, <2>4, <2>5, <2>6, <2>7 DEF HeartbeatOK, Alive
<1>6. CASE JoinHeartbeat(a)
  <2>1. /\ pc[a] = "join_heartbeat" /\ pc'[a] = "exited" /\ \A t \in heartbeats[a] : t.aborted
        /\ UNCHANGED <<shutdown, status, heartbeats, wire, instance>>
    BY <1>6 DEF JoinHeartbeat, Goto, TypeOK, clockVars, auditVars
  <2>2. heartbeats[a] = {}
    BY <2>1 DEF HeartbeatOK
  <2> QED
    BY <2>1, <2>2 DEF HeartbeatOK, Alive
<1>7. CASE BackoffExit(a)
  <2>1. /\ pc[a] = "backoff" /\ pc'[a] = "exited"
        /\ UNCHANGED <<shutdown, status, heartbeats, wire, instance>>
    BY <1>7 DEF BackoffExit, Goto, TypeOK, clockVars, auditVars
  <2> QED
    BY <2>1 DEF HeartbeatOK, Alive
<1>8. CASE BackoffEnds(a)
  <2>1. /\ pc[a] = "backoff" /\ pc'[a] = "loop" /\ now >= WakeAt(a)
        /\ UNCHANGED <<shutdown, status, heartbeats, wire, instance>>
    BY <1>8 DEF BackoffEnds, Goto, TypeOK, clockVars, auditVars
  <2>2. heartbeats[a] = {}
    <3>1. ASSUME NEW t \in heartbeats[a] PROVE FALSE
      <4>1. now = history[a][Len(history[a])]
        BY <2>1 DEF HeartbeatOK, Alive
      <4> QED
        BY <2>1, <4>1, TimeAssumption DEF WakeAt, TypeOK
    <3> QED
      BY <3>1
  <2> QED
    BY <2>1, <2>2 DEF HeartbeatOK, Alive
<1> QED
  BY <1>1, <1>2, <1>3, <1>4, <1>5, <1>6, <1>7, <1>8 DEF Loop

(* Its heartbeat task.                                                     *)
LEMMA HeartbeatTaskStep ==
  ASSUME TypeOK, TypeOK', NEW a \in Agent, HeartbeatOK(a), Heartbeat(a)
  PROVE  HeartbeatOK(a)'
<1>1. PICK t \in heartbeats[a] :
        HeartbeatTick(a, t) \/ HeartbeatLast(a, t) \/ HeartbeatPublish(a, t)
  BY DEF Heartbeat
<1>2. t \in Task /\ heartbeats[a] = {t}
  BY DEF TypeOK, HeartbeatOK
<1>3. UNCHANGED <<now, shutdown, pc, status, history, instance>>
  BY <1>1 DEF HeartbeatTick, HeartbeatLast, HeartbeatPublish, Beats, clockVars, auditVars
<1>4. CASE HeartbeatTick(a, t) \/ HeartbeatLast(a, t)
  <2>1. PICK b \in State : Beats(a, t, b) /\ (b = "Retired" => shutdown)
    BY <1>4 DEF HeartbeatTick, HeartbeatLast, TypeOK, State, HeartbeatOK
  <2> DEFINE u == [t EXCEPT !.beat = b]
  <2>2. u.beat = b /\ u.instance = t.instance /\ u.aborted = t.aborted
    BY <1>2, TaskExcept
  <2> HIDE DEF u
  <2>3. heartbeats' = [heartbeats EXCEPT ![a] = (@ \ {t}) \cup {u}] /\ wire' = wire
    BY <2>1 DEF Beats, u
  <2>4. heartbeats'[a] = {u}
    BY <1>2, <2>3 DEF TypeOK
  <2>5. wire[a].status # "Retired"
    BY DEF HeartbeatOK
  <2> QED
    BY <1>3, <2>1, <2>2, <2>3, <2>4, <2>5 DEF HeartbeatOK
<1>5. CASE HeartbeatPublish(a, t)
  <2> DEFINE rest == {[u EXCEPT !.beat = None] :
                        u \in {v \in {t} : ~v.aborted /\ v.beat # "Retired"}}
             w == [instance |-> t.instance, status |-> t.beat]
             next == [t EXCEPT !.beat = None]
  <2>1. rest = IF ~t.aborted /\ t.beat # "Retired" THEN {next} ELSE {}
    OBVIOUS
  <2>2. next.beat = None /\ next.instance = t.instance /\ next.aborted = t.aborted
    BY <1>2, TaskExcept
  <2>3. w.instance = t.instance /\ w.status = t.beat
    OBVIOUS
  <2> HIDE DEF rest, w, next
  <2>4. heartbeats' = [heartbeats EXCEPT ![a] = (@ \ {t}) \cup rest]
    BY <1>5 DEF HeartbeatPublish, rest
  <2>5. wire' = [wire EXCEPT ![a] = w] \/ wire' = wire
    BY <1>5 DEF HeartbeatPublish, w
  <2>6. heartbeats'[a] = rest
    BY <1>2, <2>4 DEF TypeOK
  <2>7. wire'[a] = w \/ wire'[a] = wire[a]
    BY <2>5 DEF TypeOK
  <2>8. None # "Retired"
    BY BeatAssumption DEF State
  <2>9. wire'[a].instance <= instance'[a]
    BY <1>2, <1>3, <2>3, <2>7 DEF HeartbeatOK, Task, TypeOK
  <2>10. wire'[a].status = "Retired" => shutdown' /\ heartbeats'[a] = {}
    BY <1>2, <1>3, <2>1, <2>3, <2>6, <2>7 DEF HeartbeatOK
  <2>11. /\ \A s, r \in heartbeats'[a] : s = r
         /\ \A s \in heartbeats'[a] : /\ s.instance = t.instance
                                      /\ s.beat # "Retired"
                                      /\ ~s.aborted /\ ~t.aborted
    BY <2>1, <2>2, <2>6, <2>8
  <2>12. pc[a] \in Alive \cup {"join_heartbeat", "panicked"} /\ ~shutdown =>
           heartbeats'[a] # {}
    BY <2>1, <2>6 DEF HeartbeatOK, Alive
  <2> QED
    BY <1>2, <1>3, <2>9, <2>10, <2>11, <2>12 DEF HeartbeatOK
<1> QED
  BY <1>1, <1>4, <1>5

(* A signal has always cancelled the token.                                *)
LEMMA SignalStep ==
  ASSUME [Next]_vars, signals # 0 => shutdown PROVE signals' # 0 => shutdown'
BY DEF Next, vars, Loop, Heartbeat, Connect, LoopExit, LoopCreate, InitOk, Fails, RunOk,
   Panics, CloseFailed, CloseClean, JoinHeartbeat, BackoffExit, BackoffEnds,
   HeartbeatTick, HeartbeatLast, HeartbeatPublish, Beats, FirstSignal, CancelToken,
   SecondSignal, Tick, clockVars

(* Every step keeps what is said of the heartbeat tasks.                   *)
LEMMA HeartbeatStep ==
  ASSUME TypeOK, TypeOK', [Next]_vars, signals # 0 => shutdown,
         NEW a \in Agent, HeartbeatOK(a)
  PROVE  HeartbeatOK(a)'
<1>1. CASE Untouched(a)
  BY <1>1, Zenon DEF Untouched, HeartbeatOK
<1>2. ASSUME NEW b \in Agent, Loop(b) \/ Heartbeat(b) PROVE HeartbeatOK(a)'
  BY <1>1, <1>2, OtherAgent, HeartbeatLoopStep, HeartbeatTaskStep
<1>3. CASE FirstSignal \/ CancelToken
  <2>1. shutdown' /\ UNCHANGED <<now, pc, status, heartbeats, history, wire, instance>>
    BY <1>3 DEF FirstSignal, CancelToken, auditVars
  <2> QED
    BY <2>1 DEF HeartbeatOK
<1>4. CASE SecondSignal
  <2>1. /\ pc'[a] \in Ended /\ heartbeats'[a] = {}
        /\ shutdown' /\ UNCHANGED <<shutdown, status, wire, instance>>
    BY <1>4 DEF SecondSignal, auditVars, Ended
  <2> QED
    BY <2>1 DEF HeartbeatOK, Alive, Ended
<1>5. CASE Tick
  <2>1. /\ \A t \in heartbeats[a] : ~t.aborted
        /\ UNCHANGED <<shutdown, pc, status, heartbeats, wire, instance>>
    BY <1>5 DEF Tick, auditVars
  <2> QED
    BY <2>1 DEF HeartbeatOK
<1>6. CASE UNCHANGED vars
  BY <1>1, <1>6 DEF vars, Untouched
<1> QED
  BY <1>2, <1>3, <1>4, <1>5, <1>6 DEF Next

-----------------------------------------------------------------------------
(* Instances and their shutdown.                                           *)

(* Every step keeps what is said of the closed instances.                   *)
LEMMA ClosedStep ==
  ASSUME TypeOK, [Next]_vars, NEW a \in Agent, ClosedOK(a)
  PROVE  ClosedOK(a)'
<1>1. CASE Untouched(a)
  BY <1>1 DEF Untouched, ClosedOK
<1>2. CASE Loop(a)
  <2>1. CASE Connect(a) \/ LoopExit(a) \/ JoinHeartbeat(a) \/ BackoffExit(a) \/ BackoffEnds(a)
    <3>1. /\ pc[a] \in {"connect", "loop", "join_heartbeat", "backoff"}
          /\ pc'[a] \in {"loop", "unconnected", "exited"}
          /\ UNCHANGED <<instance, closed>>
      BY <2>1 DEF Connect, LoopExit, JoinHeartbeat, BackoffExit, BackoffEnds, Goto,
         TypeOK, auditVars
    <3> QED
      BY <3>1 DEF ClosedOK, Alive
  <2>2. CASE LoopCreate(a)
    <3>1. /\ pc[a] = "loop" /\ pc'[a] = "init"
          /\ instance'[a] = instance[a] + 1 /\ closed' = closed
      BY <2>2 DEF LoopCreate, Goto, TypeOK
    <3> QED
      BY <3>1 DEF ClosedOK, Alive, TypeOK
  <2>3. CASE InitOk(a) \/ Fails(a) \/ RunOk(a) \/ Panics(a)
    <3>1. /\ pc[a] \in Alive
          /\ pc'[a] \in Alive \/ (pc'[a] = "panicked" /\ a \in Panicking)
          /\ UNCHANGED <<instance, closed>>
      BY <2>3 DEF InitOk, Fails, RunOk, Panics, Goto, TypeOK, Alive, auditVars
    <3> QED
      BY <3>1 DEF ClosedOK, Alive
  <2>4. CASE CloseFailed(a) \/ CloseClean(a)
    <3>1. /\ pc[a] \in Alive
          /\ pc'[a] \in {"retired", "backoff", "join_heartbeat"}
          /\ closed'[a] = closed[a] + 1 /\ instance' = instance
      BY <2>4 DEF CloseFailed, CloseClean, Goto, TypeOK, Alive
    <3> QED
      BY <3>1 DEF ClosedOK, Alive, TypeOK
  <2> QED
    BY <1>2, <2>1, <2>2, <2>3, <2>4 DEF Loop
<1>3. CASE FirstSignal \/ CancelToken \/ Tick \/ Heartbeat(a) \/ UNCHANGED vars
  <2>1. UNCHANGED <<pc, instance, closed>>
    BY <1>3 DEF FirstSignal, CancelToken, Tick, Heartbeat, HeartbeatTick, HeartbeatLast,
       HeartbeatPublish, Beats, auditVars, vars
  <2> QED
    BY <2>1 DEF ClosedOK
<1>4. CASE SecondSignal
  <2>1. /\ pc'[a] = (IF pc[a] \in Ended THEN pc[a] ELSE "killed")
        /\ UNCHANGED <<instance, closed>>
    BY <1>4 DEF SecondSignal, auditVars
  <2> QED
    BY <2>1 DEF ClosedOK, Alive, Ended
<1> QED
  BY <1>1, <1>2, <1>3, <1>4, OtherAgent DEF Next

-----------------------------------------------------------------------------
(* The theorems.                                                           *)

(* The initial state satisfies the invariant.                              *)
LEMMA InitInvariant == Init => SupervisorInv
<1> SUFFICES ASSUME Init, NEW a \in Agent
             PROVE  HistoryOK(a) /\ HeartbeatOK(a) /\ ClosedOK(a)
  BY InitTyped DEF SupervisorInv, Init
<1>1. /\ pc[a] = "connect" /\ status[a] = "Booting" /\ heartbeats[a] = {}
      /\ instance[a] = 0 /\ closed[a] = 0
      /\ failures[a] = <<>> /\ history[a] = <<>>
  BY DEF Init
<1>2. wire[a].instance = 0 /\ wire[a].status # "Retired"
  BY BeatAssumption DEF Init, State
<1>3. Len(failures[a]) = 0 /\ Len(history[a]) = 0
  BY <1>1, EmptySeq
<1>4. HistoryOK(a)
  BY <1>1, <1>3, TimeAssumption DEF HistoryOK
<1>5. HeartbeatOK(a)
  BY <1>1, <1>2 DEF HeartbeatOK, Alive
<1>6. ClosedOK(a)
  BY <1>1 DEF ClosedOK, Alive
<1> QED
  BY <1>4, <1>5, <1>6

(* The failures of every agent and what is kept of them, its heartbeat     *)
(* tasks and its instances stay as SupervisorInv says in every reachable   *)
(* state of the runtime.                                                   *)
THEOREM SupervisorInvariant == Spec => []SupervisorInv
<1>1. Init => SupervisorInv
  BY InitInvariant
<1>2. SupervisorInv /\ [Next]_vars => SupervisorInv'
  <2> SUFFICES ASSUME SupervisorInv, [Next]_vars PROVE SupervisorInv'
    OBVIOUS
  <2>1. TypeOK /\ TypeOK'
    BY StepTyped DEF SupervisorInv
  <2>2. ASSUME NEW a \in Agent
        PROVE  HistoryOK(a)' /\ HeartbeatOK(a)' /\ ClosedOK(a)'
    BY <2>1, HistoryStep, HeartbeatStep, ClosedStep DEF SupervisorInv
  <2>3. signals' # 0 => shutdown'
    BY SignalStep DEF SupervisorInv
  <2> QED
    BY <2>1, <2>2, <2>3 DEF SupervisorInv
<1> QED
  BY <1>1, <1>2, PTL DEF Spec

(* Every variable of the runtime keeps its type.                           *)
THEOREM SupervisorTypeCorrect == Spec => []TypeOK
<1>1. SupervisorInv => TypeOK
  BY DEF SupervisorInv
<1> QED
  BY <1>1, SupervisorInvariant, PTL

(* exceeds_restart_budget: for every budget and window, no agent is        *)
(* created again after more than Budget failures in one window.            *)
THEOREM RestartBudgetHolds == Spec => []BudgetRespected
<1>1. SupervisorInv => BudgetRespected
  BY Zenon DEF SupervisorInv, HistoryOK, BudgetRespected
<1> QED
  BY <1>1, SupervisorInvariant, PTL

(* exceeds_restart_budget: an agent is given up only for more than Budget  *)
(* failures in one window.                                                 *)
THEOREM RetirementJustified == Spec => []RetiredOverBudget
<1>1. SupervisorInv => RetiredOverBudget
  <2> SUFFICES ASSUME SupervisorInv, NEW a \in Agent, pc[a] = "retired"
               PROVE  /\ Len(failures[a]) > Budget
                      /\ TooMany(a, Len(failures[a]) - Budget)
    BY DEF RetiredOverBudget
  <2> DEFINE f == failures[a]  h == history[a]
  <2>1. f \in Seq(Nat) /\ h \in Seq(Nat) /\ Len(f) \in Nat /\ Len(h) \in Nat
    BY DEF SupervisorInv, TypeOK
  <2>2. /\ Len(h) > Budget /\ Len(h) <= Len(f)
        /\ \A i \in 1 .. Len(h) : h[i] = f[Len(f) - Len(h) + i]
        /\ \A i \in 1 .. Len(h) : f[Len(f)] - h[i] <= Window
    BY Zenon DEF SupervisorInv, HistoryOK
  <2> DEFINE i == Len(h) - Budget
  <2>3. /\ i \in 1 .. Len(h) /\ Len(f) - Len(h) + i = Len(f) - Budget
        /\ Len(f) - Budget + Budget = Len(f) /\ Len(f) > Budget
    BY <2>1, <2>2, TimeAssumption
  <2> HIDE DEF i
  <2> QED
    BY <2>2, <2>3 DEF TooMany
<1> QED
  BY <1>1, SupervisorInvariant, PTL

(* run_heartbeat_loop under abort: what is published for an agent never    *)
(* goes back to an earlier instance, nor past Retired, panics or not.      *)
THEOREM BeatsOrdered == Spec => BeatsInOrder
<1>1. SupervisorInv /\ [Next]_vars =>
        [\A a \in Agent : /\ wire'[a].instance >= wire[a].instance
                          /\ wire[a].status = "Retired" => wire'[a] = wire[a]]_vars
  <2> SUFFICES ASSUME SupervisorInv, Next, NEW a \in Agent
               PROVE  /\ wire'[a].instance >= wire[a].instance
                      /\ wire[a].status = "Retired" => wire'[a] = wire[a]
    OBVIOUS
  <2>1. /\ wire[a].instance \in Nat /\ instance[a] \in Nat
        /\ wire[a].instance <= instance[a]
        /\ wire[a].status = "Retired" => heartbeats[a] = {}
        /\ \A t \in heartbeats[a] : t.instance = instance[a]
    BY DEF SupervisorInv, TypeOK, HeartbeatOK
  <2>2. CASE wire'[a] = wire[a]
    BY <2>1, <2>2
  <2>3. ASSUME NEW t \in heartbeats[a], HeartbeatPublish(a, t)
        PROVE  wire'[a] = wire[a] \/ wire'[a].instance = instance[a]
    <3> DEFINE w == [instance |-> t.instance, status |-> t.beat]
    <3>1. w.instance = t.instance
      OBVIOUS
    <3> HIDE DEF w
    <3>2. wire' = [wire EXCEPT ![a] = w] \/ wire' = wire
      BY <2>3 DEF HeartbeatPublish, w
    <3> QED
      BY <2>1, <3>1, <3>2 DEF SupervisorInv, TypeOK
  <2>4. wire'[a] = wire[a] \/ (\E t \in heartbeats[a] : HeartbeatPublish(a, t))
    <3>1. ASSUME NEW b \in Agent, Loop(b) PROVE wire' = wire
      BY <3>1 DEF Loop, Connect, LoopExit, LoopCreate, InitOk, Fails, RunOk, Panics,
         CloseFailed, CloseClean, JoinHeartbeat, BackoffExit, BackoffEnds
    <3>2. ASSUME NEW b \in Agent, b # a, Heartbeat(b) PROVE wire'[a] = wire[a]
      BY <3>2, OtherAgent DEF Untouched, SupervisorInv
    <3>3. ASSUME Heartbeat(a)
          PROVE  wire' = wire \/ (\E t \in heartbeats[a] : HeartbeatPublish(a, t))
      BY <3>3 DEF Heartbeat, HeartbeatTick, HeartbeatLast, Beats
    <3>4. CASE FirstSignal \/ CancelToken \/ SecondSignal \/ Tick
      BY <3>4 DEF FirstSignal, CancelToken, SecondSignal, Tick
    <3> QED
      BY <3>1, <3>2, <3>3, <3>4 DEF Next
  <2> QED
    BY <2>1, <2>2, <2>3, <2>4
<1> QED
  BY <1>1, SupervisorInvariant, PTL DEF Spec, BeatsInOrder

(* agent_supervisor_loop: every instance has shutdown() called on it once, *)
(* but for the one that panicked, after which there is no other.           *)
THEOREM EveryInstanceClosed == Spec => []ShutdownOnce
<1>1. SupervisorInv => ShutdownOnce
  BY DEF SupervisorInv, ClosedOK, ShutdownOnce
<1> QED
  BY <1>1, SupervisorInvariant, PTL

(* agent_supervisor_loop: an instance and a heartbeat task that may go on  *)
(* are there together or not at all, and a panic leaves both.              *)
THEOREM HeartbeatWithInstance == Spec => []HeartbeatPerInstance
<1>1. SupervisorInv => HeartbeatPerInstance
  <2> SUFFICES ASSUME SupervisorInv, NEW a \in Agent
               PROVE  IF pc[a] \in Alive \cup {"join_heartbeat", "panicked"}
                        THEN /\ \A s, t \in Beating(a) : s = t
                             /\ \A t \in Beating(a) : t.instance = instance[a]
                             /\ ~shutdown => Beating(a) # {}
                        ELSE Beating(a) = {}
    BY DEF HeartbeatPerInstance
  <2>1. HeartbeatOK(a)
    BY DEF SupervisorInv
  <2> QED
    BY <2>1 DEF HeartbeatOK, Beating, Alive
<1> QED
  BY <1>1, SupervisorInvariant, PTL
=============================================================================
