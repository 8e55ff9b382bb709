------------------------------ MODULE OracleProofs ------------------------------
(***************************************************************************)
(* Proofs about the time oracle, for every set of callers, every limit of  *)
(* the logical part and every range of the host's clock.                   *)
(***************************************************************************)
EXTENDS OracleProps, TLAPS

USE DEF None, Reading

(* Not before: later, or the same.                                         *)
Reached(a, b) == Abstract!Later(a, b) \/ a = b

-----------------------------------------------------------------------------
(* The inductive invariant.  Everything that carries a time carries one    *)
(* the host has shown; what was published is not later than the clock, nor *)
(* later than what the host had shown when the last process crashed.       *)

Shown ==
  /\ wall <= highest /\ before <= highest
  /\ clock.physical <= highest \/ phase # "up"
  /\ \A t \in Task : read[t] # None => read[t][1] <= highest /\ phase = "up"
  /\ published # None => published[1].physical <= highest

InHand ==
  hand # None =>
    /\ phase = "up"
    /\ Reached(clock, hand[1])
    /\ published # None /\ ~behind =>
         Abstract!Later(hand[1], published[1]) \/ hand[1].logical = MaxLogical

Heard ==
  published # None =>
    /\ phase = "up" /\ ~behind => Reached(clock, published[1])
    /\ phase \in {"down", "restarting"} => published[1].physical <= before

IInv == TypeOK /\ Shown /\ InHand /\ Heard

-----------------------------------------------------------------------------
(* A tick of the clock is a later reading, of the caller's time or of the  *)
(* clock's own, unless the logical part is at its limit.                   *)
LEMMA AfterIsLater ==
  ASSUME NEW c \in Reading, NEW time \in 0 .. MaxWall
  PROVE  /\ After(c, time) \in Reading
         /\ After(c, time).physical \in {c.physical, time}
         /\ \/ Abstract!Later(After(c, time), c)
            \/ After(c, time) = c /\ c.logical = MaxLogical
<1> USE OracleAssumption
<1>1. CASE time > c.physical
  BY <1>1 DEF After, Abstract!Later
<1>2. CASE ~(time > c.physical) /\ c.logical < MaxLogical
  BY <1>2 DEF After, Abstract!Later
<1>3. CASE ~(time > c.physical) /\ ~(c.logical < MaxLogical)
  <2>1. c.logical = MaxLogical
    BY <1>3
  <2>2. After(c, time) = [c EXCEPT !.logical = MaxLogical]
    BY <1>3 DEF After
  <2>3. After(c, time) = c
    BY <2>1, <2>2
  <2> QED BY <2>1, <2>3
<1> QED BY <1>1, <1>2, <1>3

(* The order of the readings is transitive.                                *)
LEMMA LaterTransitive ==
  ASSUME NEW a \in Reading, NEW b \in Reading, NEW c \in Reading,
         Reached(a, b), Reached(b, c)
  PROVE  /\ Reached(a, c)
         /\ Abstract!Later(a, b) => Abstract!Later(a, c)
BY OracleAssumption DEF Reached, Abstract!Later

-----------------------------------------------------------------------------
(* The clocks are consistent before anything is sent.                      *)
LEMMA InitIInv == Init => IInv
<1> SUFFICES ASSUME Init PROVE IInv
  OBVIOUS
<1>1. clock \in Reading /\ -1 \in -1 .. MaxWall
  BY OracleAssumption DEF Init
<1>2. TypeOK
  BY <1>1 DEF Init, TypeOK, AtMostOne
<1>3. wall <= highest /\ before <= highest
  BY OracleAssumption DEF Init
<1>4. Shown /\ InHand /\ Heard
  BY <1>3 DEF Init, Shown, InHand, Heard
<1> QED BY <1>2, <1>4 DEF IInv

(* No step but Advance changes more of the order than it compares.         *)
LEMMA NextIInv ==
  ASSUME IInv, [Next]_vars
  PROVE  IInv'
<1> USE OracleAssumption DEF IInv, AtMostOne
<1>1. CASE WallForward
  BY <1>1 DEF WallForward, TypeOK, Shown, InHand, Heard, Reached, Abstract!Later
<1>2. CASE WallBack
  BY <1>2 DEF WallBack, TypeOK, Shown, InHand, Heard, Reached, Abstract!Later
<1>3. CASE Start
  <2>1. TypeOK'
    BY <1>3 DEF Start, TypeOK
  <2>2. Shown'
    BY <1>3 DEF Start, TypeOK, Shown
  <2>3. InHand'
    BY <1>3 DEF Start, InHand
  <2>4. Heard'
    <3> SUFFICES ASSUME published # None, ~(wall <= before)
                 PROVE  Reached([physical |-> wall, logical |-> 0], published[1])
      BY <1>3 DEF Start, Heard, Reached, Abstract!Later
    <3>1. published[1] \in Reading
      BY DEF TypeOK
    <3>2. published[1].physical <= before
      BY <1>3 DEF Start, Heard
    <3>3. published[1].physical < wall
      BY <3>1, <3>2 DEF TypeOK
    <3> QED BY <3>3 DEF Reached, Abstract!Later
  <2> QED BY <2>1, <2>2, <2>3, <2>4
<1>4. ASSUME NEW t \in Task, ReadWall(t) PROVE IInv'
  <2>1. TypeOK'
    BY <1>4 DEF ReadWall, TypeOK
  <2>2. Shown'
    BY <1>4 DEF ReadWall, TypeOK, Shown
  <2> QED BY <1>4, <2>1, <2>2 DEF ReadWall, InHand, Heard, Reached, Abstract!Later
<1>5. ASSUME NEW t \in Task, Advance(t) PROVE IInv'
  <2> DEFINE time == read[t][1]
  <2>1. time \in 0 .. MaxWall /\ time <= highest /\ phase = "up"
    BY <1>5 DEF Advance, TypeOK, Shown
  <2>2. /\ clock' \in Reading
        /\ clock'.physical \in {clock.physical, time}
        /\ \/ Abstract!Later(clock', clock)
           \/ clock' = clock /\ clock.logical = MaxLogical
    <3>1. clock' = After(clock, time) /\ clock \in Reading
      BY <1>5 DEF Advance, TypeOK
    <3> HIDE DEF time
    <3> QED BY <2>1, <3>1, AfterIsLater
  <2>3. Reached(clock', clock)
    BY <2>2 DEF Reached
  <2>4. TypeOK'
    BY <1>5, <2>2 DEF Advance, TypeOK
  <2>5. Shown'
    BY <1>5, <2>1, <2>2 DEF Advance, TypeOK, Shown
  <2>6. Heard'
    <3> SUFFICES ASSUME published # None, ~behind
                 PROVE  Reached(clock', published[1])
      BY <1>5, <2>1 DEF Advance, Heard, Reached, Abstract!Later
    <3>1. published[1] \in Reading /\ Reached(clock, published[1])
      BY <2>1 DEF Heard, TypeOK
    <3> QED BY <2>2, <2>3, <3>1, LaterTransitive DEF TypeOK
  <2>7. InHand'
    <3>1. CASE t # Oracle
      <4> SUFFICES ASSUME hand # None
                   PROVE  /\ Reached(clock', hand[1])
                          /\ published # None /\ ~behind =>
                               \/ Abstract!Later(hand[1], published[1])
                               \/ hand[1].logical = MaxLogical
        BY <1>5, <2>1, <3>1 DEF Advance, InHand, Reached, Abstract!Later
      <4>1. hand[1] \in Reading /\ Reached(clock, hand[1])
        BY DEF InHand, TypeOK
      <4> QED BY <2>2, <2>3, <4>1, LaterTransitive DEF TypeOK, InHand
    <3>2. CASE t = Oracle
      <4>1. hand' = <<clock'>> /\ published' = published /\ behind' = behind
            /\ phase' = "up"
        BY <1>5, <2>1, <3>2 DEF Advance
      <4>2. ASSUME published # None, ~behind
            PROVE  Abstract!Later(clock', published[1]) \/ clock'.logical = MaxLogical
        <5>1. published[1] \in Reading /\ Reached(clock, published[1])
          BY <2>1, <4>2 DEF Heard, TypeOK
        <5> QED BY <2>2, <2>3, <5>1, LaterTransitive DEF TypeOK
      <4>3. Reached(clock', hand'[1])
        BY <4>1 DEF Reached
      <4> QED BY <4>1, <4>2, <4>3 DEF InHand, Reached, Abstract!Later
    <3> QED BY <3>1, <3>2
  <2> QED BY <2>4, <2>5, <2>6, <2>7
<1>6. CASE Publish
  <2>1. TypeOK' /\ InHand'
    BY <1>6 DEF Publish, TypeOK, InHand
  <2>2. hand[1] \in Reading /\ phase = "up" /\ Reached(clock, hand[1])
    BY <1>6 DEF Publish, TypeOK, InHand
  <2>3. hand[1].physical <= highest
    BY <2>2 DEF Reached, Abstract!Later, TypeOK, Shown
  <2>4. published' = published \/ published' = hand
    BY <1>6 DEF Publish
  <2>5. Shown'
    BY <1>6, <2>3, <2>4 DEF Publish, TypeOK, Shown
  <2>6. Heard'
    BY <1>6, <2>2, <2>4 DEF Publish, Heard, Reached, Abstract!Later
  <2> QED BY <2>1, <2>5, <2>6
<1>7. CASE Cancel
  BY <1>7 DEF Cancel, TypeOK, Shown, InHand, Heard, Reached, Abstract!Later
<1>8. CASE Return
  BY <1>8 DEF Return, TypeOK, Shown, InHand, Heard, Reached, Abstract!Later
<1>9. CASE Crash
  <2>1. TypeOK'
    <3>1. highest \in -1 .. MaxWall /\ None \in AtMostOne(0 .. MaxWall)
      BY DEF TypeOK
    <3> QED BY <1>9, <3>1 DEF Crash, TypeOK
  <2>2. Shown' /\ Heard' /\ InHand'
    BY <1>9 DEF Crash, TypeOK, Shown, Heard, InHand
  <2> QED BY <2>1, <2>2
<1>10. CASE UNCHANGED vars
  BY <1>10 DEF vars, TypeOK, Shown, InHand, Heard, Reached, Abstract!Later
<1> QED BY <1>1, <1>2, <1>3, <1>4, <1>5, <1>6, <1>7, <1>8, <1>9, <1>10 DEF Next

(* The inductive invariant holds in every reachable state of the oracle    *)
(* and of the clocks that listen to it (oracle.rs, hlc.rs).                *)
THEOREM OracleInvariant == Spec => []IInv
BY InitIInv, NextIInv, PTL DEF Spec

(* Every variable keeps its type.                                          *)
THEOREM OracleTypeCorrect == Spec => []TypeOK
<1>1. IInv => TypeOK
  BY DEF IInv
<1> QED BY <1>1, OracleInvariant, PTL

-----------------------------------------------------------------------------
(* The clock of a process implements the abstract clock: Advance ticks it, *)
(* or leaves it at its limit, a start opens it, a crash or a return closes *)
(* it.                                                                     *)
THEOREM OracleImplementsClock == Spec => ImplementsClock
<1> DEFINE AVars == <<phase = "up", clock, highest>>
<1>1. Init => Abstract!Init
  BY DEF Init, Abstract!Init
<1>2. ASSUME IInv, [Next]_vars
      PROVE  [Abstract!Next]_AVars
  <2> USE OracleAssumption DEF IInv, AtMostOne
  <2>1. CASE WallForward
    BY <1>2, <2>1 DEF WallForward, TypeOK, Shown, Abstract!Next, Abstract!Show
  <2>2. CASE Start
    BY <1>2, <2>2 DEF Start, TypeOK, Shown, Abstract!Next, Abstract!Open
  <2>3. ASSUME NEW t \in Task, Advance(t) PROVE [Abstract!Next]_AVars
    <3> DEFINE time == read[t][1]
    <3>1. time \in 0 .. MaxWall /\ time <= highest /\ phase = "up"
      BY <1>2, <2>3 DEF Advance, TypeOK, Shown
    <3>2. /\ clock'.physical \in {clock.physical, time}
          /\ Abstract!Later(clock', clock) \/ clock' = clock
      <4>1. clock' = After(clock, time) /\ clock \in Reading
        BY <1>2, <2>3 DEF Advance, TypeOK
      <4> HIDE DEF time
      <4> QED BY <3>1, <4>1, AfterIsLater
    <3> HIDE DEF time
    <3> QED BY <1>2, <2>3, <3>1, <3>2 DEF Advance, Shown, Abstract!Next, Abstract!Tick
  <2>4. CASE Return \/ Crash
    BY <2>4 DEF Return, Crash, Abstract!Next, Abstract!Close
  <2>5. CASE WallBack \/ Publish \/ Cancel \/ \E t \in Task : ReadWall(t)
    BY <2>5 DEF WallBack, Publish, Cancel, ReadWall
  <2>6. CASE UNCHANGED vars
    BY <2>6 DEF vars
  <2> QED BY <1>2, <2>1, <2>2, <2>3, <2>4, <2>5, <2>6 DEF Next
<1> QED BY <1>1, <1>2, OracleInvariant, PTL DEF Spec, ImplementsClock, Abstract!Spec

(* What is published is later than what was, unless the clock is at its    *)
(* limit or the process started at a time shown before.                    *)
THEOREM OracleTopicForward == Spec => TopicForward
<1> DEFINE Forward ==
      published # None /\ published' # published =>
        \/ Abstract!Later(published'[1], published[1])
        \/ published'[1].logical = MaxLogical
        \/ behind
<1>1. ASSUME IInv, [Next]_vars
      PROVE  [Forward]_vars
  <2>1. CASE Publish
    BY <1>1, <2>1 DEF Publish, IInv, InHand
  <2>2. ASSUME ~Publish PROVE published' = published
    BY <1>1, <2>2 DEF Next, vars, WallForward, WallBack, Start, ReadWall, Advance,
                      Cancel, Return, Crash
  <2> QED BY <2>1, <2>2
<1> QED BY <1>1, OracleInvariant, PTL DEF Spec, TopicForward
===============================================================================
