------------------------------- MODULE RiskProofs -------------------------------
(***************************************************************************)
(* Proofs about the risk overlord: for any orders, quantities, prices and  *)
(* limits; what is said of money holds as long as the fills applied under  *)
(* a prefix are worth no more than an i64 can hold.                        *)
(***************************************************************************)
EXTENDS RiskProps, FiniteSetTheorems, WellFoundedInduction, TLAPS

-----------------------------------------------------------------------------
(* Sums.  The sum of a function over a set is a recursive function of the  *)
(* set; it takes the same element of a set off every function.             *)

Pick(s) == CHOOSE x \in s : TRUE

(* What the recursion says of a function of the subsets of a domain.       *)
SumStep(f, iter, s) == IF s = {} THEN 0 ELSE f[Pick(s)] + iter[s \ {Pick(s)}]

(* It obeys the recursion on the sets of up to n elements.                 *)
Obeys(S, f, iter, n) ==
  \A s \in SUBSET S : Cardinality(s) <= n => iter[s] = SumStep(f, iter, s)

(* It is the sum of every subset.                                          *)
SumsUp(S, f, iter) ==
  /\ \A s \in SUBSET S : iter[s] \in Nat
  /\ iter[{}] = 0
  /\ \A s \in SUBSET S : s # {} => iter[s] = f[Pick(s)] + iter[s \ {Pick(s)}]

(* The function that the recursion defines.                                *)
Sums(f) ==
  CHOOSE iter : iter = [s \in SUBSET DOMAIN f |->
                          IF s = {} THEN 0 ELSE f[Pick(s)] + iter[s \ {Pick(s)}]]

(* Every set of naturals has a least element.                              *)
LEMMA LeastNatural ==
  ASSUME NEW T \in SUBSET Nat, T # {}
  PROVE  \E x \in T : \A y \in T : x <= y
<1> DEFINE R == OpToRel(<, Nat)
<1>1. IsWellFoundedOn(R, Nat)
  BY NatLessThanWellFounded
<1>2. \A x, y \in Nat : x < y => <<x, y>> \in R
  BY DEF OpToRel
<1> HIDE DEF R
<1>3. PICK x \in T : \A y \in T : ~ (<<y, x>> \in R)
  BY <1>1, WFMin
<1>4. ASSUME NEW y \in T PROVE x <= y
  <2>1. x \in Nat /\ y \in Nat /\ ~(y < x)
    BY <1>2, <1>3
  <2> QED
    BY <2>1
<1> QED
  BY <1>4

(* Taking elements off a finite set one by one leads to the empty one.     *)
LEMMA PickOff ==
  ASSUME NEW S, IsFiniteSet(S), NEW s \in SUBSET S, s # {}
  PROVE  /\ Pick(s) \in s
         /\ s \ {Pick(s)} \in SUBSET S
         /\ Cardinality(s) \in Nat \ {0}
         /\ Cardinality(s \ {Pick(s)}) = Cardinality(s) - 1
<1>1. Pick(s) \in s
  BY Zenon DEF Pick
<1>2. IsFiniteSet(s)
  BY FS_Subset
<1>3. Cardinality(s) \in Nat /\ Cardinality(s) # 0
  BY <1>2, FS_CardinalityType, FS_EmptySet
<1>4. Cardinality(s \ {Pick(s)}) = Cardinality(s) - 1
  BY <1>1, <1>2, FS_RemoveElement
<1> QED BY <1>1, <1>3, <1>4

(* What passes from a set without its picked element to the set holds of   *)
(* every subset of a finite set.                                           *)
LEMMA SubsetInduction ==
  ASSUME NEW S, IsFiniteSet(S), NEW Good,
         \A s \in SUBSET S : s = {} \/ s \ {Pick(s)} \in Good => s \in Good
  PROVE  \A s \in SUBSET S : s \in Good
<1> DEFINE Bad == {s \in SUBSET S : s \notin Good}
<1> SUFFICES ASSUME Bad # {} PROVE FALSE
  OBVIOUS
<1> DEFINE T == {Cardinality(s) : s \in Bad}
<1>1. \A s \in SUBSET S : Cardinality(s) \in Nat
  BY FS_Subset, FS_CardinalityType
<1>2. T \in SUBSET Nat /\ T # {}
  BY <1>1
<1>3. PICK n \in T : \A m \in T : n <= m
  <2> HIDE DEF T
  <2> QED BY <1>2, LeastNatural
<1>4. PICK s \in Bad : n = Cardinality(s)
  BY <1>3
<1>5. s # {} /\ s \ {Pick(s)} \notin Good
  OBVIOUS
<1>6. s \ {Pick(s)} \in Bad /\ Cardinality(s \ {Pick(s)}) = n - 1 /\ n \in Nat
  BY <1>4, <1>5, PickOff
<1>7. n <= n - 1
  BY <1>3, <1>6
<1> QED BY <1>6, <1>7

(* The two cases of the recursion.                                         *)
LEMMA SumCases ==
  ASSUME NEW f, NEW iter, NEW s
  PROVE  /\ s = {} => SumStep(f, iter, s) = 0
         /\ s # {} => SumStep(f, iter, s) = f[Pick(s)] + iter[s \ {Pick(s)}]
BY Zenon DEF SumStep

(* There is a function that obeys the recursion on the sets of up to any   *)
(* size.                                                                   *)
LEMMA SumsUpTo ==
  ASSUME NEW S, IsFiniteSet(S), NEW f \in [S -> Nat], NEW n \in Nat
  PROVE  \E iter \in [SUBSET S -> Nat] : Obeys(S, f, iter, n)
<1> DEFINE T == {m \in Nat : ~ \E iter \in [SUBSET S -> Nat] : Obeys(S, f, iter, m)}
<1> SUFFICES ASSUME T # {} PROVE FALSE
  OBVIOUS
<1>1. PICK m \in T : \A k \in T : m <= k
  BY LeastNatural
<1>2. ASSUME NEW s \in SUBSET S, s # {}
      PROVE  /\ f[Pick(s)] \in Nat /\ s \ {Pick(s)} \in SUBSET S
             /\ Cardinality(s) \in Nat \ {0}
             /\ Cardinality(s \ {Pick(s)}) = Cardinality(s) - 1
  BY <1>2, PickOff
<1>3. CASE m = 0
  <2> DEFINE zero == [s \in SUBSET S |-> 0]
  <2>1. zero \in [SUBSET S -> Nat]
    OBVIOUS
  <2>2. ASSUME NEW s \in SUBSET S, Cardinality(s) <= 0
        PROVE  zero[s] = SumStep(f, zero, s)
    <3>1. s = {}
      <4> SUFFICES ASSUME s # {} PROVE FALSE
        OBVIOUS
      <4>1. Cardinality(s) \in Nat \ {0}
        BY <1>2, Zenon
      <4> QED BY <2>2, <4>1
    <3> QED BY <3>1, SumCases
  <2>3. Obeys(S, f, zero, m)
    BY <1>3, <2>2 DEF Obeys
  <2> QED BY <1>1, <2>1, <2>3
<1>4. CASE m # 0
  <2>1. m - 1 \in Nat /\ m - 1 \notin T
    <3>1. m \in Nat /\ m - 1 \in Nat /\ ~(m <= m - 1)
      BY <1>4
    <3> HIDE DEF T
    <3> QED BY <1>1, <3>1
  <2>2. PICK iter \in [SUBSET S -> Nat] : Obeys(S, f, iter, m - 1)
    BY <2>1
  <2>3. ASSUME NEW s \in SUBSET S
        PROVE  SumStep(f, iter, s) \in Nat
    <3>1. CASE s = {}
      <4>1. SumStep(f, iter, s) = 0
        BY <3>1, SumCases, Zenon
      <4> QED BY <4>1
    <3>2. CASE s # {}
      <4>1. f[Pick(s)] \in Nat /\ s \ {Pick(s)} \in SUBSET S
        BY <1>2, <3>2, Zenon
      <4>2. iter[s \ {Pick(s)}] \in Nat
        BY <4>1
      <4> QED BY <3>2, <4>1, <4>2, SumCases
    <3> QED BY <3>1, <3>2
  <2>4. PICK next \in [SUBSET S -> Nat] : \A s \in SUBSET S : next[s] = SumStep(f, iter, s)
    <3>1. [s \in SUBSET S |-> SumStep(f, iter, s)] \in [SUBSET S -> Nat]
      BY <2>3
    <3> QED BY <3>1
  <2>5. ASSUME NEW s \in SUBSET S, Cardinality(s) <= m
        PROVE  next[s] = SumStep(f, next, s)
    <3>1. CASE s = {}
      <4>1. SumStep(f, iter, s) = 0 /\ SumStep(f, next, s) = 0
        BY <3>1, SumCases, Zenon
      <4> QED BY <2>4, <4>1
    <3>2. CASE s # {}
      <4>1. s \ {Pick(s)} \in SUBSET S /\ Cardinality(s \ {Pick(s)}) <= m - 1
        BY <1>2, <2>5, <3>2
      <4>2. next[s \ {Pick(s)}] = iter[s \ {Pick(s)}]
        BY <2>2, <2>4, <4>1 DEF Obeys
      <4>3. /\ SumStep(f, iter, s) = f[Pick(s)] + iter[s \ {Pick(s)}]
            /\ SumStep(f, next, s) = f[Pick(s)] + next[s \ {Pick(s)}]
        BY <3>2, SumCases, Zenon
      <4> QED BY <2>4, <4>2, <4>3
    <3> QED BY <3>1, <3>2
  <2>6. Obeys(S, f, next, m)
    BY <2>5 DEF Obeys
  <2> QED BY <1>1, <2>6
<1> QED BY <1>3, <1>4

(* The recursion defines a function: its values are naturals, and it is    *)
(* what the sum of the library is.                                         *)
LEMMA SumRecursion ==
  ASSUME NEW S, IsFiniteSet(S), NEW f \in [S -> Nat]
  PROVE  /\ SumFunction(f) = Sums(f)[S]
         /\ SumsUp(S, f, Sums(f))
<1>1. SumFunction(f) = Sums(f)[S]
  BY Zenon DEF SumFunction, SumFunctionOnSet, FoldFunctionOnSet, MapThenFoldSet, Sums, Pick
<1>2. PICK iter \in [SUBSET S -> Nat] : Obeys(S, f, iter, Cardinality(S))
  BY SumsUpTo, FS_CardinalityType
<1>3. \A s \in SUBSET S : Cardinality(s) <= Cardinality(S)
  BY FS_Subset
<1>4. iter = [s \in SUBSET S |-> IF s = {} THEN 0 ELSE f[Pick(s)] + iter[s \ {Pick(s)}]]
  BY <1>2, <1>3 DEF Obeys, SumStep
<1>5. Sums(f) = [s \in SUBSET S |->
                   IF s = {} THEN 0 ELSE f[Pick(s)] + Sums(f)[s \ {Pick(s)}]]
  BY <1>4, Zenon DEF Sums
<1>6. /\ Sums(f)[{}] = 0
      /\ \A s \in SUBSET S : s # {} => Sums(f)[s] = f[Pick(s)] + Sums(f)[s \ {Pick(s)}]
  <2> DEFINE sums == Sums(f)
  <2>1. sums = [s \in SUBSET S |-> IF s = {} THEN 0 ELSE f[Pick(s)] + sums[s \ {Pick(s)}]]
    BY <1>5
  <2> HIDE DEF sums
  <2>2. /\ sums[{}] = 0
        /\ \A s \in SUBSET S : s # {} => sums[s] = f[Pick(s)] + sums[s \ {Pick(s)}]
    BY <2>1
  <2> QED BY <2>2 DEF sums
<1>7. \A s \in SUBSET S : Sums(f)[s] \in Nat
  <2> DEFINE Good == {s \in SUBSET S : Sums(f)[s] \in Nat}
  <2>1. ASSUME NEW s \in SUBSET S, s = {} \/ s \ {Pick(s)} \in Good
        PROVE  s \in Good
    <3>1. CASE s = {}
      BY <1>6, <3>1
    <3>2. CASE s # {}
      <4>1. Pick(s) \in S /\ Sums(f)[s \ {Pick(s)}] \in Nat
        BY <2>1, <3>2, PickOff
      <4>2. Sums(f)[s] = f[Pick(s)] + Sums(f)[s \ {Pick(s)}]
        BY <1>6, <3>2, Zenon
      <4> QED BY <4>1, <4>2
    <3> QED BY <3>1, <3>2
  <2>2. \A s \in SUBSET S : s \in Good
    <3> HIDE DEF Good
    <3> QED BY <2>1, SubsetInduction
  <2> QED BY <2>2
<1> QED BY <1>1, <1>6, <1>7 DEF SumsUp

-----------------------------------------------------------------------------
(* A fill of a position.                                                   *)

(* A division drops less than the divisor.                                 *)
LEMMA Division ==
  ASSUME NEW n \in Nat, NEW d \in Nat \ {0}
  PROVE  /\ n \div d \in Nat
         /\ d * (n \div d) <= n /\ n <= d * (n \div d) + d - 1
OBVIOUS

(* What an i64 can hold is not changed by the width of the integers.       *)
LEMMA InWidth ==
  ASSUME NEW n \in 0 .. MaxInt
  PROVE  Saturate(n) = n /\ Wrap(n) = n
<1>1. MaxInt \in Nat
  BY LimitsAssumption
<1>2. (n + MaxInt + 1) % (2 * (MaxInt + 1)) = n + MaxInt + 1
  BY <1>1
<1> QED BY <1>1, <1>2 DEF Saturate, Wrap

(* The running average after a buy, as long as the money fits: what was    *)
(* applied is worth the position at its average, less what the divisions    *)
(* dropped.                                                                *)
LEMMA FilledRounds ==
  ASSUME NEW held \in Nat, NEW average \in Nat, NEW value \in Nat, NEW slack \in Nat,
         value - held * average \in 0 .. slack,
         NEW quantity \in Nat \ {0}, NEW price \in Nat,
         value + quantity * price <= MaxInt
  PROVE  LET filled == Filled([quantity |-> held, avg_price |-> average], 1, quantity, price)
         IN /\ filled.quantity = held + quantity
            /\ filled.avg_price \in Nat
            /\ (value + quantity * price) - filled.quantity * filled.avg_price
                 \in 0 .. slack + held + quantity - 1
<1> DEFINE position == [quantity |-> held, avg_price |-> average]
           filled == Filled(position, 1, quantity, price)
<1>1. MaxInt \in Nat
  BY LimitsAssumption
<1>2. /\ held * average \in Nat /\ average * held = held * average
      /\ quantity * price \in Nat /\ price * quantity = quantity * price
  OBVIOUS
<1>t. PICK total \in Nat : total = average * held + price * quantity
  BY <1>2
<1>3. average * held \in 0 .. MaxInt /\ price * quantity \in 0 .. MaxInt /\ total \in 0 .. MaxInt
  BY <1>1, <1>2, <1>t
<1>4. Wrap(Saturate(average * held) + Saturate(price * quantity)) = total
  BY <1>3, <1>t, InWidth
<1>5. /\ Abs(held) = held /\ Abs(quantity) = quantity /\ 1 * quantity = quantity
      /\ Abs(held + quantity) = held + quantity
      /\ Sign(quantity) = 1 /\ Sign(held + quantity) = 1
      /\ Sign(held) = IF held = 0 THEN 0 ELSE 1
      /\ held + quantity \in Nat \ {0}
  BY DEF Abs, Sign
<1>6. filled.quantity = held + quantity
  BY <1>5 DEF Filled
<1>7. CASE held = 0
  <2>1. filled.avg_price = price
    BY <1>5, <1>7 DEF Filled
  <2> QED BY <1>2, <1>6, <1>7, <2>1
<1>8. CASE held # 0
  <2>1. filled.avg_price = Quotient(total, held + quantity)
    BY <1>4, <1>5, <1>8 DEF Filled
  <2>2. PICK new \in Nat \ {0} : new = held + quantity
    BY <1>5
  <2>3. PICK quotient \in Nat : quotient = total \div new
    BY Division
  <2>4. Quotient(total, new) = quotient
    <3>1. Abs(total) = total /\ total \in Nat
      BY <1>3 DEF Abs
    <3>2. Quotient(total, new) = Sign(total) * quotient
      BY <2>3, <3>1, Zenon DEF Quotient
    <3>3. CASE total = 0
      BY <2>2, <2>3, <3>2, <3>3 DEF Sign
    <3>4. CASE total # 0
      <4>1. Sign(total) = 1
        BY <3>1, <3>4 DEF Sign
      <4> QED BY <3>2, <4>1
    <3> QED BY <3>3, <3>4
  <2>5. new * quotient <= total /\ total <= new * quotient + new - 1 /\ new * quotient \in Nat
    <3>1. new * (total \div new) <= total /\ total <= new * (total \div new) + new - 1
      BY Division
    <3>2. new * quotient <= total /\ total <= new * quotient + new - 1
      BY <2>3, <3>1, Zenon
    <3> QED BY <3>2
  <2>6. filled.avg_price = quotient /\ filled.quantity = new
    BY <1>6, <2>1, <2>2, <2>4
  <2>7. (value + quantity * price) - new * quotient \in 0 .. slack + new - 1
    BY <1>2, <1>t, <2>2, <2>5
  <2> QED BY <2>2, <2>6, <2>7
<1> QED BY <1>7, <1>8

-----------------------------------------------------------------------------
(* The invariant.                                                          *)

Fill == [order : Order, quantity : Quantity, price : Price]

Mark == [symbol : Symbol, price : Price]

(* The prefixes that fills were applied under.                             *)
Traded == {order \in Order : applied[order].quantity > 0}

(* The positions are those of the orders that fills were applied under, a  *)
(* finite number; nothing is ever realized, and no mark is an order's.     *)
PortfolioOK ==
  /\ portfolio = [positions |-> portfolio.positions, marks |-> portfolio.marks, realized_pnl |-> 0]
  /\ portfolio.positions = [order \in Traded |-> portfolio.positions[order]]
  /\ DOMAIN portfolio.marks \subseteq Symbol
  /\ IsFiniteSet(Traded)

(* A position is as large as the fills applied and, while the money fits,  *)
(* worth as much, less what the divisions dropped.                         *)
PositionOK(order) ==
  /\ applied[order].quantity = 0 => applied[order].value = 0 /\ applied[order].slack = 0
  /\ order \in Traded =>
       LET position == portfolio.positions[order]
       IN /\ position = [quantity |-> applied[order].quantity, avg_price |-> position.avg_price]
          /\ applied[order].value <= MaxInt =>
               /\ position.avg_price \in Nat
               /\ applied[order].value - applied[order].quantity * position.avg_price
                    \in 0 .. applied[order].slack

(* The decision is about the portfolio as it is, and has been announced    *)
(* when the loop waits again, unless that failed.                          *)
BreakerOK ==
  /\ phase = "deciding" => decision = Evaluate(portfolio)
  /\ phase = "idle" /\ ~lost =>
       /\ Evaluate(portfolio) = "red" => override = "FLATTEN_ALL"
       /\ Evaluate(portfolio) \in {"orange", "red"} => override # "none"

RiskInv == TypeOK /\ PortfolioOK /\ (\A order \in Order : PositionOK(order)) /\ BreakerOK

(* The fills applied under a prefix are worth no more than an i64 holds.   *)
InRange == \A order \in Order : applied[order].value <= MaxInt

-----------------------------------------------------------------------------
(* The types.                                                              *)

(* The breaker has four levels.                                            *)
LEMMA LevelTyped ==
  ASSUME NEW table
  PROVE  Evaluate(table) \in {"green", "yellow", "orange", "red"}
BY Zenon DEF Evaluate

(* A subscription holds messages of its subject.                           *)
LEMMA DeliverTyped ==
  ASSUME NEW Message, NEW inbox \in Seq(Message), NEW message \in Message
  PROVE  Deliver(inbox, message) \in Seq(Message)
BY DEF Deliver

(* What was applied is counted in naturals.                                *)
LEMMA AppliedTyped ==
  ASSUME applied \in [Order -> [quantity : Nat, value : Nat, slack : Nat]], NEW fill \in Fill
  PROVE  /\ Applied(fill) \in [Order -> [quantity : Nat, value : Nat, slack : Nat]]
         /\ \A order \in Order : order # fill.order => Applied(fill)[order] = applied[order]
         /\ Applied(fill)[fill.order] =
              [quantity |-> applied[fill.order].quantity + fill.quantity,
               value |-> applied[fill.order].value + fill.quantity * fill.price,
               slack |-> applied[fill.order].slack + applied[fill.order].quantity
                           + fill.quantity - 1]
<1>1. /\ fill.order \in Order /\ fill.quantity \in Nat \ {0} /\ fill.price \in Nat
  BY RiskAssumption DEF Fill
<1>2. PICK old \in [quantity : Nat, value : Nat, slack : Nat] : old = applied[fill.order]
  BY <1>1
<1>3. fill.quantity * fill.price \in Nat
  BY <1>1
<1>4. PICK new : new = [quantity |-> old.quantity + fill.quantity,
                        value |-> old.value + fill.quantity * fill.price,
                        slack |-> old.slack + old.quantity + fill.quantity - 1]
  OBVIOUS
<1>5. new \in [quantity : Nat, value : Nat, slack : Nat]
  BY <1>1, <1>3, <1>4
<1>6. Applied(fill) = [applied EXCEPT ![fill.order] = new]
  BY <1>2, <1>4 DEF Applied
<1> QED BY <1>1, <1>2, <1>4, <1>5, <1>6

-----------------------------------------------------------------------------
(* The steps.                                                              *)

(* A portfolio without positions breaches nothing.                         *)
LEMMA EmptyKeeps == Evaluate(EmptyPortfolio) \notin {"orange", "red"}
<1>1. /\ DOMAIN EmptyPortfolio.positions = {} /\ EmptyPortfolio.realized_pnl = 0
  BY DEF EmptyPortfolio
<1> DEFINE f == [symbol \in {} |-> Notional(EmptyPortfolio, symbol)]
<1>2. SumFunction(f) = 0
  <2>1. IsFiniteSet({}) /\ f \in [{} -> Nat]
    BY FS_EmptySet
  <2> HIDE DEF f
  <2> QED BY <2>1, SumRecursion DEF SumsUp
<1>3. GrossExposure(EmptyPortfolio) = 0
  BY <1>1, <1>2, LimitsAssumption DEF GrossExposure, Saturate
<1>4. ~(0 > MaxGross)
  BY LimitsAssumption
<1>5. ~Breached(EmptyPortfolio)
  BY <1>1, <1>3, <1>4 DEF Breached
<1>6. ~Oversized(EmptyPortfolio)
  BY <1>1 DEF Oversized
<1> QED BY <1>5, <1>6 DEF Evaluate

(* The invariant holds before the first start.                             *)
LEMMA InitInv == Init => RiskInv
<1> SUFFICES ASSUME Init PROVE RiskInv
  OBVIOUS
<1>1. Traded = {}
  BY DEF Init, NothingApplied, Traded
<1>2. DOMAIN EmptyPortfolio.positions = {} /\ DOMAIN EmptyPortfolio.marks = {}
  BY DEF EmptyPortfolio
<1>3. TypeOK
  <2>1. applied \in [Order -> [quantity : Nat, value : Nat, slack : Nat]]
    BY DEF Init, NothingApplied
  <2>2. events \in 0 .. MaxEvents /\ crashes \in 0 .. MaxCrashes
    BY RiskAssumption DEF Init
  <2>3. shutdown \in BOOLEAN /\ lost \in BOOLEAN
    BY Zenon DEF Init
  <2>4. fills = <<>> /\ marks = <<>> /\ portfolio = EmptyPortfolio
    BY DEF Init
  <2>5. /\ phase \in {"down", "idle", "deciding", "stopped"}
        /\ decision \in {"green", "yellow", "orange", "red"}
        /\ closed \subseteq {"fills", "marks"}
        /\ override \in {"none", "SCALE", "FLATTEN_ALL"}
    BY DEF Init
  <2> QED BY <1>2, <2>1, <2>2, <2>3, <2>4, <2>5 DEF TypeOK
<1>4. PortfolioOK
  BY <1>1, <1>2, FS_EmptySet DEF Init, PortfolioOK, EmptyPortfolio
<1>5. \A order \in Order : PositionOK(order)
  BY <1>1 DEF Init, NothingApplied, PositionOK
<1>6. BreakerOK
  BY DEF Init, BreakerOK
<1> QED BY <1>3, <1>4, <1>5, <1>6 DEF RiskInv

(* A step that leaves the portfolio and what was applied alone.            *)
LEMMA TableKept ==
  ASSUME PortfolioOK, \A order \in Order : PositionOK(order), UNCHANGED <<portfolio, applied>>
  PROVE  PortfolioOK' /\ \A order \in Order : PositionOK(order)'
BY DEF PortfolioOK, PositionOK, Traded

(* The start of an instance, which knows nothing of the one before.        *)
LEMMA StartInv ==
  ASSUME RiskInv, Start
  PROVE  RiskInv'
<1>1. /\ portfolio' = EmptyPortfolio /\ applied' = NothingApplied
      /\ phase' = "idle" /\ override' = "none"
  BY DEF Start
<1>2. Traded' = {}
  BY <1>1 DEF NothingApplied, Traded
<1>3. DOMAIN EmptyPortfolio.positions = {} /\ DOMAIN EmptyPortfolio.marks = {}
  BY DEF EmptyPortfolio
<1>4. TypeOK'
  <2>1. applied' \in [Order -> [quantity : Nat, value : Nat, slack : Nat]]
    BY <1>1 DEF NothingApplied
  <2>2. shutdown' \in BOOLEAN /\ lost' \in BOOLEAN
    BY Zenon DEF RiskInv, TypeOK, Start
  <2>3. /\ fills' = <<>> /\ marks' = <<>> /\ closed' = {}
        /\ decision' = decision /\ events' = events /\ crashes' = crashes
    BY DEF Start
  <2> QED BY <1>1, <1>3, <2>1, <2>2, <2>3 DEF RiskInv, TypeOK
<1>5. PortfolioOK'
  BY <1>1, <1>2, <1>3, FS_EmptySet DEF PortfolioOK, EmptyPortfolio
<1>6. \A order \in Order : PositionOK(order)'
  BY <1>1, <1>2 DEF NothingApplied, PositionOK
<1>7. BreakerOK'
  BY <1>1, EmptyKeeps DEF BreakerOK
<1> QED BY <1>4, <1>5, <1>6, <1>7 DEF RiskInv

(* A fill: the position of its order, and that one only, is larger by it.  *)
LEMMA OnFillInv ==
  ASSUME RiskInv, OnFill
  PROVE  RiskInv'
<1>1. PICK fill \in Fill : fill = Head(fills)
  <2>1. fills \in Seq(Fill) /\ fills # <<>>
    BY DEF RiskInv, TypeOK, OnFill, Fill
  <2> QED BY <2>1
<1>2. /\ fill.order \in Order /\ fill.quantity \in Nat \ {0} /\ fill.price \in Nat
  BY RiskAssumption DEF Fill
<1>3. /\ portfolio' = ApplyFill(portfolio, fill.order, 1, fill.quantity, fill.price)
      /\ applied' = Applied(fill) /\ decision' = Evaluate(portfolio') /\ phase' = "deciding"
  BY <1>1 DEF OnFill
<1>4. /\ applied \in [Order -> [quantity : Nat, value : Nat, slack : Nat]]
      /\ applied' \in [Order -> [quantity : Nat, value : Nat, slack : Nat]]
      /\ \A order \in Order : order # fill.order => applied'[order] = applied[order]
      /\ applied'[fill.order] =
           [quantity |-> applied[fill.order].quantity + fill.quantity,
            value |-> applied[fill.order].value + fill.quantity * fill.price,
            slack |-> applied[fill.order].slack + applied[fill.order].quantity + fill.quantity - 1]
  BY <1>3, AppliedTyped DEF RiskInv, TypeOK
<1>5. PICK held \in Nat, value \in Nat, slack \in Nat :
        applied[fill.order] = [quantity |-> held, value |-> value, slack |-> slack]
  BY <1>2, <1>4
<1>6. /\ applied'[fill.order].quantity = held + fill.quantity
      /\ applied'[fill.order].value = value + fill.quantity * fill.price
      /\ applied'[fill.order].slack = slack + held + fill.quantity - 1
      /\ applied'[fill.order].quantity > 0
  BY <1>2, <1>4, <1>5
<1>7. Traded' = Traded \cup {fill.order}
  BY <1>2, <1>4, <1>6 DEF Traded
<1> DEFINE before == Lookup(portfolio.positions, fill.order, NoPosition)
           filled == Filled(before, 1, fill.quantity, fill.price)
<1>8. /\ portfolio = [positions |-> portfolio.positions, marks |-> portfolio.marks, realized_pnl |-> 0]
      /\ portfolio.positions = [order \in Traded |-> portfolio.positions[order]]
      /\ DOMAIN portfolio.marks \subseteq Symbol
      /\ IsFiniteSet(Traded)
  BY DEF RiskInv, PortfolioOK
<1>9. /\ portfolio' = [positions |-> portfolio'.positions, marks |-> portfolio'.marks,
                       realized_pnl |-> 0]
      /\ portfolio'.marks = portfolio.marks
      /\ portfolio'.positions = Update(portfolio.positions, fill.order, filled)
  BY <1>3, <1>8 DEF ApplyFill
<1>10. portfolio'.positions = [order \in Traded' |->
          IF order = fill.order THEN filled ELSE portfolio.positions[order]]
  BY <1>7, <1>8, <1>9 DEF Update
<1>11. TypeOK'
  <2>1. DOMAIN portfolio'.positions \subseteq Order /\ DOMAIN portfolio'.marks \subseteq Symbol
    BY <1>8, <1>9, <1>10 DEF Traded
  <2>2. decision' \in {"green", "yellow", "orange", "red"}
    BY <1>3, LevelTyped
  <2>3. fills' \in Seq([order : Order, quantity : Quantity, price : Price])
    BY DEF RiskInv, TypeOK, OnFill
  <2> QED BY <1>3, <1>4, <2>1, <2>2, <2>3 DEF RiskInv, TypeOK, OnFill
<1>12. PortfolioOK'
  <2>1. IsFiniteSet(Traded')
    BY <1>7, <1>8, FS_AddElement
  <2>2. portfolio'.positions = [order \in Traded' |-> portfolio'.positions[order]]
    BY <1>10
  <2> QED BY <1>8, <1>9, <2>1, <2>2 DEF PortfolioOK
<1>13. ASSUME NEW order \in Order
       PROVE  PositionOK(order)'
  <2>1. PositionOK(order)
    BY DEF RiskInv
  <2>2. CASE order # fill.order
    <3>1. applied'[order] = applied[order] /\ (order \in Traded' <=> order \in Traded)
      BY <1>4, <1>7, <2>2
    <3>2. order \in Traded => portfolio'.positions[order] = portfolio.positions[order]
      BY <1>7, <1>10, <2>2
    <3> QED BY <2>1, <3>1, <3>2 DEF PositionOK
  <2>3. CASE order = fill.order
    <3>1. portfolio'.positions[order] = filled
      BY <1>7, <1>10, <2>3
    <3>2. PICK average :
            /\ before = [quantity |-> held, avg_price |-> average]
            /\ value <= MaxInt => average \in Nat /\ value - held * average \in 0 .. slack
      <4>1. CASE order \in Traded
        <5>1. before = portfolio.positions[order]
          BY <1>8, <2>3, <4>1 DEF Lookup
        <5>2. applied[order] = [quantity |-> held, value |-> value, slack |-> slack]
          BY <1>5, <2>3
        <5> HIDE DEF before
        <5>3. PICK average : average = before.avg_price
          OBVIOUS
        <5>4. /\ before = [quantity |-> held, avg_price |-> average]
              /\ value <= MaxInt => average \in Nat /\ value - held * average \in 0 .. slack
          BY <2>1, <4>1, <5>1, <5>2, <5>3 DEF PositionOK
        <5> QED BY <5>4
      <4>2. CASE order \notin Traded
        <5>1. held = 0 /\ value = 0 /\ slack = 0
          BY <1>2, <1>5, <2>1, <2>3, <4>2 DEF PositionOK, Traded
        <5>2. before = [quantity |-> 0, avg_price |-> 0]
          BY <1>8, <2>3, <4>2 DEF Lookup, NoPosition
        <5> QED BY <5>1, <5>2
      <4> QED BY <4>1, <4>2
    <3>3. filled = [quantity |-> held + fill.quantity, avg_price |-> filled.avg_price]
      <4>1. 1 * fill.quantity = fill.quantity
        BY <1>2
      <4> QED BY <3>2, <4>1 DEF Filled
    <3>4. ASSUME value + fill.quantity * fill.price <= MaxInt
          PROVE  /\ filled.avg_price \in Nat
                 /\ (value + fill.quantity * fill.price)
                      - (held + fill.quantity) * filled.avg_price
                      \in 0 .. slack + held + fill.quantity - 1
      <4>1. fill.quantity * fill.price \in Nat /\ MaxInt \in Nat
        BY <1>2, LimitsAssumption
      <4>2. value <= MaxInt
        BY <3>4, <4>1
      <4>3. average \in Nat /\ value - held * average \in 0 .. slack
        BY <3>2, <4>2
      <4>4. before = [quantity |-> held, avg_price |-> average]
        BY <3>2
      <4> HIDE DEF before
      <4> QED BY <1>2, <3>3, <3>4, <4>3, <4>4, FilledRounds
    <3> HIDE DEF filled
    <3> QED BY <1>6, <2>3, <3>1, <3>3, <3>4 DEF PositionOK
  <2> QED BY <2>2, <2>3
<1>14. BreakerOK'
  BY <1>3 DEF BreakerOK
<1> QED BY <1>11, <1>12, <1>13, <1>14 DEF RiskInv

(* A price: nothing that is held.                                          *)
LEMMA OnMarketInv ==
  ASSUME RiskInv, OnMarket
  PROVE  RiskInv'
<1>1. PICK mark \in Mark : mark = Head(marks)
  <2>1. marks \in Seq(Mark) /\ marks # <<>>
    BY DEF RiskInv, TypeOK, OnMarket, Mark
  <2> QED BY <2>1
<1>s. mark.symbol \in Symbol
  BY DEF Mark
<1>2. /\ portfolio' = ApplyMark(portfolio, mark.symbol, mark.price)
      /\ applied' = applied /\ decision' = Evaluate(portfolio') /\ phase' = "deciding"
  BY <1>1 DEF OnMarket
<1>3. /\ portfolio = [positions |-> portfolio.positions, marks |-> portfolio.marks, realized_pnl |-> 0]
      /\ DOMAIN portfolio.marks \subseteq Symbol
  BY DEF RiskInv, PortfolioOK
<1>4. /\ portfolio' = [positions |-> portfolio'.positions, marks |-> portfolio'.marks,
                       realized_pnl |-> 0]
      /\ portfolio'.positions = portfolio.positions
      /\ DOMAIN portfolio'.marks = DOMAIN portfolio.marks \cup {mark.symbol}
  BY <1>2, <1>3 DEF ApplyMark, Update
<1>5. DOMAIN portfolio'.marks \subseteq Symbol
  BY <1>3, <1>4, <1>s
<1>6. Traded' = Traded
  BY <1>2 DEF Traded
<1>7. TypeOK'
  <2>1. decision' \in {"green", "yellow", "orange", "red"}
    BY <1>2, LevelTyped
  <2>2. marks' \in Seq([symbol : Symbol, price : Price])
    BY DEF RiskInv, TypeOK, OnMarket
  <2> QED BY <1>2, <1>4, <1>5, <2>1, <2>2 DEF RiskInv, TypeOK, OnMarket
<1>8. PortfolioOK'
  BY <1>4, <1>5, <1>6 DEF RiskInv, PortfolioOK
<1>9. \A order \in Order : PositionOK(order)'
  BY <1>2, <1>4, <1>6 DEF RiskInv, PositionOK
<1>10. BreakerOK'
  BY <1>2 DEF BreakerOK
<1> QED BY <1>7, <1>8, <1>9, <1>10 DEF RiskInv

(* The announcement.                                                       *)
LEMMA AnnounceInv ==
  ASSUME RiskInv, Announce
  PROVE  RiskInv'
<1>1. decision = Evaluate(portfolio) /\ phase' = "idle" /\ UNCHANGED <<portfolio, applied, decision>>
  BY DEF RiskInv, BreakerOK, Announce
<1>2. \/ decision = "orange" /\ override' = "SCALE" /\ lost' = FALSE
      \/ decision = "red" /\ override' = "FLATTEN_ALL" /\ lost' = FALSE
      \/ lost' = TRUE /\ override' = override
      \/ decision \notin {"orange", "red"} /\ override' = override /\ lost' = lost
  BY DEF Announce, Overrides
<1>3. TypeOK'
  <2>1. override' \in {"none", "SCALE", "FLATTEN_ALL"}
    BY <1>2 DEF RiskInv, TypeOK
  <2>2. lost' \in BOOLEAN
    BY <1>2, Zenon DEF RiskInv, TypeOK
  <2> QED BY <2>1, <2>2 DEF RiskInv, TypeOK, Announce
<1>4. PortfolioOK' /\ \A order \in Order : PositionOK(order)'
  BY <1>1, TableKept DEF RiskInv
<1>5. BreakerOK'
  BY <1>1, <1>2 DEF BreakerOK
<1> QED BY <1>3, <1>4, <1>5 DEF RiskInv

(* A step that touches neither the portfolio nor the decision nor what has *)
(* been announced, and does not begin to wait or to decide.                *)
LEMMA OtherInv ==
  ASSUME RiskInv, TypeOK', UNCHANGED <<portfolio, applied, decision, override, lost>>,
         phase' = phase \/ phase' \in {"down", "stopped"}
  PROVE  RiskInv'
<1>1. PortfolioOK' /\ \A order \in Order : PositionOK(order)'
  BY TableKept DEF RiskInv
<1>2. BreakerOK'
  BY DEF RiskInv, BreakerOK
<1> QED BY <1>1, <1>2 DEF RiskInv

(* Every step of the overlord and of what it listens to.                   *)
LEMMA StepInv ==
  ASSUME RiskInv, [Next]_vars
  PROVE  RiskInv'
<1>t. TypeOK
  BY DEF RiskInv
<1>1. CASE FillPublished
  <2>1. fills' \in Seq([order : Order, quantity : Quantity, price : Price])
    <3>1. PICK message \in Fill : fills' = Deliver(fills, message)
      BY <1>1 DEF FillPublished, Fill
    <3>2. fills \in Seq(Fill)
      BY <1>t DEF TypeOK, Fill
    <3> QED BY <3>1, <3>2, DeliverTyped DEF Fill
  <2>2. events' \in 0 .. MaxEvents
    BY <1>1, <1>t, RiskAssumption DEF FillPublished, TypeOK
  <2>3. TypeOK'
    BY <1>1, <1>t, <2>1, <2>2 DEF FillPublished, TypeOK
  <2> QED BY <1>1, <2>3, OtherInv DEF FillPublished
<1>2. CASE PricePublished
  <2>1. marks' \in Seq([symbol : Symbol, price : Price])
    <3>1. PICK message \in Mark : marks' = Deliver(marks, message)
      BY <1>2 DEF PricePublished, Mark
    <3>2. marks \in Seq(Mark)
      BY <1>t DEF TypeOK, Mark
    <3> QED BY <3>1, <3>2, DeliverTyped DEF Mark
  <2>2. events' \in 0 .. MaxEvents
    BY <1>2, <1>t, RiskAssumption DEF PricePublished, TypeOK
  <2>3. TypeOK'
    BY <1>2, <1>t, <2>1, <2>2 DEF PricePublished, TypeOK
  <2> QED BY <1>2, <2>3, OtherInv DEF PricePublished
<1>3. CASE Close
  <2>1. TypeOK'
    BY <1>3, <1>t DEF Close, TypeOK
  <2> QED BY <1>3, <2>1, OtherInv DEF Close
<1>4. CASE Return
  <2>1. TypeOK'
    BY <1>4, <1>t DEF Return, TypeOK
  <2> QED BY <1>4, <2>1, OtherInv DEF Return
<1>5. CASE Cancel
  <2>1. shutdown' \in BOOLEAN
    BY <1>5, Zenon DEF Cancel
  <2>2. TypeOK'
    BY <1>5, <1>t, <2>1 DEF Cancel, TypeOK
  <2> QED BY <1>5, <2>2, OtherInv DEF Cancel
<1>6. CASE Crash
  <2>1. crashes' \in 0 .. MaxCrashes
    BY <1>6, <1>t, RiskAssumption DEF Crash, TypeOK
  <2>2. TypeOK'
    BY <1>6, <1>t, <2>1 DEF Crash, TypeOK
  <2> QED BY <1>6, <2>2, OtherInv DEF Crash
<1>7. CASE UNCHANGED vars
  <2>1. TypeOK'
    BY <1>7, <1>t DEF vars, TypeOK
  <2> QED BY <1>7, <2>1, OtherInv DEF vars
<1>8. CASE OnClosedFills
  BY <1>7, <1>8 DEF OnClosedFills
<1> QED BY <1>1, <1>2, <1>3, <1>4, <1>5, <1>6, <1>7, <1>8, StartInv, OnFillInv, OnMarketInv,
           AnnounceInv DEF Next, Loop

(* The invariant of the overlord, for any fills, prices, limits, crashes   *)
(* and failed announcements, and whether or not the money fits.            *)
THEOREM RiskInvariant == Spec => []RiskInv
<1>1. Init => RiskInv
  BY InitInv
<1>2. RiskInv /\ [Next]_vars => RiskInv'
  BY StepInv
<1> QED BY <1>1, <1>2, PTL DEF Spec

-----------------------------------------------------------------------------
(* What follows.                                                           *)

(* The types of RiskProps hold: positions are orders' and marks are        *)
(* symbols', so that no price ever meets a position.                       *)
THEOREM RiskTypeCorrect == Spec => []TypeOK
<1>1. RiskInv => TypeOK
  BY DEF RiskInv
<1> QED BY <1>1, RiskInvariant, PTL

(* exposure.rs:28-35: as long as the money fits, a position is worth at    *)
(* its average what its fills cost, less than a scaled cent per share held *)
(* and fill, however many fills there are.                                 *)
THEOREM RiskAverageRounds == Spec => [](InRange => AverageRounds)
<1>1. ASSUME RiskInv, InRange, NEW order \in Order
      PROVE  LET position == Lookup(portfolio.positions, order, NoPosition)
                 worth == position.quantity * position.avg_price
             IN /\ position.quantity = applied[order].quantity
                /\ applied[order].value - worth \in 0 .. applied[order].slack
  <2>1. DOMAIN portfolio.positions = Traded /\ PositionOK(order)
    BY <1>1 DEF RiskInv, PortfolioOK
  <2>2. applied[order] \in [quantity : Nat, value : Nat, slack : Nat]
    BY <1>1 DEF RiskInv, TypeOK
  <2>3. CASE order \in Traded
    <3>1. Lookup(portfolio.positions, order, NoPosition) = portfolio.positions[order]
      BY <2>1, <2>3 DEF Lookup
    <3> QED BY <1>1, <2>1, <2>3, <3>1 DEF PositionOK, InRange
  <2>4. CASE order \notin Traded
    <3>1. applied[order].quantity = 0 /\ applied[order].value = 0 /\ applied[order].slack = 0
      BY <2>1, <2>2, <2>4 DEF PositionOK, Traded
    <3>2. Lookup(portfolio.positions, order, NoPosition) = NoPosition
      BY <2>1, <2>4 DEF Lookup
    <3> QED BY <3>1, <3>2 DEF NoPosition
  <2> QED BY <2>3, <2>4
<1>2. RiskInv /\ InRange => AverageRounds
  BY <1>1 DEF AverageRounds
<1> QED BY <1>2, RiskInvariant, PTL

(* main.rs:140-181, for any portfolio, whether or not the money fits: a    *)
(* waiting overlord has published the override that the portfolio it holds *)
(* calls for, or could not; and it flattens nothing within the gross limit.*)
THEOREM RiskBreachAnnounced == Spec => []BreachAnnounced
<1>1. ASSUME RiskInv
      PROVE  BreachAnnounced
  <2>1. portfolio.realized_pnl = 0
    BY <1>1 DEF RiskInv, PortfolioOK
  <2>2. Breached(portfolio) <=> GrossExposure(portfolio) > MaxGross
    BY <2>1 DEF Breached
  <2>3. Evaluate(portfolio) = "red" <=> Breached(portfolio)
    BY Zenon DEF Evaluate
  <2>4. Oversized(portfolio) => Evaluate(portfolio) \in {"orange", "red"}
    BY Zenon DEF Evaluate
  <2> QED BY <1>1, <2>2, <2>3, <2>4 DEF RiskInv, BreakerOK, BreachAnnounced
<1>2. RiskInv => BreachAnnounced
  BY <1>1
<1> QED BY <1>2, RiskInvariant, PTL
================================================================================
