------------------------------- MODULE Portfolio -------------------------------
(***************************************************************************)
(* The risk overlord's position table and its circuit breaker (risk-       *)
(* overlord/src/exposure.rs, circuit_breaker.rs).  Money is in scaled      *)
(* cents, an i64: multiplication saturates, addition wraps.                *)
(***************************************************************************)
EXTENDS Integers, Functions

CONSTANTS
  MaxInt,           \* i64::MAX
  MaxGross,         \* Limits::max_gross_exposure
  MaxPosition,      \* Limits::max_position
  MaxDailyLoss      \* Limits::max_daily_loss

ASSUME LimitsAssumption ==
  /\ MaxInt \in Nat \ {0}
  /\ MaxGross \in 0 .. MaxInt \div 100 /\ MaxPosition \in 0 .. MaxInt
  /\ MaxDailyLoss \in 0 .. MaxInt

Saturate(n) == IF n > MaxInt THEN MaxInt ELSE n

Wrap(n) == ((n + MaxInt + 1) % (2 * (MaxInt + 1))) - (MaxInt + 1)

Abs(n) == IF n < 0 THEN -n ELSE n

Sign(n) == IF n < 0 THEN -1 ELSE IF n = 0 THEN 0 ELSE 1

(* Division of Rust's integers, towards zero.                              *)
Quotient(n, d) == Sign(n) * (Abs(n) \div d)

-----------------------------------------------------------------------------
(* Positions are absent until their first fill, and marks until a price.   *)
NoPosition == [quantity |-> 0, avg_price |-> 0]

EmptyPortfolio == [positions |-> <<>>, marks |-> <<>>, realized_pnl |-> 0]

Lookup(f, x, default) == IF x \in DOMAIN f THEN f[x] ELSE default

Update(f, x, y) == [z \in DOMAIN f \cup {x} |-> IF z = x THEN y ELSE f[z]]

(* Position::apply_fill.  A slip: the price of the last fill is the basis. *)
FilledLastPrice(position, side, quantity, price) ==
  [quantity |-> position.quantity + side * quantity, avg_price |-> price]

Filled(position, side, quantity, price) ==
  LET q == side * quantity
      new == position.quantity + q
      total == Wrap(Saturate(position.avg_price * Abs(position.quantity))
                      + Saturate(price * Abs(q)))
  IN [quantity |-> new,
      avg_price |->
        CASE new = 0 -> 0
          [] new # 0 /\ Sign(position.quantity) # Sign(new) -> price
          [] new # 0 /\ Sign(position.quantity) = Sign(new) /\ Sign(q) = Sign(new)
               -> Quotient(total, Abs(new))
          [] OTHER -> position.avg_price]

ApplyFill(portfolio, symbol, side, quantity, price) ==
  [portfolio EXCEPT !.positions =
     Update(@, symbol,
            Filled(Lookup(@, symbol, NoPosition), side, quantity, price))]

ApplyMark(portfolio, symbol, price) ==
  [portfolio EXCEPT !.marks = Update(@, symbol, price)]

-----------------------------------------------------------------------------
Notional(portfolio, symbol) ==
  LET position == portfolio.positions[symbol]
  IN Saturate(Abs(position.quantity)
                * Lookup(portfolio.marks, symbol, position.avg_price))

GrossExposure(portfolio) ==
  Saturate(SumFunction([symbol \in DOMAIN portfolio.positions |-> Notional(portfolio, symbol)]))

(* evaluate: the first breach decides.                                     *)
Breached(portfolio) ==
  \/ portfolio.realized_pnl < 0 /\ -portfolio.realized_pnl >= MaxDailyLoss
  \/ GrossExposure(portfolio) > MaxGross

Oversized(portfolio) ==
  \E symbol \in DOMAIN portfolio.positions :
    Notional(portfolio, symbol) > MaxPosition

Evaluate(portfolio) ==
  IF Breached(portfolio) THEN "red"
  ELSE IF Oversized(portfolio) THEN "orange"
  ELSE IF GrossExposure(portfolio) * 100 >= MaxGross * 80 THEN "yellow"
  ELSE "green"
===============================================================================
