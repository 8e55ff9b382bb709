------------------------------------ MODULE Sma ------------------------------------
(***************************************************************************)
(* The moving-average crossover (momentum_signal/sma.py): two windows of   *)
(* prices with a running sum each, and the side of the long mean that the  *)
(* short mean was last on.  Prices are integers, and the means, which the  *)
(* code divides out, are compared across.                                  *)
(***************************************************************************)
EXTENDS Integers, Sequences

CONSTANTS
  ShortWindow,  \* SmaState.short_window
  LongWindow    \* SmaState.long_window

ASSUME SmaAssumption ==
  /\ ShortWindow \in Nat \ {0}
  /\ LongWindow \in Nat \ {0}

FreshSma == [short_buf |-> <<>>, long_buf |-> <<>>,
             short_sum |-> 0, long_sum |-> 0, last_position |-> 0]

(* The price enters a window and, when it is over-full, the oldest leaves. *)
Appended(buf, price, window) ==
  IF Len(buf) < window THEN Append(buf, price) ELSE Append(Tail(buf), price)

(* Slip: the sum keeps the prices that leave the window.                   *)
SummedForever(sum, buf, price, window) == sum + price

Summed(sum, buf, price, window) ==
  IF Len(buf) < window THEN sum + price ELSE sum + price - Head(buf)

Position(state) ==
  LET short == state.short_sum * LongWindow
      long == state.long_sum * ShortWindow
  IN CASE short > long -> 1
       [] short < long -> -1
       [] OTHER -> 0

Full(state) ==
  /\ Len(state.short_buf) = ShortWindow
  /\ Len(state.long_buf) = LongWindow

Push(state, price) ==
  [state EXCEPT
    !.short_buf = Appended(@, price, ShortWindow),
    !.short_sum = Summed(@, state.short_buf, price, ShortWindow),
    !.long_buf = Appended(@, price, LongWindow),
    !.long_sum = Summed(@, state.long_buf, price, LongWindow)]

Crosses(state) == Full(state) /\ Position(state) # state.last_position

(* update: the state after a price; it crossed if last_position changed.   *)
Update(state, price) ==
  LET pushed == Push(state, price)
  IN IF Crosses(pushed)
       THEN [pushed EXCEPT !.last_position = Position(pushed)]
       ELSE pushed
===============================================================================
