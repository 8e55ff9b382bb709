------------------------------ MODULE RiskOverlord ------------------------------
(***************************************************************************)
(* The risk overlord (risk-overlord/src/main.rs): it applies fills and     *)
(* marks from two subscriptions to a portfolio in memory, evaluates it     *)
(* after each, and publishes an override when a limit is breached.  A fill *)
(* does not say its side, and is filed under a prefix of its order's id.   *)
(***************************************************************************)
EXTENDS Portfolio, Sequences

CONSTANTS
  Order,        \* the prefixes of order ids
  Symbol,       \* the symbols that prices are published for
  Quantity,     \* what a fill can carry
  Price,        \* what a fill or a price can carry, in scaled cents
  InboxSize,    \* messages the NATS client holds for a slow subscriber
  MaxEvents,    \* bound on the fills and prices published
  MaxCrashes    \* bound on the crashes

ASSUME RiskAssumption ==
  /\ Order \cap Symbol = {}
  /\ Quantity \subseteq Nat \ {0} /\ Price \subseteq Nat
  /\ InboxSize \in Nat /\ MaxEvents \in Nat /\ MaxCrashes \in Nat

VARIABLES
  phase,        \* "down", "idle", "deciding", "stopped"
  shutdown,     \* the shutdown token is cancelled
  portfolio,    \* PortfolioState
  decision,     \* the level that is being announced
  fills, marks, \* the messages the two subscriptions hold
  closed,       \* the subscriptions that have ended
  override,     \* the last override this instance has published
  lost,         \* history: the last override could not be published
  applied,       \* history: quantity and value of the fills applied, by order
  events,       \* the number of fills and prices published
  crashes       \* the number of crashes

vars == <<phase, shutdown, portfolio, decision, fills, marks, closed,
          override, lost, applied, events, crashes>>

NothingApplied == [order \in Order |-> [quantity |-> 0, value |-> 0, slack |-> 0]]

Init ==
  /\ phase = "down"
  /\ shutdown = FALSE
  /\ portfolio = EmptyPortfolio
  /\ decision = "green"
  /\ fills = <<>> /\ marks = <<>>
  /\ closed = {}
  /\ override = "none"
  /\ lost = FALSE
  /\ applied = NothingApplied
  /\ events = 0 /\ crashes = 0

-----------------------------------------------------------------------------
(* The other agents publish; what a subscription has no room for is lost.  *)
Deliver(inbox, message) ==
  IF Len(inbox) < InboxSize THEN Append(inbox, message) ELSE inbox

Listening == phase \in {"idle", "deciding"}

FillPublished ==
  /\ Listening /\ "fills" \notin closed
  /\ events < MaxEvents /\ events' = events + 1
  /\ \E order \in Order, quantity \in Quantity, price \in Price :
       fills' = Deliver(fills, [order |-> order, quantity |-> quantity, price |-> price])
  /\ UNCHANGED <<phase, shutdown, portfolio, decision, marks, closed, override,
                 lost, applied, crashes>>

PricePublished ==
  /\ Listening /\ "marks" \notin closed
  /\ events < MaxEvents /\ events' = events + 1
  /\ \E symbol \in Symbol, price \in Price :
       marks' = Deliver(marks, [symbol |-> symbol, price |-> price])
  /\ UNCHANGED <<phase, shutdown, portfolio, decision, fills, closed, override,
                 lost, applied, crashes>>

Close ==
  /\ Listening
  /\ \E subscription \in {"fills", "marks"} \ closed :
       closed' = closed \cup {subscription}
  /\ UNCHANGED <<phase, shutdown, portfolio, decision, fills, marks, override,
                 lost, applied, events, crashes>>

-----------------------------------------------------------------------------
(* new and the start of run: a portfolio without positions.                *)
Start ==
  /\ phase = "down"
  /\ phase' = "idle"
  /\ portfolio' = EmptyPortfolio
  /\ applied' = NothingApplied
  /\ fills' = <<>> /\ marks' = <<>>
  /\ closed' = {}
  /\ override' = "none" /\ lost' = FALSE
  /\ UNCHANGED <<shutdown, decision, events, crashes>>

(* Slip: the select looks at the shutdown last.                            *)
ReturnLast ==
  /\ phase = "idle" /\ shutdown
  /\ fills = <<>> /\ marks = <<>> /\ closed = {}
  /\ phase' = "stopped"
  /\ UNCHANGED <<shutdown, portfolio, decision, fills, marks, closed, override,
                 lost, applied, events, crashes>>

(* The select is biased: the shutdown first, then a fill, then a price.    *)
Return ==
  /\ phase = "idle" /\ shutdown
  /\ phase' = "stopped"
  /\ UNCHANGED <<shutdown, portfolio, decision, fills, marks, closed, override,
                 lost, applied, events, crashes>>

(* on_fill: a fill does not say its side, so every one is applied as a buy *)
(* of a symbol that is the order's prefix; the history counts it as it is  *)
(* applied.  A division drops less than a scaled cent for each share held. *)
Applied(fill) ==
  [applied EXCEPT ![fill.order] =
     [quantity |-> @.quantity + fill.quantity,
      value |-> @.value + fill.quantity * fill.price,
      slack |-> @.slack + @.quantity + fill.quantity - 1]]

(* Slip: the portfolio is evaluated as it was.                             *)
OnFillStale ==
  /\ phase = "idle" /\ ~shutdown
  /\ fills # <<>>
  /\ fills' = Tail(fills)
  /\ LET fill == Head(fills)
     IN /\ portfolio' = ApplyFill(portfolio, fill.order, 1, fill.quantity, fill.price)
        /\ applied' = Applied(fill)
  /\ decision' = Evaluate(portfolio)
  /\ phase' = "deciding"
  /\ UNCHANGED <<shutdown, marks, closed, override, lost, events, crashes>>

OnFill ==
  /\ phase = "idle" /\ ~shutdown
  /\ fills # <<>>
  /\ fills' = Tail(fills)
  /\ LET fill == Head(fills)
     IN /\ portfolio' = ApplyFill(portfolio, fill.order, 1, fill.quantity, fill.price)
        /\ applied' = Applied(fill)
  /\ decision' = Evaluate(portfolio')
  /\ phase' = "deciding"
  /\ UNCHANGED <<shutdown, marks, closed, override, lost, events, crashes>>

(* A subscription that has ended is ready at once, with nothing: as long   *)
(* as the loop runs no price is looked at.                                 *)
OnClosedFills ==
  /\ phase = "idle" /\ ~shutdown
  /\ fills = <<>> /\ "fills" \in closed
  /\ UNCHANGED vars

OnMarket ==
  /\ phase = "idle" /\ ~shutdown
  /\ fills = <<>> /\ "fills" \notin closed
  /\ marks # <<>>
  /\ marks' = Tail(marks)
  /\ portfolio' = ApplyMark(portfolio, Head(marks).symbol, Head(marks).price)
  /\ decision' = Evaluate(portfolio')
  /\ phase' = "deciding"
  /\ UNCHANGED <<shutdown, fills, closed, override, lost, applied, events, crashes>>

(* reevaluate publishes; an error is logged and not tried again, and       *)
(* nothing says that a limit is kept again.                                *)
Overrides == [orange |-> "SCALE", red |-> "FLATTEN_ALL"]

Announce ==
  /\ phase = "deciding"
  /\ phase' = "idle"
  /\ IF decision \in {"orange", "red"}
       THEN \/ override' = Overrides[decision] /\ lost' = FALSE
            \/ lost' = TRUE /\ UNCHANGED override
       ELSE UNCHANGED <<override, lost>>
  /\ UNCHANGED <<shutdown, portfolio, decision, fills, marks, closed, applied,
                 events, crashes>>

Loop == Return \/ OnFill \/ OnClosedFills \/ OnMarket \/ Announce

-----------------------------------------------------------------------------
Cancel ==
  /\ Listening
  /\ shutdown' = TRUE
  /\ UNCHANGED <<phase, portfolio, decision, fills, marks, closed, override,
                 lost, applied, events, crashes>>

(* The instance ends and is started again: it has forgotten its positions. *)
Crash ==
  /\ Listening /\ ~shutdown
  /\ crashes < MaxCrashes /\ crashes' = crashes + 1
  /\ phase' = "down"
  /\ UNCHANGED <<shutdown, portfolio, decision, fills, marks, closed, override,
                 lost, applied, events>>

Next ==
  \/ FillPublished \/ PricePublished \/ Close
  \/ Start \/ Loop \/ Cancel \/ Crash

Spec == Init /\ [][Next]_vars

(* The supervisor starts the agent; its loop is a task of the runtime.     *)
FairSpec == Spec /\ WF_vars(Start) /\ WF_vars(Loop)
===============================================================================
