-------------------------------- MODULE TradingProps --------------------------------
(* What the way from a price to a fill promises.                           *)
EXTENDS Trading, FiniteSets

CONSTANT MaxSignals  \* bound on the signals the liveness property speaks of

Ids(topic) == 1..Len(sent[topic])

(* The integers the messages carry, and where each agent can be.           *)
TypeOK ==
  /\ row \in Nat \ {0} /\ order_ids \in Nat /\ since \in Nat
  /\ phase \in [Agent -> {"down", "delay", "replay", "listen", "publish",
                          "order", "broker", "fill", "done"}]
  /\ placed \subseteq 1..order_ids
  /\ \A a \in Listener : \A n \in 1..Len(inbox[a]) : inbox[a][n] \in Ids(Hears[a])

-----------------------------------------------------------------------------
(* The reference: what the prices taken say, from the averages' definition.*)
Taken ==
  [n \in 1..Len(heard) |-> [id     |-> heard[n],
                            symbol |-> sent.market[heard[n]].symbol,
                            price  |-> sent.market[heard[n]].price]]

(* The prices of a symbol among the first n taken.                         *)
Prices(taken, symbol) ==
  LET prices[n \in 0..Len(taken)] ==
        IF n = 0 THEN <<>>
        ELSE IF taken[n].symbol = symbol THEN Append(prices[n - 1], taken[n].price)
        ELSE prices[n - 1]
  IN prices

(* The sum of the first n prices, and of all of them.                      *)
Sum(prices) ==
  LET sum[n \in 0..Len(prices)] == IF n = 0 THEN 0 ELSE sum[n - 1] + prices[n]
  IN sum

Total(prices) == Sum(prices)[Len(prices)]

Latest(prices, n) == SubSeq(prices, Len(prices) - n + 1, Len(prices))

Classification(prices) ==
  LET short == Total(Latest(prices, ShortWindow)) * LongWindow
      long == Total(Latest(prices, LongWindow)) * ShortWindow
  IN IF Len(prices) < ShortWindow \/ Len(prices) < LongWindow \/ short = long THEN 0
     ELSE IF short > long THEN 1 ELSE -1

(* The side a symbol is on after the first n prices taken.                 *)
SideAfter(taken, symbol, n) == Classification(Prices(taken, symbol)[n])

(* The signals that the first n prices taken call for.                     *)
Crossings(taken) ==
  LET crossings[n \in 0..Len(taken)] ==
        IF n = 0 THEN <<>>
        ELSE LET symbol == taken[n].symbol
                 now == SideAfter(taken, symbol, n)
             IN IF now = SideAfter(taken, symbol, n - 1) THEN crossings[n - 1]
                ELSE Append(crossings[n - 1], Signal(symbol, now, taken[n].id))
  IN crossings

Signalled ==
  SubSeq(sent.alpha, since + 1, Len(sent.alpha))
    \o (IF phase["momentum"] = "publish" THEN <<hand["momentum"]>> ELSE <<>>)

(* The signals of a momentum instance, and the one it is publishing, are   *)
(* the changes of side of the two moving averages over the prices this     *)
(* instance has taken, symbol by symbol, in their order, each with a link  *)
(* to the price that made it: whatever prices were lost, repeated by a     *)
(* restarted collector, or mixed from several symbols (sma.py update over  *)
(* running sums, agent.py's state for each symbol).                        *)
SignalsAreCrossovers ==
  phase["momentum"] \notin {"down", "done"} =>
    Signalled = Crossings(Taken)[Len(Taken)]

-----------------------------------------------------------------------------
(* A blended signal repeats one that a price of its symbol has caused.     *)
Explained(signal) ==
  LET alpha == sent.alpha[signal.causal_link]
  IN /\ signal.causal_link \in Ids("alpha")
     /\ alpha.symbol = signal.symbol /\ alpha.direction = signal.direction
     /\ alpha.causal_link \in Ids("market")
     /\ sent.market[alpha.causal_link].symbol = signal.symbol

Unanswered ==
  {id \in Ids("order") : \A fill \in Ids("fill") : sent.fill[fill].causal_link # id}

(* Every order goes back, link by link, to a price of its own symbol and   *)
(* is on the side of the signal, and no signal is ordered twice.           *)
OrdersTraceable ==
  \A id \in Ids("order") :
    LET order == sent.order[id]
        signal == sent.blended[order.causal_link]
    IN /\ order.causal_link \in Ids("blended") /\ Explained(signal)
       /\ order.symbol = signal.symbol
       /\ signal.direction = IF order.side = "BUY" THEN 1 ELSE -1
       /\ \A other \in Ids("order") \ {id} :
            /\ sent.order[other].causal_link # order.causal_link
            /\ sent.order[other].order_id # order.order_id

(* A fill names its order, which was published before it and is filled     *)
(* once, and says the broker has it only if the broker does.               *)
FillsTraceable ==
  \A id \in Ids("fill") :
    LET fill == sent.fill[id]
    IN /\ fill.causal_link \in Ids("order")
       /\ fill.order_id = sent.order[fill.causal_link].order_id
       /\ fill.venue = "ALPACA-PAPER" => fill.order_id \in placed
       /\ \A other \in Ids("fill") \ {id} :
            sent.fill[other].causal_link # fill.causal_link

(* The chain of links from a fill to a price holds, and an order is        *)
(* without its fill only while the executor is at it or because an         *)
(* instance failed over it (momentum agent.py:59, blender agent.py:57,     *)
(* executor agent.py:76-144).                                              *)
Traceable ==
  /\ OrdersTraceable
  /\ FillsTraceable
  /\ Cardinality(Unanswered) <=
       faults + (IF phase["executor"] \in {"broker", "fill"} THEN 1 ELSE 0)

-----------------------------------------------------------------------------
Waits(id) ==
  /\ \E n \in 1..Len(inbox["executor"]) : inbox["executor"][n] = id
  /\ sent.blended[id].direction # 0

Filled(id) ==
  \E fill \in Ids("fill") : sent.order[sent.fill[fill].causal_link].causal_link = id

(* A signal with a direction that has reached the executor's subscription  *)
(* ends in a fill, whatever the broker answers, unless that instance fails *)
(* or is told to stop (agent.py: the broker's refusal is passed over).     *)
SignalsAreFilled ==
  \A id \in 1..MaxSignals :
    (id \in Ids("blended") /\ Waits(id))
      ~> (Filled(id) \/ phase["executor"] \in {"down", "done"})
===============================================================================
