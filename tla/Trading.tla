---------------------------------- MODULE Trading ----------------------------------
(***************************************************************************)
(* From a price to a fill: the CSV collector, the momentum agent, the      *)
(* signal blender and the paper executor, each publishing for the next one *)
(* over a topic that keeps nothing for a subscriber that is not there.     *)
(*                                                                         *)
(* A message's identifier is its place among what was published on its     *)
(* topic.  A topic carries one type of message, so the agents' guards on   *)
(* the type are the topics.  The runtimes that restart the agents are modelled *)
(* in Supervisor and PySupervisor.                                         *)
(***************************************************************************)
EXTENDS Sma

CONSTANTS
  Fixtures,     \* the files the collector may replay: sequences of rows
  InboxSize,    \* messages the NATS client holds for a slow subscriber
  Stoppable,    \* the processes that may be told to stop
  MaxFaults,    \* bound on the failures of instances and of the rows' publishing
  Nothing       \* nothing to publish

(* What the collector publishes of a row of the file.                      *)
FixtureRow == [symbol : STRING, price : Nat]

ASSUME TradingAssumption ==
  /\ Fixtures \subseteq Seq(FixtureRow)
  /\ Stoppable \subseteq {"core", "logic"}
  /\ InboxSize \in Nat /\ MaxFaults \in Nat

VARIABLES
  fixture,   \* the rows of the file
  row,       \* the row the collector is at
  phase,     \* where each agent is
  inbox,     \* the identifiers each subscription holds
  hand,      \* what each agent is about to publish
  sma,       \* the momentum agent's state for each symbol
  client,    \* the executor has a broker
  order_ids, \* the number of order ids drawn
  placed,    \* the orders the broker has accepted
  sent,      \* the messages published on each topic
  heard,     \* history: the prices this momentum instance has taken
  since,     \* history: the signals published when it began
  shutdown,  \* the processes that were told to stop
  faults     \* the number of failed instances and of rows not published

vars == <<fixture, row, phase, inbox, hand, sma, client, order_ids, placed,
          sent, heard, since, shutdown, faults>>

Listener == {"momentum", "blender", "executor"}
Agent == Listener \cup {"collector"}

Process(a) == IF a = "collector" THEN "core" ELSE "logic"

Topic == {"market", "alpha", "blended", "order", "fill"}

(* The topics, by the agent that subscribes to them.                       *)
Hears == [momentum |-> "market", blender |-> "alpha", executor |-> "blended"]

Symbol == {fixture[n].symbol : n \in 1..Len(fixture)}

Init ==
  /\ fixture \in Fixtures
  /\ row = 1
  /\ phase = [a \in Agent |-> "down"]
  /\ inbox = [a \in Listener |-> <<>>]
  /\ hand = [a \in Agent |-> Nothing]
  /\ sma = [s \in Symbol |-> FreshSma]
  /\ client = FALSE
  /\ order_ids = 0
  /\ placed = {}
  /\ sent = [topic \in Topic |-> <<>>]
  /\ heard = <<>> /\ since = 0
  /\ shutdown = {}
  /\ faults = 0

-----------------------------------------------------------------------------
Faulty == faults < MaxFaults /\ faults' = faults + 1

Goto(a, place) == phase' = [phase EXCEPT ![a] = place]

Stopping(a) == Process(a) \in shutdown

Id(topic) == Len(sent[topic]) + 1

(* What is published reaches the subscriptions that exist and have room.   *)
Receives(a, topic) ==
  /\ Hears[a] = topic
  /\ phase[a] \notin {"down", "done"}
  /\ Len(inbox[a]) < InboxSize

Send(topic, message) ==
  /\ sent' = [sent EXCEPT ![topic] = Append(@, message)]
  /\ inbox' = [a \in Listener |-> IF Receives(a, topic) THEN Append(inbox[a], Id(topic))
                                                       ELSE inbox[a]]

-----------------------------------------------------------------------------
(* The collector: new, run, read_fixture, to_market_data                   *)
CollectorStarts ==
  /\ phase["collector"] = "down" /\ ~Stopping("collector")
  /\ Goto("collector", "delay")
  /\ row' = 1
  /\ UNCHANGED <<fixture, inbox, hand, sma, client, order_ids, placed, sent, heard,
                 since, shutdown, faults>>

DelayEnds ==
  /\ phase["collector"] = "delay"
  /\ Goto("collector", "replay")
  /\ UNCHANGED <<fixture, row, inbox, hand, sma, client, order_ids, placed, sent,
                 heard, since, shutdown, faults>>

MarketData(bar) == [symbol |-> bar.symbol, price |-> bar.price]

(* A row that cannot be published is passed over.                          *)
Replay ==
  /\ phase["collector"] = "replay" /\ ~Stopping("collector")
  /\ row <= Len(fixture)
  /\ row' = row + 1
  /\ \/ Send("market", MarketData(fixture[row])) /\ UNCHANGED faults
     \/ Faulty /\ UNCHANGED <<sent, inbox>>
  /\ UNCHANGED <<fixture, phase, hand, sma, client, order_ids, placed, heard, since,
                 shutdown>>

CollectorReturns ==
  /\ \/ phase["collector"] \in {"delay", "replay"} /\ Stopping("collector")
     \/ phase["collector"] = "replay" /\ row > Len(fixture)
  /\ Goto("collector", "done")
  /\ UNCHANGED <<fixture, row, inbox, hand, sma, client, order_ids, placed, sent,
                 heard, since, shutdown, faults>>

-----------------------------------------------------------------------------
(* The Python agents: a new instance subscribes, the momentum agent with   *)
(* no state for any symbol, the executor with a broker if it can reach     *)
(* one.  It looks at the shutdown when it has received a message.          *)
Subscribe(a) ==
  /\ phase[a] = "down" /\ ~Stopping(a)
  /\ Goto(a, "listen")
  /\ IF a = "momentum"
       THEN sma' = [s \in Symbol |-> FreshSma] /\ heard' = <<>> /\ since' = Len(sent.alpha)
       ELSE UNCHANGED <<sma, heard, since>>
  /\ IF a = "executor" THEN client' \in BOOLEAN ELSE UNCHANGED client
  /\ UNCHANGED <<fixture, row, inbox, hand, order_ids, placed, sent, shutdown, faults>>

Unsubscribe(a) == inbox' = [b \in Listener |-> IF b = a THEN <<>> ELSE inbox[b]]

Breaks(a) ==
  /\ phase[a] = "listen" /\ inbox[a] # <<>> /\ Stopping(a)
  /\ Goto(a, "done")
  /\ Unsubscribe(a)
  /\ UNCHANGED <<fixture, row, hand, sma, client, order_ids, placed, sent, heard,
                 since, shutdown, faults>>

Takes(a) ==
  /\ phase[a] = "listen" /\ inbox[a] # <<>> /\ ~Stopping(a)
  /\ inbox' = [inbox EXCEPT ![a] = Tail(@)]

(* The await of publish is left: the message is out.                       *)
Publish(a, topic, place) ==
  /\ Send(topic, hand[a])
  /\ Goto(a, place)

Signal(symbol, direction, cause) ==
  [symbol |-> symbol, direction |-> direction, causal_link |-> cause]

(* MomentumSignalAgent.run                                                 *)
OnPrice ==
  /\ Takes("momentum")
  /\ LET id == Head(inbox["momentum"])
         symbol == sent.market[id].symbol
         updated == Update(sma[symbol], sent.market[id].price)
     IN /\ sma' = [sma EXCEPT ![symbol] = updated]
        /\ heard' = Append(heard, id)
        /\ IF updated.last_position = sma[symbol].last_position
             THEN UNCHANGED <<phase, hand>>
             ELSE /\ hand' = [hand EXCEPT !["momentum"] =
                       Signal(symbol, updated.last_position, id)]
                  /\ Goto("momentum", "publish")
  /\ UNCHANGED <<fixture, row, client, order_ids, placed, sent, since, shutdown, faults>>

(* Slip: the signal keeps the link of the one it repeats.                  *)
OnAlphaRelinked ==
  /\ Takes("blender")
  /\ LET upstream == sent.alpha[Head(inbox["blender"])]
     IN hand' = [hand EXCEPT !["blender"] =
          Signal(upstream.symbol, upstream.direction, upstream.causal_link)]
  /\ Goto("blender", "publish")
  /\ UNCHANGED <<fixture, row, sma, client, order_ids, placed, sent, heard, since,
                 shutdown, faults>>

(* SignalBlenderAgent.run                                                  *)
OnAlpha ==
  /\ Takes("blender")
  /\ LET id == Head(inbox["blender"])
     IN hand' = [hand EXCEPT !["blender"] =
          Signal(sent.alpha[id].symbol, sent.alpha[id].direction, id)]
  /\ Goto("blender", "publish")
  /\ UNCHANGED <<fixture, row, sma, client, order_ids, placed, sent, heard, since,
                 shutdown, faults>>

PublishSignal(a) ==
  /\ a \in {"momentum", "blender"} /\ phase[a] = "publish"
  /\ Publish(a, IF a = "momentum" THEN "alpha" ELSE "blended", "listen")
  /\ hand' = [hand EXCEPT ![a] = Nothing]
  /\ UNCHANGED <<fixture, row, sma, client, order_ids, placed, heard, since,
                 shutdown, faults>>

-----------------------------------------------------------------------------
(* PaperExecutorAgent.run: the order, the broker if there is one, the fill. *)
Side(direction) == IF direction > 0 THEN "BUY" ELSE "SELL"

OnSignal ==
  /\ Takes("executor")
  /\ LET id == Head(inbox["executor"])
     IN IF sent.blended[id].direction = 0
          THEN UNCHANGED <<phase, hand, order_ids>>
          ELSE /\ order_ids' = order_ids + 1
               /\ hand' = [hand EXCEPT !["executor"] =
                    [order_id |-> order_ids + 1,
                     symbol |-> sent.blended[id].symbol,
                     side |-> Side(sent.blended[id].direction),
                     causal_link |-> id]]
               /\ Goto("executor", "order")
  /\ UNCHANGED <<fixture, row, sma, client, placed, sent, heard, since, shutdown, faults>>

PublishOrder ==
  /\ phase["executor"] = "order"
  /\ Publish("executor", "order", IF client THEN "broker" ELSE "fill")
  /\ hand' = [hand EXCEPT !["executor"] =
       [order_id |-> @.order_id, venue |-> "SIMULATED-NO-BROKER",
        causal_link |-> Id("order")]]
  /\ UNCHANGED <<fixture, row, sma, client, order_ids, placed, heard, since,
                 shutdown, faults>>

(* Slip: after a raise the executor takes the next signal.                 *)
SubmitLimitOrderGivesUp ==
  /\ phase["executor"] = "broker"
  /\ LET order_id == hand["executor"].order_id
     IN \/ /\ placed' = placed \cup {order_id}
           /\ hand' = [hand EXCEPT !["executor"].venue = "ALPACA-PAPER"]
           /\ Goto("executor", "fill")
        \/ /\ placed' \in {placed, placed \cup {order_id}}
           /\ hand' = [hand EXCEPT !["executor"] = Nothing]
           /\ Goto("executor", "listen")
  /\ UNCHANGED <<fixture, row, inbox, sma, client, order_ids, sent, heard, since,
                 shutdown, faults>>

(* submit_limit_order answers, or raises, with the order placed or not.    *)
SubmitLimitOrder ==
  /\ phase["executor"] = "broker"
  /\ LET order_id == hand["executor"].order_id
     IN \/ /\ placed' = placed \cup {order_id}
           /\ hand' = [hand EXCEPT !["executor"].venue = "ALPACA-PAPER"]
        \/ placed' \in {placed, placed \cup {order_id}} /\ UNCHANGED hand
  /\ Goto("executor", "fill")
  /\ UNCHANGED <<fixture, row, inbox, sma, client, order_ids, sent, heard, since,
                 shutdown, faults>>

PublishFill ==
  /\ phase["executor"] = "fill"
  /\ Publish("executor", "fill", "listen")
  /\ hand' = [hand EXCEPT !["executor"] = Nothing]
  /\ UNCHANGED <<fixture, row, sma, client, order_ids, placed, heard, since,
                 shutdown, faults>>

-----------------------------------------------------------------------------
(* An instance fails, in a publish or elsewhere, and another will follow.  *)
Fail(a) ==
  /\ phase[a] \notin {"down", "done"}
  /\ Faulty
  /\ Goto(a, "down")
  /\ Unsubscribe(a)
  /\ hand' = [hand EXCEPT ![a] = Nothing]
  /\ UNCHANGED <<fixture, row, sma, client, order_ids, placed, sent, heard, since,
                 shutdown>>

Cancel(process) ==
  /\ process \in Stoppable \ shutdown
  /\ shutdown' = shutdown \cup {process}
  /\ UNCHANGED <<fixture, row, phase, inbox, hand, sma, client, order_ids, placed,
                 sent, heard, since, faults>>

Collector == CollectorStarts \/ DelayEnds \/ Replay \/ CollectorReturns

Executor == OnSignal \/ PublishOrder \/ SubmitLimitOrder \/ PublishFill \/ Breaks("executor")

Next ==
  \/ Collector
  \/ \E a \in Listener : Subscribe(a)
  \/ \E a \in {"momentum", "blender"} : Breaks(a) \/ PublishSignal(a)
  \/ OnPrice \/ OnAlpha \/ Executor
  \/ \E a \in Agent : Fail(a)
  \/ \E process \in {"core", "logic"} : Cancel(process)

Spec == Init /\ [][Next]_vars

(* The executor's task runs on, and the broker answers or raises.          *)
FairSpec == Spec /\ WF_vars(Executor)
===============================================================================
