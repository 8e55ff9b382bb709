------------------------------ MODULE TradingProofs ------------------------------
(***************************************************************************)
(* Proofs about the way from a price to a fill: for any files, windows,    *)
(* inboxes and failures, every order and every fill leads back to a price, *)
(* and the signals are the crossings of the averages' definition.          *)
(***************************************************************************)
EXTENDS TradingProps, FiniteSetTheorems, TLAPS

Direction == {-1, 0, 1}

SignalType == [symbol : STRING, direction : Direction, causal_link : Nat]

OrderType ==
  [order_id : Nat, symbol : STRING, side : {"BUY", "SELL"}, causal_link : Nat]

FillType ==
  [order_id : Nat, venue : {"ALPACA-PAPER", "SIMULATED-NO-BROKER"}, causal_link : Nat]

MessageType(topic) ==
  CASE topic = "market" -> FixtureRow
    [] topic \in {"alpha", "blended"} -> SignalType
    [] topic = "order" -> OrderType
    [] topic = "fill" -> FillType

SmaType ==
  [short_buf : Seq(Nat), long_buf : Seq(Nat),
   short_sum : Int, long_sum : Int, last_position : Direction]

Place ==
  {"down", "delay", "replay", "listen", "publish", "order", "broker", "fill", "done"}

Places(a) ==
  CASE a = "collector" -> {"down", "delay", "replay", "done"}
    [] a \in {"momentum", "blender"} -> {"down", "listen", "publish", "done"}
    [] a = "executor" -> {"down", "listen", "order", "broker", "fill", "done"}

Types ==
  /\ fixture \in Fixtures
  /\ row \in Nat \ {0}
  /\ phase \in [Agent -> Place] /\ \A a \in Agent : phase[a] \in Places(a)
  /\ inbox \in [Listener -> Seq(Nat)]
  /\ DOMAIN hand = Agent
  /\ sma \in [Symbol -> SmaType]
  /\ client \in BOOLEAN
  /\ order_ids \in Nat /\ faults \in Nat /\ since \in Nat
  /\ placed \subseteq 1..order_ids
  /\ DOMAIN sent = Topic
  /\ \A topic \in Topic : sent[topic] \in Seq(MessageType(topic))

(* What a subscription holds has been published, and is taken in order.    *)
InboxOK(a) ==
  \A n \in 1..Len(inbox[a]) :
    /\ inbox[a][n] \in Ids(Hears[a])
    /\ \A m \in 1..n - 1 : inbox[a][m] < inbox[a][n]

MarketOK == \A id \in Ids("market") : sent.market[id].symbol \in Symbol

(* A signal is for the symbol of the price that caused it.                 *)
Caused(signal) ==
  /\ signal \in SignalType
  /\ signal.causal_link \in Ids("market")
  /\ sent.market[signal.causal_link].symbol = signal.symbol

AlphaOK ==
  /\ \A id \in Ids("alpha") : Caused(sent.alpha[id])
  /\ phase["momentum"] = "publish" => Caused(hand["momentum"])

(* A blended signal repeats one of the momentum agent's.                   *)
Repeats(signal) ==
  /\ signal \in SignalType
  /\ signal.causal_link \in Ids("alpha")
  /\ sent.alpha[signal.causal_link].symbol = signal.symbol
  /\ sent.alpha[signal.causal_link].direction = signal.direction

BlendedOK ==
  /\ \A id \in Ids("blended") : Repeats(sent.blended[id])
  /\ phase["blender"] = "publish" => Repeats(hand["blender"])

(* An order is for the symbol and on the side of the signal it names.      *)
Follows(order) ==
  /\ order \in OrderType
  /\ order.order_id \in 1..order_ids
  /\ order.causal_link \in Ids("blended")
  /\ sent.blended[order.causal_link].symbol = order.symbol
  /\ sent.blended[order.causal_link].direction = IF order.side = "BUY" THEN 1 ELSE -1

(* It names a signal that no message still to be taken is, ...             *)
BeforeInbox(order) ==
  \A n \in 1..Len(inbox["executor"]) : order.causal_link < inbox["executor"][n]

(* ... and one later than every order before it.                           *)
After(order, earlier) ==
  earlier.causal_link < order.causal_link /\ earlier.order_id < order.order_id

OrdersOK ==
  /\ \A id \in Ids("order") :
       /\ Follows(sent.order[id]) /\ BeforeInbox(sent.order[id])
       /\ \A earlier \in 1..id - 1 : After(sent.order[id], sent.order[earlier])
  /\ phase["executor"] = "order" =>
       /\ Follows(hand["executor"]) /\ BeforeInbox(hand["executor"])
       /\ \A id \in Ids("order") : After(hand["executor"], sent.order[id])

(* A fill is of the order it names, and the broker has it if it says so.   *)
Fills(fill) ==
  /\ fill \in FillType
  /\ fill.causal_link \in Ids("order")
  /\ fill.order_id = sent.order[fill.causal_link].order_id
  /\ fill.venue = "ALPACA-PAPER" => fill.order_id \in placed

AtBroker == phase["executor"] \in {"broker", "fill"}

FillsOK ==
  /\ \A id \in Ids("fill") :
       /\ Fills(sent.fill[id])
       /\ \A other \in Ids("fill") \ {id} :
            sent.fill[other].causal_link # sent.fill[id].causal_link
  /\ AtBroker =>
       /\ Fills(hand["executor"])
       /\ \A id \in Ids("fill") :
            sent.fill[id].causal_link # hand["executor"].causal_link

(* An order without a fill costs a failure, or the executor is at it.      *)
UnansweredOK == Cardinality(Unanswered) <= faults + (IF AtBroker THEN 1 ELSE 0)

TradingInv ==
  /\ Types
  /\ \A a \in Listener : InboxOK(a)
  /\ MarketOK /\ AlphaOK /\ BlendedOK /\ OrdersOK /\ FillsOK
  /\ UnansweredOK

-----------------------------------------------------------------------------
(* Topics only grow.                                                       *)
Grows ==
  \A topic \in Topic :
    /\ Len(sent[topic]) \in Nat /\ Len(sent'[topic]) \in Nat
    /\ Len(sent[topic]) <= Len(sent'[topic])
    /\ \A n \in Ids(topic) : sent'[topic][n] = sent[topic][n]

(* Sending keeps the types, adds one message to one topic, and adds its    *)
(* identifier to some of the inboxes of that topic.                        *)
LEMMA SendStep ==
  ASSUME Types, NEW topic \in Topic, NEW message \in MessageType(topic),
         Send(topic, message)
  PROVE  /\ Grows
         /\ DOMAIN sent' = Topic
         /\ \A t \in Topic : sent'[t] \in Seq(MessageType(t))
         /\ \A t \in Topic \ {topic} : sent'[t] = sent[t]
         /\ Id(topic) \in Nat \ {0} /\ Len(sent'[topic]) = Id(topic)
         /\ sent'[topic][Id(topic)] = message
         /\ inbox' \in [Listener -> Seq(Nat)]
         /\ \A a \in Listener :
              \/ inbox'[a] = inbox[a]
              \/ Hears[a] = topic /\ inbox'[a] = Append(inbox[a], Id(topic))
<1>1. \A t \in Topic : sent[t] \in Seq(MessageType(t)) /\ DOMAIN sent = Topic
  BY DEF Types
<1>2. sent' = [sent EXCEPT ![topic] = Append(@, message)]
  BY DEF Send
<1>3. \A t \in Topic \ {topic} : sent'[t] = sent[t]
  BY <1>1, <1>2
<1>4. sent'[topic] = Append(sent[topic], message) /\ DOMAIN sent' = Topic
  BY <1>1, <1>2
<1>5. DEFINE S == MessageType(topic)
             s == sent[topic]
<1>6. s \in Seq(S) /\ message \in S
  BY <1>1
<1>7. /\ sent'[topic] \in Seq(S) /\ Len(s) \in Nat /\ Len(sent'[topic]) = Len(s) + 1
      /\ sent'[topic][Len(s) + 1] = message
      /\ \A n \in 1..Len(s) : sent'[topic][n] = s[n]
  <2> HIDE DEF S, s
  <2>1. sent'[topic] = Append(s, message)
    BY <1>4 DEF s
  <2> QED BY <1>6, <2>1
<1>8. \A t \in Topic : Len(sent[t]) \in Nat
  <2> TAKE t \in Topic
  <2>1. sent[t] \in Seq(MessageType(t))
    BY <1>1
  <2> HIDE DEF S, s
  <2> QED BY <2>1
<1>9. Grows
  BY <1>3, <1>7, <1>8 DEF Grows, Ids
<1>10. \A t \in Topic : sent'[t] \in Seq(MessageType(t))
  BY <1>1, <1>3, <1>7
<1>11. Id(topic) = Len(s) + 1
  BY DEF Id
<1>12. \A a \in Listener :
         /\ \/ inbox'[a] = inbox[a]
            \/ Hears[a] = topic /\ inbox'[a] = Append(inbox[a], Id(topic))
         /\ inbox'[a] \in Seq(Nat)
  BY <1>7, <1>11 DEF Send, Receives, Types
<1>13. inbox' \in [Listener -> Seq(Nat)]
  BY <1>12 DEF Send
<1> QED BY <1>3, <1>4, <1>7, <1>9, <1>10, <1>11, <1>12, <1>13

(* A step that sends nothing.                                              *)
LEMMA QuietStep ==
  ASSUME Types, sent' = sent
  PROVE  Grows
<1> SUFFICES ASSUME NEW t \in Topic PROVE Len(sent[t]) \in Nat
  BY DEF Grows
<1>1. sent[t] \in Seq(MessageType(t))
  BY DEF Types
<1> QED BY <1>1

(* What a step may do to an inbox: keep it, take its head, drop it all, or *)
(* add the identifier of a message that is new on its topic.               *)
Moves(a) ==
  \/ inbox'[a] = inbox[a]
  \/ inbox'[a] = <<>>
  \/ inbox[a] # <<>> /\ inbox'[a] = Tail(inbox[a])
  \/ /\ inbox'[a] = Append(inbox[a], Id(Hears[a]))
     /\ Len(sent'[Hears[a]]) = Id(Hears[a])

(* It leaves a sound inbox sound.                                          *)
LEMMA InboxStep ==
  ASSUME Types, Types', Grows, NEW a \in Listener, InboxOK(a), Moves(a)
  PROVE  InboxOK(a)'
<1>1. Hears[a] \in Topic /\ Hears' = Hears
  BY DEF Hears, Listener, Topic
<1>2. Len(sent[Hears[a]]) \in Nat /\ Len(sent[Hears[a]]) <= Len(sent'[Hears[a]])
  BY <1>1 DEF Grows
<1>3. inbox[a] \in Seq(Nat)
  BY DEF Types
<1> DEFINE old == inbox[a]
           new == inbox'[a]
           l == Len(sent[Hears[a]])
           k == Len(sent'[Hears[a]])
<1>4. /\ old \in Seq(Nat) /\ l \in Nat /\ k \in Nat /\ l <= k
      /\ \A n \in 1..Len(old) : old[n] \in 1..l /\ \A m \in 1..n - 1 : old[m] < old[n]
      /\ \/ new = old
         \/ new = <<>>
         \/ old # <<>> /\ new = Tail(old)
         \/ new = Append(old, l + 1) /\ k = l + 1
  BY <1>1, <1>2, <1>3 DEF InboxOK, Ids, Id, Grows, Moves
<1>5. \A n \in 1..Len(new) : new[n] \in 1..k /\ \A m \in 1..n - 1 : new[m] < new[n]
  <2> HIDE DEF old, new, l, k
  <2>1. CASE new = old
    BY <1>4, <2>1
  <2>2. CASE new = <<>>
    BY <1>4, <2>2
  <2>3. CASE old # <<>> /\ new = Tail(old)
    <3>1. Len(new) = Len(old) - 1 /\ \A n \in 1..Len(new) : new[n] = old[n + 1]
      BY <1>4, <2>3
    <3>2. ASSUME NEW n \in 1..Len(new)
          PROVE  new[n] \in 1..k /\ \A m \in 1..n - 1 : new[m] < new[n]
      <4>1. Len(old) \in Nat /\ n + 1 \in 1..Len(old)
        BY <1>4, <3>1
      <4>2. old[n + 1] \in 1..l
        BY <1>4, <4>1
      <4>3. ASSUME NEW m \in 1..n - 1 PROVE new[m] < new[n]
        <5>1. m \in 1..Len(new) /\ m + 1 \in 1..(n + 1) - 1
          BY <3>1, <4>1
        <5>2. old[m + 1] < old[n + 1]
          BY <1>4, <4>1, <5>1
        <5> QED BY <3>1, <5>1, <5>2
      <4>4. new[n] = old[n + 1] /\ l \in Nat /\ k \in Nat /\ l <= k
        BY <1>4, <3>1
      <4> QED BY <4>2, <4>3, <4>4
    <3> QED BY <3>2
  <2>4. CASE new = Append(old, l + 1) /\ k = l + 1
    <3>1. /\ Len(new) = Len(old) + 1 /\ new[Len(old) + 1] = l + 1
          /\ \A n \in 1..Len(old) : new[n] = old[n]
      BY <1>4, <2>4
    <3> QED BY <1>4, <2>4, <3>1
  <2> QED BY <1>4, <2>1, <2>2, <2>3, <2>4
<1> QED BY <1>1, <1>5 DEF InboxOK, Ids

-----------------------------------------------------------------------------
(* The parts of the invariant that a step does not touch, part by part: a  *)
(* topic that only grows keeps what is said of its messages, and so does   *)
(* an agent that holds what it held, or nothing.                           *)
Keeps(a) == phase'[a] = "publish" => phase[a] = "publish" /\ hand'[a] = hand[a]

(* A signal stays explained by its price, ...                              *)
LEMMA CausedGrows ==
  ASSUME Grows, NEW signal, Caused(signal)
  PROVE  Caused(signal)'
BY DEF Caused, Grows, Ids, Topic

(* ... a blended one by the signal it repeats, ...                         *)
LEMMA RepeatsGrows ==
  ASSUME Grows, NEW signal, Repeats(signal)
  PROVE  Repeats(signal)'
BY DEF Repeats, Grows, Ids, Topic

(* ... an order by its signal, ...                                         *)
LEMMA FollowsGrows ==
  ASSUME Grows, order_ids \in Nat, order_ids' \in Nat, order_ids <= order_ids',
         NEW order, Follows(order)
  PROVE  Follows(order)'
<1>1. order.causal_link \in Ids("blended")' /\ order.order_id \in 1..order_ids'
  BY DEF Follows, Grows, Ids, Topic
<1>2. sent'.blended[order.causal_link] = sent.blended[order.causal_link]
  BY DEF Follows, Grows, Topic
<1> QED BY <1>1, <1>2 DEF Follows

(* ... and a fill by its order.                                            *)
LEMMA FillsGrows ==
  ASSUME Grows, placed \subseteq placed', NEW fill, Fills(fill)
  PROVE  Fills(fill)'
BY DEF Fills, Grows, Ids, Topic

(* A step that publishes no price and reads no other file.                 *)
LEMMA MarketFrame ==
  ASSUME MarketOK, sent'["market"] = sent["market"], fixture' = fixture
  PROVE  MarketOK'
BY DEF MarketOK, Ids, Symbol

(* A step that is not about the momentum agent's signals.                  *)
LEMMA AlphaFrame ==
  ASSUME AlphaOK, Grows, sent'["alpha"] = sent["alpha"], Keeps("momentum")
  PROVE  AlphaOK'
<1>1. \A id \in Ids("alpha") : Caused(sent.alpha[id])'
  BY CausedGrows DEF AlphaOK
<1>2. phase'["momentum"] = "publish"
        => Caused(hand["momentum"])' /\ hand'["momentum"] = hand["momentum"]
  BY CausedGrows DEF AlphaOK, Keeps
<1> QED BY <1>1, <1>2 DEF AlphaOK, Ids, Caused

(* A step that is not about the blended signals.                           *)
LEMMA BlendedFrame ==
  ASSUME BlendedOK, Grows, sent'["blended"] = sent["blended"], Keeps("blender")
  PROVE  BlendedOK'
<1>1. \A id \in Ids("blended") : Repeats(sent.blended[id])'
  BY RepeatsGrows DEF BlendedOK
<1>2. phase'["blender"] = "publish"
        => Repeats(hand["blender"])' /\ hand'["blender"] = hand["blender"]
  BY RepeatsGrows DEF BlendedOK, Keeps
<1> QED BY <1>1, <1>2 DEF BlendedOK, Ids, Repeats

(* The executor's inbox only gains signals later than the ones ordered.    *)
LEMMA BeforeInboxStep ==
  ASSUME Types, Types', Grows, Moves("executor"), NEW order, Follows(order),
         BeforeInbox(order)
  PROVE  BeforeInbox(order)'
<1> DEFINE old == inbox["executor"]
           new == inbox'["executor"]
           l == Len(sent["blended"])
           c == order.causal_link
<1>1. old \in Seq(Nat) /\ new \in Seq(Nat)
  BY DEF Types, Listener
<1>2. l \in Nat /\ c \in 1..l
  BY DEF Grows, Follows, Ids, Topic
<1>3. \A n \in 1..Len(old) : c < old[n]
  BY DEF BeforeInbox
<1>4. \/ new = old
      \/ new = <<>>
      \/ old # <<>> /\ new = Tail(old)
      \/ new = Append(old, l + 1)
  BY DEF Moves, Id, Hears
<1>5. \A n \in 1..Len(new) : c < new[n]
  <2> HIDE DEF old, new, l, c
  <2>1. CASE old # <<>> /\ new = Tail(old)
    <3>1. Len(new) = Len(old) - 1 /\ \A n \in 1..Len(new) : new[n] = old[n + 1]
      BY <1>1, <2>1
    <3>2. \A n \in 1..Len(new) : n + 1 \in 1..Len(old)
      BY <1>1, <3>1
    <3> QED BY <1>3, <3>1, <3>2
  <2>2. CASE new = Append(old, l + 1)
    <3>1. /\ Len(new) = Len(old) + 1 /\ new[Len(old) + 1] = l + 1
          /\ \A n \in 1..Len(old) : new[n] = old[n]
      BY <1>1, <1>2, <2>2
    <3>2. c < l + 1 /\ \A n \in 1..Len(new) : n \in 1..Len(old) \/ n = Len(old) + 1
      BY <1>1, <1>2, <3>1
    <3> QED BY <1>3, <3>1, <3>2
  <2>3. CASE new = <<>>
    BY <2>3
  <2> QED BY <1>3, <1>4, <2>1, <2>2, <2>3
<1> QED BY <1>5 DEF BeforeInbox

(* A step that is not about the orders.                                    *)
LEMMA OrdersFrame ==
  ASSUME OrdersOK, Types, Types', Grows, Moves("executor"),
         sent'["order"] = sent["order"], order_ids <= order_ids',
         phase'["executor"] = "order" =>
           phase["executor"] = "order" /\ hand'["executor"] = hand["executor"]
  PROVE  OrdersOK'
<1>1. \A order : Follows(order) /\ BeforeInbox(order)
                   => Follows(order)' /\ BeforeInbox(order)'
  BY FollowsGrows, BeforeInboxStep DEF Types
<1>2. /\ Ids("order")' = Ids("order")
      /\ \A id \in Ids("order") : sent'["order"][id] = sent["order"][id]
  BY DEF Ids
<1>3. \A id \in Ids("order")' :
        /\ Follows(sent.order[id])' /\ BeforeInbox(sent.order[id])'
        /\ \A earlier \in 1..id - 1 : After(sent.order[id], sent.order[earlier])'
  <2> TAKE id \in Ids("order")'
  <2>1. PICK order : order = sent["order"][id]
    OBVIOUS
  <2>2. Follows(order)' /\ BeforeInbox(order)'
    BY <1>1, <1>2, <2>1 DEF OrdersOK
  <2>3. \A earlier \in 1..id - 1 : After(sent.order[id], sent.order[earlier])
    BY <1>2 DEF OrdersOK
  <2> QED BY <1>2, <2>1, <2>2, <2>3 DEF After, Follows, BeforeInbox
<1>4. ASSUME phase'["executor"] = "order"
      PROVE  /\ Follows(hand["executor"])' /\ BeforeInbox(hand["executor"])'
             /\ \A id \in Ids("order")' : After(hand["executor"], sent.order[id])'
  <2>1. PICK order : order = hand["executor"]
    OBVIOUS
  <2>2. Follows(order)' /\ BeforeInbox(order)'
    BY <1>1, <1>4, <2>1 DEF OrdersOK
  <2>3. \A id \in Ids("order") : After(hand["executor"], sent.order[id])
    BY <1>4 DEF OrdersOK
  <2> QED BY <1>2, <1>4, <2>1, <2>2, <2>3 DEF After, Follows, BeforeInbox
<1> QED BY <1>3, <1>4 DEF OrdersOK

(* A step that is not about the fills.                                     *)
LEMMA FillsFrame ==
  ASSUME FillsOK, Grows, sent'["fill"] = sent["fill"], placed \subseteq placed',
         AtBroker' => AtBroker /\ hand'["executor"] = hand["executor"]
  PROVE  FillsOK'
<1>1. \A fill : Fills(fill) => Fills(fill)'
  BY FillsGrows
<1>2. \A id \in Ids("fill") : Fills(sent.fill[id])'
  BY <1>1 DEF FillsOK
<1>3. AtBroker' => Fills(hand["executor"])' /\ hand'["executor"] = hand["executor"]
  BY <1>1 DEF FillsOK
<1> QED BY <1>2, <1>3 DEF FillsOK, Ids

(* A step that leaves the orders and the fills, or costs a failure.        *)
LEMMA UnansweredFrame ==
  ASSUME Types, Types', UnansweredOK, sent'["order"] = sent["order"],
         sent'["fill"] = sent["fill"],
         \/ faults' = faults /\ AtBroker' = AtBroker
         \/ faults' = faults + 1 /\ (AtBroker' => AtBroker)
  PROVE  UnansweredOK'
<1>1. Unanswered' = Unanswered
  BY DEF Unanswered, Ids
<1>2. Unanswered \subseteq 1..Len(sent.order) /\ Len(sent.order) \in Nat
  <2>1. sent["order"] \in Seq(MessageType("order"))
    BY DEF Types, Topic
  <2> QED BY <2>1 DEF Unanswered, Ids
<1>3. Cardinality(Unanswered) \in Nat
  <2>1. IsFiniteSet(1..Len(sent.order))
    BY <1>2, FS_Interval
  <2> QED BY <1>2, <2>1, FS_Subset, FS_CardinalityType
<1>4. faults \in Nat /\ AtBroker \in BOOLEAN /\ AtBroker' \in BOOLEAN
  BY DEF Types, AtBroker
<1>5. Cardinality(Unanswered) = Cardinality(Unanswered')
  BY <1>1
<1> QED BY <1>3, <1>4, <1>5 DEF UnansweredOK

(* A step that sends nothing and puts no message in an agent's hand.       *)
LEMMA QuietFrame ==
  ASSUME TradingInv, Types', sent' = sent, fixture' = fixture,
         \A a \in Listener : Moves(a),
         placed \subseteq placed', order_ids <= order_ids',
         Keeps("momentum"), Keeps("blender"),
         phase'["executor"] = "order" =>
           phase["executor"] = "order" /\ hand'["executor"] = hand["executor"],
         AtBroker' => AtBroker /\ hand'["executor"] = hand["executor"],
         \/ faults' = faults /\ AtBroker' = AtBroker
         \/ faults' = faults + 1
  PROVE  TradingInv'
<1>1. Grows
  BY QuietStep DEF TradingInv
<1>2. \A a \in Listener : InboxOK(a)'
  BY <1>1, InboxStep DEF TradingInv
<1>3. MarketOK' /\ AlphaOK' /\ BlendedOK'
  BY <1>1, MarketFrame, AlphaFrame, BlendedFrame DEF TradingInv
<1>4. OrdersOK'
  BY <1>1, OrdersFrame DEF TradingInv, Listener
<1>5. FillsOK' /\ UnansweredOK'
  BY <1>1, FillsFrame, UnansweredFrame DEF TradingInv
<1> QED BY <1>2, <1>3, <1>4, <1>5 DEF TradingInv

-----------------------------------------------------------------------------
(* The actions.  First what they share: an agent goes to a place of its    *)
(* own, and has a message in its hand.                                     *)
LEMMA GotoStep ==
  ASSUME Types, NEW a \in Agent, NEW place \in Places(a), Goto(a, place)
  PROVE  /\ phase' \in [Agent -> Place] /\ \A b \in Agent : phase'[b] \in Places(b)
         /\ phase'[a] = place
         /\ \A b \in Agent \ {a} : phase'[b] = phase[b]
<1>1. place \in Place
  BY DEF Place, Places, Agent, Listener
<1> QED BY <1>1 DEF Types, Goto

(* The collector starts, ends its delay or returns: nothing is sent.       *)
LEMMA CollectorQuiet ==
  ASSUME TradingInv, CollectorStarts \/ DelayEnds \/ CollectorReturns
  PROVE  TradingInv'
<1>1. PICK place \in {"delay", "replay", "done"} : Goto("collector", place)
  BY DEF CollectorStarts, DelayEnds, CollectorReturns
<1>2. place \in Places("collector") /\ "collector" \in Agent
  BY DEF Places, Agent
<1>3. /\ phase' \in [Agent -> Place] /\ \A b \in Agent : phase'[b] \in Places(b)
      /\ \A b \in Agent \ {"collector"} : phase'[b] = phase[b]
  BY <1>1, <1>2, GotoStep DEF TradingInv
<1>4. /\ UNCHANGED <<fixture, inbox, hand, sma, client, order_ids, placed, sent, since,
                     faults>>
      /\ row' \in {row, 1}
  BY DEF CollectorStarts, DelayEnds, CollectorReturns
<1>5. Types'
  BY <1>3, <1>4 DEF TradingInv, Types, Symbol
<1>6. \A b \in Listener : phase'[b] = phase[b]
  BY <1>3 DEF Agent, Listener
<1>7. AtBroker' = AtBroker
  BY <1>6 DEF AtBroker, Listener
<1>8. order_ids <= order_ids'
  BY <1>4 DEF TradingInv, Types
<1> QED BY <1>4, <1>5, <1>6, <1>7, <1>8, QuietFrame DEF Keeps, Moves, Listener

(* A process is told to stop.                                              *)
LEMMA CancelStep ==
  ASSUME TradingInv, NEW process, Cancel(process)
  PROVE  TradingInv'
<1>1. Types'
  BY DEF TradingInv, Types, Cancel, Symbol
<1>2. order_ids <= order_ids' /\ AtBroker' = AtBroker
  BY DEF TradingInv, Types, Cancel, AtBroker
<1> QED BY <1>1, <1>2, QuietFrame DEF Cancel, Keeps, Moves

(* A new instance begins, with nothing in its hand.                        *)
LEMMA SubscribeStep ==
  ASSUME TradingInv, NEW a \in Listener, Subscribe(a)
  PROVE  TradingInv'
<1>1. "listen" \in Places(a) /\ a \in Agent
  BY DEF Places, Agent, Listener
<1>2. /\ phase' \in [Agent -> Place] /\ \A b \in Agent : phase'[b] \in Places(b)
      /\ phase'[a] = "listen"
      /\ \A b \in Agent \ {a} : phase'[b] = phase[b]
  BY <1>1, GotoStep DEF TradingInv, Subscribe
<1>3. FreshSma \in SmaType
  BY DEF FreshSma, SmaType, Direction
<1>4. since' \in Nat /\ sma' \in [Symbol -> SmaType]
  <2>1. sent["alpha"] \in Seq(MessageType("alpha"))
    BY DEF TradingInv, Types, Topic
  <2>2. Len(sent.alpha) \in Nat
    BY <2>1
  <2> QED BY <1>3, <2>2 DEF TradingInv, Types, Subscribe
<1>5. Types'
  BY <1>2, <1>4 DEF TradingInv, Types, Subscribe, Symbol
<1>6. AtBroker' = AtBroker
  BY <1>2 DEF AtBroker, Agent, Listener, Subscribe
<1>7. /\ Keeps("momentum") /\ Keeps("blender")
      /\ phase'["executor"] = "order" => phase["executor"] = "order"
  BY <1>2 DEF Keeps, Agent, Listener, Subscribe
<1>8. order_ids <= order_ids'
  BY DEF TradingInv, Types, Subscribe
<1> QED BY <1>5, <1>6, <1>7, <1>8, QuietFrame DEF Subscribe, Moves

(* An instance ends at the shutdown.                                       *)
LEMMA BreaksStep ==
  ASSUME TradingInv, NEW a \in Listener, Breaks(a)
  PROVE  TradingInv'
<1>1. "done" \in Places(a) /\ a \in Agent
  BY DEF Places, Agent, Listener
<1>2. /\ phase' \in [Agent -> Place] /\ \A b \in Agent : phase'[b] \in Places(b)
      /\ phase'[a] = "done"
      /\ \A b \in Agent \ {a} : phase'[b] = phase[b]
  BY <1>1, GotoStep DEF TradingInv, Breaks
<1>3. Types'
  BY <1>2 DEF TradingInv, Types, Breaks, Unsubscribe, Symbol
<1>4. AtBroker' = AtBroker
  BY <1>2 DEF AtBroker, Agent, Listener, Breaks
<1>5. /\ Keeps("momentum") /\ Keeps("blender")
      /\ phase'["executor"] = "order" => phase["executor"] = "order"
  BY <1>2 DEF Keeps, Agent, Listener, Breaks
<1>6. order_ids <= order_ids' /\ \A b \in Listener : Moves(b)
  BY DEF TradingInv, Types, Breaks, Unsubscribe, Moves
<1> QED BY <1>3, <1>4, <1>5, <1>6, QuietFrame DEF Breaks

(* What was in an instance's hand is lost, and a failure counted.          *)
LEMMA FailStep ==
  ASSUME TradingInv, NEW a \in Agent, Fail(a)
  PROVE  TradingInv'
<1>1. "down" \in Places(a)
  BY DEF Places, Agent, Listener
<1>2. /\ phase' \in [Agent -> Place] /\ \A b \in Agent : phase'[b] \in Places(b)
      /\ phase'[a] = "down"
      /\ \A b \in Agent \ {a} : phase'[b] = phase[b]
  BY <1>1, GotoStep DEF TradingInv, Fail
<1>3. \A b \in Agent \ {a} : hand'[b] = hand[b]
  BY DEF TradingInv, Types, Fail
<1>4. Types'
  <2>1. faults' \in Nat /\ DOMAIN hand' = Agent /\ inbox' \in [Listener -> Seq(Nat)]
    BY DEF TradingInv, Types, Fail, Faulty, Unsubscribe
  <2>2. UNCHANGED <<fixture, row, sma, client, order_ids, placed, sent, since>>
    BY DEF Fail
  <2> QED BY <1>2, <2>1, <2>2 DEF TradingInv, Types, Symbol
<1>5. AtBroker' => AtBroker /\ hand'["executor"] = hand["executor"]
  BY <1>2, <1>3 DEF AtBroker, Agent, Listener
<1>6. /\ Keeps("momentum") /\ Keeps("blender")
      /\ phase'["executor"] = "order" =>
           phase["executor"] = "order" /\ hand'["executor"] = hand["executor"]
  BY <1>2, <1>3 DEF Keeps, Agent, Listener
<1>7. order_ids <= order_ids' /\ \A b \in Listener : Moves(b)
  BY DEF TradingInv, Types, Fail, Unsubscribe, Moves
<1> QED BY <1>4, <1>5, <1>6, <1>7, QuietFrame DEF Fail, Faulty

(* Taking a message leaves the other inboxes as they are.                  *)
LEMMA TakesStep ==
  ASSUME TradingInv, NEW a \in Listener, Takes(a)
  PROVE  /\ inbox[a] # <<>> /\ inbox[a] \in Seq(Nat)
         /\ Head(inbox[a]) = inbox[a][1] /\ 1 \in 1..Len(inbox[a])
         /\ Head(inbox[a]) \in Ids(Hears[a]) /\ phase[a] = "listen"
         /\ inbox' \in [Listener -> Seq(Nat)]
         /\ \A b \in Listener : Moves(b)
         /\ inbox'[a] = Tail(inbox[a])
<1>1. inbox[a] \in Seq(Nat) /\ inbox[a] # <<>> /\ phase[a] = "listen"
  BY DEF TradingInv, Types, Takes
<1>2. /\ Head(inbox[a]) = inbox[a][1] /\ 1 \in 1..Len(inbox[a])
      /\ Tail(inbox[a]) \in Seq(Nat)
  BY <1>1
<1>3. inbox[a][1] \in Ids(Hears[a])
  BY <1>2 DEF TradingInv, InboxOK
<1>4. inbox' = [inbox EXCEPT ![a] = Tail(@)] /\ inbox \in [Listener -> Seq(Nat)]
  BY DEF TradingInv, Types, Takes
<1>5. inbox' \in [Listener -> Seq(Nat)] /\ inbox'[a] = Tail(inbox[a])
  BY <1>2, <1>4
<1>6. \A b \in Listener : Moves(b)
  BY <1>1, <1>4 DEF Moves
<1> QED BY <1>1, <1>2, <1>3, <1>5, <1>6

(* A row is published, or passed over.                                     *)
LEMMA ReplayStep ==
  ASSUME TradingInv, Replay
  PROVE  TradingInv'
<1>1. row \in Nat \ {0} /\ fixture \in Seq(FixtureRow) /\ row <= Len(fixture)
  BY TradingAssumption DEF TradingInv, Types, Replay
<1>2. row \in 1..Len(fixture) /\ fixture[row] \in FixtureRow
  BY <1>1
<1>3. row' \in Nat \ {0}
  BY <1>1 DEF Replay
<1>4. CASE Send("market", MarketData(fixture[row])) /\ UNCHANGED faults
  <2> DEFINE message == MarketData(fixture[row])
  <2>1. /\ message \in FixtureRow /\ message.symbol \in Symbol
        /\ MessageType("market") = FixtureRow /\ "market" \in Topic
    BY <1>2 DEF MarketData, FixtureRow, Symbol, MessageType, Topic
  <2> HIDE DEF message
  <2>2. Send("market", message) /\ Types
    BY <1>4 DEF message, TradingInv
  <2>3. /\ Grows
        /\ DOMAIN sent' = Topic /\ \A t \in Topic : sent'[t] \in Seq(MessageType(t))
        /\ \A t \in Topic \ {"market"} : sent'[t] = sent[t]
        /\ Id("market") \in Nat \ {0} /\ Len(sent'["market"]) = Id("market")
        /\ sent'["market"][Id("market")] = message
        /\ inbox' \in [Listener -> Seq(Nat)]
        /\ \A a \in Listener :
             \/ inbox'[a] = inbox[a]
             \/ Hears[a] = "market" /\ inbox'[a] = Append(inbox[a], Id("market"))
    BY <2>1, <2>2, SendStep
  <2>4. Types'
    BY <1>3, <1>4, <2>3 DEF TradingInv, Types, Replay, Symbol
  <2>5. \A a \in Listener : Moves(a)
    BY <2>3 DEF Moves
  <2>6. \A a \in Listener : InboxOK(a)'
    BY <2>3, <2>4, <2>5, InboxStep DEF TradingInv
  <2>7. MarketOK'
    <3>1. Symbol' = Symbol
      BY DEF Replay, Symbol
    <3>2. /\ Ids("market")' = 1..Id("market")
          /\ \A id \in Ids("market") : sent'["market"][id] = sent["market"][id]
      BY <2>3 DEF Ids, Grows, Topic
    <3>3. \A id \in 1..Id("market") : id \in Ids("market") \/ id = Id("market")
      BY <2>3 DEF Id, Ids, Grows, Topic
    <3> QED BY <2>1, <2>3, <3>1, <3>2, <3>3 DEF TradingInv, MarketOK
  <2>8. AlphaOK' /\ BlendedOK'
    BY <2>3, AlphaFrame, BlendedFrame DEF TradingInv, Keeps, Replay, Topic
  <2>9. OrdersOK'
    <3>1. sent'["order"] = sent["order"] /\ order_ids <= order_ids'
      BY <2>3 DEF TradingInv, Types, Replay, Topic
    <3>2. phase' = phase /\ hand' = hand /\ Moves("executor")
      BY <2>5 DEF Replay, Listener
    <3> QED BY <2>3, <2>4, <3>1, <3>2, OrdersFrame DEF TradingInv
  <2>10. FillsOK' /\ UnansweredOK'
    BY <1>4, <2>3, <2>4, FillsFrame, UnansweredFrame DEF TradingInv, Replay, Topic, AtBroker
  <2> QED BY <2>4, <2>6, <2>7, <2>8, <2>9, <2>10 DEF TradingInv
<1>5. CASE Faulty /\ UNCHANGED <<sent, inbox>>
  <2>1. Types'
    BY <1>3, <1>5 DEF TradingInv, Types, Replay, Faulty, Symbol
  <2> QED BY <1>5, <2>1, QuietFrame DEF TradingInv, Types, Replay, Faulty, Keeps, Moves, AtBroker
<1> QED BY <1>4, <1>5 DEF Replay

(* The windows keep their types.                                           *)
LEMMA UpdateType ==
  ASSUME NEW state \in SmaType, NEW price \in Nat
  PROVE  Update(state, price) \in SmaType
<1>1. ASSUME NEW buf \in Seq(Nat), NEW sum \in Int, NEW window \in Nat \ {0}
      PROVE  /\ Appended(buf, price, window) \in Seq(Nat)
             /\ Summed(sum, buf, price, window) \in Int
  <2>1. CASE Len(buf) < window
    BY <2>1 DEF Appended, Summed
  <2>2. CASE ~(Len(buf) < window)
    <3>1. buf # <<>> /\ Head(buf) \in Nat /\ Tail(buf) \in Seq(Nat)
      BY <2>2
    <3> QED BY <2>2, <3>1 DEF Appended, Summed
  <2> QED BY <2>1, <2>2
<1>2. Push(state, price) \in SmaType
  BY <1>1, SmaAssumption DEF Push, SmaType
<1>3. ASSUME NEW pushed \in SmaType
      PROVE  [pushed EXCEPT !.last_position = Position(pushed)] \in SmaType
  <2>1. Position(pushed) \in Direction
    BY DEF Position, Direction
  <2> QED BY <2>1 DEF SmaType
<1> QED BY <1>2, <1>3 DEF Update

(* A price taken may put a signal in the momentum agent's hand.            *)
LEMMA OnPriceStep ==
  ASSUME TradingInv, OnPrice
  PROVE  TradingInv'
<1> DEFINE id == Head(inbox["momentum"])
           symbol == sent.market[id].symbol
           updated == Update(sma[symbol], sent.market[id].price)
           signal == Signal(symbol, updated.last_position, id)
<1>1. /\ Takes("momentum")
      /\ sma' = [sma EXCEPT ![symbol] = updated]
      /\ \/ UNCHANGED <<phase, hand>>
         \/ /\ hand' = [hand EXCEPT !["momentum"] = signal]
            /\ Goto("momentum", "publish")
      /\ UNCHANGED <<fixture, row, client, order_ids, placed, sent, since, faults>>
  BY DEF OnPrice
<1>2. id \in Ids("market") /\ inbox' \in [Listener -> Seq(Nat)] /\ \A b \in Listener : Moves(b)
  BY <1>1, TakesStep DEF Listener, Hears
<1>3. id \in Nat /\ sent.market[id] \in FixtureRow /\ symbol \in Symbol
  <2>1. sent["market"] \in Seq(FixtureRow)
    BY DEF TradingInv, Types, Topic, MessageType
  <2> QED BY <1>2, <2>1 DEF Ids, TradingInv, MarketOK
<1>4. updated \in SmaType
  <2>1. sma[symbol] \in SmaType /\ sent.market[id].price \in Nat
    BY <1>3 DEF TradingInv, Types, FixtureRow
  <2> QED BY <2>1, UpdateType
<1>5. signal \in SignalType /\ Caused(signal)
  BY <1>2, <1>3, <1>4 DEF Signal, SignalType, SmaType, FixtureRow, Caused
<1> HIDE DEF id, symbol, updated, signal
<1>6. sma' \in [Symbol' -> SmaType]
  BY <1>1, <1>3, <1>4 DEF TradingInv, Types, Symbol
<1>7. /\ phase' \in [Agent -> Place] /\ \A b \in Agent : phase'[b] \in Places(b)
      /\ \A b \in Agent \ {"momentum"} : phase'[b] = phase[b] /\ hand'[b] = hand[b]
      /\ DOMAIN hand' = Agent
      /\ phase'["momentum"] = "publish" =>
           \/ phase["momentum"] = "publish" /\ hand'["momentum"] = hand["momentum"]
           \/ hand'["momentum"] = signal
  <2>1. CASE UNCHANGED <<phase, hand>>
    BY <2>1 DEF TradingInv, Types
  <2>2. CASE Goto("momentum", "publish") /\ hand' = [hand EXCEPT !["momentum"] = signal]
    <3>1. "publish" \in Places("momentum") /\ "momentum" \in Agent
      BY DEF Places, Agent, Listener
    <3> QED BY <2>2, <3>1, GotoStep DEF TradingInv, Types
  <2> QED BY <1>1, <2>1, <2>2
<1>8. Types'
  BY <1>1, <1>2, <1>6, <1>7 DEF TradingInv, Types
<1>9. Grows
  BY <1>1, QuietStep DEF TradingInv
<1>10. \A b \in Listener : InboxOK(b)'
  BY <1>2, <1>8, <1>9, InboxStep DEF TradingInv
<1>11. MarketOK' /\ BlendedOK'
  BY <1>1, <1>7, <1>9, MarketFrame, BlendedFrame DEF TradingInv, Keeps, Agent, Listener
<1>12. AlphaOK'
  <2>1. \A alpha : Caused(alpha) => Caused(alpha)'
    BY <1>9, CausedGrows
  <2>2. \A n \in Ids("alpha")' : Caused(sent.alpha[n])'
    BY <1>1, <2>1 DEF TradingInv, AlphaOK, Ids
  <2>3. phase'["momentum"] = "publish" => Caused(hand'["momentum"])
    BY <1>5, <1>7 DEF TradingInv, AlphaOK
  <2> QED BY <1>1, <2>2, <2>3 DEF AlphaOK, Caused, Ids
<1>13. /\ AtBroker' = AtBroker /\ hand'["executor"] = hand["executor"]
       /\ phase'["executor"] = phase["executor"]
  BY <1>7 DEF AtBroker, Agent, Listener
<1>14. OrdersOK' /\ FillsOK' /\ UnansweredOK'
  <2>1. order_ids <= order_ids' /\ "executor" \in Listener
    BY <1>1 DEF TradingInv, Types, Listener
  <2>2. OrdersOK'
    BY <1>1, <1>2, <1>8, <1>9, <1>13, <2>1, OrdersFrame DEF TradingInv
  <2> QED BY <1>1, <1>2, <1>8, <1>9, <1>13, <2>2, FillsFrame, UnansweredFrame
     DEF TradingInv
<1> QED BY <1>8, <1>10, <1>11, <1>12, <1>14 DEF TradingInv

(* A signal taken puts the one that repeats it in the blender's hand.      *)
LEMMA OnAlphaStep ==
  ASSUME TradingInv, OnAlpha
  PROVE  TradingInv'
<1> DEFINE id == Head(inbox["blender"])
           signal == Signal(sent.alpha[id].symbol, sent.alpha[id].direction, id)
<1>1. /\ Takes("blender")
      /\ hand' = [hand EXCEPT !["blender"] = signal]
      /\ Goto("blender", "publish")
      /\ UNCHANGED <<fixture, row, sma, client, order_ids, placed, sent, since, faults>>
  BY DEF OnAlpha
<1>2. id \in Ids("alpha") /\ inbox' \in [Listener -> Seq(Nat)] /\ \A b \in Listener : Moves(b)
  BY <1>1, TakesStep DEF Listener, Hears
<1>3. id \in Nat /\ sent.alpha[id] \in SignalType
  BY <1>2 DEF Ids, TradingInv, AlphaOK, Caused
<1>4. Repeats(signal)
  BY <1>2, <1>3 DEF Signal, SignalType, Repeats
<1> HIDE DEF id, signal
<1>5. /\ phase' \in [Agent -> Place] /\ \A b \in Agent : phase'[b] \in Places(b)
      /\ \A b \in Agent \ {"blender"} : phase'[b] = phase[b] /\ hand'[b] = hand[b]
      /\ DOMAIN hand' = Agent /\ hand'["blender"] = signal
  <2>1. "publish" \in Places("blender") /\ "blender" \in Agent
    BY DEF Places, Agent, Listener
  <2> QED BY <1>1, <2>1, GotoStep DEF TradingInv, Types
<1>6. Types'
  BY <1>1, <1>2, <1>5 DEF TradingInv, Types, Symbol
<1>7. Grows
  BY <1>1, QuietStep DEF TradingInv
<1>8. \A b \in Listener : InboxOK(b)'
  BY <1>2, <1>6, <1>7, InboxStep DEF TradingInv
<1>9. MarketOK' /\ AlphaOK'
  BY <1>1, <1>5, <1>7, MarketFrame, AlphaFrame DEF TradingInv, Keeps, Agent, Listener
<1>10. BlendedOK'
  <2>1. \A blended : Repeats(blended) => Repeats(blended)'
    BY <1>7, RepeatsGrows
  <2>2. \A n \in Ids("blended")' : Repeats(sent.blended[n])'
    BY <1>1, <2>1 DEF TradingInv, BlendedOK, Ids
  <2> QED BY <1>1, <1>4, <1>5, <2>2 DEF BlendedOK, Repeats, Ids
<1>11. /\ AtBroker' = AtBroker /\ hand'["executor"] = hand["executor"]
       /\ phase'["executor"] = phase["executor"]
  BY <1>5 DEF AtBroker, Agent, Listener
<1>12. OrdersOK' /\ FillsOK' /\ UnansweredOK'
  <2>1. order_ids <= order_ids' /\ "executor" \in Listener
    BY <1>1 DEF TradingInv, Types, Listener
  <2>2. OrdersOK'
    BY <1>1, <1>2, <1>6, <1>7, <1>11, <2>1, OrdersFrame DEF TradingInv
  <2> QED BY <1>1, <1>2, <1>6, <1>7, <1>11, <2>2, FillsFrame, UnansweredFrame
     DEF TradingInv
<1> QED BY <1>6, <1>8, <1>9, <1>10, <1>12 DEF TradingInv

(* A topic after one more message: what holds of all of them.              *)
LEMMA LastStep ==
  ASSUME Grows, NEW topic \in Topic, Len(sent'[topic]) = Id(topic)
  PROVE  /\ Ids(topic)' = 1..Id(topic) /\ Id(topic) = Len(sent[topic]) + 1
         /\ \A id \in Ids(topic)' : id \in Ids(topic) \/ id = Id(topic)
         /\ \A id \in Ids(topic) : id \in Ids(topic)' /\ id < Id(topic)
         /\ \A id \in Ids(topic) : sent'[topic][id] = sent[topic][id]
         /\ Id(topic) \in Nat \ {0}
BY DEF Grows, Ids, Id

(* A signal goes from the hand to its topic.                               *)
LEMMA PublishSignalStep ==
  ASSUME TradingInv, NEW a \in {"momentum", "blender"}, PublishSignal(a)
  PROVE  TradingInv'
<1> DEFINE topic == IF a = "momentum" THEN "alpha" ELSE "blended"
           message == hand[a]
<1>1. /\ phase[a] = "publish" /\ Send(topic, message) /\ Goto(a, "listen")
      /\ hand' = [hand EXCEPT ![a] = Nothing]
      /\ UNCHANGED <<fixture, row, sma, client, order_ids, placed, since, faults>>
  BY DEF PublishSignal, Publish
<1>2. /\ topic \in Topic \ {"market", "order", "fill"} /\ message \in MessageType(topic)
      /\ a = "momentum" => topic = "alpha" /\ Caused(message)
      /\ a = "blender" => topic = "blended" /\ Repeats(message)
  BY <1>1 DEF TradingInv, AlphaOK, BlendedOK, Caused, Repeats, MessageType, Topic
<1>3. a \in Agent \ {"executor"} /\ "listen" \in Places(a)
  BY DEF Agent, Listener, Places
<1> HIDE DEF topic, message
<1>4. /\ Grows
      /\ DOMAIN sent' = Topic /\ \A t \in Topic : sent'[t] \in Seq(MessageType(t))
      /\ \A t \in Topic \ {topic} : sent'[t] = sent[t]
      /\ Id(topic) \in Nat \ {0} /\ Len(sent'[topic]) = Id(topic)
      /\ sent'[topic][Id(topic)] = message
      /\ inbox' \in [Listener -> Seq(Nat)]
      /\ \A b \in Listener :
           \/ inbox'[b] = inbox[b]
           \/ Hears[b] = topic /\ inbox'[b] = Append(inbox[b], Id(topic))
  <2>1. Send(topic, message) /\ Types /\ topic \in Topic
    BY <1>1, <1>2 DEF TradingInv
  <2> QED BY <1>2, <2>1, SendStep
<1>5. /\ phase' \in [Agent -> Place] /\ \A b \in Agent : phase'[b] \in Places(b)
      /\ phase'[a] = "listen" /\ DOMAIN hand' = Agent
      /\ \A b \in Agent \ {a} : phase'[b] = phase[b] /\ hand'[b] = hand[b]
  BY <1>1, <1>3, GotoStep DEF TradingInv, Types
<1>6. Types'
  BY <1>1, <1>4, <1>5 DEF TradingInv, Types, Symbol
<1>7. \A b \in Listener : Moves(b)
  BY <1>4 DEF Moves
<1>8. \A b \in Listener : InboxOK(b)'
  BY <1>4, <1>6, <1>7, InboxStep DEF TradingInv
<1>9. Keeps("momentum") /\ Keeps("blender")
  BY <1>5 DEF Keeps, Agent, Listener
<1>10. /\ AtBroker' = AtBroker /\ hand'["executor"] = hand["executor"]
       /\ phase'["executor"] = phase["executor"]
  BY <1>3, <1>5 DEF AtBroker, Agent, Listener
<1>11. /\ sent'["market"] = sent["market"] /\ sent'["order"] = sent["order"]
       /\ sent'["fill"] = sent["fill"]
  BY <1>2, <1>4 DEF Topic
<1>12. MarketOK'
  BY <1>1, <1>11, MarketFrame DEF TradingInv
<1>13. AlphaOK'
  <2>1. CASE a = "blender"
    BY <1>2, <1>4, <1>9, <2>1, AlphaFrame DEF TradingInv, Topic
  <2>2. CASE a = "momentum"
    <3>1. \A signal : Caused(signal) => Caused(signal)'
      BY <1>4, CausedGrows
    <3>2. /\ \A id \in Ids("alpha")' : id \in Ids("alpha") \/ id = Id("alpha")
          /\ \A id \in Ids("alpha") : sent'["alpha"][id] = sent["alpha"][id]
          /\ sent'["alpha"][Id("alpha")] = message /\ Caused(message)
      BY <1>2, <1>4, <2>2, LastStep
    <3>3. ASSUME NEW id \in Ids("alpha")' PROVE Caused(sent.alpha[id])'
      <4>1. PICK signal : signal = sent'["alpha"][id]
        OBVIOUS
      <4>2. Caused(signal)
        BY <3>2, <3>3, <4>1 DEF TradingInv, AlphaOK
      <4> QED BY <3>1, <4>1, <4>2 DEF Caused
    <3> QED BY <1>5, <2>2, <3>3 DEF AlphaOK
  <2> QED BY <2>1, <2>2
<1>14. BlendedOK'
  <2>1. CASE a = "momentum"
    BY <1>2, <1>4, <1>9, <2>1, BlendedFrame DEF TradingInv, Topic
  <2>2. CASE a = "blender"
    <3>1. \A signal : Repeats(signal) => Repeats(signal)'
      BY <1>4, RepeatsGrows
    <3>2. /\ \A id \in Ids("blended")' : id \in Ids("blended") \/ id = Id("blended")
          /\ \A id \in Ids("blended") : sent'["blended"][id] = sent["blended"][id]
          /\ sent'["blended"][Id("blended")] = message /\ Repeats(message)
      BY <1>2, <1>4, <2>2, LastStep
    <3>3. ASSUME NEW id \in Ids("blended")' PROVE Repeats(sent.blended[id])'
      <4>1. PICK signal : signal = sent'["blended"][id]
        OBVIOUS
      <4>2. Repeats(signal)
        BY <3>2, <3>3, <4>1 DEF TradingInv, BlendedOK
      <4> QED BY <3>1, <4>1, <4>2 DEF Repeats
    <3> QED BY <1>5, <2>2, <3>3 DEF BlendedOK
  <2> QED BY <2>1, <2>2
<1>15. OrdersOK'
  <2>1. order_ids <= order_ids'
    BY <1>1 DEF TradingInv, Types
  <2> QED BY <1>4, <1>6, <1>7, <1>10, <1>11, <2>1, OrdersFrame DEF TradingInv, Listener
<1>16. FillsOK' /\ UnansweredOK'
  BY <1>1, <1>4, <1>6, <1>10, <1>11, FillsFrame, UnansweredFrame DEF TradingInv
<1> QED BY <1>6, <1>8, <1>12, <1>13, <1>14, <1>15, <1>16 DEF TradingInv

(* The signal taken is later than every one ordered before it.             *)
LEMMA OnSignalStep ==
  ASSUME TradingInv, OnSignal
  PROVE  TradingInv'
<1> DEFINE id == Head(inbox["executor"])
           signal == sent.blended[id]
           order == [order_id |-> order_ids + 1, symbol |-> signal.symbol,
                     side |-> Side(signal.direction), causal_link |-> id]
<1>1. /\ Takes("executor")
      /\ \/ UNCHANGED <<phase, hand, order_ids>>
         \/ /\ signal.direction # 0
            /\ order_ids' = order_ids + 1
            /\ hand' = [hand EXCEPT !["executor"] = order]
            /\ Goto("executor", "order")
      /\ UNCHANGED <<fixture, row, sma, client, placed, sent, since, faults>>
  BY DEF OnSignal
<1>2. /\ inbox["executor"] \in Seq(Nat) /\ id = inbox["executor"][1]
      /\ inbox["executor"] # <<>> /\ 1 \in 1..Len(inbox["executor"])
      /\ id \in Ids("blended") /\ phase["executor"] = "listen"
      /\ inbox' \in [Listener -> Seq(Nat)]
      /\ inbox'["executor"] = Tail(inbox["executor"])
      /\ \A b \in Listener : Moves(b)
  BY <1>1, TakesStep DEF Listener, Hears
<1>3. CASE UNCHANGED <<phase, hand, order_ids>>
  <2>1. Types'
    BY <1>1, <1>2, <1>3 DEF TradingInv, Types, Symbol
  <2>2. order_ids <= order_ids' /\ AtBroker' = AtBroker
    BY <1>3 DEF TradingInv, Types, AtBroker
  <2> QED BY <1>1, <1>2, <1>3, <2>1, <2>2, QuietFrame DEF Keeps
<1>4. CASE /\ signal.direction # 0
           /\ order_ids' = order_ids + 1
           /\ hand' = [hand EXCEPT !["executor"] = order]
           /\ Goto("executor", "order")
  <2>1. id \in Nat /\ signal \in SignalType /\ order_ids \in Nat
    BY <1>2 DEF Ids, TradingInv, BlendedOK, Repeats, Types
  <2>2. order \in OrderType /\ signal.direction = IF order.side = "BUY" THEN 1 ELSE -1
    BY <1>4, <2>1 DEF OrderType, SignalType, Direction, Side
  <2>3. order.causal_link = id /\ order.order_id = order_ids + 1 /\ order.symbol = signal.symbol
    OBVIOUS
  <2>4. hand' = [hand EXCEPT !["executor"] = order]
    BY <1>4
  <2>5. signal = sent["blended"][id]
    OBVIOUS
  <2> HIDE DEF order, signal
  <2>0. PICK new : new = order
    OBVIOUS
  <2>6. /\ phase' \in [Agent -> Place] /\ \A b \in Agent : phase'[b] \in Places(b)
        /\ \A b \in Agent \ {"executor"} : phase'[b] = phase[b] /\ hand'[b] = hand[b]
        /\ DOMAIN hand' = Agent /\ hand'["executor"] = order
        /\ phase'["executor"] = "order"
    <3>1. "order" \in Places("executor") /\ "executor" \in Agent
      BY DEF Places, Agent, Listener
    <3> QED BY <1>4, <2>4, <3>1, GotoStep DEF TradingInv, Types
  <2>7. Types'
    BY <1>1, <1>2, <1>4, <2>1, <2>6 DEF TradingInv, Types, Symbol
  <2>8. Grows
    BY <1>1, QuietStep DEF TradingInv
  <2>9. \A b \in Listener : InboxOK(b)'
    BY <1>2, <2>7, <2>8, InboxStep DEF TradingInv
  <2>10. MarketOK' /\ AlphaOK' /\ BlendedOK'
    BY <1>1, <2>6, <2>8, MarketFrame, AlphaFrame, BlendedFrame
       DEF TradingInv, Keeps, Agent, Listener
  <2>11. ~AtBroker /\ ~AtBroker'
    BY <1>2, <2>6 DEF AtBroker
  <2>12. FillsOK' /\ UnansweredOK'
    <3>1. /\ sent'["fill"] = sent["fill"] /\ sent'["order"] = sent["order"]
          /\ placed \subseteq placed' /\ faults' = faults /\ AtBroker' = AtBroker
      BY <1>1, <2>11 DEF AtBroker
    <3> QED BY <2>7, <2>8, <2>11, <3>1, FillsFrame, UnansweredFrame DEF TradingInv
  <2>13. \A earlier : Follows(earlier) /\ BeforeInbox(earlier)
                       => Follows(earlier)' /\ BeforeInbox(earlier)'
    <3>1. order_ids' \in Nat /\ order_ids <= order_ids' /\ Moves("executor")
      BY <1>2, <1>4, <2>1 DEF Listener
    <3>2. Types /\ Types'
      BY <2>7 DEF TradingInv
    <3> QED BY <2>1, <2>8, <3>1, <3>2, FollowsGrows, BeforeInboxStep
  <2>14. \A n \in Ids("order")' :
           /\ n \in Ids("order")
           /\ Follows(sent.order[n])' /\ BeforeInbox(sent.order[n])'
           /\ \A m \in 1..n - 1 : After(sent.order[n], sent.order[m])
           /\ sent.order[n].causal_link < id /\ sent.order[n].order_id < order_ids + 1
    <3> TAKE n \in Ids("order")'
    <3>1. n \in Ids("order") /\ sent'["order"] = sent["order"]
      BY <1>1 DEF Ids
    <3>2. PICK earlier : earlier = sent["order"][n]
      OBVIOUS
    <3>3. /\ Follows(earlier) /\ BeforeInbox(earlier)
          /\ \A m \in 1..n - 1 : After(sent.order[n], sent.order[m])
      BY <3>1, <3>2 DEF TradingInv, OrdersOK
    <3>4. earlier.causal_link < id /\ earlier.order_id < order_ids + 1
      BY <1>2, <2>1, <3>3 DEF BeforeInbox, Follows
    <3>5. Follows(earlier)' /\ BeforeInbox(earlier)' /\ earlier = sent'["order"][n]
      BY <2>13, <3>1, <3>2, <3>3
    <3> QED BY <3>1, <3>2, <3>3, <3>4, <3>5 DEF Follows, BeforeInbox
  <2>15. Follows(new)'
    BY <1>1, <1>2, <1>4, <2>0, <2>1, <2>2, <2>3, <2>5 DEF Follows, Ids
  <2>16. BeforeInbox(new)'
    <3>1. \A n \in 1..Len(inbox["executor"]) : \A m \in 1..n - 1 :
            inbox["executor"][m] < inbox["executor"][n]
      BY DEF TradingInv, InboxOK, Listener
    <3>2. PICK old : old = inbox["executor"]
      OBVIOUS
    <3>3. /\ old \in Seq(Nat) /\ old # <<>> /\ id = old[1]
          /\ \A n \in 1..Len(old) : \A m \in 1..n - 1 : old[m] < old[n]
      BY <1>2, <3>1, <3>2
    <3>4. ASSUME NEW n \in 1..Len(Tail(old)) PROVE id < Tail(old)[n]
      <4>1. n + 1 \in 1..Len(old) /\ 1 \in 1..(n + 1) - 1 /\ Tail(old)[n] = old[n + 1]
        BY <3>3, <3>4
      <4> QED BY <3>3, <4>1
    <3> QED BY <1>2, <2>0, <2>3, <3>2, <3>4 DEF BeforeInbox
  <2>17. \A n \in Ids("order")' : After(new, sent'["order"][n])
    BY <1>1, <2>0, <2>3, <2>14 DEF After
  <2>18. OrdersOK'
    <3>1. hand'["executor"] = new
      BY <2>0, <2>6
    <3>2. Follows(hand["executor"])' /\ BeforeInbox(hand["executor"])'
      BY <2>15, <2>16, <3>1 DEF Follows, BeforeInbox
    <3>3. \A n \in Ids("order")' : After(hand'["executor"], sent'["order"][n])
      BY <2>17, <3>1
    <3>4. \A n \in Ids("order")' : \A m \in 1..n - 1 :
            After(sent'["order"][n], sent'["order"][m])
      BY <1>1, <2>14
    <3> QED BY <2>14, <3>2, <3>3, <3>4 DEF OrdersOK, After
  <2> QED BY <2>7, <2>9, <2>10, <2>12, <2>18 DEF TradingInv
<1> QED BY <1>1, <1>3, <1>4

(* The orders without a fill can be counted.                               *)
LEMMA UnansweredFinite ==
  ASSUME Types
  PROVE  IsFiniteSet(Unanswered) /\ Cardinality(Unanswered) \in Nat
<1>1. sent["order"] \in Seq(MessageType("order"))
  BY DEF Types, Topic
<1>2. Unanswered \subseteq 1..Len(sent.order) /\ Len(sent.order) \in Nat
  BY <1>1 DEF Unanswered, Ids
<1>3. IsFiniteSet(1..Len(sent.order))
  BY <1>2, FS_Interval
<1> QED BY <1>2, <1>3, FS_Subset, FS_CardinalityType

(* The order goes out, and the executor owes it a fill.                    *)
LEMMA PublishOrderStep ==
  ASSUME TradingInv, PublishOrder
  PROVE  TradingInv'
<1> DEFINE place == IF client THEN "broker" ELSE "fill"
<1>1. PICK order : order = hand["executor"]
  OBVIOUS
<1>2. PICK id : id = Id("order")
  OBVIOUS
<1>3. PICK fill : fill = [order_id |-> order.order_id, venue |-> "SIMULATED-NO-BROKER",
                          causal_link |-> id]
  OBVIOUS
<1>4. /\ phase["executor"] = "order" /\ Send("order", order) /\ Goto("executor", place)
      /\ hand' = [hand EXCEPT !["executor"] = fill]
      /\ UNCHANGED <<fixture, row, sma, client, order_ids, placed, since, faults>>
  BY <1>1, <1>2, <1>3 DEF PublishOrder, Publish
<1>5. /\ Follows(order) /\ BeforeInbox(order) /\ order \in OrderType
      /\ \A n \in Ids("order") : After(order, sent.order[n])
  BY <1>1, <1>4 DEF TradingInv, OrdersOK, Follows
<1>6. /\ Grows
      /\ DOMAIN sent' = Topic /\ \A t \in Topic : sent'[t] \in Seq(MessageType(t))
      /\ \A t \in Topic \ {"order"} : sent'[t] = sent[t]
      /\ id \in Nat \ {0} /\ Len(sent'["order"]) = id
      /\ sent'["order"][id] = order
      /\ inbox' \in [Listener -> Seq(Nat)]
      /\ \A b \in Listener :
           \/ inbox'[b] = inbox[b]
           \/ Hears[b] = "order" /\ inbox'[b] = Append(inbox[b], id)
  <2>1. Types /\ "order" \in Topic /\ order \in MessageType("order")
    BY <1>5 DEF TradingInv, Topic, MessageType
  <2> QED BY <1>2, <1>4, <2>1, SendStep
<1>7. inbox' = inbox
  BY <1>6 DEF Hears, Listener, TradingInv, Types
<1>8. /\ Ids("order")' = 1..id
      /\ \A n \in Ids("order")' : n \in Ids("order") \/ n = id
      /\ \A n \in Ids("order") : n \in Ids("order")' /\ n < id /\ n \in Nat
      /\ \A n \in Ids("order") : sent'["order"][n] = sent["order"][n]
  <2>1. "order" \in Topic /\ Len(sent'["order"]) = Id("order")
    BY <1>2, <1>6 DEF Topic
  <2>2. \A n \in Ids("order") : n \in Nat
    BY DEF Ids
  <2> QED BY <1>2, <1>6, <2>1, <2>2, LastStep
<1>9. /\ phase' \in [Agent -> Place] /\ \A b \in Agent : phase'[b] \in Places(b)
      /\ \A b \in Agent \ {"executor"} : phase'[b] = phase[b] /\ hand'[b] = hand[b]
      /\ DOMAIN hand' = Agent /\ hand'["executor"] = fill
      /\ phase'["executor"] \in {"broker", "fill"}
  <2>1. place \in Places("executor") /\ "executor" \in Agent
    BY DEF Places, Agent, Listener
  <2> QED BY <1>4, <2>1, GotoStep DEF TradingInv, Types
<1>10. Types'
  BY <1>4, <1>6, <1>9 DEF TradingInv, Types, Symbol
<1>11. \A b \in Listener : Moves(b)
  BY <1>7 DEF Moves
<1>12. \A b \in Listener : InboxOK(b)'
  BY <1>6, <1>10, <1>11, InboxStep DEF TradingInv
<1>13. MarketOK' /\ AlphaOK' /\ BlendedOK'
  BY <1>4, <1>6, <1>9, MarketFrame, AlphaFrame, BlendedFrame
     DEF TradingInv, Keeps, Agent, Listener, Topic
<1>14. OrdersOK'
  <2>1. \A earlier : Follows(earlier) /\ BeforeInbox(earlier)
                      => Follows(earlier)' /\ BeforeInbox(earlier)'
    <3>1. /\ order_ids \in Nat /\ order_ids' \in Nat /\ order_ids <= order_ids'
          /\ Moves("executor")
      BY <1>4, <1>11 DEF TradingInv, Types, Listener
    <3>2. Types /\ Types'
      BY <1>10 DEF TradingInv
    <3> QED BY <1>6, <3>1, <3>2, FollowsGrows, BeforeInboxStep
  <2>2. ASSUME NEW n \in Ids("order")'
        PROVE  /\ Follows(sent.order[n])' /\ BeforeInbox(sent.order[n])'
               /\ \A m \in 1..n - 1 : After(sent'["order"][n], sent'["order"][m])
    <3>1. PICK one : one = sent'["order"][n]
      OBVIOUS
    <3>2. Follows(one) /\ BeforeInbox(one) /\ \A m \in 1..n - 1 : After(one, sent["order"][m])
      <4>1. CASE n \in Ids("order")
        BY <1>8, <3>1, <4>1 DEF TradingInv, OrdersOK
      <4>2. CASE n = id
        <5>1. one = order /\ \A m \in 1..n - 1 : m \in Ids("order")
          BY <1>2, <1>6, <3>1, <4>2 DEF Id, Ids, Grows, Topic
        <5> QED BY <1>5, <5>1
      <4> QED BY <1>8, <4>1, <4>2
    <3>3. \A m \in 1..n - 1 : sent'["order"][m] = sent["order"][m]
      <4>1. n \in Nat /\ n <= id /\ id = Len(sent["order"]) + 1
        BY <1>2, <1>6, <1>8 DEF Id
      <4>2. \A m \in 1..n - 1 : m \in Ids("order")
        BY <1>6, <4>1 DEF Ids, Grows, Topic
      <4> QED BY <1>8, <4>2
    <3> QED BY <2>1, <3>1, <3>2, <3>3 DEF Follows, BeforeInbox
  <2> QED BY <1>9, <2>2 DEF OrdersOK, After
<1>15. \A n \in Ids("fill") : sent["fill"][n].causal_link \in Ids("order")
  BY DEF TradingInv, FillsOK, Fills
<1>16. FillsOK'
  <2>1. \A one : Fills(one) => Fills(one)'
    BY <1>4, <1>6, FillsGrows
  <2>2. Ids("fill")' = Ids("fill") /\ sent'["fill"] = sent["fill"]
    BY <1>6 DEF Ids, Topic
  <2>3. \A n \in Ids("fill") : Fills(sent.fill[n])'
    BY <2>1, <2>2 DEF TradingInv, FillsOK, Fills
  <2>4. Fills(fill)'
    <3>1. /\ fill \in FillType /\ fill.order_id = order.order_id
          /\ fill.venue = "SIMULATED-NO-BROKER" /\ fill.causal_link = id
      BY <1>3, <1>5, <1>6 DEF FillType, OrderType
    <3>2. id \in Ids("order")'
      BY <1>6, <1>8
    <3> QED BY <1>6, <3>1, <3>2 DEF Fills
  <2>5. \A n \in Ids("fill") : sent["fill"][n].causal_link # fill.causal_link
    BY <1>3, <1>8, <1>15
  <2>6. Fills(hand["executor"])'
    BY <1>9, <2>4 DEF Fills
  <2> QED BY <1>9, <2>2, <2>3, <2>5, <2>6 DEF TradingInv, FillsOK, Fills
<1>17. UnansweredOK'
  <2>1. Unanswered' \subseteq Unanswered \cup {id}
    <3>1. Ids("fill")' = Ids("fill") /\ sent'["fill"] = sent["fill"]
      BY <1>6 DEF Ids, Topic
    <3> QED BY <1>8, <3>1 DEF Unanswered
  <2>2. IsFiniteSet(Unanswered) /\ Cardinality(Unanswered) \in Nat
    BY UnansweredFinite DEF TradingInv
  <2>3. id \notin Unanswered
    BY <1>8 DEF Unanswered
  <2>4. /\ IsFiniteSet(Unanswered \cup {id})
        /\ Cardinality(Unanswered \cup {id}) = Cardinality(Unanswered) + 1
    BY <2>2, <2>3, FS_AddElement
  <2>5. /\ Cardinality(Unanswered') <= Cardinality(Unanswered \cup {id})
        /\ Cardinality(Unanswered') \in Nat
    BY <2>1, <2>4, FS_Subset, FS_CardinalityType
  <2>6. ~AtBroker /\ AtBroker'
    BY <1>4, <1>9 DEF AtBroker
  <2>7. Cardinality(Unanswered) <= faults /\ faults \in Nat /\ faults' = faults
    BY <1>4, <2>6 DEF TradingInv, UnansweredOK, Types
  <2> QED BY <2>2, <2>4, <2>5, <2>6, <2>7 DEF UnansweredOK
<1> QED BY <1>10, <1>12, <1>13, <1>14, <1>16, <1>17 DEF TradingInv

(* The broker has the order, or may have it, or has not.                   *)
LEMMA SubmitLimitOrderStep ==
  ASSUME TradingInv, SubmitLimitOrder
  PROVE  TradingInv'
<1>1. PICK fill : fill = hand["executor"]
  OBVIOUS
<1>2. /\ phase["executor"] = "broker" /\ Goto("executor", "fill")
      /\ \/ /\ placed' = placed \cup {fill.order_id}
            /\ hand' = [hand EXCEPT !["executor"].venue = "ALPACA-PAPER"]
         \/ placed' \in {placed, placed \cup {fill.order_id}} /\ UNCHANGED hand
      /\ UNCHANGED <<fixture, row, inbox, sma, client, order_ids, sent, since, faults>>
  BY <1>1 DEF SubmitLimitOrder
<1>3. /\ Fills(fill) /\ fill \in FillType
      /\ \A n \in Ids("fill") : sent["fill"][n].causal_link # fill.causal_link
  BY <1>1, <1>2 DEF TradingInv, FillsOK, AtBroker, Fills
<1>4. fill.order_id \in 1..order_ids
  BY <1>3 DEF Fills, TradingInv, OrdersOK, Follows
<1>5. PICK after : after = hand'["executor"]
  OBVIOUS
<1>6. /\ \/ after = fill
         \/ after = [fill EXCEPT !.venue = "ALPACA-PAPER"] /\ fill.order_id \in placed'
      /\ DOMAIN hand' = Agent
      /\ \A b \in Agent \ {"executor"} : hand'[b] = hand[b]
  BY <1>1, <1>2, <1>5 DEF TradingInv, Types, Agent, Listener
<1>7. /\ after \in FillType /\ after.causal_link = fill.causal_link
      /\ after.order_id = fill.order_id
      /\ after.venue = fill.venue \/ fill.order_id \in placed'
  <2>1. CASE after = fill
    BY <1>3, <2>1
  <2>2. CASE after = [fill EXCEPT !.venue = "ALPACA-PAPER"] /\ fill.order_id \in placed'
    <3>1. after \in FillType
      BY <1>3, <2>2 DEF FillType
    <3>2. after.causal_link = fill.causal_link /\ after.order_id = fill.order_id
      BY <1>3, <2>2 DEF FillType
    <3> QED BY <2>2, <3>1, <3>2
  <2> QED BY <1>6, <2>1, <2>2
<1>8. /\ phase' \in [Agent -> Place] /\ \A b \in Agent : phase'[b] \in Places(b)
      /\ \A b \in Agent \ {"executor"} : phase'[b] = phase[b]
      /\ phase'["executor"] = "fill"
  <2>1. "fill" \in Places("executor") /\ "executor" \in Agent
    BY DEF Places, Agent, Listener
  <2> QED BY <1>2, <2>1, GotoStep DEF TradingInv
<1>9. Types'
  <2>1. placed' \subseteq 1..order_ids'
    BY <1>2, <1>4 DEF TradingInv, Types
  <2> QED BY <1>2, <1>6, <1>8, <2>1 DEF TradingInv, Types, Symbol
<1>10. Grows
  BY <1>2, QuietStep DEF TradingInv
<1>11. \A b \in Listener : Moves(b)
  BY <1>2 DEF Moves
<1>12. \A b \in Listener : InboxOK(b)'
  BY <1>9, <1>10, <1>11, InboxStep DEF TradingInv
<1>13. MarketOK' /\ AlphaOK' /\ BlendedOK'
  BY <1>2, <1>6, <1>8, <1>10, MarketFrame, AlphaFrame, BlendedFrame
     DEF TradingInv, Keeps, Agent, Listener
<1>14. OrdersOK'
  <2>1. order_ids <= order_ids'
    BY <1>2 DEF TradingInv, Types
  <2> QED BY <1>2, <1>8, <1>9, <1>10, <1>11, <2>1, OrdersFrame DEF TradingInv, Listener
<1>15. AtBroker /\ AtBroker'
  BY <1>2, <1>8 DEF AtBroker
<1>16. UnansweredOK'
  BY <1>2, <1>9, <1>15, UnansweredFrame DEF TradingInv
<1>17. FillsOK'
  <2>1. \A one : Fills(one) => Fills(one)'
    BY <1>2, <1>10, FillsGrows
  <2>2. Fills(after)'
    BY <1>2, <1>3, <1>7 DEF Fills, Ids
  <2>3. Fills(hand["executor"])'
    BY <1>5, <2>2 DEF Fills
  <2>4. Ids("fill")' = Ids("fill") /\ sent' = sent
    BY <1>2 DEF Ids
  <2>5. \A n \in Ids("fill") : Fills(sent.fill[n])'
    BY <2>1, <2>4 DEF TradingInv, FillsOK, Fills
  <2> QED BY <1>3, <1>5, <1>7, <2>3, <2>4, <2>5 DEF TradingInv, FillsOK
<1> QED BY <1>9, <1>12, <1>13, <1>14, <1>16, <1>17 DEF TradingInv

(* The fill goes out, and the order is answered.                           *)
LEMMA PublishFillStep ==
  ASSUME TradingInv, PublishFill
  PROVE  TradingInv'
<1>1. PICK fill : fill = hand["executor"]
  OBVIOUS
<1>2. PICK id : id = Id("fill")
  OBVIOUS
<1>3. /\ phase["executor"] = "fill" /\ Send("fill", fill) /\ Goto("executor", "listen")
      /\ hand' = [hand EXCEPT !["executor"] = Nothing]
      /\ UNCHANGED <<fixture, row, sma, client, order_ids, placed, since, faults>>
  BY <1>1 DEF PublishFill, Publish
<1>4. /\ Fills(fill) /\ fill \in FillType
      /\ \A n \in Ids("fill") : sent["fill"][n].causal_link # fill.causal_link
  BY <1>1, <1>3 DEF TradingInv, FillsOK, AtBroker, Fills
<1>5. /\ Grows
      /\ DOMAIN sent' = Topic /\ \A t \in Topic : sent'[t] \in Seq(MessageType(t))
      /\ \A t \in Topic \ {"fill"} : sent'[t] = sent[t]
      /\ id \in Nat \ {0} /\ Len(sent'["fill"]) = id
      /\ sent'["fill"][id] = fill
      /\ inbox' \in [Listener -> Seq(Nat)]
      /\ \A b \in Listener :
           \/ inbox'[b] = inbox[b]
           \/ Hears[b] = "fill" /\ inbox'[b] = Append(inbox[b], id)
  <2>1. Types /\ "fill" \in Topic /\ fill \in MessageType("fill")
    BY <1>4 DEF TradingInv, Topic, MessageType
  <2> QED BY <1>2, <1>3, <2>1, SendStep
<1>6. inbox' = inbox
  BY <1>5 DEF Hears, Listener, TradingInv, Types
<1>7. /\ \A n \in Ids("fill")' : n \in Ids("fill") \/ n = id
      /\ id \in Ids("fill")' /\ Ids("fill") \subseteq Ids("fill")'
      /\ \A n \in Ids("fill") : sent'["fill"][n] = sent["fill"][n]
  <2>1. "fill" \in Topic /\ Len(sent'["fill"]) = Id("fill")
    BY <1>2, <1>5 DEF Topic
  <2> QED BY <1>2, <1>5, <2>1, LastStep
<1>8. /\ phase' \in [Agent -> Place] /\ \A b \in Agent : phase'[b] \in Places(b)
      /\ \A b \in Agent \ {"executor"} : phase'[b] = phase[b] /\ hand'[b] = hand[b]
      /\ DOMAIN hand' = Agent /\ phase'["executor"] = "listen"
  <2>1. "listen" \in Places("executor") /\ "executor" \in Agent
    BY DEF Places, Agent, Listener
  <2> QED BY <1>3, <2>1, GotoStep DEF TradingInv, Types
<1>9. Types'
  BY <1>3, <1>5, <1>8 DEF TradingInv, Types, Symbol
<1>10. \A b \in Listener : Moves(b)
  BY <1>6 DEF Moves
<1>11. \A b \in Listener : InboxOK(b)'
  BY <1>5, <1>9, <1>10, InboxStep DEF TradingInv
<1>12. MarketOK' /\ AlphaOK' /\ BlendedOK'
  BY <1>3, <1>5, <1>8, MarketFrame, AlphaFrame, BlendedFrame
     DEF TradingInv, Keeps, Agent, Listener, Topic
<1>13. OrdersOK'
  <2>1. sent'["order"] = sent["order"] /\ order_ids <= order_ids'
    BY <1>3, <1>5 DEF Topic, TradingInv, Types
  <2> QED BY <1>5, <1>8, <1>9, <1>10, <2>1, OrdersFrame DEF TradingInv, Listener
<1>14. AtBroker /\ ~AtBroker'
  BY <1>3, <1>8 DEF AtBroker
<1>15. FillsOK'
  <2>1. \A one : Fills(one) => Fills(one)'
    BY <1>3, <1>5, FillsGrows
  <2>2. ASSUME NEW n \in Ids("fill")' PROVE Fills(sent.fill[n])'
    <3>1. PICK one : one = sent'["fill"][n]
      OBVIOUS
    <3>2. Fills(one)
      BY <1>4, <1>5, <1>7, <3>1 DEF TradingInv, FillsOK
    <3> QED BY <2>1, <3>1, <3>2 DEF Fills
  <2>3. \A n \in Ids("fill") : \A other \in Ids("fill") \ {n} :
          sent["fill"][other].causal_link # sent["fill"][n].causal_link
    BY DEF TradingInv, FillsOK
  <2>4. \A n \in Ids("fill")' : \A other \in Ids("fill")' \ {n} :
          sent'["fill"][other].causal_link # sent'["fill"][n].causal_link
    BY <1>4, <1>5, <1>7, <2>3
  <2> QED BY <1>14, <2>2, <2>4 DEF FillsOK
<1>16. UnansweredOK'
  <2> DEFINE link == fill.causal_link
  <2>1. Ids("order")' = Ids("order")
    BY <1>5 DEF Ids, Topic
  <2>2. Unanswered' \subseteq Unanswered \ {link}
    BY <1>5, <1>7, <2>1 DEF Unanswered
  <2>3. link \in Unanswered
    BY <1>4 DEF Unanswered, Fills
  <2>4. IsFiniteSet(Unanswered) /\ Cardinality(Unanswered) \in Nat
    BY UnansweredFinite DEF TradingInv
  <2> HIDE DEF link
  <2>5. /\ IsFiniteSet(Unanswered \ {link})
        /\ Cardinality(Unanswered \ {link}) = Cardinality(Unanswered) - 1
    BY <2>3, <2>4, FS_RemoveElement
  <2>6. /\ Cardinality(Unanswered') <= Cardinality(Unanswered \ {link})
        /\ Cardinality(Unanswered') \in Nat
    BY <2>2, <2>5, FS_Subset, FS_CardinalityType
  <2>7. Cardinality(Unanswered) <= faults + 1 /\ faults \in Nat /\ faults' = faults
    BY <1>3, <1>14 DEF TradingInv, UnansweredOK, Types
  <2> QED BY <1>14, <2>4, <2>5, <2>6, <2>7 DEF UnansweredOK
<1> QED BY <1>9, <1>11, <1>12, <1>13, <1>15, <1>16 DEF TradingInv

-----------------------------------------------------------------------------
(* The invariant holds initially, ...                                      *)
LEMMA TradingInit ==
  ASSUME Init
  PROVE  TradingInv
<1>1. \A topic \in Topic : sent[topic] = <<>>
  BY DEF Init
<1>2. FreshSma \in SmaType
  BY DEF FreshSma, SmaType, Direction
<1>3. \A a \in Agent : "down" \in Places(a)
  BY DEF Agent, Listener, Places
<1>4. faults = 0 /\ faults \in Nat
  BY DEF Init
<1>5. Types
  <2>1. DOMAIN sent = Topic /\ \A topic \in Topic : sent[topic] \in Seq(MessageType(topic))
    <3>1. \A topic \in Topic : <<>> \in Seq(MessageType(topic))
      OBVIOUS
    <3> QED BY <1>1, <3>1 DEF Init
  <2>2. inbox \in [Listener -> Seq(Nat)]
    BY DEF Init
  <2>3. sma \in [Symbol -> SmaType]
    BY <1>2 DEF Init
  <2>4. /\ phase \in [Agent -> Place] /\ \A a \in Agent : phase[a] \in Places(a)
        /\ DOMAIN hand = Agent
    BY <1>3 DEF Init, Place
  <2>5. /\ row \in Nat \ {0} /\ order_ids \in Nat /\ since \in Nat
        /\ placed \subseteq 1..order_ids
    BY DEF Init
  <2>6. fixture \in Fixtures /\ client \in BOOLEAN
    BY DEF Init
  <2> QED BY <1>4, <2>1, <2>2, <2>3, <2>4, <2>5, <2>6 DEF Types
<1>6. \A topic \in Topic : Ids(topic) = {}
  BY <1>1 DEF Ids
<1>7. \A a \in Listener : InboxOK(a)
  BY DEF Init, InboxOK
<1>8. \A a \in Agent : phase[a] = "down"
  BY DEF Init
<1>9. MarketOK /\ AlphaOK /\ BlendedOK /\ OrdersOK /\ FillsOK
  BY <1>6, <1>8 DEF MarketOK, AlphaOK, BlendedOK, OrdersOK, FillsOK, AtBroker,
     Topic, Agent, Listener
<1>10. UnansweredOK
  <2>1. Unanswered = {}
    BY <1>6 DEF Unanswered, Topic
  <2> QED BY <1>4, <1>8, <2>1, FS_EmptySet DEF UnansweredOK, AtBroker, Agent, Listener
<1> QED BY <1>5, <1>7, <1>9, <1>10 DEF TradingInv

(* ... and every step keeps it.                                            *)
LEMMA TradingStep ==
  ASSUME TradingInv, [Next]_vars
  PROVE  TradingInv'
<1>1. CASE Collector
  BY <1>1, CollectorQuiet, ReplayStep DEF Collector
<1>2. CASE \E a \in Listener : Subscribe(a)
  BY <1>2, SubscribeStep
<1>3. CASE \E a \in {"momentum", "blender"} : Breaks(a) \/ PublishSignal(a)
  BY <1>3, BreaksStep, PublishSignalStep DEF Listener
<1>4. CASE OnPrice \/ OnAlpha
  BY <1>4, OnPriceStep, OnAlphaStep
<1>5. CASE Executor
  <2>1. "executor" \in Listener
    BY DEF Listener
  <2> QED BY <1>5, <2>1, OnSignalStep, PublishOrderStep, SubmitLimitOrderStep,
     PublishFillStep, BreaksStep DEF Executor
<1>6. CASE \E a \in Agent : Fail(a)
  BY <1>6, FailStep
<1>7. CASE \E process \in {"core", "logic"} : Cancel(process)
  BY <1>7, CancelStep
<1>8. CASE UNCHANGED vars
  <2>1. Types' /\ order_ids <= order_ids'
    BY <1>8 DEF TradingInv, Types, vars, Symbol
  <2> QED BY <1>8, <2>1, QuietFrame DEF vars, Keeps, Moves, AtBroker
<1> QED BY <1>1, <1>2, <1>3, <1>4, <1>5, <1>6, <1>7, <1>8 DEF Next

(* The inductive invariant: what is in an inbox, in a hand or on a topic   *)
(* leads back, one link, to what caused it; orders are in the order of     *)
(* their signals, which no inbox still holds; and an order without a fill  *)
(* costs a failure.                                                        *)
THEOREM TradingInvariant == Spec => []TradingInv
BY TradingInit, TradingStep, PTL DEF Spec

(* The integers, the places and the identifiers have their types.          *)
THEOREM TradingTypes == Spec => []TypeOK
<1>1. TradingInv => TypeOK
  <2> SUFFICES ASSUME TradingInv PROVE TypeOK
    OBVIOUS
  <2>1. phase \in [Agent -> {"down", "delay", "replay", "listen", "publish",
                             "order", "broker", "fill", "done"}]
    BY DEF TradingInv, Types, Place
  <2>2. \A a \in Listener : \A n \in 1..Len(inbox[a]) : inbox[a][n] \in Ids(Hears[a])
    BY DEF TradingInv, InboxOK
  <2> QED BY <2>1, <2>2 DEF TradingInv, Types, TypeOK
<1> QED BY <1>1, TradingInvariant, PTL

(* Whatever is lost, repeated, refused or restarted, an order leads back   *)
(* to a price of its symbol through signals on its side, no signal is      *)
(* ordered twice, no order filled twice, no fill claims what the broker    *)
(* has not, and an order is without its fill only at a failure's cost.     *)
THEOREM TradingTraceable == Spec => []Traceable
<1>1. TradingInv => OrdersTraceable
  <2> SUFFICES ASSUME TradingInv, NEW id \in Ids("order")
               PROVE  LET order == sent.order[id]
                          signal == sent.blended[order.causal_link]
                      IN /\ order.causal_link \in Ids("blended") /\ Explained(signal)
                         /\ order.symbol = signal.symbol
                         /\ signal.direction = IF order.side = "BUY" THEN 1 ELSE -1
                         /\ \A other \in Ids("order") \ {id} :
                              /\ sent.order[other].causal_link # order.causal_link
                              /\ sent.order[other].order_id # order.order_id
    BY DEF OrdersTraceable
  <2>1. Follows(sent.order[id])
    BY DEF TradingInv, OrdersOK
  <2>2. Explained(sent.blended[sent.order[id].causal_link])
    <3>1. PICK signal : signal = sent.blended[sent.order[id].causal_link]
      OBVIOUS
    <3>2. Repeats(signal)
      BY <2>1, <3>1 DEF Follows, TradingInv, BlendedOK
    <3>3. Caused(sent.alpha[signal.causal_link])
      BY <3>2 DEF Repeats, TradingInv, AlphaOK
    <3> QED BY <3>1, <3>2, <3>3 DEF Repeats, Caused, Explained
  <2>3. ASSUME NEW other \in Ids("order") \ {id}
        PROVE  /\ sent.order[other].causal_link # sent.order[id].causal_link
               /\ sent.order[other].order_id # sent.order[id].order_id
    <3>1. /\ sent.order[id].causal_link \in Nat /\ sent.order[other].causal_link \in Nat
          /\ sent.order[id].order_id \in Nat /\ sent.order[other].order_id \in Nat
      BY DEF TradingInv, OrdersOK, Follows, OrderType
    <3>2. other \in 1..id - 1 \/ id \in 1..other - 1
      BY DEF Ids
    <3>3. After(sent.order[id], sent.order[other]) \/ After(sent.order[other], sent.order[id])
      BY <3>2 DEF TradingInv, OrdersOK
    <3> QED BY <3>1, <3>3 DEF After
  <2> QED BY <2>1, <2>2, <2>3 DEF Follows
<1>2. TradingInv => FillsTraceable
  BY DEF TradingInv, FillsOK, Fills, FillsTraceable
<1>3. TradingInv => Traceable
  BY <1>1, <1>2 DEF TradingInv, UnansweredOK, AtBroker, Traceable
<1> QED BY <1>3, TradingInvariant, PTL

-----------------------------------------------------------------------------
(* Recursion over a sequence: base, then step[n] of the value before.      *)
Recursion(f, V, base, step, N) ==
  /\ f \in [0..N -> V]
  /\ f[0] = base
  /\ \A n \in 1..N : f[n] = step[n][f[n - 1]]

(* Every set of naturals has a least element.                              *)
LEMMA LeastNatural ==
  ASSUME NEW T \in SUBSET Nat, T # {}
  PROVE  \E x \in T : \A y \in T : x <= y
<1> DEFINE R == OpToRel(<, Nat)
<1>1. IsWellFoundedOn(R, Nat)
  BY NatLessThanWellFounded
<1>2. \A x, y \in Nat : x < y => <<x, y>> \in R
  BY DEF OpToRel
<1> HIDE DEF R
<1>3. PICK x \in T : \A y \in T : ~ (<<y, x>> \in R)
  BY <1>1, WFMin
<1>4. ASSUME NEW y \in T PROVE x <= y
  <2>1. x \in Nat /\ y \in Nat /\ ~(y < x)
    BY <1>2, <1>3
  <2> QED
    BY <2>1
<1> QED
  BY <1>4

RecursionTo(V, base, step, N) == \E f : Recursion(f, V, base, step, N)

(* It can be carried one element further, ...                              *)
LEMMA RecursionExtends ==
  ASSUME NEW V, NEW base \in V, NEW step, NEW N \in Nat,
         step[N + 1] \in [V -> V], RecursionTo(V, base, step, N)
  PROVE  RecursionTo(V, base, step, N + 1)
<1>1. PICK f : Recursion(f, V, base, step, N)
  BY DEF RecursionTo
<1>2. f \in [0..N -> V] /\ f[0] = base /\ \A n \in 1..N : f[n] = step[n][f[n - 1]]
  BY <1>1 DEF Recursion
<1>3. PICK last \in V : last = step[N + 1][f[N]]
  BY <1>2
<1>4. PICK g : g = [n \in 0..N + 1 |-> IF n = N + 1 THEN last ELSE f[n]]
  OBVIOUS
<1>5. g[N + 1] = last /\ \A n \in 0..N : g[n] = f[n]
  BY <1>4
<1>6. g \in [0..N + 1 -> V]
  BY <1>2, <1>4
<1>7. ASSUME NEW n \in 1..N + 1 PROVE g[n] = step[n][g[n - 1]]
  <2>1. CASE n = N + 1
    <3>1. g[n - 1] = f[N]
      BY <1>5, <2>1
    <3> QED BY <1>3, <1>5, <2>1, <3>1
  <2>2. CASE n # N + 1
    <3>1. n \in 1..N /\ n \in 0..N /\ n - 1 \in 0..N
      BY <2>2
    <3> QED BY <1>2, <1>5, <3>1
  <2> QED BY <2>1, <2>2
<1>8. g[0] = base
  BY <1>2, <1>5
<1>9. Recursion(g, V, base, step, N + 1)
  BY <1>6, <1>7, <1>8 DEF Recursion
<1> QED BY <1>9 DEF RecursionTo

(* ... so to any.                                                          *)
LEMMA RecursionExists ==
  ASSUME NEW V, NEW base \in V, NEW N \in Nat, NEW step,
         \A n \in 1..N : step[n] \in [V -> V]
  PROVE  RecursionTo(V, base, step, N)
<1>1. RecursionTo(V, base, step, 0)
  <2>1. PICK f : f = [n \in 0..0 |-> base]
    OBVIOUS
  <2>2. f \in [0..0 -> V] /\ f[0] = base /\ \A n \in 1..0 : f[n] = step[n][f[n - 1]]
    BY <2>1
  <2> QED BY <2>2 DEF RecursionTo, Recursion
<1> DEFINE Missing == {n \in 0..N : ~RecursionTo(V, base, step, n)}
<1>2. Missing = {}
  <2>1. SUFFICES ASSUME Missing # {} PROVE FALSE
    OBVIOUS
  <2>2. PICK n \in Missing : \A m \in Missing : n <= m
    <3>1. Missing \in SUBSET Nat
      OBVIOUS
    <3> HIDE DEF Missing
    <3> QED BY <2>1, <3>1, LeastNatural
  <2>3. n \in 0..N /\ n # 0 /\ ~RecursionTo(V, base, step, n)
    BY <1>1, <2>2
  <2>4. n - 1 \in 0..N /\ n - 1 \in Nat /\ n = (n - 1) + 1 /\ n \in 1..N
    BY <2>3
  <2>5. RecursionTo(V, base, step, n - 1)
    BY <2>2, <2>3, <2>4
  <2>6. RecursionTo(V, base, step, (n - 1) + 1)
    BY <2>4, <2>5, RecursionExtends
  <2> QED BY <2>3, <2>4, <2>6
<1> QED BY <1>2

Stepwise(g, V, step, N) ==
  \A n \in 1..N : g[n - 1] \in V => g[n] = step[n][g[n - 1]]

(* And what follows the same steps is the same.                            *)
LEMMA RecursionAgrees ==
  ASSUME NEW V, NEW base, NEW N \in Nat, NEW step,
         NEW f, Recursion(f, V, base, step, N),
         NEW g, g[0] = base, Stepwise(g, V, step, N)
  PROVE  \A n \in 0..N : g[n] = f[n]
<1>1. f \in [0..N -> V] /\ f[0] = base /\ \A n \in 1..N : f[n] = step[n][f[n - 1]]
  BY DEF Recursion
<1> DEFINE Wrong == {n \in 0..N : g[n] # f[n]}
<1>2. SUFFICES ASSUME Wrong # {} PROVE FALSE
  OBVIOUS
<1>3. PICK n \in Wrong : \A m \in Wrong : n <= m
  <2>1. Wrong \in SUBSET Nat
    OBVIOUS
  <2> HIDE DEF Wrong
  <2> QED BY <1>2, <2>1, LeastNatural
<1>4. n \in 0..N /\ n # 0 /\ g[n] # f[n]
  BY <1>1, <1>3
<1>5. n \in 1..N /\ n - 1 \in 0..N /\ ~(n <= n - 1)
  BY <1>4
<1>6. g[n - 1] = f[n - 1]
  BY <1>3, <1>5
<1>7. g[n - 1] \in V
  BY <1>1, <1>5, <1>6
<1> QED BY <1>1, <1>4, <1>5, <1>6, <1>7 DEF Stepwise

-----------------------------------------------------------------------------
(* Sums of prices.                                                         *)
SumSteps(prices) == [n \in 1..Len(prices) |-> [v \in Int |-> v + prices[n]]]

SumNext(sum, prices, n) == IF n = 0 THEN 0 ELSE sum[n - 1] + prices[n]

(* Sum is the recursion its definition says.                               *)
LEMMA SumRecursion ==
  ASSUME NEW prices \in Seq(Nat)
  PROVE  Recursion(Sum(prices), Int, 0, SumSteps(prices), Len(prices))
<1> DEFINE N == Len(prices)
           steps == SumSteps(prices)
<1>0. N \in Nat /\ \A n \in 1..N : prices[n] \in Nat
  OBVIOUS
<1>1. \A n \in 1..N : steps[n] \in [Int -> Int] /\ \A v \in Int : steps[n][v] = v + prices[n]
  BY <1>0 DEF SumSteps
<1>2. Sum(prices) = CHOOSE sum : sum = [n \in 0..N |-> SumNext(sum, prices, n)]
  BY Zenon DEF Sum, SumNext
<1> HIDE DEF N, steps
<1>3. PICK f : Recursion(f, Int, 0, steps, N)
  <2>1. 0 \in Int /\ \A n \in 1..N : steps[n] \in [Int -> Int]
    BY <1>1
  <2>2. RecursionTo(Int, 0, steps, N)
    BY <1>0, <2>1, RecursionExists
  <2> QED BY <2>2 DEF RecursionTo
<1>4. f \in [0..N -> Int] /\ f[0] = 0 /\ \A n \in 1..N : f[n] = steps[n][f[n - 1]]
  BY <1>3 DEF Recursion
<1>5. \A n \in 0..N : f[n] = SumNext(f, prices, n)
  <2> SUFFICES ASSUME NEW n \in 0..N PROVE f[n] = SumNext(f, prices, n)
    OBVIOUS
  <2>1. CASE n = 0
    BY <1>4, <2>1 DEF SumNext
  <2>2. CASE n # 0
    <3>1. n \in 1..N /\ f[n - 1] \in Int
      BY <1>0, <1>4, <2>2
    <3>2. f[n] = f[n - 1] + prices[n]
      BY <1>1, <1>4, <3>1
    <3> QED BY <2>2, <3>2 DEF SumNext
  <2> QED BY <2>1, <2>2
<1>6. f = [n \in 0..N |-> SumNext(f, prices, n)]
  BY <1>4, <1>5
<1>7. PICK g : g = Sum(prices)
  OBVIOUS
<1>8. g = [n \in 0..N |-> SumNext(g, prices, n)]
  BY <1>2, <1>6, <1>7
<1>9. \A n \in 0..N : g[n] = SumNext(g, prices, n)
  BY <1>8
<1>10. g[0] = 0
  BY <1>0, <1>9 DEF SumNext
<1>11. ASSUME NEW n \in 1..N, g[n - 1] \in Int PROVE g[n] = steps[n][g[n - 1]]
  <2>1. g[n] = g[n - 1] + prices[n]
    BY <1>0, <1>9 DEF SumNext
  <2> QED BY <1>1, <1>11, <2>1
<1>12. \A n \in 0..N : g[n] = f[n]
  <2>1. Stepwise(g, Int, steps, N)
    BY <1>11 DEF Stepwise
  <2> QED BY <1>0, <1>3, <1>10, <2>1, RecursionAgrees
<1>13. g = f
  BY <1>4, <1>8, <1>12
<1> QED BY <1>3, <1>7, <1>13 DEF N, steps

(* The sums, written out.                                                  *)
LEMMA SumIs ==
  ASSUME NEW prices \in Seq(Nat)
  PROVE  /\ Sum(prices) \in [0..Len(prices) -> Int]
         /\ Sum(prices)[0] = 0
         /\ \A n \in 1..Len(prices) : Sum(prices)[n] = Sum(prices)[n - 1] + prices[n]
<1>1. /\ Sum(prices) \in [0..Len(prices) -> Int] /\ Sum(prices)[0] = 0
      /\ \A n \in 1..Len(prices) : Sum(prices)[n] = SumSteps(prices)[n][Sum(prices)[n - 1]]
  BY SumRecursion DEF Recursion
<1>2. ASSUME NEW n \in 1..Len(prices)
      PROVE  Sum(prices)[n] = Sum(prices)[n - 1] + prices[n]
  <2>1. Len(prices) \in Nat
    OBVIOUS
  <2>2. n - 1 \in 0..Len(prices)
    BY <2>1
  <2>3. Sum(prices)[n - 1] \in Int
    BY <1>1, <2>2
  <2> QED BY <1>1, <2>3 DEF SumSteps
<1> QED BY <1>1, <1>2

(* A price at the end adds to the total.                                   *)
LEMMA TotalAppend ==
  ASSUME NEW prices \in Seq(Nat), NEW price \in Nat
  PROVE  Total(Append(prices, price)) = Total(prices) + price /\ Total(prices) \in Int
<1>0. PICK N \in Nat : N = Len(prices)
  OBVIOUS
<1>a. PICK more : more = Append(prices, price)
  OBVIOUS
<1>1. more = Append(prices, price) /\ more \in Seq(Nat)
  BY <1>a
<1>2. /\ N \in Nat /\ Len(more) = N + 1 /\ more[N + 1] = price
      /\ \A n \in 1..N : more[n] = prices[n]
  BY <1>0, <1>1
<1>3. PICK f : f = Sum(prices)
  OBVIOUS
<1>4. PICK g : g = Sum(more)
  OBVIOUS
<1>5. f \in [0..N -> Int] /\ f[0] = 0 /\ \A n \in 1..N : f[n] = f[n - 1] + prices[n]
  BY <1>0, <1>3, SumIs
<1>6. g \in [0..N + 1 -> Int] /\ g[0] = 0 /\ \A n \in 1..N + 1 : g[n] = g[n - 1] + more[n]
  BY <1>1, <1>2, <1>4, SumIs
<1>7. \A n \in 0..N : g[n] = f[n]
  <2>1. Recursion(f, Int, 0, SumSteps(prices), N)
    BY <1>0, <1>3, SumRecursion
  <2>2. ASSUME NEW n \in 1..N, g[n - 1] \in Int
        PROVE  g[n] = SumSteps(prices)[n][g[n - 1]]
    <3>1. n \in 1..N + 1 /\ more[n] = prices[n] /\ n \in 1..Len(prices)
      BY <1>0, <1>2
    <3>2. g[n] = g[n - 1] + prices[n]
      BY <1>6, <3>1
    <3> QED BY <2>2, <3>1, <3>2 DEF SumSteps
  <2>3. Stepwise(g, Int, SumSteps(prices), N)
    BY <2>2 DEF Stepwise
  <2>4. g[0] = 0
    BY <1>6
  <2> QED BY <1>0, <2>1, <2>3, <2>4, RecursionAgrees
<1>8. g[N + 1] = f[N] + price /\ f[N] \in Int
  <2>1. N + 1 \in 1..N + 1 /\ (N + 1) - 1 = N /\ N \in 0..N
    OBVIOUS
  <2> QED BY <1>2, <1>5, <1>6, <1>7, <2>1
<1> QED BY <1>0, <1>1, <1>2, <1>3, <1>4, <1>8 DEF Total

(* One that leaves at the front takes itself off.                          *)
LEMMA TotalTail ==
  ASSUME NEW prices \in Seq(Nat), prices # <<>>
  PROVE  Total(Tail(prices)) = Total(prices) - Head(prices)
<1>0. PICK N \in Nat \ {0} : N = Len(prices)
  OBVIOUS
<1>a. PICK rest : rest = Tail(prices)
  OBVIOUS
<1>1. rest = Tail(prices) /\ rest \in Seq(Nat)
  BY <1>a
<1>2. /\ Len(rest) = N - 1 /\ Head(prices) = prices[1]
      /\ \A n \in 1..N - 1 : rest[n] = prices[n + 1]
      /\ \A n \in 1..N : prices[n] \in Nat
      /\ prices[1] \in Nat
  BY <1>0, <1>1
<1>3. PICK f : f = Sum(prices)
  OBVIOUS
<1>4. PICK r : r = Sum(rest)
  OBVIOUS
<1>5. f \in [0..N -> Int] /\ f[0] = 0 /\ \A n \in 1..N : f[n] = f[n - 1] + prices[n]
  BY <1>0, <1>3, SumIs
<1>6. PICK g : g = [n \in 0..N - 1 |-> f[n + 1] - prices[1]]
  OBVIOUS
<1>7. g[0] = 0
  BY <1>2, <1>5, <1>6
<1>8. ASSUME NEW n \in 1..N - 1, g[n - 1] \in Int
      PROVE  g[n] = SumSteps(rest)[n][g[n - 1]]
  <2>1. g[n] = f[n + 1] - prices[1] /\ g[n - 1] = f[n] - prices[1]
    BY <1>2, <1>6
  <2>2. f[n + 1] = f[n] + prices[n + 1] /\ f[n] \in Int /\ prices[n + 1] \in Nat
    <3>1. n + 1 \in 1..N /\ (n + 1) - 1 = n /\ n \in 0..N
      OBVIOUS
    <3> QED BY <1>2, <1>5, <3>1
  <2>3. g[n] = g[n - 1] + rest[n]
    BY <1>2, <2>1, <2>2
  <2> QED BY <1>2, <1>8, <2>3 DEF SumSteps
<1>9. \A n \in 0..N - 1 : g[n] = r[n]
  <2>1. Recursion(r, Int, 0, SumSteps(rest), N - 1)
    BY <1>1, <1>2, <1>4, SumRecursion
  <2>2. N - 1 \in Nat
    OBVIOUS
  <2>3. Stepwise(g, Int, SumSteps(rest), N - 1)
    BY <1>8 DEF Stepwise
  <2> QED BY <1>7, <2>1, <2>2, <2>3, RecursionAgrees
<1>10. r[N - 1] = f[N] - prices[1]
  BY <1>2, <1>6, <1>9
<1> QED BY <1>0, <1>1, <1>2, <1>3, <1>4, <1>10 DEF Total

(* Of no prices the total is 0.                                            *)
LEMMA TotalEmpty == Total(<<>>) = 0
<1>1. <<>> \in Seq(Nat) /\ Len(<<>>) = 0
  OBVIOUS
<1>2. Sum(<<>>)[0] = 0
  BY <1>1, SumIs
<1> QED BY <1>1, <1>2 DEF Total

-----------------------------------------------------------------------------
(* The prices of a symbol.                                                 *)
Bar == [id : Nat, symbol : STRING, price : Nat]

PriceSteps(taken, symbol) ==
  [n \in 1..Len(taken) |-> [v \in Seq(Nat) |->
     IF taken[n].symbol = symbol THEN Append(v, taken[n].price) ELSE v]]

PriceNext(prices, taken, symbol, n) ==
  IF n = 0 THEN <<>>
  ELSE IF taken[n].symbol = symbol THEN Append(prices[n - 1], taken[n].price)
  ELSE prices[n - 1]

(* Prices is the recursion its definition says.                            *)
LEMMA PricesRecursion ==
  ASSUME NEW taken \in Seq(Bar), NEW symbol
  PROVE  Recursion(Prices(taken, symbol), Seq(Nat), <<>>, PriceSteps(taken, symbol), Len(taken))
<1> DEFINE N == Len(taken)
           steps == PriceSteps(taken, symbol)
<1>0. N \in Nat /\ \A n \in 1..N : taken[n].price \in Nat
  <2>1. \A n \in 1..N : taken[n] \in Bar
    OBVIOUS
  <2> QED BY <2>1 DEF Bar
<1>1. ASSUME NEW n \in 1..N
      PROVE  /\ steps[n] \in [Seq(Nat) -> Seq(Nat)]
             /\ \A v \in Seq(Nat) : steps[n][v] =
                  IF taken[n].symbol = symbol THEN Append(v, taken[n].price) ELSE v
  <2>1. \A v \in Seq(Nat) : Append(v, taken[n].price) \in Seq(Nat)
    BY <1>0
  <2> QED BY <2>1 DEF PriceSteps
<1>2. Prices(taken, symbol) =
        CHOOSE prices : prices = [n \in 0..N |-> PriceNext(prices, taken, symbol, n)]
  BY Zenon DEF Prices, PriceNext
<1> HIDE DEF N, steps
<1>3. PICK f : Recursion(f, Seq(Nat), <<>>, steps, N)
  <2>1. <<>> \in Seq(Nat) /\ \A n \in 1..N : steps[n] \in [Seq(Nat) -> Seq(Nat)]
    BY <1>1
  <2>2. RecursionTo(Seq(Nat), <<>>, steps, N)
    BY <1>0, <2>1, RecursionExists
  <2> QED BY <2>2 DEF RecursionTo
<1>4. f \in [0..N -> Seq(Nat)] /\ f[0] = <<>> /\ \A n \in 1..N : f[n] = steps[n][f[n - 1]]
  BY <1>3 DEF Recursion
<1>5. \A n \in 0..N : f[n] = PriceNext(f, taken, symbol, n)
  <2> SUFFICES ASSUME NEW n \in 0..N PROVE f[n] = PriceNext(f, taken, symbol, n)
    OBVIOUS
  <2>1. CASE n = 0
    BY <1>4, <2>1 DEF PriceNext
  <2>2. CASE n # 0
    <3>1. n \in 1..N /\ f[n - 1] \in Seq(Nat)
      BY <1>0, <1>4, <2>2
    <3>2. f[n] = IF taken[n].symbol = symbol THEN Append(f[n - 1], taken[n].price)
                                              ELSE f[n - 1]
      BY <1>1, <1>4, <3>1
    <3> QED BY <2>2, <3>2 DEF PriceNext
  <2> QED BY <2>1, <2>2
<1>6. f = [n \in 0..N |-> PriceNext(f, taken, symbol, n)]
  BY <1>4, <1>5
<1>7. PICK g : g = Prices(taken, symbol)
  OBVIOUS
<1>8. g = [n \in 0..N |-> PriceNext(g, taken, symbol, n)]
  BY <1>2, <1>6, <1>7
<1>9. \A n \in 0..N : g[n] = PriceNext(g, taken, symbol, n)
  BY <1>8
<1>10. g[0] = <<>>
  BY <1>0, <1>9 DEF PriceNext
<1>11. ASSUME NEW n \in 1..N, g[n - 1] \in Seq(Nat) PROVE g[n] = steps[n][g[n - 1]]
  <2>1. g[n] = IF taken[n].symbol = symbol THEN Append(g[n - 1], taken[n].price)
                                            ELSE g[n - 1]
    BY <1>0, <1>9 DEF PriceNext
  <2> QED BY <1>1, <1>11, <2>1
<1>12. \A n \in 0..N : g[n] = f[n]
  <2>1. Stepwise(g, Seq(Nat), steps, N)
    BY <1>11 DEF Stepwise
  <2> QED BY <1>0, <1>3, <1>10, <2>1, RecursionAgrees
<1>13. g = f
  BY <1>4, <1>8, <1>12
<1> QED BY <1>3, <1>7, <1>13 DEF N, steps

(* One price more is the last of its symbol, and changes nothing before.   *)
LEMMA PricesAppend ==
  ASSUME NEW taken \in Seq(Bar), NEW bar \in Bar, NEW symbol
  PROVE  LET before == Prices(taken, symbol)
             after == Prices(Append(taken, bar), symbol)
             N == Len(taken)
         IN /\ \A n \in 0..N : after[n] = before[n] /\ before[n] \in Seq(Nat)
            /\ after[N + 1] = IF bar.symbol = symbol THEN Append(before[N], bar.price)
                                                     ELSE before[N]
<1>a. PICK more : more = Append(taken, bar)
  OBVIOUS
<1>1. more = Append(taken, bar) /\ more \in Seq(Bar)
  BY <1>a
<1>2. PICK N \in Nat : N = Len(taken)
  OBVIOUS
<1>3. /\ Len(more) = N + 1 /\ more[N + 1] = bar
      /\ \A n \in 1..N : more[n] = taken[n]
  BY <1>1, <1>2
<1>4. PICK before : before = Prices(taken, symbol)
  OBVIOUS
<1>5. PICK after : after = Prices(more, symbol)
  OBVIOUS
<1>6. Recursion(before, Seq(Nat), <<>>, PriceSteps(taken, symbol), N)
  BY <1>2, <1>4, PricesRecursion
<1>7. /\ after \in [0..N + 1 -> Seq(Nat)] /\ after[0] = <<>>
      /\ \A n \in 1..N + 1 : after[n] = PriceSteps(more, symbol)[n][after[n - 1]]
  <2>1. Recursion(after, Seq(Nat), <<>>, PriceSteps(more, symbol), N + 1)
    BY <1>1, <1>3, <1>5, PricesRecursion
  <2> QED BY <2>1 DEF Recursion
<1>8. \A n \in 1..N + 1 : after[n] =
        IF more[n].symbol = symbol THEN Append(after[n - 1], more[n].price) ELSE after[n - 1]
  <2> SUFFICES ASSUME NEW n \in 1..N + 1
               PROVE  after[n] = IF more[n].symbol = symbol
                                   THEN Append(after[n - 1], more[n].price)
                                   ELSE after[n - 1]
    OBVIOUS
  <2>1. after[n - 1] \in Seq(Nat) /\ n \in 1..Len(more)
    BY <1>3, <1>7
  <2> QED BY <1>7, <2>1 DEF PriceSteps
<1>9. \A n \in 0..N : after[n] = before[n]
  <2>1. ASSUME NEW n \in 1..N, after[n - 1] \in Seq(Nat)
        PROVE  after[n] = PriceSteps(taken, symbol)[n][after[n - 1]]
    <3>1. n \in 1..N + 1 /\ n \in 1..Len(taken) /\ more[n] = taken[n]
      BY <1>2, <1>3
    <3>2. PriceSteps(taken, symbol)[n][after[n - 1]] =
            IF taken[n].symbol = symbol THEN Append(after[n - 1], taken[n].price)
                                         ELSE after[n - 1]
      BY <2>1, <3>1 DEF PriceSteps
    <3> QED BY <1>8, <3>1, <3>2
  <2>2. Stepwise(after, Seq(Nat), PriceSteps(taken, symbol), N)
    BY <2>1 DEF Stepwise
  <2>3. after[0] = <<>>
    BY <1>7
  <2>4. PICK steps : steps = PriceSteps(taken, symbol)
    OBVIOUS
  <2>v. PICK V : V = Seq(Nat)
    OBVIOUS
  <2>b. PICK base : base = <<>>
    OBVIOUS
  <2>5. Recursion(before, V, base, steps, N) /\ Stepwise(after, V, steps, N) /\ after[0] = base
    BY <1>6, <2>2, <2>3, <2>4, <2>v, <2>b
  <2>6. N \in Nat
    BY <1>2
  <2> QED BY <2>5, <2>6, RecursionAgrees
<1>10. \A n \in 0..N : before[n] \in Seq(Nat)
  BY <1>6 DEF Recursion
<1>11. after[N + 1] = IF bar.symbol = symbol THEN Append(before[N], bar.price) ELSE before[N]
  <2>1. N + 1 \in 1..N + 1 /\ (N + 1) - 1 = N /\ N \in 0..N
    OBVIOUS
  <2> QED BY <1>3, <1>8, <1>9, <2>1
<1> QED BY <1>1, <1>2, <1>4, <1>5, <1>9, <1>10, <1>11

-----------------------------------------------------------------------------
(* The crossings.                                                          *)
Crossed(taken, n) ==
  SideAfter(taken, taken[n].symbol, n) # SideAfter(taken, taken[n].symbol, n - 1)

Crossing(taken, n) ==
  Signal(taken[n].symbol, SideAfter(taken, taken[n].symbol, n), taken[n].id)

CrossingSteps(taken) ==
  [n \in 1..Len(taken) |-> [v \in Seq(SignalType) |->
     IF Crossed(taken, n) THEN Append(v, Crossing(taken, n)) ELSE v]]

CrossingNext(crossings, taken, n) ==
  IF n = 0 THEN <<>>
  ELSE IF Crossed(taken, n) THEN Append(crossings[n - 1], Crossing(taken, n))
  ELSE crossings[n - 1]

(* A side is a direction.                                                  *)
LEMMA ClassificationType ==
  ASSUME NEW prices PROVE Classification(prices) \in Direction
BY DEF Classification, Direction

(* A crossing is a signal.                                                 *)
LEMMA CrossingType ==
  ASSUME NEW taken \in Seq(Bar), NEW n \in 1..Len(taken)
  PROVE  Crossing(taken, n) \in SignalType
<1>1. taken[n] \in Bar
  OBVIOUS
<1>2. PICK side \in Direction : side = SideAfter(taken, taken[n].symbol, n)
  BY ClassificationType DEF SideAfter
<1> QED BY <1>1, <1>2 DEF Crossing, Signal, SignalType, Bar

(* Crossings, as its definition says it.                                   *)
LEMMA CrossingsUnfold ==
  ASSUME NEW taken
  PROVE  Crossings(taken) =
           CHOOSE crossings : crossings = [n \in 0..Len(taken) |-> CrossingNext(crossings, taken, n)]
<1>1. ASSUME NEW crossings, NEW n
      PROVE  CrossingNext(crossings, taken, n) =
               IF n = 0 THEN <<>>
               ELSE LET symbol == taken[n].symbol
                        now == SideAfter(taken, symbol, n)
                    IN IF now = SideAfter(taken, symbol, n - 1) THEN crossings[n - 1]
                       ELSE Append(crossings[n - 1], Signal(symbol, now, taken[n].id))
  BY Zenon DEF CrossingNext, Crossed, Crossing
<1>2. ASSUME NEW crossings
      PROVE  [n \in 0..Len(taken) |-> CrossingNext(crossings, taken, n)] =
             [n \in 0..Len(taken) |->
               IF n = 0 THEN <<>>
               ELSE LET symbol == taken[n].symbol
                        now == SideAfter(taken, symbol, n)
                    IN IF now = SideAfter(taken, symbol, n - 1) THEN crossings[n - 1]
                       ELSE Append(crossings[n - 1], Signal(symbol, now, taken[n].id))]
  BY <1>1
<1> QED BY <1>2, Zenon DEF Crossings

(* Crossings is that recursion.                                            *)
LEMMA CrossingsRecursion ==
  ASSUME NEW taken \in Seq(Bar)
  PROVE  Recursion(Crossings(taken), Seq(SignalType), <<>>, CrossingSteps(taken), Len(taken))
<1> DEFINE N == Len(taken)
           steps == CrossingSteps(taken)
<1>0. N \in Nat /\ \A n \in 1..N : Crossing(taken, n) \in SignalType
  BY CrossingType
<1>1. ASSUME NEW n \in 1..N
      PROVE  /\ steps[n] \in [Seq(SignalType) -> Seq(SignalType)]
             /\ \A v \in Seq(SignalType) : steps[n][v] =
                  IF Crossed(taken, n) THEN Append(v, Crossing(taken, n)) ELSE v
  <2>1. \A v \in Seq(SignalType) : Append(v, Crossing(taken, n)) \in Seq(SignalType)
    BY <1>0
  <2> QED BY <2>1 DEF CrossingSteps
<1>2. Crossings(taken) =
        CHOOSE crossings : crossings = [n \in 0..N |-> CrossingNext(crossings, taken, n)]
  BY CrossingsUnfold, Zenon
<1> HIDE DEF N, steps
<1>3. PICK f : Recursion(f, Seq(SignalType), <<>>, steps, N)
  <2>1. <<>> \in Seq(SignalType) /\ \A n \in 1..N : steps[n] \in [Seq(SignalType) -> Seq(SignalType)]
    BY <1>1
  <2>2. RecursionTo(Seq(SignalType), <<>>, steps, N)
    BY <1>0, <2>1, RecursionExists
  <2> QED BY <2>2 DEF RecursionTo
<1>4. f \in [0..N -> Seq(SignalType)] /\ f[0] = <<>> /\ \A n \in 1..N : f[n] = steps[n][f[n - 1]]
  BY <1>3 DEF Recursion
<1>5. \A n \in 0..N : f[n] = CrossingNext(f, taken, n)
  <2> SUFFICES ASSUME NEW n \in 0..N PROVE f[n] = CrossingNext(f, taken, n)
    OBVIOUS
  <2>1. CASE n = 0
    BY <1>4, <2>1 DEF CrossingNext
  <2>2. CASE n # 0
    <3>1. n \in 1..N /\ f[n - 1] \in Seq(SignalType)
      BY <1>0, <1>4, <2>2
    <3>2. f[n] = IF Crossed(taken, n) THEN Append(f[n - 1], Crossing(taken, n))
                                      ELSE f[n - 1]
      BY <1>1, <1>4, <3>1
    <3> QED BY <2>2, <3>2 DEF CrossingNext
  <2> QED BY <2>1, <2>2
<1>6. f = [n \in 0..N |-> CrossingNext(f, taken, n)]
  BY <1>4, <1>5
<1>7. PICK g : g = Crossings(taken)
  OBVIOUS
<1>8. g = [n \in 0..N |-> CrossingNext(g, taken, n)]
  BY <1>2, <1>6, <1>7
<1>9. \A n \in 0..N : g[n] = CrossingNext(g, taken, n)
  BY <1>8
<1>10. g[0] = <<>>
  BY <1>0, <1>9 DEF CrossingNext
<1>11. ASSUME NEW n \in 1..N, g[n - 1] \in Seq(SignalType) PROVE g[n] = steps[n][g[n - 1]]
  <2>1. g[n] = IF Crossed(taken, n) THEN Append(g[n - 1], Crossing(taken, n)) ELSE g[n - 1]
    BY <1>0, <1>9 DEF CrossingNext
  <2> QED BY <1>1, <1>11, <2>1
<1>12. \A n \in 0..N : g[n] = f[n]
  <2>1. Stepwise(g, Seq(SignalType), steps, N)
    BY <1>11 DEF Stepwise
  <2> QED BY <1>0, <1>3, <1>10, <2>1, RecursionAgrees
<1>13. g = f
  BY <1>4, <1>8, <1>12
<1> QED BY <1>3, <1>7, <1>13 DEF N, steps

(* One price more adds its crossing, if it makes one.                      *)
LEMMA CrossingsAppend ==
  ASSUME NEW taken \in Seq(Bar), NEW bar \in Bar
  PROVE  LET before == Prices(taken, bar.symbol)[Len(taken)]
             now == Classification(Append(before, bar.price))
             crossings == Crossings(taken)[Len(taken)]
         IN /\ crossings \in Seq(SignalType)
            /\ Crossings(Append(taken, bar))[Len(taken) + 1] =
                 IF now = Classification(before) THEN crossings
                 ELSE Append(crossings, Signal(bar.symbol, now, bar.id))
<1>a. PICK more : more = Append(taken, bar)
  OBVIOUS
<1>1. more = Append(taken, bar) /\ more \in Seq(Bar)
  BY <1>a
<1>2. PICK N \in Nat : N = Len(taken)
  OBVIOUS
<1>3. /\ Len(more) = N + 1 /\ more[N + 1] = bar
      /\ \A n \in 1..N : more[n] = taken[n] /\ taken[n] \in Bar
  BY <1>1, <1>2
<1>4. PICK f : f = Crossings(taken)
  OBVIOUS
<1>5. PICK g : g = Crossings(more)
  OBVIOUS
<1>6. /\ Recursion(f, Seq(SignalType), <<>>, CrossingSteps(taken), N)
      /\ \A n \in 0..N : f[n] \in Seq(SignalType)
  <2>1. Recursion(f, Seq(SignalType), <<>>, CrossingSteps(taken), N)
    BY <1>2, <1>4, CrossingsRecursion
  <2> QED BY <2>1 DEF Recursion
<1>7. /\ g \in [0..N + 1 -> Seq(SignalType)] /\ g[0] = <<>>
      /\ \A n \in 1..N + 1 : g[n] = CrossingSteps(more)[n][g[n - 1]]
  <2>1. Recursion(g, Seq(SignalType), <<>>, CrossingSteps(more), N + 1)
    BY <1>1, <1>3, <1>5, CrossingsRecursion
  <2> QED BY <2>1 DEF Recursion
<1>8. \A n \in 1..N + 1 : g[n] =
        IF Crossed(more, n) THEN Append(g[n - 1], Crossing(more, n)) ELSE g[n - 1]
  <2> SUFFICES ASSUME NEW n \in 1..N + 1
               PROVE  g[n] = IF Crossed(more, n) THEN Append(g[n - 1], Crossing(more, n))
                                                 ELSE g[n - 1]
    OBVIOUS
  <2>1. g[n - 1] \in Seq(SignalType) /\ n \in 1..Len(more)
    BY <1>3, <1>7
  <2> QED BY <1>7, <2>1 DEF CrossingSteps
<1>9. ASSUME NEW symbol, NEW n \in 0..N
      PROVE  SideAfter(more, symbol, n) = SideAfter(taken, symbol, n)
  <2>1. Prices(more, symbol)[n] = Prices(taken, symbol)[n]
    BY <1>1, <1>2, PricesAppend
  <2> QED BY <2>1 DEF SideAfter
<1>10. ASSUME NEW n \in 1..N
       PROVE  Crossed(more, n) = Crossed(taken, n) /\ Crossing(more, n) = Crossing(taken, n)
  <2>1. more[n] = taken[n] /\ n \in 0..N /\ n - 1 \in 0..N
    BY <1>3
  <2>2. /\ SideAfter(more, taken[n].symbol, n) = SideAfter(taken, taken[n].symbol, n)
        /\ SideAfter(more, taken[n].symbol, n - 1) = SideAfter(taken, taken[n].symbol, n - 1)
    BY <1>9, <2>1
  <2> QED BY <2>1, <2>2, Zenon DEF Crossed, Crossing
<1>11. \A n \in 0..N : g[n] = f[n]
  <2>1. ASSUME NEW n \in 1..N, g[n - 1] \in Seq(SignalType)
        PROVE  g[n] = CrossingSteps(taken)[n][g[n - 1]]
    <3>1. n \in 1..N + 1 /\ n \in 1..Len(taken)
      BY <1>2
    <3>2. CrossingSteps(taken)[n][g[n - 1]] =
            IF Crossed(taken, n) THEN Append(g[n - 1], Crossing(taken, n)) ELSE g[n - 1]
      BY <2>1, <3>1 DEF CrossingSteps
    <3> QED BY <1>8, <1>10, <3>1, <3>2
  <2>2. PICK V : V = Seq(SignalType)
    OBVIOUS
  <2>3. PICK base : base = <<>>
    OBVIOUS
  <2>4. PICK steps : steps = CrossingSteps(taken)
    OBVIOUS
  <2>5. Stepwise(g, V, steps, N)
    BY <2>1, <2>2, <2>4 DEF Stepwise
  <2>6. Recursion(f, V, base, steps, N) /\ g[0] = base
    BY <1>6, <1>7, <2>2, <2>3, <2>4
  <2>7. N \in Nat
    BY <1>2
  <2> QED BY <2>5, <2>6, <2>7, RecursionAgrees
<1>12. PICK before : before = Prices(taken, bar.symbol)[N]
  OBVIOUS
<1>13. /\ SideAfter(more, bar.symbol, N) = Classification(before)
       /\ SideAfter(more, bar.symbol, N + 1) = Classification(Append(before, bar.price))
  <2>1. /\ Prices(more, bar.symbol)[N] = before
        /\ Prices(more, bar.symbol)[N + 1] = Append(before, bar.price)
    <3>1. PICK symbol : symbol = bar.symbol
      OBVIOUS
    <3>2. /\ \A n \in 0..N : Prices(more, symbol)[n] = Prices(taken, symbol)[n]
          /\ Prices(more, symbol)[N + 1] =
               IF bar.symbol = symbol THEN Append(Prices(taken, symbol)[N], bar.price)
                                      ELSE Prices(taken, symbol)[N]
      BY <1>1, <1>2, PricesAppend
    <3>3. N \in 0..N
      BY <1>2
    <3> QED BY <1>12, <3>1, <3>2, <3>3
  <2> QED BY <2>1 DEF SideAfter
<1>14. N + 1 \in 1..N + 1 /\ (N + 1) - 1 = N /\ N \in 0..N
  BY <1>2
<1>15. g[N + 1] = IF Crossed(more, N + 1) THEN Append(f[N], Crossing(more, N + 1)) ELSE f[N]
  BY <1>8, <1>11, <1>14
<1>16. /\ Crossed(more, N + 1) <=> Classification(Append(before, bar.price)) # Classification(before)
       /\ Crossing(more, N + 1) =
            Signal(bar.symbol, Classification(Append(before, bar.price)), bar.id)
  BY <1>3, <1>13, <1>14 DEF Crossed, Crossing
<1>17. /\ f[N] \in Seq(SignalType)
       /\ g[N + 1] = IF Classification(Append(before, bar.price)) = Classification(before)
                       THEN f[N]
                       ELSE Append(f[N], Signal(bar.symbol,
                              Classification(Append(before, bar.price)), bar.id))
  BY <1>6, <1>14, <1>15, <1>16
<1> QED BY <1>1, <1>2, <1>4, <1>5, <1>12, <1>17

-----------------------------------------------------------------------------
(* A window of the momentum agent: the latest prices, and their sum.       *)
Windowed(buf, sum, prices, size) ==
  /\ buf \in Seq(Nat)
  /\ Len(buf) = IF Len(prices) < size THEN Len(prices) ELSE size
  /\ \A i \in 1..Len(buf) : buf[i] = prices[Len(prices) - Len(buf) + i]
  /\ sum = Total(buf)

(* What Append does to a sequence of prices.                               *)
LEMMA AppendPrice ==
  ASSUME NEW s \in Seq(Nat), NEW price \in Nat
  PROVE  /\ Append(s, price) \in Seq(Nat) /\ Len(Append(s, price)) = Len(s) + 1
         /\ Append(s, price)[Len(s) + 1] = price
         /\ \A i \in 1..Len(s) : Append(s, price)[i] = s[i]
  OBVIOUS

(* What Tail does.                                                         *)
LEMMA TailPrices ==
  ASSUME NEW s \in Seq(Nat), Len(s) # 0
  PROVE  /\ s # <<>> /\ Head(s) \in Nat
         /\ Tail(s) \in Seq(Nat) /\ Len(Tail(s)) = Len(s) - 1
         /\ \A i \in 1..Len(s) - 1 : Tail(s)[i] = s[i + 1]
<1>1. s # <<>>
  OBVIOUS
<1>2. Head(s) \in Nat
  BY <1>1
<1>3. Tail(s) \in Seq(Nat) /\ Len(Tail(s)) = Len(s) - 1
  BY <1>1
<1>4. \A i \in 1..Len(s) - 1 : Tail(s)[i] = s[i + 1]
  BY <1>1
<1> QED BY <1>1, <1>2, <1>3, <1>4

(* It stays one when a price enters.                                       *)
LEMMA WindowStep ==
  ASSUME NEW prices \in Seq(Nat), NEW price \in Nat, NEW size \in Nat \ {0},
         NEW buf \in Seq(Nat), NEW sum, Windowed(buf, sum, prices, size)
  PROVE  Windowed(Appended(buf, price, size), Summed(sum, buf, price, size),
                  Append(prices, price), size)
<1>1. PICK more : more = Append(prices, price)
  OBVIOUS
<1>2. PICK N \in Nat : N = Len(prices)
  OBVIOUS
<1>3. /\ more \in Seq(Nat) /\ Len(more) = N + 1 /\ more[N + 1] = price
      /\ \A i \in 1..N : more[i] = prices[i]
  BY <1>1, <1>2
<1>4. PICK L \in Nat : L = Len(buf)
  BY DEF Windowed
<1>5. /\ buf \in Seq(Nat) /\ sum = Total(buf)
      /\ L = IF N < size THEN N ELSE size
      /\ \A i \in 1..L : buf[i] = prices[N - L + i]
  BY <1>2, <1>4 DEF Windowed
<1>6. CASE N < size
  <2>1. L = N /\ L < size
    BY <1>5, <1>6
  <2>2. PICK new : new = Append(buf, price)
    OBVIOUS
  <2>3. /\ new \in Seq(Nat) /\ Len(new) = L + 1 /\ new[L + 1] = price
        /\ \A i \in 1..L : new[i] = buf[i]
    BY <1>4, <2>2, AppendPrice
  <2>4. Total(new) = sum + price
    BY <1>5, <2>2, TotalAppend
  <2>5. Appended(buf, price, size) = new /\ Summed(sum, buf, price, size) = Total(new)
    BY <1>4, <2>1, <2>2, <2>4 DEF Appended, Summed
  <2>6. Len(new) = IF Len(more) < size THEN Len(more) ELSE size
    BY <1>2, <1>3, <1>4, <1>6, <2>1, <2>3
  <2>7. ASSUME NEW i \in 1..Len(new) PROVE new[i] = more[Len(more) - Len(new) + i]
    <3>1. Len(more) - Len(new) + i = i /\ (i \in 1..L \/ i = L + 1)
      BY <1>3, <2>1, <2>3
    <3>2. CASE i \in 1..L
      <4>1. new[i] = prices[N - L + i] /\ N - L + i = i
        BY <1>5, <2>1, <2>3, <3>2
      <4> QED BY <1>3, <2>1, <3>1, <3>2, <4>1
    <3>3. CASE i = L + 1
      BY <1>3, <2>1, <2>3, <3>1, <3>3
    <3> QED BY <3>1, <3>2, <3>3
  <2>8. Windowed(new, Total(new), more, size)
    BY <2>3, <2>6, <2>7 DEF Windowed
  <2> QED BY <1>1, <2>5, <2>8
<1>7. CASE ~(N < size)
  <2>1. L = size /\ ~(L < size) /\ L \in Nat \ {0} /\ L <= N
    BY <1>2, <1>5, <1>7
  <2>2. buf # <<>> /\ Head(buf) \in Nat
    BY <1>4, <2>1, TailPrices
  <2>3. PICK rest : rest = Tail(buf)
    OBVIOUS
  <2>4. /\ rest \in Seq(Nat) /\ Len(rest) = L - 1
        /\ \A i \in 1..L - 1 : rest[i] = buf[i + 1]
    BY <1>4, <2>1, <2>3, TailPrices
  <2>5. PICK new : new = Append(rest, price)
    OBVIOUS
  <2>6. /\ new \in Seq(Nat) /\ Len(new) = L /\ new[L] = price
        /\ \A i \in 1..L - 1 : new[i] = buf[i + 1]
    BY <2>1, <2>4, <2>5
  <2>7. Total(new) = sum + price - Head(buf)
    <3>1. Total(rest) = Total(buf) - Head(buf)
      BY <1>5, <2>2, <2>3, TotalTail
    <3>2. Total(new) = Total(rest) + price
      BY <2>4, <2>5, TotalAppend
    <3>3. Total(buf) \in Int
      BY <1>5, TotalAppend
    <3> QED BY <1>5, <2>2, <3>1, <3>2, <3>3
  <2>8. Appended(buf, price, size) = new /\ Summed(sum, buf, price, size) = Total(new)
    BY <1>4, <2>1, <2>3, <2>5, <2>7 DEF Appended, Summed
  <2>9. Len(new) = IF Len(more) < size THEN Len(more) ELSE size
    BY <1>2, <1>3, <1>7, <2>1, <2>6
  <2>10. ASSUME NEW i \in 1..Len(new) PROVE new[i] = more[Len(more) - Len(new) + i]
    <3>1. Len(more) - Len(new) + i = N - L + (i + 1) /\ (i \in 1..L - 1 \/ i = L)
      BY <1>2, <1>3, <2>1, <2>6
    <3>2. CASE i \in 1..L - 1
      <4>1. i + 1 \in 1..L /\ N - L + (i + 1) \in 1..N
        BY <1>2, <2>1, <3>2
      <4>2. new[i] = prices[N - L + (i + 1)]
        BY <1>5, <2>6, <3>2, <4>1
      <4> QED BY <1>3, <3>1, <4>1, <4>2
    <3>3. CASE i = L
      <4>1. N - L + (i + 1) = N + 1
        BY <1>2, <2>1, <3>3
      <4> QED BY <1>3, <2>6, <3>1, <3>3, <4>1
    <3> QED BY <3>1, <3>2, <3>3
  <2>11. Windowed(new, Total(new), more, size)
    BY <2>6, <2>9, <2>10 DEF Windowed
  <2> QED BY <1>1, <2>8, <2>11
<1> QED BY <1>6, <1>7

(* A full window is the latest prices.                                     *)
LEMMA WindowLatest ==
  ASSUME NEW prices \in Seq(Nat), NEW size \in Nat \ {0}, ~(Len(prices) < size),
         NEW buf \in Seq(Nat), NEW sum, Windowed(buf, sum, prices, size)
  PROVE  Latest(prices, size) = buf /\ sum = Total(Latest(prices, size))
<1>1. PICK N \in Nat : N = Len(prices)
  OBVIOUS
<1>2. /\ buf \in Seq(Nat) /\ Len(buf) = size /\ size <= N
      /\ \A i \in 1..size : buf[i] = prices[N - size + i]
      /\ sum = Total(buf)
  BY <1>1 DEF Windowed
<1>3. PICK latest : latest = SubSeq(prices, N - size + 1, N)
  OBVIOUS
<1>4. /\ latest \in Seq(Nat) /\ Len(latest) = size
      /\ \A i \in 1..size : latest[i] = prices[N - size + i]
  <2>1. N - size + 1 \in 1..N /\ N \in 1..N + 1 /\ N - (N - size + 1) + 1 = size
    BY <1>1, <1>2
  <2>2. latest \in Seq(Nat) /\ Len(latest) = size
    BY <1>1, <1>3, <2>1
  <2>3. ASSUME NEW i \in 1..size PROVE latest[i] = prices[N - size + i]
    <3>1. (N - size + 1) + i - 1 = N - size + i /\ i \in 1..N - (N - size + 1) + 1
      BY <1>1, <2>1
    <3> QED BY <1>1, <1>3, <2>1, <3>1
  <2> QED BY <2>2, <2>3
<1>5. latest = buf
  <2>1. PICK b \in Seq(Nat) : b = buf
    OBVIOUS
  <2>2. PICK l \in Seq(Nat) : l = latest
    BY <1>4
  <2>3. Len(b) = size /\ Len(l) = size /\ \A i \in 1..size : b[i] = l[i]
    BY <1>2, <1>4, <2>1, <2>2
  <2>4. b = l
    BY <2>3
  <2> QED BY <2>1, <2>2, <2>4
<1> QED BY <1>1, <1>2, <1>3, <1>5 DEF Latest

(* The momentum agent's state says what the prices of a symbol say.        *)
Tracks(state, prices) ==
  /\ state \in SmaType
  /\ Windowed(state.short_buf, state.short_sum, prices, ShortWindow)
  /\ Windowed(state.long_buf, state.long_sum, prices, LongWindow)
  /\ state.last_position = Classification(prices)

(* A fresh one says what no prices say.                                    *)
LEMMA FreshTracks == Tracks(FreshSma, <<>>)
<1>1. FreshSma \in SmaType
  BY DEF FreshSma, SmaType, Direction
<1>2. ASSUME NEW size \in Nat \ {0} PROVE Windowed(<<>>, 0, <<>>, size)
  BY TotalEmpty DEF Windowed
<1>3. Classification(<<>>) = 0
  <2>1. Len(<<>>) < ShortWindow
    BY SmaAssumption
  <2> QED BY <2>1 DEF Classification
<1> QED BY <1>1, <1>2, <1>3, SmaAssumption DEF Tracks, FreshSma

(* update keeps it so.                                                     *)
LEMMA UpdateTracks ==
  ASSUME NEW prices \in Seq(Nat), NEW price \in Nat, NEW state, Tracks(state, prices)
  PROVE  Tracks(Update(state, price), Append(prices, price))
<1>1. PICK more : more = Append(prices, price)
  OBVIOUS
<1>2. more \in Seq(Nat) /\ Len(more) = Len(prices) + 1 /\ Len(prices) \in Nat
  BY <1>1
<1>3. PICK pushed : pushed = Push(state, price)
  OBVIOUS
<1>4. /\ pushed.short_buf = Appended(state.short_buf, price, ShortWindow)
      /\ pushed.short_sum = Summed(state.short_sum, state.short_buf, price, ShortWindow)
      /\ pushed.long_buf = Appended(state.long_buf, price, LongWindow)
      /\ pushed.long_sum = Summed(state.long_sum, state.long_buf, price, LongWindow)
      /\ pushed.last_position = state.last_position
  BY <1>3 DEF Push, Tracks, SmaType
<1>5. /\ Windowed(pushed.short_buf, pushed.short_sum, more, ShortWindow)
      /\ Windowed(pushed.long_buf, pushed.long_sum, more, LongWindow)
  BY <1>1, <1>4, WindowStep, SmaAssumption DEF Tracks, SmaType
<1>6. Update(state, price) \in SmaType
  BY UpdateType DEF Tracks
<1>7. pushed \in [short_buf : {pushed.short_buf}, short_sum : {pushed.short_sum},
                  long_buf : {pushed.long_buf}, long_sum : {pushed.long_sum},
                  last_position : {pushed.last_position}]
  BY <1>3 DEF Push, Tracks, SmaType
<1>8. /\ Update(state, price).short_buf = pushed.short_buf
      /\ Update(state, price).short_sum = pushed.short_sum
      /\ Update(state, price).long_buf = pushed.long_buf
      /\ Update(state, price).long_sum = pushed.long_sum
      /\ Update(state, price).last_position =
           IF Crosses(pushed) THEN Position(pushed) ELSE state.last_position
  BY <1>3, <1>4, <1>7 DEF Update
<1>9. Full(pushed) <=> ~(Len(more) < ShortWindow \/ Len(more) < LongWindow)
  BY <1>2, <1>5, SmaAssumption DEF Full, Windowed
<1>10. CASE Full(pushed)
  <2>1. /\ pushed.short_sum = Total(Latest(more, ShortWindow))
        /\ pushed.long_sum = Total(Latest(more, LongWindow))
    BY <1>2, <1>5, <1>9, <1>10, WindowLatest, SmaAssumption DEF Windowed
  <2>2. Position(pushed) = Classification(more)
    <3>1. PICK short : short = pushed.short_sum * LongWindow
      OBVIOUS
    <3>2. PICK long : long = pushed.long_sum * ShortWindow
      OBVIOUS
    <3>3. short \in Int /\ long \in Int
      <4>1. pushed.short_buf \in Seq(Nat) /\ pushed.short_sum = Total(pushed.short_buf)
            /\ pushed.long_buf \in Seq(Nat) /\ pushed.long_sum = Total(pushed.long_buf)
        BY <1>5 DEF Windowed
      <4>2. pushed.short_sum \in Int /\ pushed.long_sum \in Int
        BY <4>1, TotalAppend
      <4> QED BY <3>1, <3>2, <4>2, SmaAssumption
    <3>4. Position(pushed) = CASE short > long -> 1 [] short < long -> -1 [] OTHER -> 0
      BY <3>1, <3>2, Zenon DEF Position
    <3>5. Classification(more) = IF short = long THEN 0 ELSE IF short > long THEN 1 ELSE -1
      BY <1>9, <1>10, <2>1, <3>1, <3>2 DEF Classification
    <3> QED BY <3>3, <3>4, <3>5
  <2>3. Update(state, price).last_position = Position(pushed)
    BY <1>4, <1>8, <1>10 DEF Crosses
  <2> QED BY <1>1, <1>5, <1>6, <1>8, <2>2, <2>3 DEF Tracks
<1>11. CASE ~Full(pushed)
  <2>1. Classification(more) = 0
    BY <1>9, <1>11 DEF Classification
  <2>2. Classification(prices) = 0
    <3>1. Len(prices) < ShortWindow \/ Len(prices) < LongWindow
      BY <1>2, <1>9, <1>11, SmaAssumption
    <3> QED BY <3>1 DEF Classification
  <2>3. Update(state, price).last_position = 0
    BY <1>8, <1>11, <2>2 DEF Crosses, Tracks
  <2> QED BY <1>1, <1>5, <1>6, <1>8, <2>1, <2>3 DEF Tracks
<1> QED BY <1>10, <1>11

-----------------------------------------------------------------------------
(* The reference's prices, of what a topic holds and an instance has heard. *)
TakenFrom(market, ids) ==
  [n \in 1..Len(ids) |-> [id     |-> ids[n],
                          symbol |-> market[ids[n]].symbol,
                          price  |-> market[ids[n]].price]]

(* It is a sequence of bars, as long as what was heard.                    *)
LEMMA TakenType ==
  ASSUME NEW market \in Seq(FixtureRow), NEW ids \in Seq(Nat),
         \A n \in 1..Len(ids) : ids[n] \in 1..Len(market)
  PROVE  TakenFrom(market, ids) \in Seq(Bar) /\ Len(TakenFrom(market, ids)) = Len(ids)
<1>1. PICK taken : taken = TakenFrom(market, ids)
  OBVIOUS
<1>2. PICK N \in Nat : N = Len(ids)
  OBVIOUS
<1>3. taken = [n \in 1..N |-> [id     |-> ids[n],
                               symbol |-> market[ids[n]].symbol,
                               price  |-> market[ids[n]].price]]
  BY <1>1, <1>2 DEF TakenFrom
<1>4. ASSUME NEW n \in 1..N PROVE taken[n] \in Bar
  <2>1. ids[n] \in Nat /\ ids[n] \in 1..Len(market)
    BY <1>2
  <2>2. market[ids[n]] \in FixtureRow
    BY <2>1
  <2>3. market[ids[n]].symbol \in STRING /\ market[ids[n]].price \in Nat
    BY <2>2 DEF FixtureRow
  <2> QED BY <1>3, <2>1, <2>3 DEF Bar
<1>5. taken \in [1..N -> Bar]
  BY <1>3, <1>4
<1>6. taken \in Seq(Bar) /\ Len(taken) = N
  BY <1>2, <1>5
<1> QED BY <1>1, <1>2, <1>6

(* What has been taken stays what it was when the topic grows, ...         *)
LEMMA TakenGrows ==
  ASSUME NEW market, NEW more, NEW ids,
         \A n \in 1..Len(ids) : more[ids[n]] = market[ids[n]]
  PROVE  TakenFrom(more, ids) = TakenFrom(market, ids)
BY DEF TakenFrom

(* ... and a price taken is the last of them.                              *)
LEMMA TakenAppend ==
  ASSUME NEW market \in Seq(FixtureRow), NEW ids \in Seq(Nat),
         \A n \in 1..Len(ids) : ids[n] \in 1..Len(market),
         NEW id \in 1..Len(market), NEW bar,
         bar = [id |-> id, symbol |-> market[id].symbol, price |-> market[id].price]
  PROVE  /\ bar \in Bar
         /\ TakenFrom(market, Append(ids, id)) = Append(TakenFrom(market, ids), bar)
<1>1. PICK N \in Nat : N = Len(ids)
  OBVIOUS
<1>2. id \in Nat /\ market[id] \in FixtureRow
  OBVIOUS
<1>3. bar \in Bar
  BY <1>2 DEF Bar, FixtureRow
<1>4. PICK more : more = Append(ids, id)
  OBVIOUS
<1>5. /\ more \in Seq(Nat) /\ Len(more) = N + 1 /\ more[N + 1] = id
      /\ \A n \in 1..N : more[n] = ids[n]
  BY <1>1, <1>2, <1>4, AppendPrice
<1>6. PICK old \in Seq(Bar) : old = TakenFrom(market, ids)
  BY TakenType
<1>7. Len(old) = N /\ \A n \in 1..N : old[n] = TakenFrom(market, ids)[n]
  BY <1>1, <1>6, TakenType
<1>8. ASSUME NEW n \in 1..Len(more) PROVE more[n] \in 1..Len(market)
  <2>1. n \in 1..N \/ n = N + 1
    BY <1>5
  <2> QED BY <1>1, <1>5, <2>1
<1>9. PICK new \in Seq(Bar) : new = TakenFrom(market, more)
  BY <1>5, <1>8, TakenType
<1>10. Len(new) = N + 1
  BY <1>5, <1>8, <1>9, TakenType
<1>11. PICK last : last = Append(old, bar)
  OBVIOUS
<1>12. /\ last \in Seq(Bar) /\ Len(last) = N + 1 /\ last[N + 1] = bar
       /\ \A n \in 1..N : last[n] = old[n]
  BY <1>3, <1>7, <1>11
<1>13. new[N + 1] = bar
  <2>1. N + 1 \in 1..Len(more)
    BY <1>5
  <2> QED BY <1>5, <1>9, <2>1 DEF TakenFrom
<1>14. ASSUME NEW n \in 1..N PROVE new[n] = old[n]
  <2>1. n \in 1..Len(more) /\ n \in 1..Len(ids)
    BY <1>1, <1>5
  <2> QED BY <1>5, <1>6, <1>9, <2>1 DEF TakenFrom
<1>15. new = last
  <2>1. \A n \in 1..N + 1 : new[n] = last[n]
    BY <1>12, <1>13, <1>14
  <2> QED BY <1>10, <1>12, <2>1
<1> QED BY <1>3, <1>4, <1>6, <1>9, <1>11, <1>15

(* An instance that has heard nothing has taken nothing.                   *)
LEMMA NoneHeard ==
  ASSUME NEW market \in Seq(FixtureRow)
  PROVE  TakenFrom(market, <<>>) \in Seq(Bar) /\ Len(TakenFrom(market, <<>>)) = 0
<1>1. PICK none : none = <<>>
  OBVIOUS
<1>2. none \in Seq(Nat) /\ Len(none) = 0
  BY <1>1
<1>3. \A n \in 1..Len(none) : none[n] \in 1..Len(market)
  BY <1>2
<1>4. TakenFrom(market, none) \in Seq(Bar) /\ Len(TakenFrom(market, none)) = Len(none)
  BY <1>2, <1>3, TakenType
<1> QED BY <1>1, <1>2, <1>4

(* The recursions at nothing.                                              *)
LEMMA NothingTaken ==
  ASSUME NEW taken \in Seq(Bar), Len(taken) = 0
  PROVE  Crossings(taken)[0] = <<>> /\ \A symbol : Prices(taken, symbol)[0] = <<>>
<1>1. Crossings(taken)[0] = <<>>
  BY CrossingsRecursion DEF Recursion
<1>2. ASSUME NEW symbol PROVE Prices(taken, symbol)[0] = <<>>
  BY PricesRecursion DEF Recursion
<1> QED BY <1>1, <1>2

-----------------------------------------------------------------------------
(* What the momentum agent has taken is on its topic, its state says what  *)
(* that says, and what it has signalled is what that calls for.            *)
HeardOK ==
  /\ heard \in Seq(Nat) /\ \A n \in 1..Len(heard) : heard[n] \in Ids("market")
  /\ since \in 0..Len(sent.alpha)

SmaOK == \A symbol \in Symbol : Tracks(sma[symbol], Prices(Taken, symbol)[Len(Taken)])

CrossInv == HeardOK /\ SmaOK /\ SignalsAreCrossovers

(* A step that takes no price leaves what was taken, and what is known.    *)
LEMMA HeardFrame ==
  ASSUME TradingInv, HeardOK, SmaOK, Grows,
         heard' = heard, since' = since, sma' = sma, fixture' = fixture
  PROVE  HeardOK' /\ SmaOK' /\ Taken' = Taken
<1>1. /\ Len(sent.market) \in Nat /\ Len(sent'.market) \in Nat
      /\ Len(sent.market) <= Len(sent'.market)
      /\ Len(sent.alpha) \in Nat /\ Len(sent'.alpha) \in Nat
      /\ Len(sent.alpha) <= Len(sent'.alpha)
      /\ \A n \in 1..Len(sent.market) : sent'.market[n] = sent.market[n]
  BY DEF Grows, Topic, Ids
<1>2. HeardOK'
  <2>1. \A n \in 1..Len(heard) : heard[n] \in 1..Len(sent'.market)
    BY <1>1 DEF HeardOK, Ids
  <2>2. since \in 0..Len(sent'.alpha) /\ heard \in Seq(Nat)
    BY <1>1 DEF HeardOK
  <2> QED BY <2>1, <2>2 DEF HeardOK, Ids
<1>3. Taken' = Taken
  <2>1. \A n \in 1..Len(heard) : sent'.market[heard[n]] = sent.market[heard[n]]
    BY <1>1 DEF HeardOK, Ids
  <2>2. TakenFrom(sent'.market, heard) = TakenFrom(sent.market, heard)
    BY <2>1, TakenGrows
  <2> QED BY <2>2 DEF Taken, TakenFrom
<1>4. SmaOK'
  <2>1. PICK taken : taken = Taken
    OBVIOUS
  <2>2. Taken' = taken /\ Symbol' = Symbol
    BY <1>3, <2>1 DEF Symbol
  <2>3. \A symbol \in Symbol : Tracks(sma[symbol], Prices(taken, symbol)[Len(taken)])
    BY <2>1 DEF SmaOK
  <2>4. \A symbol \in Symbol' : Tracks(sma'[symbol], Prices(Taken', symbol)[Len(Taken')])
    BY <2>2, <2>3
  <2> QED BY <2>4 DEF SmaOK, Tracks, Windowed
<1> QED BY <1>2, <1>3, <1>4

(* A step that leaves the momentum agent's signals, or ends the instance.  *)
LEMMA CrossFrame ==
  ASSUME TradingInv, CrossInv, Grows,
         heard' = heard, since' = since, sma' = sma, fixture' = fixture,
         \/ phase'["momentum"] \in {"down", "done"}
         \/ /\ phase'["momentum"] = phase["momentum"]
            /\ hand'["momentum"] = hand["momentum"]
            /\ sent'["alpha"] = sent["alpha"]
  PROVE  CrossInv'
<1>1. HeardOK' /\ SmaOK' /\ Taken' = Taken
  BY HeardFrame DEF CrossInv
<1>2. SignalsAreCrossovers'
  <2>1. CASE phase'["momentum"] \in {"down", "done"}
    BY <2>1 DEF SignalsAreCrossovers
  <2>2. CASE /\ phase'["momentum"] = phase["momentum"]
             /\ hand'["momentum"] = hand["momentum"]
             /\ sent'["alpha"] = sent["alpha"]
    <3>1. Signalled' = Signalled
      BY <2>2 DEF Signalled
    <3> QED BY <1>1, <2>2, <3>1 DEF CrossInv, SignalsAreCrossovers
  <2> QED BY <2>1, <2>2
<1> QED BY <1>1, <1>2 DEF CrossInv

(* A message that is sent is one more on its topic, and on no other.       *)
LEMMA SendGrows ==
  ASSUME Types, NEW topic \in Topic, NEW message, Send(topic, message)
  PROVE  /\ Grows
         /\ \A t \in Topic \ {topic} : sent'[t] = sent[t]
         /\ sent'[topic] = Append(sent[topic], message)
<1>1. DOMAIN sent = Topic /\ \A t \in Topic : sent[t] \in Seq(MessageType(t))
  BY DEF Types
<1>2. /\ sent' = [sent EXCEPT ![topic] = Append(@, message)]
      /\ sent'[topic] = Append(sent[topic], message)
      /\ \A t \in Topic \ {topic} : sent'[t] = sent[t]
  BY <1>1 DEF Send
<1>3. PICK s : s = sent[topic]
  OBVIOUS
<1>4. PICK S : S = MessageType(topic) \cup {message}
  OBVIOUS
<1>5. s \in Seq(S) /\ message \in S
  BY <1>1, <1>3, <1>4
<1>6. /\ Len(s) \in Nat /\ Len(Append(s, message)) = Len(s) + 1
      /\ \A n \in 1..Len(s) : Append(s, message)[n] = s[n]
  BY <1>5
<1>7. ASSUME NEW t \in Topic PROVE Len(sent[t]) \in Nat
  <2>1. sent[t] \in Seq(MessageType(t))
    BY <1>1
  <2> QED BY <2>1
<1>8. Grows
  BY <1>2, <1>3, <1>6, <1>7 DEF Grows, Ids
<1> QED BY <1>2, <1>8

(* The steps that are not the momentum agent's.                            *)
LEMMA OthersStep ==
  ASSUME TradingInv, CrossInv,
         \/ Collector \/ OnAlpha \/ Executor \/ PublishSignal("blender")
         \/ \E a \in {"blender", "executor"} : Subscribe(a) \/ Breaks(a)
         \/ \E a \in Agent \ {"momentum"} : Fail(a)
         \/ \E process : Cancel(process)
         \/ UNCHANGED vars
  PROVE  CrossInv'
<1>1. heard' = heard /\ since' = since /\ sma' = sma /\ fixture' = fixture
  BY DEF Collector, CollectorStarts, DelayEnds, Replay, CollectorReturns, OnAlpha,
         Executor, OnSignal, PublishOrder, SubmitLimitOrder, PublishFill, Breaks,
         PublishSignal, Subscribe, Fail, Cancel, vars
<1>2. /\ phase'["momentum"] = phase["momentum"]
      /\ hand'["momentum"] = hand["momentum"]
  BY DEF TradingInv, Types, Agent, Listener, Goto, Publish,
         Collector, CollectorStarts, DelayEnds, Replay, CollectorReturns, OnAlpha,
         Executor, OnSignal, PublishOrder, SubmitLimitOrder, PublishFill, Breaks,
         PublishSignal, Subscribe, Fail, Cancel, vars
<1>3. \/ sent' = sent
      \/ \E topic \in Topic \ {"alpha"} : \E message : Send(topic, message)
  BY DEF Topic, Publish,
         Collector, CollectorStarts, DelayEnds, Replay, CollectorReturns, OnAlpha,
         Executor, OnSignal, PublishOrder, SubmitLimitOrder, PublishFill, Breaks,
         PublishSignal, Subscribe, Fail, Cancel, vars
<1>4. Grows /\ sent'["alpha"] = sent["alpha"]
  BY <1>3, QuietStep, SendGrows DEF TradingInv, Topic
<1> QED BY <1>1, <1>2, <1>4, CrossFrame

(* A new momentum instance begins with nothing taken and nothing signalled. *)
LEMMA MomentumBegins ==
  ASSUME TradingInv, TradingInv', Subscribe("momentum")
  PROVE  CrossInv'
<1>1. /\ heard' = <<>> /\ since' = Len(sent.alpha) /\ sent' = sent /\ fixture' = fixture
      /\ sma' = [s \in Symbol |-> FreshSma]
  BY DEF Subscribe
<1>2. phase'["momentum"] = "listen"
  BY DEF TradingInv, Types, Subscribe, Goto, Agent, Listener
<1>3. sent.market \in Seq(FixtureRow) /\ sent.alpha \in Seq(SignalType)
  BY DEF TradingInv, Types, Topic, MessageType
<1>4. HeardOK'
  BY <1>1, <1>3 DEF HeardOK, Ids
<1>5. PICK taken : taken = TakenFrom(sent.market, <<>>)
  OBVIOUS
<1>6. Taken' = taken
  BY <1>1, <1>5 DEF Taken, TakenFrom
<1>7. taken \in Seq(Bar) /\ Len(taken) = 0
  BY <1>3, <1>5, NoneHeard
<1>8. Crossings(taken)[0] = <<>> /\ \A symbol : Prices(taken, symbol)[0] = <<>>
  BY <1>7, NothingTaken
<1>9. SmaOK'
  <2>1. \A symbol \in Symbol' :
          Tracks(sma'[symbol], Prices(Taken', symbol)[Len(Taken')])
    BY <1>1, <1>6, <1>7, <1>8, FreshTracks DEF Symbol
  <2> QED BY <2>1 DEF SmaOK, Tracks, Windowed
<1>10. Signalled' = <<>>
  <2>1. PICK alpha \in Seq(SignalType) : alpha = sent.alpha
    BY <1>3
  <2>2. SubSeq(alpha, Len(alpha) + 1, Len(alpha)) \o <<>> = <<>>
    BY <2>1
  <2> QED BY <1>1, <1>2, <2>1, <2>2 DEF Signalled
<1> QED BY <1>4, <1>6, <1>7, <1>8, <1>9, <1>10 DEF CrossInv, SignalsAreCrossovers

(* The signals since a point: ...                                          *)
Since(alpha, first) == SubSeq(alpha, first + 1, Len(alpha))

(* ... published, or still in hand, a signal is the last of them.          *)
LEMMA PublishedSignals ==
  ASSUME NEW S, NEW alpha \in Seq(S), NEW signal \in S, NEW first \in 0..Len(alpha)
  PROVE  Since(Append(alpha, signal), first) \o <<>> = Since(alpha, first) \o <<signal>>
<1>0. PICK L \in Nat : L = Len(alpha)
  OBVIOUS
<1>1. PICK more : more = Append(alpha, signal)
  OBVIOUS
<1>2. /\ more \in Seq(S) /\ Len(more) = L + 1 /\ more[L + 1] = signal
      /\ \A n \in 1..L : more[n] = alpha[n]
  BY <1>0, <1>1
<1>3. PICK new : new = Since(more, first)
  OBVIOUS
<1>4. /\ new \in Seq(S) /\ Len(new) = L + 1 - first
      /\ \A n \in 1..L + 1 - first : new[n] = more[first + n]
  BY <1>0, <1>2, <1>3 DEF Since
<1>5. PICK old : old = Since(alpha, first)
  OBVIOUS
<1>6. /\ old \in Seq(S) /\ Len(old) = L - first
      /\ \A n \in 1..L - first : old[n] = alpha[first + n]
  BY <1>0, <1>5 DEF Since
<1>7. PICK last : last = old \o <<signal>>
  OBVIOUS
<1>8. /\ last \in Seq(S) /\ Len(last) = L - first + 1
      /\ last[L - first + 1] = signal
      /\ \A n \in 1..L - first : last[n] = old[n]
  BY <1>0, <1>6, <1>7
<1>9. PICK M \in Nat : M = L + 1 - first
  <2>1. L + 1 - first \in Nat
    BY <1>0
  <2> QED BY <2>1
<1>10. ASSUME NEW n \in 1..M PROVE new[n] = last[n]
  <2>1. CASE n = M
    BY <1>0, <1>2, <1>4, <1>8, <1>9, <2>1
  <2>2. CASE n # M
    <3>1. n \in 1..L - first /\ first + n \in 1..L /\ n \in 1..L + 1 - first
      BY <1>0, <1>9, <2>2
    <3> QED BY <1>2, <1>4, <1>6, <1>8, <3>1
  <2> QED BY <2>1, <2>2
<1>11. new = last
  <2>1. new \in Seq(S) /\ last \in Seq(S) /\ Len(new) = M /\ Len(last) = M
    BY <1>0, <1>4, <1>8, <1>9
  <2>2. \A n \in 1..M : new[n] = last[n]
    BY <1>10
  <2> QED BY <2>1, <2>2
<1>12. new \o <<>> = new
  BY <1>4
<1> QED BY <1>1, <1>3, <1>5, <1>7, <1>11, <1>12

(* The signal in hand is published: it is one of the signals either way.   *)
LEMMA MomentumPublishes ==
  ASSUME TradingInv, CrossInv, PublishSignal("momentum")
  PROVE  CrossInv'
<1>1. /\ heard' = heard /\ since' = since /\ sma' = sma /\ fixture' = fixture
      /\ phase["momentum"] = "publish" /\ Send("alpha", hand["momentum"])
  BY DEF PublishSignal, Publish
<1>2. phase'["momentum"] = "listen"
  BY DEF TradingInv, Types, PublishSignal, Publish, Goto, Agent, Listener
<1>3. Grows /\ sent'["alpha"] = Append(sent["alpha"], hand["momentum"])
  BY <1>1, SendGrows DEF TradingInv, Topic
<1>4. HeardOK' /\ SmaOK' /\ Taken' = Taken
  BY <1>1, <1>3, HeardFrame DEF CrossInv
<1>5. sent.alpha \in Seq(SignalType) /\ hand["momentum"] \in SignalType
  BY <1>1 DEF TradingInv, Types, Topic, MessageType, AlphaOK, Caused
<1>6. Signalled' = Signalled
  <2>1. PICK S : S = SignalType
    OBVIOUS
  <2>2. PICK alpha \in Seq(S) : alpha = sent.alpha
    BY <1>5, <2>1
  <2>3. PICK signal \in S : signal = hand["momentum"]
    BY <1>5, <2>1
  <2>4. PICK first \in 0..Len(alpha) : first = since
    BY <2>2 DEF CrossInv, HeardOK
  <2>5. Since(Append(alpha, signal), first) \o <<>> = Since(alpha, first) \o <<signal>>
    BY PublishedSignals
  <2>6. Signalled = Since(alpha, first) \o <<signal>>
    BY <1>1, <2>2, <2>3, <2>4 DEF Signalled, Since
  <2>7. Signalled' = Since(Append(alpha, signal), first) \o <<>>
    BY <1>1, <1>2, <1>3, <2>2, <2>3, <2>4 DEF Signalled, Since
  <2> QED BY <2>5, <2>6, <2>7
<1> QED BY <1>1, <1>2, <1>4, <1>6 DEF CrossInv, SignalsAreCrossovers

(* A price is taken: the state tracks it, and the crossing it makes, if it *)
(* makes one, is the signal now in hand.                                   *)
LEMMA MomentumTakes ==
  ASSUME TradingInv, TradingInv', CrossInv, OnPrice
  PROVE  CrossInv'
<1>1. PICK id : id = Head(inbox["momentum"])
  OBVIOUS
<1>2. PICK symbol : symbol = sent.market[id].symbol
  OBVIOUS
<1>3. PICK price : price = sent.market[id].price
  OBVIOUS
<1>4. PICK updated : updated = Update(sma[symbol], price)
  OBVIOUS
<1>5. PICK signal : signal = Signal(symbol, updated.last_position, id)
  OBVIOUS
<1>6. /\ Takes("momentum") /\ heard' = Append(heard, id)
      /\ sma' = [sma EXCEPT ![symbol] = updated]
      /\ IF updated.last_position = sma[symbol].last_position
           THEN UNCHANGED <<phase, hand>>
           ELSE /\ hand' = [hand EXCEPT !["momentum"] = signal]
                /\ Goto("momentum", "publish")
      /\ sent' = sent /\ since' = since /\ fixture' = fixture
  BY <1>1, <1>2, <1>3, <1>4, <1>5 DEF OnPrice
<1>7. id \in Ids("market") /\ phase["momentum"] = "listen"
  BY <1>1, <1>6, TakesStep DEF Listener, Hears
<1>8. PICK market \in Seq(FixtureRow) : market = sent.market
  BY DEF TradingInv, Types, Topic, MessageType
<1>9. id \in 1..Len(market) /\ symbol = market[id].symbol /\ price = market[id].price
  BY <1>2, <1>3, <1>7, <1>8 DEF Ids
<1>10. price \in Nat /\ symbol \in Symbol /\ id \in Nat
  <2>1. market[id] \in FixtureRow
    BY <1>9
  <2>2. price \in Nat /\ id \in Nat
    BY <1>9, <2>1 DEF FixtureRow
  <2>3. symbol \in Symbol
    BY <1>2, <1>7 DEF TradingInv, MarketOK
  <2> QED BY <2>2, <2>3
<1>11. PICK ids \in Seq(Nat) : ids = heard
  BY DEF CrossInv, HeardOK
<1>12. \A n \in 1..Len(ids) : ids[n] \in 1..Len(market)
  BY <1>8, <1>11 DEF CrossInv, HeardOK, Ids
<1>13. PICK bar : bar = [id |-> id, symbol |-> symbol, price |-> price]
  OBVIOUS
<1>14. /\ bar \in Bar
       /\ TakenFrom(market, Append(ids, id)) = Append(TakenFrom(market, ids), bar)
  BY <1>9, <1>12, <1>13, TakenAppend
<1>15. PICK taken \in Seq(Bar) : taken = TakenFrom(market, ids)
  BY <1>12, TakenType
<1>16. PICK more : more = Append(taken, bar)
  OBVIOUS
<1>17. Taken = taken /\ Taken' = more
  BY <1>6, <1>8, <1>11, <1>14, <1>15, <1>16 DEF Taken, TakenFrom
<1>18. PICK N \in Nat : N = Len(taken)
  OBVIOUS
<1>19. Len(more) = N + 1
  BY <1>14, <1>16, <1>18
<1>20. PICK before : before = Prices(taken, symbol)[N]
  OBVIOUS
<1>21. bar.symbol = symbol /\ bar.price = price /\ bar.id = id
  BY <1>13
<1>22. /\ before \in Seq(Nat)
       /\ Prices(more, symbol)[N + 1] = Append(before, price)
       /\ \A other : other # symbol => Prices(more, other)[N + 1] = Prices(taken, other)[N]
  <2>1. ASSUME NEW other
        PROVE  /\ Prices(taken, other)[N] \in Seq(Nat)
               /\ Prices(more, other)[N + 1] =
                    IF symbol = other THEN Append(Prices(taken, other)[N], price)
                                      ELSE Prices(taken, other)[N]
    <3>1. /\ \A n \in 0..N : Prices(taken, other)[n] \in Seq(Nat)
          /\ Prices(more, other)[N + 1] =
               IF bar.symbol = other THEN Append(Prices(taken, other)[N], bar.price)
                                     ELSE Prices(taken, other)[N]
      BY <1>14, <1>16, <1>18, PricesAppend
    <3>2. N \in 0..N
      BY <1>18
    <3> QED BY <1>21, <3>1, <3>2
  <2> QED BY <1>20, <2>1
<1>23. ASSUME NEW s \in Symbol PROVE Tracks(sma[s], Prices(taken, s)[N])
  BY <1>17, <1>18 DEF CrossInv, SmaOK
<1>24. Tracks(sma[symbol], before)
  BY <1>10, <1>20, <1>23
<1>25. Tracks(updated, Append(before, price))
  BY <1>4, <1>10, <1>22, <1>24, UpdateTracks
<1>26. HeardOK'
  <2>1. /\ Append(ids, id) \in Seq(Nat) /\ Len(Append(ids, id)) = Len(ids) + 1
        /\ Append(ids, id)[Len(ids) + 1] = id
        /\ \A n \in 1..Len(ids) : Append(ids, id)[n] = ids[n]
    BY <1>10, AppendPrice
  <2>2. PICK new : new = Append(ids, id)
    OBVIOUS
  <2>3. PICK L \in Nat : L = Len(ids)
    OBVIOUS
  <2>4. new \in Seq(Nat) /\ Len(new) = L + 1
    BY <2>1, <2>2, <2>3
  <2>5. ASSUME NEW n \in 1..Len(new) PROVE new[n] \in 1..Len(market)
    <3>1. n \in 1..L \/ n = L + 1
      BY <2>3, <2>4
    <3> QED BY <1>9, <1>12, <2>1, <2>2, <2>3, <3>1
  <2>6. heard' = new /\ sent'.market = market
    BY <1>6, <1>8, <1>11, <2>2
  <2>7. since' \in 0..Len(sent'.alpha)
    BY <1>6 DEF CrossInv, HeardOK
  <2> QED BY <2>4, <2>5, <2>6, <2>7 DEF HeardOK, Ids
<1>27. SmaOK'
  <2>1. ASSUME NEW s \in Symbol PROVE Tracks(sma'[s], Prices(more, s)[N + 1])
    <3>1. CASE s = symbol
      <4>1. sma'[s] = updated
        BY <1>6, <1>10, <3>1 DEF TradingInv, Types
      <4> QED BY <1>22, <1>25, <3>1, <4>1
    <3>2. CASE s # symbol
      <4>1. sma'[s] = sma[s]
        BY <1>6, <3>2 DEF TradingInv, Types
      <4> QED BY <1>22, <1>23, <3>2, <4>1
    <3> QED BY <3>1, <3>2
  <2>2. Symbol' = Symbol
    BY <1>6 DEF Symbol
  <2>3. \A s \in Symbol' : Tracks(sma'[s], Prices(Taken', s)[Len(Taken')])
    BY <1>17, <1>19, <2>1, <2>2
  <2> QED BY <2>3 DEF SmaOK, Tracks, Windowed
<1>28. PICK published : published = SubSeq(sent.alpha, since + 1, Len(sent.alpha))
  OBVIOUS
<1>29. published \o <<>> = published /\ published \o <<signal>> = Append(published, signal)
  <2>1. PICK S : S = SignalType \cup {signal}
    OBVIOUS
  <2>2. PICK alpha : alpha = sent.alpha
    OBVIOUS
  <2>3. alpha \in Seq(SignalType)
    BY <2>2 DEF TradingInv, Types, Topic, MessageType
  <2>4. alpha \in Seq(S) /\ signal \in S
    BY <2>1, <2>3
  <2>5. since \in 0..Len(alpha)
    BY <2>2 DEF CrossInv, HeardOK
  <2>6. published \in Seq(S)
    BY <1>28, <2>2, <2>4, <2>5
  <2> QED BY <2>4, <2>6
<1>30. Signalled = published
  BY <1>7, <1>28, <1>29 DEF Signalled
<1>31. published = Crossings(taken)[N]
  BY <1>7, <1>17, <1>18, <1>30 DEF CrossInv, SignalsAreCrossovers
<1>32. PICK now : now = Classification(Append(before, price))
  OBVIOUS
<1>33. /\ updated.last_position = now
       /\ sma[symbol].last_position = Classification(before)
  BY <1>24, <1>25, <1>32 DEF Tracks
<1>34. Crossings(more)[N + 1] = IF now = Classification(before) THEN published
                                ELSE Append(published, signal)
  BY <1>5, <1>14, <1>16, <1>18, <1>20, <1>21, <1>31, <1>32, <1>33, CrossingsAppend
<1>35. Signalled' = Crossings(more)[N + 1]
  <2>1. CASE now = Classification(before)
    <3>1. phase' = phase /\ hand' = hand
      BY <1>6, <1>33, <2>1
    <3>2. Signalled' = Signalled
      BY <1>6, <3>1 DEF Signalled
    <3> QED BY <1>30, <1>34, <2>1, <3>2
  <2>2. CASE now # Classification(before)
    <3>1. hand' = [hand EXCEPT !["momentum"] = signal] /\ Goto("momentum", "publish")
      BY <1>6, <1>33, <2>2
    <3>2. hand'["momentum"] = signal /\ phase'["momentum"] = "publish"
      BY <3>1 DEF TradingInv, Types, Goto, Agent, Listener
    <3>3. Signalled' = published \o <<signal>>
      BY <1>6, <1>28, <3>2 DEF Signalled
    <3> QED BY <1>29, <1>34, <2>2, <3>3
  <2> QED BY <2>1, <2>2
<1> QED BY <1>17, <1>19, <1>26, <1>27, <1>35 DEF CrossInv, SignalsAreCrossovers

(* The instance ends, or fails.                                            *)
LEMMA MomentumEnds ==
  ASSUME TradingInv, CrossInv, Breaks("momentum") \/ Fail("momentum")
  PROVE  CrossInv'
<1>1. /\ heard' = heard /\ since' = since /\ sma' = sma /\ fixture' = fixture
      /\ sent' = sent
  BY DEF Breaks, Fail
<1>2. phase'["momentum"] \in {"down", "done"}
  BY DEF TradingInv, Types, Breaks, Fail, Goto, Agent, Listener
<1>3. Grows
  BY <1>1, QuietStep DEF TradingInv
<1> QED BY <1>1, <1>2, <1>3, CrossFrame

(* It holds at first, ...                                                  *)
LEMMA CrossInit == TradingInv /\ Init => CrossInv
<1> SUFFICES ASSUME TradingInv, Init PROVE CrossInv
  OBVIOUS
<1>1. /\ heard = <<>> /\ since = 0 /\ sma = [s \in Symbol |-> FreshSma]
      /\ phase["momentum"] = "down"
  BY DEF Init, Agent, Listener
<1>2. sent.market \in Seq(FixtureRow) /\ sent.alpha \in Seq(SignalType)
  BY DEF TradingInv, Types, Topic, MessageType
<1>3. HeardOK
  BY <1>1, <1>2 DEF HeardOK, Ids
<1>4. PICK taken : taken = TakenFrom(sent.market, <<>>)
  OBVIOUS
<1>5. Taken = taken
  BY <1>1, <1>4 DEF Taken, TakenFrom
<1>6. taken \in Seq(Bar) /\ Len(taken) = 0
  BY <1>2, <1>4, NoneHeard
<1>7. SmaOK
  BY <1>1, <1>5, <1>6, NothingTaken, FreshTracks DEF SmaOK
<1> QED BY <1>1, <1>3, <1>7 DEF CrossInv, SignalsAreCrossovers

(* ... and every step keeps it.                                            *)
LEMMA CrossStep ==
  ASSUME TradingInv, TradingInv', CrossInv, [Next]_vars
  PROVE  CrossInv'
<1>1. CASE Collector \/ OnAlpha \/ Executor
  BY <1>1, OthersStep
<1>2. CASE \E a \in Listener : Subscribe(a)
  BY <1>2, OthersStep, MomentumBegins DEF Listener
<1>3. CASE \E a \in {"momentum", "blender"} : Breaks(a) \/ PublishSignal(a)
  BY <1>3, OthersStep, MomentumEnds, MomentumPublishes
<1>4. CASE OnPrice
  BY <1>4, MomentumTakes
<1>5. CASE \E a \in Agent : Fail(a)
  BY <1>5, OthersStep, MomentumEnds DEF Agent, Listener
<1>6. CASE (\E process \in {"core", "logic"} : Cancel(process)) \/ UNCHANGED vars
  BY <1>6, OthersStep
<1> QED BY <1>1, <1>2, <1>3, <1>4, <1>5, <1>6 DEF Next

(* The running sums of an instance are the sums of the latest prices of    *)
(* each symbol, and its last position the side they are on, so that what   *)
(* it has signalled, with what is in its hand, is every change of side over *)
(* the prices it has taken, in their order: for any files, windows, losses, *)
(* failures and restarts.                                                  *)
THEOREM TradingCrossovers == Spec => []SignalsAreCrossovers
<1>1. CrossInv => SignalsAreCrossovers
  BY DEF CrossInv
<1> QED BY <1>1, CrossInit, CrossStep, TradingInvariant, PTL DEF Spec
=================================================================================
