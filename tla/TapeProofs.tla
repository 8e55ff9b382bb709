------------------------------ MODULE TapeProofs ------------------------------
(***************************************************************************)
(* Proofs about the tape recorder of Tape.tla, for any size of the batch,  *)
(* the channel and the inbox and any number of messages.                   *)
(***************************************************************************)
EXTENDS TapeProps, SequenceTheorems, TLAPS

-----------------------------------------------------------------------------
(* Facts about sequences of rows.                                          *)

(* The rows of an empty sequence, and of any.                              *)
LEMMA RowsEmpty ==
  ASSUME NEW s \in Seq(Message)
  PROVE  /\ RowsOf(<<>>) = {} /\ Increasing(<<>>) /\ <<>> \in Seq(Message)
         /\ Len(<<>>) = 0 /\ Len(s) \in Nat /\ DOMAIN s = 1 .. Len(s)
         /\ s = <<>> <=> Len(s) = 0
         /\ s = <<>> <=> RowsOf(s) = {}
         /\ RowsOf(s) \subseteq Message
<1>1. /\ Len(s) \in Nat /\ DOMAIN s = 1 .. Len(s)
      /\ s = <<>> <=> Len(s) = 0
      /\ \A i \in DOMAIN s : s[i] \in Message
  BY EmptySeq
<1>2. RowsOf(<<>>) = {} /\ Increasing(<<>>) /\ <<>> \in Seq(Message) /\ Len(<<>>) = 0
  BY DEF RowsOf, Increasing
<1>3. RowsOf(s) = {} => s = <<>>
  <2>1. ASSUME s # <<>> PROVE s[1] \in RowsOf(s)
    BY <1>1, <2>1 DEF RowsOf
  <2> QED
    BY <2>1
<1>4. RowsOf(s) \subseteq Message
  BY <1>1 DEF RowsOf
<1> QED
  BY <1>1, <1>2, <1>3, <1>4

(* The rows of two sequences, one after the other.                         *)
LEMMA RowsConcat ==
  ASSUME NEW s \in Seq(Message), NEW t \in Seq(Message)
  PROVE  /\ s \o t \in Seq(Message)
         /\ Len(s \o t) = Len(s) + Len(t)
         /\ RowsOf(s \o t) = RowsOf(s) \cup RowsOf(t)
         /\ Increasing(s) /\ Increasing(t) /\ Before(RowsOf(s), RowsOf(t))
              => Increasing(s \o t)
<1> DEFINE u == s \o t
<1>1. /\ u \in Seq(Message) /\ Len(u) = Len(s) + Len(t)
      /\ Len(s) \in Nat /\ Len(t) \in Nat
      /\ DOMAIN u = 1 .. Len(s) + Len(t) /\ DOMAIN s = 1 .. Len(s) /\ DOMAIN t = 1 .. Len(t)
      /\ \A i \in 1 .. Len(s) : u[i] = s[i]
      /\ \A i \in 1 .. Len(s) + Len(t) : i > Len(s) => u[i] = t[i - Len(s)]
  OBVIOUS
<1> HIDE DEF u
<1>2. RowsOf(u) = RowsOf(s) \cup RowsOf(t)
  <2>1. ASSUME NEW i \in DOMAIN u PROVE u[i] \in RowsOf(s) \cup RowsOf(t)
    <3>1. CASE i <= Len(s)
      <4>1. i \in DOMAIN s /\ u[i] = s[i]
        BY <1>1, <3>1
      <4> QED
        BY <4>1 DEF RowsOf
    <3>2. CASE i > Len(s)
      <4>1. i - Len(s) \in DOMAIN t /\ u[i] = t[i - Len(s)]
        BY <1>1, <3>2
      <4> QED
        BY <4>1 DEF RowsOf
    <3> QED
      BY <1>1, <3>1, <3>2
  <2>2. ASSUME NEW i \in DOMAIN t PROVE t[i] \in RowsOf(u)
    <3>1. i + Len(s) \in DOMAIN u /\ u[i + Len(s)] = t[i]
      BY <1>1
    <3> QED
      BY <3>1 DEF RowsOf
  <2>3. RowsOf(s) \subseteq RowsOf(u)
    BY <1>1 DEF RowsOf
  <2> QED
    BY <2>1, <2>2, <2>3 DEF RowsOf
<1>3. ASSUME Increasing(s), Increasing(t), Before(RowsOf(s), RowsOf(t))
      PROVE  Increasing(u)
  <2> SUFFICES ASSUME NEW i \in DOMAIN u, NEW j \in DOMAIN u, i < j
               PROVE  u[i] < u[j]
    BY DEF Increasing
  <2>1. CASE j <= Len(s)
    BY <1>1, <1>3, <2>1 DEF Increasing
  <2>2. CASE i > Len(s)
    <3>1. /\ i - Len(s) \in DOMAIN t /\ j - Len(s) \in DOMAIN t
          /\ u[i] = t[i - Len(s)] /\ u[j] = t[j - Len(s)]
          /\ i - Len(s) < j - Len(s)
      <4>1. j > Len(s) /\ i \in Nat /\ j \in Nat /\ i <= Len(u) /\ j <= Len(u)
        BY <1>1, <2>2
      <4>2. i - Len(s) \in 1 .. Len(t) /\ j - Len(s) \in 1 .. Len(t)
        BY <1>1, <2>2, <4>1
      <4>3. u[i] = t[i - Len(s)]
        BY <1>1, <2>2, <4>1
      <4>4. u[j] = t[j - Len(s)]
        BY <1>1, <4>1
      <4> QED
        BY <1>1, <4>1, <4>2, <4>3, <4>4
    <3> QED
      BY <1>3, <3>1 DEF Increasing
  <2>3. CASE i <= Len(s) /\ j > Len(s)
    <3>1. /\ i \in DOMAIN s /\ j - Len(s) \in DOMAIN t
          /\ u[i] = s[i] /\ u[j] = t[j - Len(s)]
      BY <1>1, <2>3
    <3>2. s[i] \in RowsOf(s) /\ t[j - Len(s)] \in RowsOf(t)
      BY <3>1 DEF RowsOf
    <3> QED
      BY <1>3, <3>1, <3>2 DEF Before
  <2> QED
    BY <2>1, <2>2, <2>3, <1>1
<1> QED
  BY <1>1, <1>2, <1>3 DEF u

(* The row of a single message.                                            *)
LEMMA RowsSingle ==
  ASSUME NEW x \in Message
  PROVE  /\ <<x>> \in Seq(Message) /\ Len(<<x>>) = 1 /\ <<x>> # <<>>
         /\ RowsOf(<<x>>) = {x} /\ Increasing(<<x>>)
<1>1. <<x>> \in Seq(Message) /\ Len(<<x>>) = 1 /\ DOMAIN <<x>> = {1} /\ <<x>>[1] = x
  OBVIOUS
<1>2. RowsOf(<<x>>) = {x} /\ Increasing(<<x>>)
  BY <1>1 DEF RowsOf, Increasing
<1> QED
  BY <1>1, <1>2

(* The rows when a message is added.                                       *)
LEMMA RowsAppend ==
  ASSUME NEW s \in Seq(Message), NEW x \in Message
  PROVE  /\ Append(s, x) \in Seq(Message)
         /\ Append(s, x) # <<>>
         /\ Len(Append(s, x)) = Len(s) + 1
         /\ RowsOf(Append(s, x)) = RowsOf(s) \cup {x}
         /\ Increasing(s) /\ Before(RowsOf(s), {x}) => Increasing(Append(s, x))
<1>1. Append(s, x) = s \o <<x>>
  BY AppendIsConcat
<1>2. Append(s, x) # <<>> /\ Len(Append(s, x)) = Len(s) + 1
  BY AppendProperties
<1> QED
  BY <1>1, <1>2, RowsConcat, RowsSingle

(* The rows when the first one is taken.                                   *)
LEMMA RowsTail ==
  ASSUME NEW s \in Seq(Message), s # <<>>
  PROVE  /\ Head(s) \in Message /\ Tail(s) \in Seq(Message)
         /\ Len(Tail(s)) = Len(s) - 1
         /\ RowsOf(s) = {Head(s)} \cup RowsOf(Tail(s))
         /\ Increasing(s) => Increasing(Tail(s)) /\ Before({Head(s)}, RowsOf(Tail(s)))
<1> DEFINE t == Tail(s)
<1>1. /\ Head(s) \in Message /\ t \in Seq(Message)
      /\ Len(s) \in Nat /\ Len(s) > 0 /\ Len(t) = Len(s) - 1
      /\ DOMAIN s = 1 .. Len(s) /\ DOMAIN t = 1 .. Len(s) - 1
      /\ Head(s) = s[1] /\ \A i \in 1 .. Len(s) - 1 : t[i] = s[i + 1]
  BY HeadTailProperties, EmptySeq
<1> HIDE DEF t
<1>2. RowsOf(s) = {Head(s)} \cup RowsOf(t)
  <2>1. ASSUME NEW i \in DOMAIN s PROVE s[i] \in {Head(s)} \cup RowsOf(t)
    <3>1. CASE i = 1
      BY <1>1, <3>1
    <3>2. CASE i # 1
      <4>1. i - 1 \in DOMAIN t /\ t[i - 1] = s[i]
        BY <1>1, <3>2
      <4> QED
        BY <4>1 DEF RowsOf
    <3> QED
      BY <3>1, <3>2
  <2>2. ASSUME NEW i \in DOMAIN t PROVE t[i] \in RowsOf(s)
    <3>1. i + 1 \in DOMAIN s /\ t[i] = s[i + 1]
      BY <1>1
    <3> QED
      BY <3>1 DEF RowsOf
  <2>3. Head(s) \in RowsOf(s)
    BY <1>1 DEF RowsOf
  <2> QED
    BY <2>1, <2>2, <2>3 DEF RowsOf
<1>3. ASSUME Increasing(s) PROVE Increasing(t) /\ Before({Head(s)}, RowsOf(t))
  <2>1. Increasing(t)
    BY <1>1, <1>3 DEF Increasing
  <2>2. ASSUME NEW i \in DOMAIN t PROVE Head(s) < t[i]
    BY <1>1, <1>3 DEF Increasing
  <2> QED
    BY <2>1, <2>2 DEF Before, RowsOf
<1> QED
  BY <1>1, <1>2, <1>3 DEF t

-----------------------------------------------------------------------------
(* Facts about numbers on their way through the places.                    *)

(* A publication comes after everything that is queued.                    *)
LEMMA QueuedPublish ==
  ASSUME NEW t \in SUBSET Message, NEW b \in SUBSET Message, NEW u \in SUBSET Message,
         NEW c \in SUBSET Message, NEW h \in SUBSET Message, NEW i \in SUBSET Message,
         NEW last \in Nat, Queued(t, b, u, c, h, i, last),
         NEW next, next \subseteq i \cup {last + 1}
  PROVE  Queued(t, b, u, c, h, next, last + 1)
<1>1. \A x \in Message : x \in Nat
  BY DEF Message
<1>2. \A x \in t \cup b \cup u \cup c \cup h \cup i : x \in Nat /\ x <= last
  BY <1>1 DEF Queued
<1> QED
  BY <1>2 DEF Queued, Before

-----------------------------------------------------------------------------
(* Type correctness and the places of the two tasks.                       *)

(* The invariant holds initially.                                          *)
LEMMA InitialState == Init => TapeInv
<1> SUFFICES ASSUME Init PROVE TapeInv
  OBVIOUS
<1>1. /\ table = <<>> /\ batch = <<>> /\ buffer = <<>> /\ channel = <<>>
      /\ hand = <<>> /\ inbox = <<>>
  BY DEF Init
<1>2. /\ <<>> \in Seq(Message) /\ RowsOf(<<>>) = {} /\ Increasing(<<>>) /\ Len(<<>>) = 0
  BY RowsEmpty, EmptySeq
<1>3. TypeOK
  <2>1. 0 \in 0 .. MaxMessages /\ 0 <= InboxSize /\ 0 <= 1 /\ 0 <= ChannelSize
        /\ 0 < BatchSize /\ 0 <= BatchSize
    BY TapeAssumption
  <2> QED
    BY <1>1, <1>2, <2>1, Zenon DEF Init, TypeOK
<1>4. Accounted
  BY <1>1, <1>2 DEF Init, Accounted, InMemory
<1>5. Ordered
  BY <1>1, <1>2 DEF Ordered, Queued, Before
<1>6. Places
  BY <1>1 DEF Init, Places
<1> QED
  BY <1>3, <1>4, <1>5, <1>6 DEF TapeInv

(* The rows in the recorder, as sequences and as sets.                     *)
LEMMA PlacesTyped ==
  ASSUME TypeOK
  PROVE  /\ table \in Seq(Message) /\ RowsOf(table) \in SUBSET Message
         /\ batch \in Seq(Message) /\ RowsOf(batch) \in SUBSET Message
         /\ buffer \in Seq(Message) /\ RowsOf(buffer) \in SUBSET Message
         /\ channel \in Seq(Message) /\ RowsOf(channel) \in SUBSET Message
         /\ hand \in Seq(Message) /\ RowsOf(hand) \in SUBSET Message
         /\ inbox \in Seq(Message) /\ RowsOf(inbox) \in SUBSET Message
         /\ Len(table) \in Nat /\ Len(batch) \in Nat /\ Len(buffer) \in Nat
         /\ Len(channel) \in Nat /\ Len(hand) \in Nat /\ Len(inbox) \in Nat
         /\ published \in Nat
<1>1. /\ table \in Seq(Message) /\ batch \in Seq(Message) /\ buffer \in Seq(Message)
      /\ channel \in Seq(Message) /\ hand \in Seq(Message) /\ inbox \in Seq(Message)
      /\ published \in Nat
  BY TapeAssumption DEF TypeOK
<1> QED
  BY <1>1, RowsEmpty, Zenon

(* A publication reaches the inbox or is lost.                             *)
LEMMA PublishStep ==
  ASSUME TapeInv, Publish
  PROVE  TapeInv'
<1> USE DEF TapeInv
<1>1. published + 1 \in Message /\ published \in Nat /\ published < MaxMessages
  BY TapeAssumption DEF Publish, TypeOK, Message
<1>2. /\ published' = published + 1
      /\ UNCHANGED <<up, stopping, hand, subscriber, channel, batcher, buffer, batch,
                     table, accepted, lost, cut>>
  BY DEF Publish
<1>3. \/ inbox' = inbox
      \/ /\ inbox' = Append(inbox, published + 1)
         /\ subscriber # "ended" /\ Len(inbox) < InboxSize
  BY DEF Publish
<1>4. /\ Append(inbox, published + 1) \in Seq(Message)
      /\ Len(Append(inbox, published + 1)) = Len(inbox) + 1
      /\ RowsOf(Append(inbox, published + 1)) = RowsOf(inbox) \cup {published + 1}
      /\ Before(RowsOf(inbox), {published + 1}) => Increasing(Append(inbox, published + 1))
  BY <1>1, RowsAppend DEF TypeOK, Ordered
<1>5. TypeOK'
  <2>1. inbox' \in Seq(Message) /\ Len(inbox') <= InboxSize
    <3>1. inbox \in Seq(Message) /\ Len(inbox) <= InboxSize /\ Len(inbox) \in Nat
      BY PlacesTyped DEF TypeOK
    <3> QED
      BY <1>3, <1>4, <3>1, TapeAssumption
  <2>2. published' \in 0 .. MaxMessages
    BY <1>1, <1>2, TapeAssumption
  <2> QED
    BY <1>2, <2>1, <2>2 DEF TypeOK
<1>6. Accounted'
  BY <1>2 DEF Accounted, InMemory, RowsOf
<1>7. Ordered'
  <2>1. Before(RowsOf(inbox), {published + 1})
    BY <1>1, PlacesTyped DEF Ordered, Queued, Before, Message
  <2>2. Increasing(inbox') /\ RowsOf(inbox') \subseteq RowsOf(inbox) \cup {published + 1}
    BY <1>3, <1>4, <2>1 DEF Ordered
  <2>4. Queued(RowsOf(table), RowsOf(batch), RowsOf(buffer), RowsOf(channel), RowsOf(hand),
               RowsOf(inbox'), published + 1)
    <3>1. Queued(RowsOf(table), RowsOf(batch), RowsOf(buffer), RowsOf(channel), RowsOf(hand),
                 RowsOf(inbox), published)
      BY DEF Ordered
    <3> QED
      BY <2>2, <3>1, QueuedPublish, PlacesTyped
  <2> QED
    BY <1>2, <2>2, <2>4 DEF Ordered
<1>8. Places'
  BY <1>2, <1>3 DEF Places
<1> QED
  BY <1>5, <1>6, <1>7, <1>8

(* A row moves from the inbox to the hand.                                 *)
LEMMA TakeStep ==
  ASSUME TapeInv, Take
  PROVE  TapeInv'
<1> DEFINE x == Head(inbox)  rest == Tail(inbox)
<1>1. TypeOK /\ Accounted /\ Ordered /\ Places
  BY DEF TapeInv
<1>2. /\ inbox # <<>> /\ inbox' = rest /\ hand' = <<x>> /\ hand = <<>>
      /\ subscriber = "next" /\ subscriber' = "send"
      /\ UNCHANGED <<up, stopping, published, channel, batcher, buffer, batch, table,
                     accepted, lost, cut>>
  BY <1>1 DEF Take, Places
<1>3. /\ x \in Message /\ rest \in Seq(Message) /\ Len(rest) = Len(inbox) - 1
      /\ RowsOf(inbox) = {x} \cup RowsOf(rest)
      /\ Increasing(rest) /\ Before({x}, RowsOf(rest))
  BY <1>1, <1>2, PlacesTyped, RowsTail DEF Ordered
<1>4. /\ <<x>> \in Seq(Message) /\ Len(<<x>>) = 1 /\ <<x>> # <<>>
      /\ RowsOf(<<x>>) = {x} /\ Increasing(<<x>>) /\ RowsOf(<<>>) = {}
  BY <1>3, RowsSingle, RowsEmpty, PlacesTyped, <1>1
<1> HIDE DEF x, rest
<1>5. TypeOK'
  <2>1. Len(rest) <= InboxSize /\ Len(<<x>>) <= 1
    BY <1>1, <1>3, <1>4, PlacesTyped, TapeAssumption DEF TypeOK
  <2> QED
    BY <1>1, <1>2, <1>3, <1>4, <2>1 DEF TypeOK
<1>6. Accounted'
  BY <1>1, <1>2 DEF Accounted, InMemory
<1>7. Ordered'
  <2>1. Queued(RowsOf(table), RowsOf(batch), RowsOf(buffer), RowsOf(channel), {x},
               RowsOf(rest), published)
    BY <1>1, <1>2, <1>3, <1>4 DEF Ordered, Queued, Before
  <2> QED
    BY <1>1, <1>2, <1>3, <1>4, <2>1 DEF Ordered
<1>8. Places'
  BY <1>1, <1>2, <1>4 DEF Places
<1> QED
  BY <1>5, <1>6, <1>7, <1>8 DEF TapeInv

(* A row moves from the hand to the channel, which has room for it.        *)
LEMMA SendStep ==
  ASSUME TapeInv, Send
  PROVE  TapeInv'
<1> DEFINE more == channel \o hand
<1>1. TypeOK /\ Accounted /\ Ordered /\ Places
  BY DEF TapeInv
<1>2. /\ subscriber = "send" /\ subscriber' = "next" /\ hand # <<>> /\ hand' = <<>>
      /\ channel' = more /\ Len(channel) < ChannelSize
      /\ accepted' = accepted \cup RowsOf(hand)
      /\ UNCHANGED <<up, stopping, published, inbox, batcher, buffer, batch, table, lost, cut>>
  BY <1>1 DEF Send, Places
<1>3. Before(RowsOf(channel), RowsOf(hand))
  BY <1>1 DEF Ordered, Queued, Before
<1>4. /\ more \in Seq(Message) /\ Len(more) = Len(channel) + Len(hand)
      /\ RowsOf(more) = RowsOf(channel) \cup RowsOf(hand)
      /\ Increasing(more)
  BY <1>1, <1>3, PlacesTyped, RowsConcat DEF Ordered
<1>5. /\ RowsOf(<<>>) = {} /\ Increasing(<<>>) /\ <<>> \in Seq(Message) /\ Len(<<>>) = 0
  BY <1>1, PlacesTyped, RowsEmpty
<1> HIDE DEF more
<1>6. TypeOK'
  <2>1. Len(more) <= ChannelSize /\ 0 <= 1
    BY <1>1, <1>2, <1>4, PlacesTyped, TapeAssumption DEF TypeOK
  <2>2. accepted' \subseteq Message
    BY <1>1, <1>2, PlacesTyped DEF TypeOK
  <2> QED
    BY <1>1, <1>2, <1>4, <1>5, <2>1, <2>2 DEF TypeOK
<1>7. Accounted'
  BY <1>1, <1>2, <1>4 DEF Accounted, InMemory
<1>8. Ordered'
  <2>1. Queued(RowsOf(table), RowsOf(batch), RowsOf(buffer), RowsOf(more), {},
               RowsOf(inbox), published)
    BY <1>1, <1>4 DEF Ordered, Queued, Before
  <2> QED
    BY <1>1, <1>2, <1>4, <1>5, <2>1 DEF Ordered
<1>9. Places'
  BY <1>1, <1>2 DEF Places
<1> QED
  BY <1>6, <1>7, <1>8, <1>9 DEF TapeInv

(* The subscriber is gone with what it had not sent.                       *)
LEMMA GoneStep ==
  ASSUME TapeInv, Gone
  PROVE  TapeInv'
<1>1. TypeOK /\ Accounted /\ Ordered /\ Places
  BY DEF TapeInv
<1>2. /\ subscriber' = "ended" /\ hand' = <<>> /\ inbox' = <<>>
      /\ UNCHANGED <<up, stopping, published, channel, batcher, buffer, batch, table,
                     accepted, lost, cut>>
  BY DEF Gone
<1>3. /\ RowsOf(<<>>) = {} /\ Increasing(<<>>) /\ <<>> \in Seq(Message) /\ Len(<<>>) = 0
      /\ 0 <= InboxSize /\ 0 <= 1
  BY <1>1, PlacesTyped, RowsEmpty, TapeAssumption
<1>4. TypeOK'
  BY <1>1, <1>2, <1>3 DEF TypeOK
<1>5. Accounted'
  BY <1>1, <1>2 DEF Accounted, InMemory
<1>6. Ordered'
  <2>1. Queued(RowsOf(table), RowsOf(batch), RowsOf(buffer), RowsOf(channel), {}, {}, published)
    BY <1>1 DEF Ordered, Queued, Before
  <2> QED
    BY <1>1, <1>2, <1>3, <2>1 DEF Ordered
<1>7. Places'
  BY <1>1, <1>2 DEF Places
<1> QED
  BY <1>4, <1>5, <1>6, <1>7 DEF TapeInv

(* The buffer, or the buffer and one row, becomes the batch.               *)
LEMMA ReceiveStep ==
  ASSUME TapeInv, Receive
  PROVE  TapeInv'
<1> DEFINE x == Head(channel)  rest == Tail(channel)  more == Append(buffer, x)
<1>1. TypeOK /\ Accounted /\ Ordered /\ Places
  BY DEF TapeInv
<1>2. /\ channel # <<>> /\ channel' = rest /\ batcher = "select" /\ batch = <<>>
      /\ UNCHANGED <<up, stopping, published, inbox, hand, subscriber, table,
                     accepted, lost, cut>>
  BY <1>1 DEF Receive, Places
<1>3. \/ /\ Len(more) >= BatchSize
         /\ batch' = more /\ buffer' = <<>> /\ batcher' = "insert"
      \/ /\ ~(Len(more) >= BatchSize)
         /\ buffer' = more /\ batch' = batch /\ batcher' = batcher
  BY DEF Receive, Flush
<1>4. /\ x \in Message /\ rest \in Seq(Message) /\ Len(rest) = Len(channel) - 1
      /\ RowsOf(channel) = {x} \cup RowsOf(rest)
      /\ Increasing(rest) /\ Before({x}, RowsOf(rest))
  BY <1>1, <1>2, PlacesTyped, RowsTail DEF Ordered
<1>5. Before(RowsOf(buffer), {x})
  BY <1>1, <1>4 DEF Ordered, Queued, Before
<1>6. /\ more \in Seq(Message) /\ more # <<>> /\ Len(more) = Len(buffer) + 1
      /\ RowsOf(more) = RowsOf(buffer) \cup {x} /\ Increasing(more)
  <2> HIDE DEF x
  <2> QED
    BY <1>1, <1>4, <1>5, PlacesTyped, RowsAppend DEF Ordered
<1>7. /\ RowsOf(<<>>) = {} /\ Increasing(<<>>) /\ <<>> \in Seq(Message) /\ Len(<<>>) = 0
  BY <1>1, PlacesTyped, RowsEmpty
<1> HIDE DEF x, rest, more
<1>8. TypeOK'
  <2>1. /\ Len(rest) <= ChannelSize /\ Len(more) <= BatchSize
        /\ Len(more) >= BatchSize \/ Len(more) < BatchSize
        /\ 0 < BatchSize /\ 0 <= BatchSize
    BY <1>1, <1>4, <1>6, PlacesTyped, TapeAssumption DEF TypeOK
  <2> QED
    BY <1>1, <1>2, <1>3, <1>4, <1>6, <1>7, <2>1 DEF TypeOK
<1>9. Accounted'
  BY <1>1, <1>2, <1>3, <1>4, <1>6, <1>7 DEF Accounted, InMemory
<1>10. Ordered'
  <2>1. /\ Queued(RowsOf(table), RowsOf(more), {}, RowsOf(rest), RowsOf(hand),
                  RowsOf(inbox), published)
        /\ Queued(RowsOf(table), {}, RowsOf(more), RowsOf(rest), RowsOf(hand),
                  RowsOf(inbox), published)
    BY <1>1, <1>4, <1>6 DEF Ordered, Queued, Before
  <2> QED
    BY <1>1, <1>2, <1>3, <1>4, <1>6, <1>7, <2>1 DEF Ordered
<1>11. Places'
  BY <1>1, <1>2, <1>3, <1>6 DEF Places
<1> QED
  BY <1>8, <1>9, <1>10, <1>11 DEF TapeInv

(* The buffer becomes the batch.                                           *)
LEMMA FlushStep ==
  ASSUME TapeInv, TimerFlush \/ ChannelClosed
  PROVE  TapeInv'
<1>1. TypeOK /\ Accounted /\ Ordered /\ Places
  BY DEF TapeInv
<1>2. /\ batcher = "select" /\ batch = <<>>
      /\ UNCHANGED <<up, stopping, published, inbox, hand, subscriber, channel, table,
                     accepted, lost, cut>>
  BY <1>1 DEF TimerFlush, ChannelClosed, Places
<1>3. \/ /\ buffer # <<>> /\ batch' = buffer /\ buffer' = <<>>
         /\ \/ batcher' = "insert"
            \/ batcher' = "last_insert" /\ subscriber = "ended" /\ channel = <<>>
      \/ /\ buffer = <<>> /\ batch' = batch /\ buffer' = buffer /\ batcher' = "returned"
         /\ subscriber = "ended" /\ channel = <<>>
  BY DEF TimerFlush, ChannelClosed, Flush
<1>4. /\ RowsOf(<<>>) = {} /\ Increasing(<<>>) /\ <<>> \in Seq(Message) /\ Len(<<>>) = 0
      /\ 0 < BatchSize /\ Len(buffer) <= BatchSize
  BY <1>1, PlacesTyped, RowsEmpty, TapeAssumption DEF TypeOK
<1>5. TypeOK'
  BY <1>1, <1>2, <1>3, <1>4 DEF TypeOK
<1>6. Accounted'
  BY <1>1, <1>2, <1>3, <1>4 DEF Accounted, InMemory
<1>7. Ordered'
  <2>1. Queued(RowsOf(table), RowsOf(buffer), {}, RowsOf(channel), RowsOf(hand),
               RowsOf(inbox), published)
    BY <1>1 DEF Ordered, Queued, Before
  <2> QED
    BY <1>1, <1>2, <1>3, <1>4, <2>1 DEF Ordered
<1>8. Places'
  BY <1>1, <1>2, <1>3 DEF Places
<1> QED
  BY <1>5, <1>6, <1>7, <1>8 DEF TapeInv

(* The table with the batch at its end.                                    *)
LEMMA TableWithBatch ==
  ASSUME TapeInv
  PROVE  /\ table \o batch \in Seq(Message)
         /\ Len(table \o batch) = Len(table) + Len(batch)
         /\ RowsOf(table \o batch) = RowsOf(table) \cup RowsOf(batch)
         /\ Increasing(table \o batch)
         /\ Queued(RowsOf(table \o batch), {}, RowsOf(buffer), RowsOf(channel),
                   RowsOf(hand), RowsOf(inbox), published)
<1>1. TypeOK /\ Ordered
  BY DEF TapeInv
<1>2. Before(RowsOf(table), RowsOf(batch))
  BY <1>1 DEF Ordered, Queued, Before
<1>3. /\ table \o batch \in Seq(Message)
      /\ Len(table \o batch) = Len(table) + Len(batch)
      /\ RowsOf(table \o batch) = RowsOf(table) \cup RowsOf(batch)
      /\ Increasing(table \o batch)
  BY <1>1, <1>2, PlacesTyped, RowsConcat DEF Ordered
<1>4. Queued(RowsOf(table \o batch), {}, RowsOf(buffer), RowsOf(channel),
             RowsOf(hand), RowsOf(inbox), published)
  BY <1>1, <1>3 DEF Ordered, Queued, Before
<1> QED
  BY <1>3, <1>4

(* The batch is in the table, or lost with its insert.                     *)
LEMMA InsertStep ==
  ASSUME TapeInv, InsertOk \/ InsertErr
  PROVE  TapeInv'
<1> DEFINE full == table \o batch
<1>1. TypeOK /\ Accounted /\ Ordered /\ Places
  BY DEF TapeInv
<1>2. /\ batcher \in {"insert", "last_insert"} /\ batch # <<>> /\ batch' = <<>>
      /\ \/ batcher = "insert" /\ batcher' = "select"
         \/ batcher = "last_insert" /\ batcher' = "returned"
      /\ UNCHANGED <<up, stopping, published, inbox, hand, subscriber, channel, buffer,
                     accepted, cut>>
  BY <1>1 DEF InsertOk, InsertErr, AfterInsert, Places
<1>3. \/ table' = full /\ lost' = lost
      \/ table' \in {table, full} /\ lost' = lost \cup RowsOf(batch)
  BY DEF InsertOk, InsertErr
<1>4. /\ full \in Seq(Message) /\ RowsOf(full) = RowsOf(table) \cup RowsOf(batch)
      /\ Increasing(full)
      /\ Queued(RowsOf(full), {}, RowsOf(buffer), RowsOf(channel), RowsOf(hand),
                RowsOf(inbox), published)
  BY TableWithBatch
<1>5. /\ RowsOf(<<>>) = {} /\ Increasing(<<>>) /\ <<>> \in Seq(Message) /\ Len(<<>>) = 0
      /\ 0 <= BatchSize /\ RowsOf(batch) \subseteq Message
  BY <1>1, PlacesTyped, RowsEmpty, TapeAssumption
<1> HIDE DEF full
<1>6. TypeOK'
  <2>1. table' \in Seq(Message) /\ lost' \subseteq Message
    BY <1>1, <1>3, <1>4, <1>5 DEF TypeOK
  <2>2. batch' \in Seq(Message) /\ Len(batch') <= BatchSize
    BY <1>2, <1>5
  <2>3. batcher' \in {"select", "insert", "last_insert", "returned"}
    BY <1>2
  <2> QED
    BY <1>1, <1>2, <2>1, <2>2, <2>3 DEF TypeOK
<1>7. Accounted'
  BY <1>1, <1>2, <1>3, <1>4, <1>5 DEF Accounted, InMemory
<1>8. Ordered'
  <2>1. Queued(RowsOf(table), {}, RowsOf(buffer), RowsOf(channel), RowsOf(hand),
               RowsOf(inbox), published)
    BY <1>1 DEF Ordered, Queued, Before
  <2> QED
    BY <1>1, <1>2, <1>3, <1>4, <1>5, <2>1 DEF Ordered
<1>9. Places'
  BY <1>1, <1>2 DEF Places
<1> QED
  BY <1>6, <1>7, <1>8, <1>9 DEF TapeInv

(* The process starts, is interrupted, or stops.                           *)
LEMMA MainStep ==
  ASSUME TapeInv, Start \/ Interrupt \/ Stop
  PROVE  TapeInv'
<1>1. TypeOK /\ Accounted /\ Ordered /\ Places
  BY DEF TapeInv
<1>2. UNCHANGED <<published, inbox, hand, channel, buffer, batch, table, accepted, lost, cut>>
  BY DEF Start, Interrupt, Stop, taskVars
<1>3. TypeOK'
  BY <1>1, <1>2 DEF TypeOK, Start, Interrupt, Stop, taskVars
<1>4. Accounted'
  BY <1>1, <1>2 DEF Accounted, InMemory
<1>5. Ordered'
  BY <1>1, <1>2 DEF Ordered
<1>6. Places'
  BY <1>1, <1>2 DEF Places, Start, Interrupt, Stop, taskVars
<1> QED
  BY <1>3, <1>4, <1>5, <1>6 DEF TapeInv

(* The process ends: the tasks and their rows are gone.                    *)
LEMMA DiesStep ==
  ASSUME TapeInv, Terminate \/ Crash
  PROVE  TapeInv'
<1> DEFINE full == table \o batch
<1>1. TypeOK /\ Accounted /\ Ordered /\ Places
  BY DEF TapeInv
<1>2. /\ up' = FALSE /\ stopping' = FALSE /\ subscriber' = "ended" /\ batcher' = "returned"
      /\ inbox' = <<>> /\ hand' = <<>> /\ channel' = <<>> /\ buffer' = <<>> /\ batch' = <<>>
      /\ table' \in {table, full}
      /\ UNCHANGED <<published, accepted>>
  BY DEF Terminate, Crash, Dies
<1>3. \/ lost' = lost /\ cut' = cut \cup InMemory
      \/ lost' = lost \cup InMemory /\ cut' = cut
  BY DEF Terminate, Crash
<1>4. /\ full \in Seq(Message) /\ RowsOf(full) = RowsOf(table) \cup RowsOf(batch)
      /\ Increasing(full)
      /\ Queued(RowsOf(full), {}, RowsOf(buffer), RowsOf(channel), RowsOf(hand),
                RowsOf(inbox), published)
  BY TableWithBatch
<1>5. /\ RowsOf(<<>>) = {} /\ Increasing(<<>>) /\ <<>> \in Seq(Message) /\ Len(<<>>) = 0
      /\ 0 < BatchSize /\ 0 <= BatchSize /\ 0 <= ChannelSize /\ 0 <= InboxSize /\ 0 <= 1
      /\ InMemory \subseteq Message
  BY <1>1, PlacesTyped, RowsEmpty, TapeAssumption DEF InMemory
<1> HIDE DEF full
<1>6. TypeOK'
  BY <1>1, <1>2, <1>3, <1>4, <1>5 DEF TypeOK
<1>7. Accounted'
  <2>1. InMemory' = {}
    BY <1>2, <1>5 DEF InMemory
  <2>2. /\ RowsOf(batch) \subseteq InMemory
        /\ RowsOf(table') \in {RowsOf(table), RowsOf(table) \cup RowsOf(batch)}
    BY <1>2, <1>4 DEF InMemory
  <2> QED
    BY <1>1, <1>2, <1>3, <2>1, <2>2 DEF Accounted
<1>8. Ordered'
  <2>1. /\ Queued(RowsOf(table), {}, {}, {}, {}, {}, published)
        /\ Queued(RowsOf(full), {}, {}, {}, {}, {}, published)
    BY <1>1, <1>4 DEF Ordered, Queued, Before
  <2> QED
    BY <1>1, <1>2, <1>4, <1>5, <2>1 DEF Ordered
<1>9. Places'
  BY <1>2 DEF Places
<1> QED
  BY <1>6, <1>7, <1>8, <1>9 DEF TapeInv

-----------------------------------------------------------------------------
(* The theorems.                                                           *)

(* All of main, the subscriber and the batcher keep the invariant.         *)
THEOREM TapeInvariant == Spec => []TapeInv
<1>1. Init => TapeInv
  BY InitialState
<1>2. TapeInv /\ [Next]_vars => TapeInv'
  <2> SUFFICES ASSUME TapeInv, [Next]_vars PROVE TapeInv'
    OBVIOUS
  <2>1. CASE UNCHANGED vars
    BY <2>1 DEF vars, TapeInv, TypeOK, Accounted, InMemory, Ordered, Places
  <2>2. CASE Publish
    BY <2>2, PublishStep
  <2>3. CASE Take
    BY <2>3, TakeStep
  <2>4. CASE Send
    BY <2>4, SendStep
  <2>5. CASE SubscriberAborted \/ SubscriptionCloses
    BY <2>5, GoneStep DEF SubscriberAborted, SubscriptionCloses
  <2>6. CASE Receive
    BY <2>6, ReceiveStep
  <2>7. CASE TimerFlush \/ ChannelClosed
    BY <2>7, FlushStep
  <2>8. CASE InsertOk \/ InsertErr
    BY <2>8, InsertStep
  <2>9. CASE Start \/ Interrupt \/ Stop
    BY <2>9, MainStep
  <2>10. CASE Terminate \/ Crash
    BY <2>10, DiesStep
  <2> QED
    BY <2>1, <2>2, <2>3, <2>4, <2>5, <2>6, <2>7, <2>8, <2>9, <2>10
       DEF Next, Subscriber, Batcher
<1> QED
  BY <1>1, <1>2, PTL DEF Spec

(* Type correctness, with the bounds of the channel and of the batch.      *)
THEOREM TapeTypeCorrect == Spec => []TypeOK
BY TapeInvariant, PTL DEF TapeInv

(* flush and insert_rows: no row is dropped without an error, whatever     *)
(* fails and whenever the process ends.                                    *)
THEOREM RowsAccounted == Spec => []Accounted
BY TapeInvariant, PTL DEF TapeInv

(* main.rs:105: a batcher that has returned left nothing behind.           *)
THEOREM BatcherDrains == Spec => []Drained
<1>1. TapeInv => Drained
  <2> SUFFICES ASSUME TapeInv, batcher = "returned" PROVE InMemory = {} /\ hand = <<>>
    BY DEF Drained
  <2>1. buffer = <<>> /\ batch = <<>> /\ channel = <<>> /\ hand = <<>>
    BY DEF TapeInv, Places
  <2>2. RowsOf(<<>>) = {}
    BY RowsEmpty, PlacesTyped DEF TapeInv
  <2> QED
    BY <2>1, <2>2 DEF InMemory
<1> QED
  BY <1>1, TapeInvariant, PTL

(* The table is a tape: every insert, also one whose answer was lost, adds *)
(* later messages at its end, and nothing else changes it.                 *)
THEOREM TapeImplementsLog == Spec => ImplementsTape
<1>1. Init => TapeImage!Init
  BY DEF Init, TapeImage!Init
<1>2. TapeInv /\ [Next]_vars => [TapeImage!Record]_table
  <2> SUFFICES ASSUME TapeInv, [Next]_vars, table' # table PROVE TapeImage!Record
    OBVIOUS
  <2> DEFINE full == table \o batch
  <2>1. table' = full
    BY DEF vars, Next, Publish, Subscriber, Take, Send, SubscriberAborted, SubscriptionCloses,
       Gone, Batcher, Receive, TimerFlush, ChannelClosed, InsertOk, InsertErr, Start, Interrupt,
       Stop, Terminate, Crash, Dies
  <2>2. /\ full \in Seq(Message) /\ Len(full) = Len(table) + Len(batch) /\ Increasing(full)
    BY TableWithBatch
  <2>3. /\ table \in Seq(Message) /\ batch \in Seq(Message)
        /\ Len(table) \in Nat /\ Len(batch) \in Nat /\ Len(batch) <= BatchSize
    BY PlacesTyped DEF TapeInv, TypeOK
  <2>4. batch # <<>>
    <3>1. batch = <<>> => full = table
      BY <2>3, ConcatEmptySeq
    <3> QED
      BY <2>1, <3>1
  <2>5. Len(batch) # 0
    BY <2>3, <2>4, RowsEmpty
  <2>6. Len(table') \in Len(table) + 1 .. Len(table) + BatchSize
    BY <2>1, <2>2, <2>3, <2>5, TapeAssumption
  <2>7. SubSeq(table', 1, Len(table)) = table
    BY <2>1, <2>3, SubSeqOfConcat1, SubSeqFull
  <2> HIDE DEF full
  <2> QED
    BY <2>1, <2>2, <2>6, <2>7 DEF TapeImage!Record, TapeImage!Later, Increasing
<1> QED
  BY <1>1, <1>2, TapeInvariant, PTL DEF Spec, ImplementsTape, TapeImage!Spec
===============================================================================
