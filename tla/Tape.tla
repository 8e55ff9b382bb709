-------------------------------- MODULE Tape --------------------------------
(***************************************************************************)
(* The tape recorder (core/tape-recorder): a subscriber task that sends a  *)
(* row for every message into a bounded channel, and a batcher task that   *)
(* inserts the rows by size or by time.  A message is its number in the    *)
(* order of publication; undecodable ones are rows like the others.        *)
(***************************************************************************)
EXTENDS Naturals, Sequences

CONSTANTS
  BatchSize,     \* TAPE_BATCH_SIZE
  ChannelSize,   \* capacity of the channel; main sets 4 * BatchSize
  InboxSize,     \* messages the NATS client holds for a slow subscriber
  MaxMessages    \* bound on the messages published

ASSUME TapeAssumption ==
  /\ BatchSize \in Nat \ {0} /\ ChannelSize \in Nat \ {0}
  /\ InboxSize \in Nat \ {0} /\ MaxMessages \in Nat

VARIABLES
  up,         \* the process runs
  stopping,   \* main has received the signal and aborts the subscriber
  published,  \* the number of messages published
  inbox,      \* messages the subscription holds
  hand,       \* the row the subscriber is sending, if any
  subscriber, \* where the subscriber task is
  channel,    \* rows in the channel
  batcher,    \* where the batcher task is
  buffer,     \* rows received and not yet flushed
  batch,      \* rows of the insert under way
  table,      \* rows in ClickHouse
  accepted,   \* history: rows that entered the channel
  lost,       \* history: rows whose insert reported an error, or that were in a crash
  cut         \* history: rows that a SIGTERM found in the process

taskVars == <<inbox, hand, subscriber, channel, batcher, buffer, batch>>
vars == <<up, stopping, published, inbox, hand, subscriber, channel, batcher,
          buffer, batch, table, accepted, lost, cut>>

RowsOf(rows) == {rows[i] : i \in DOMAIN rows}

InMemory == RowsOf(channel) \cup RowsOf(buffer) \cup RowsOf(batch)

Init ==
  /\ up = FALSE
  /\ stopping = FALSE
  /\ published = 0
  /\ inbox = <<>> /\ hand = <<>>
  /\ subscriber = "ended"
  /\ channel = <<>> /\ buffer = <<>> /\ batch = <<>>
  /\ batcher = "returned"
  /\ table = <<>>
  /\ accepted = {} /\ lost = {} /\ cut = {}

-----------------------------------------------------------------------------
(* The NATS server and client: a message reaches the subscription if there *)
(* is one and it has room.                                                 *)
Publish ==
  /\ published < MaxMessages
  /\ published' = published + 1
  /\ inbox' = IF subscriber # "ended" /\ Len(inbox) < InboxSize
                THEN Append(inbox, published + 1) ELSE inbox
  /\ UNCHANGED <<up, stopping, hand, subscriber, channel, batcher, buffer, batch,
                 table, accepted, lost, cut>>

-----------------------------------------------------------------------------
(* FullTapeSubscriber::run                                                 *)

Take ==
  /\ subscriber = "next"
  /\ inbox # <<>>
  /\ hand' = <<Head(inbox)>>
  /\ inbox' = Tail(inbox)
  /\ subscriber' = "send"
  /\ UNCHANGED <<up, stopping, published, channel, batcher, buffer, batch, table, accepted, lost, cut>>

(* send() waits for room.  The receiver outlives the sender, so its error  *)
(* return is never taken.                                                  *)
Send ==
  /\ subscriber = "send"
  /\ Len(channel) < ChannelSize
  /\ channel' = channel \o hand
  /\ accepted' = accepted \cup RowsOf(hand)
  /\ hand' = <<>>
  /\ subscriber' = "next"
  /\ UNCHANGED <<up, stopping, published, inbox, batcher, buffer, batch, table, lost, cut>>

Gone ==
  /\ subscriber' = "ended"
  /\ inbox' = <<>>
  /\ hand' = <<>>
  /\ UNCHANGED <<up, stopping, published, channel, batcher, buffer, batch, table, accepted, lost, cut>>

(* The subscription is closed: next() returns None.                        *)
SubscriptionCloses == subscriber = "next" /\ inbox = <<>> /\ Gone

(* abort() takes effect at the next await: the row in hand is dropped.     *)
SubscriberAborted == stopping /\ subscriber \in {"next", "send"} /\ Gone

-----------------------------------------------------------------------------
(* batcher_task                                                            *)

(* A slip: the rows are copied and not taken out of the buffer.            *)
FlushCopy(rows, place) ==
  /\ batch' = rows
  /\ buffer' = rows
  /\ batcher' = place

(* flush(): mem::take, then insert_rows.                                   *)
Flush(rows, place) ==
  /\ batch' = rows
  /\ buffer' = <<>>
  /\ batcher' = place

Receive ==
  /\ batcher = "select"
  /\ channel # <<>>
  /\ channel' = Tail(channel)
  /\ LET rows == Append(buffer, Head(channel)) IN
       IF Len(rows) >= BatchSize
         THEN Flush(rows, "insert")
         ELSE buffer' = rows /\ UNCHANGED <<batch, batcher>>
  /\ UNCHANGED <<up, stopping, published, inbox, hand, subscriber, table, accepted, lost, cut>>

(* A slip: the timer flushes a full batch only.                            *)
TimerFlushFull ==
  /\ batcher = "select"
  /\ Len(buffer) >= BatchSize
  /\ Flush(buffer, "insert")
  /\ UNCHANGED <<up, stopping, published, inbox, hand, subscriber, channel, table, accepted, lost, cut>>

TimerFlush ==
  /\ batcher = "select"
  /\ buffer # <<>>
  /\ Flush(buffer, "insert")
  /\ UNCHANGED <<up, stopping, published, inbox, hand, subscriber, channel, table, accepted, lost, cut>>

(* A slip: the task returns with rows in its buffer.                       *)
ChannelClosedNoFlush ==
  /\ batcher = "select"
  /\ channel = <<>>
  /\ subscriber = "ended"
  /\ batcher' = "returned"
  /\ UNCHANGED <<up, stopping, published, inbox, hand, subscriber, channel, buffer, batch,
                 table, accepted, lost, cut>>

(* A slip: the task flushes what it has and goes on.                       *)
ChannelClosedLoops ==
  /\ batcher = "select"
  /\ channel = <<>>
  /\ subscriber = "ended"
  /\ buffer # <<>>
  /\ Flush(buffer, "insert")
  /\ UNCHANGED <<up, stopping, published, inbox, hand, subscriber, channel, table, accepted, lost, cut>>

(* recv() returns None once the sender is dropped and the channel empty.   *)
ChannelClosed ==
  /\ batcher = "select"
  /\ channel = <<>>
  /\ subscriber = "ended"
  /\ IF buffer # <<>>
       THEN Flush(buffer, "last_insert")
       ELSE batcher' = "returned" /\ UNCHANGED <<buffer, batch>>
  /\ UNCHANGED <<up, stopping, published, inbox, hand, subscriber, channel, table, accepted, lost, cut>>

AfterInsert ==
  /\ batch' = <<>>
  /\ batcher' = IF batcher = "insert" THEN "select" ELSE "returned"
  /\ UNCHANGED <<up, stopping, published, inbox, hand, subscriber, channel, buffer, accepted>>

InsertOk ==
  /\ batcher \in {"insert", "last_insert"}
  /\ table' = table \o batch
  /\ AfterInsert
  /\ UNCHANGED <<lost, cut>>

(* A slip: a failed batch counts as flushed.                               *)
InsertErrForgets ==
  /\ batcher \in {"insert", "last_insert"}
  /\ table' \in {table, table \o batch}
  /\ AfterInsert
  /\ UNCHANGED <<lost, cut>>

(* The error is logged and the batch given up; the answer of an insert     *)
(* that took place may have been what failed.                              *)
InsertErr ==
  /\ batcher \in {"insert", "last_insert"}
  /\ table' \in {table, table \o batch}
  /\ lost' = lost \cup RowsOf(batch)
  /\ AfterInsert
  /\ UNCHANGED cut

-----------------------------------------------------------------------------
(* main                                                                    *)

Start ==
  /\ ~up
  /\ up' = TRUE
  /\ stopping' = FALSE
  /\ subscriber' = "next"
  /\ batcher' = "select"
  /\ UNCHANGED <<published, inbox, hand, channel, buffer, batch, table, accepted, lost, cut>>

(* ctrl_c() returns: SIGINT.                                              *)
Interrupt ==
  /\ up
  /\ ~stopping
  /\ stopping' = TRUE
  /\ UNCHANGED <<up, published, taskVars, table, accepted, lost, cut>>

(* main has awaited the subscriber, then the batcher.                      *)
Stop ==
  /\ up
  /\ stopping
  /\ subscriber = "ended"
  /\ batcher = "returned"
  /\ up' = FALSE
  /\ stopping' = FALSE
  /\ UNCHANGED <<published, taskVars, table, accepted, lost, cut>>

Dies ==
  /\ up
  /\ up' = FALSE
  /\ stopping' = FALSE
  /\ table' \in {table, table \o batch}
  /\ subscriber' = "ended" /\ batcher' = "returned"
  /\ inbox' = <<>> /\ hand' = <<>>
  /\ channel' = <<>> /\ buffer' = <<>> /\ batch' = <<>>
  /\ UNCHANGED <<published, accepted>>

(* SIGTERM has no handler: the process ends where it is.                   *)
Terminate ==
  /\ Dies
  /\ cut' = cut \cup InMemory
  /\ UNCHANGED lost

Crash ==
  /\ Dies
  /\ lost' = lost \cup InMemory
  /\ UNCHANGED cut

-----------------------------------------------------------------------------
Subscriber == Take \/ Send \/ SubscriberAborted

Batcher ==
  \/ Receive \/ TimerFlush \/ ChannelClosed
  \/ InsertOk \/ InsertErr

Next ==
  \/ Publish
  \/ Subscriber \/ SubscriptionCloses
  \/ Batcher
  \/ Start \/ Interrupt \/ Stop \/ Terminate \/ Crash

Spec == Init /\ [][Next]_vars

(* The executor polls a task that can run, the ticker ticks, and an insert *)
(* is answered, one way or the other.                                      *)
FairSpec ==
  /\ Spec
  /\ WF_vars(Subscriber) /\ WF_vars(SubscriberAborted)
  /\ WF_vars(Batcher) /\ WF_vars(Stop)
=============================================================================
