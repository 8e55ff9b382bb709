------------------------------ MODULE TapeProps ------------------------------
(***************************************************************************)
(* What the tape recorder must guarantee, on the state machine of Tape.tla *)
(***************************************************************************)
EXTENDS Tape

Message == 1 .. MaxMessages

(* The type of every variable; the channel and the batch keep their bounds.*)
TypeOK ==
  /\ up \in BOOLEAN /\ stopping \in BOOLEAN
  /\ published \in 0 .. MaxMessages
  /\ inbox \in Seq(Message) /\ Len(inbox) <= InboxSize
  /\ hand \in Seq(Message) /\ Len(hand) <= 1
  /\ subscriber \in {"next", "send", "ended"}
  /\ channel \in Seq(Message) /\ Len(channel) <= ChannelSize
  /\ batcher \in {"select", "insert", "last_insert", "returned"}
  /\ buffer \in Seq(Message) /\ Len(buffer) < BatchSize
  /\ batch \in Seq(Message) /\ Len(batch) <= BatchSize
  /\ table \in Seq(Message)
  /\ accepted \subseteq Message
  /\ lost \subseteq Message
  /\ cut \subseteq Message

(* No row disappears without a word: what entered the channel is in the    *)
(* table, on its way there, or lost by an insert that reported an error or *)
(* with the process.                                                       *)
Accounted == accepted = RowsOf(table) \cup lost \cup cut \cup InMemory

(* main.rs:105, "batcher will flush remaining rows": a batcher that has    *)
(* returned, after a signal or because the subscription closed, has left   *)
(* no row behind.                                                          *)
Drained == batcher = "returned" => InMemory = {} /\ hand = <<>>

(* The table is a tape: rows in the order of the messages, none twice,     *)
(* however inserts fail and the recorder is restarted.                     *)
TapeImage == INSTANCE TapeLog WITH tape <- table, Batch <- BatchSize
ImplementsTape == TapeImage!Spec

(* A quiet bus does not keep a row from the table: the timer flushes it.   *)
RowsLeave ==
  \A r \in Message : r \in accepted ~> r \in RowsOf(table) \cup lost \cup cut

(* An interrupt ends the process, however full the channel is.             *)
InterruptStops == stopping ~> ~up

-----------------------------------------------------------------------------
(* The inductive invariant of the proofs.                                  *)

Increasing(rows) ==
  \A i, j \in DOMAIN rows : i < j => rows[i] < rows[j]

Before(S, T) == \A x \in S, y \in T : x < y

(* Messages keep their order on the way to the table: each place holds     *)
(* increasing numbers, all less than those of the places further back, and *)
(* none beyond the last message published.                                 *)
Queued(t, b, u, c, h, i, last) ==
  /\ Before(t, b \cup u \cup c \cup h \cup i)
  /\ Before(b, u \cup c \cup h \cup i)
  /\ Before(u, c \cup h \cup i)
  /\ Before(c, h \cup i)
  /\ Before(h, i)
  /\ \A x \in t \cup b \cup u \cup c \cup h \cup i : x <= last

Ordered ==
  /\ Increasing(table) /\ Increasing(batch) /\ Increasing(buffer)
  /\ Increasing(channel) /\ Increasing(hand) /\ Increasing(inbox)
  /\ Queued(RowsOf(table), RowsOf(batch), RowsOf(buffer),
            RowsOf(channel), RowsOf(hand), RowsOf(inbox), published)

(* What is empty in which place of the two tasks.                          *)
Places ==
  /\ batcher \in {"insert", "last_insert"} <=> batch # <<>>
  /\ batcher # "select" => buffer = <<>>
  /\ batcher \in {"last_insert", "returned"} => subscriber = "ended" /\ channel = <<>>
  /\ subscriber = "send" <=> hand # <<>>
  /\ subscriber = "ended" => inbox = <<>>
  /\ ~up => batcher = "returned" /\ ~stopping

TapeInv == TypeOK /\ Accounted /\ Ordered /\ Places

-----------------------------------------------------------------------------
(* What a comment says and the code does not do.                           *)

(* main.rs:100, "Shutdown on SIGINT / SIGTERM. Graceful drain.": a SIGTERM *)
(* leaves every row that was accepted in the table, or reported.           *)
SigtermDrains == cut \subseteq RowsOf(table) \cup lost
=============================================================================
