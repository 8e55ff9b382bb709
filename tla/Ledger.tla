-------------------------------- MODULE Ledger --------------------------------
(***************************************************************************)
(* RocksLedger, the append-only event ledger of one agent                  *)
(* (core/obsidian-ledger/src/ledger.rs): opening a store, writing its      *)
(* genesis block, appending under a fair mutex, failing writes, a process  *)
(* that dies between any two writes and a machine that loses power.        *)
(***************************************************************************)
EXTENDS LedgerChain, Sequences

CONSTANTS
  Writer,       \* the tasks that share one handle and call append
  None,         \* an absent metadata key, or no value
  MaxSequence,  \* bound on the sequence of the last entry
  PowerLoss     \* whether the machine may lose power

ASSUME NoneAssumption == None \notin Nat

ASSUME BoundAssumption == MaxSequence \in Nat /\ PowerLoss \in BOOLEAN

VARIABLES
  store,        \* the key space that reads see
  recoverable,  \* the states of it that a power loss may leave
  handle,       \* how far the process has come with this ledger
  head,         \* HeadState, the in-memory copy of the head metadata
  queue,        \* the append calls in lock order: the first holds the mutex
  written,      \* the holder's batch is in the store, head not yet updated
  acked,        \* history: the entries append returned Ok for, less those a
                \* power loss took
  observed      \* history: the last head sequence the live process was told

storeVars   == <<store, recoverable>>
processVars == <<handle, head, queue, written, observed>>
vars == <<store, recoverable, handle, head, queue, written, acked, observed>>

(* headHash holds what the key head_hash has: one hash, or nothing.        *)
EmptyStore ==
  [pubkey |-> FALSE, entries |-> [k \in {} |-> None],
   headSequence |-> None, headHash |-> {}]

NoHead == [sequence |-> None, hash |-> None]

Call == [writer : Writer, unsigned : Unsigned]

(* The put that `open` is about to make.                                   *)
Opening == {"put_pubkey", "put_genesis", "put_head_sequence", "put_head_hash"}

Init ==
  /\ store = EmptyStore
  /\ recoverable = {EmptyStore}
  /\ handle = "closed"
  /\ head = NoHead
  /\ queue = <<>>
  /\ written = FALSE
  /\ acked = {}
  /\ observed = None

-----------------------------------------------------------------------------
(* RocksDB, as the code uses it: a write (one put, or one batch) is atomic *)
(* and visible at once; it survives the process, and survives the machine  *)
(* once the log that holds it is synced, which the default write options   *)
(* leave to the operating system.                                          *)

Write(state) ==
  /\ store' = state
  /\ recoverable' = recoverable \cup {state}

Sync ==
  /\ recoverable # {store}
  /\ recoverable' = {store}
  /\ UNCHANGED <<store, handle, head, queue, written, acked, observed>>

-----------------------------------------------------------------------------
(* open: load the head, or write the genesis block with four puts.         *)

OpenNew ==
  /\ handle \in {"closed", "failed"}
  /\ store.headSequence = None
  /\ handle' = "put_pubkey"
  /\ UNCHANGED <<store, recoverable, head, queue, written, acked, observed>>

(* A slip: head_sequence is taken for a count of entries.                  *)
OpenExistingAsCount ==
  /\ handle \in {"closed", "failed"}
  /\ store.headSequence # None
  /\ \E hash \in store.headHash :
       /\ handle' = "open"
       /\ head' = [sequence |-> store.headSequence - 1, hash |-> hash]
  /\ UNCHANGED <<store, recoverable, queue, written, acked, observed>>

OpenExisting ==
  /\ handle \in {"closed", "failed"}
  /\ store.headSequence # None
  /\ \/ /\ store.headHash = {}
        /\ handle' = "failed"
        /\ UNCHANGED head
     \/ \E hash \in store.headHash :
        /\ handle' = "open"
        /\ head' = [sequence |-> store.headSequence, hash |-> hash]
  /\ UNCHANGED <<store, recoverable, queue, written, acked, observed>>

PutPubkey ==
  /\ handle = "put_pubkey"
  /\ Write([store EXCEPT !.pubkey = TRUE])
  /\ handle' = "put_genesis"
  /\ UNCHANGED <<head, queue, written, acked, observed>>

PutGenesis ==
  /\ handle = "put_genesis"
  /\ Write([store EXCEPT !.entries = Put(@, 0, GenesisEntry)])
  /\ handle' = "put_head_sequence"
  /\ UNCHANGED <<head, queue, written, acked, observed>>

PutHeadSequence ==
  /\ handle = "put_head_sequence"
  /\ Write([store EXCEPT !.headSequence = 0])
  /\ handle' = "put_head_hash"
  /\ UNCHANGED <<head, queue, written, acked, observed>>

PutHeadHash ==
  /\ handle = "put_head_hash"
  /\ Write([store EXCEPT !.headHash = {ChainHash(GenesisEntry)}])
  /\ handle' = "open"
  /\ head' = [sequence |-> 0, hash |-> ChainHash(GenesisEntry)]
  /\ UNCHANGED <<queue, written, acked, observed>>

(* A put returns an error and `open` returns it.                           *)
OpenError ==
  /\ handle \in Opening
  /\ handle' = "closed"
  /\ UNCHANGED <<store, recoverable, head, queue, written, acked, observed>>

-----------------------------------------------------------------------------
(* append.  The only await is the lock: a call that has it runs to its end *)
(* and cannot be cancelled, but the process may die in it, and reads do    *)
(* not take the lock.                                                      *)

AppendCall(w, u) ==
  /\ handle = "open"
  /\ \A i \in DOMAIN queue : queue[i].writer # w
  /\ queue' = Append(queue, [writer |-> w, unsigned |-> u])
  /\ UNCHANGED <<store, recoverable, handle, head, written, acked, observed>>

(* The caller drops the future while it waits for the lock.                *)
AppendCancel(i) ==
  /\ written => i > 1
  /\ queue' = SubSeq(queue, 1, i - 1) \o SubSeq(queue, i + 1, Len(queue))
  /\ UNCHANGED <<store, recoverable, handle, head, written, acked, observed>>

(* A slip: the sequence of the last entry, not the next.                   *)
HolderEntrySameSequence ==
  NewEntry(head.sequence, head.hash, Head(queue).unsigned)

HolderEntry == NewEntry(head.sequence + 1, head.hash, Head(queue).unsigned)

(* The one WriteBatch of append, and slips in it: it lacks the entry, or   *)
(* the hash, or deletes the hash for a later put.                          *)
BatchWithoutEntry(entry) ==
  [store EXCEPT !.headSequence = entry.sequence, !.headHash = {ChainHash(entry)}]

BatchWithoutHash(entry) ==
  [store EXCEPT !.entries = Put(@, entry.sequence, entry),
                !.headSequence = entry.sequence]

BatchDeletesHash(entry) ==
  [store EXCEPT !.entries = Put(@, entry.sequence, entry),
                !.headSequence = entry.sequence,
                !.headHash = {}]

Batch(entry) ==
  [store EXCEPT !.entries = Put(@, entry.sequence, entry),
                !.headSequence = entry.sequence,
                !.headHash = {ChainHash(entry)}]

AppendWrite ==
  /\ queue # <<>>
  /\ ~written
  /\ head.sequence < MaxSequence
  /\ Write(Batch(HolderEntry))
  /\ written' = TRUE
  /\ UNCHANGED <<handle, head, queue, acked, observed>>

(* Slips on the error path: the head has already moved, or the guard of    *)
(* the mutex is never released.                                            *)
AppendErrorMovesHead ==
  /\ queue # <<>>
  /\ ~written
  /\ head' = [sequence |-> HolderEntry.sequence, hash |-> ChainHash(HolderEntry)]
  /\ queue' = Tail(queue)
  /\ UNCHANGED <<store, recoverable, handle, written, acked, observed>>

AppendErrorKeepsLock ==
  /\ queue # <<>>
  /\ ~written
  /\ UNCHANGED vars

(* The batch is refused: append returns the error, head is untouched.      *)
AppendError ==
  /\ queue # <<>>
  /\ ~written
  /\ queue' = Tail(queue)
  /\ UNCHANGED <<store, recoverable, handle, head, written, acked, observed>>

(* The head after an append, and slips: it, or its hash, stays behind.     *)
HeadKept(entry) == head

HeadHashKept(entry) == [sequence |-> entry.sequence, hash |-> head.hash]

HeadOf(entry) == [sequence |-> entry.sequence, hash |-> ChainHash(entry)]

AppendReturn ==
  /\ written
  /\ head' = HeadOf(HolderEntry)
  /\ acked' = acked \cup {HolderEntry}
  /\ queue' = Tail(queue)
  /\ written' = FALSE
  /\ UNCHANGED <<store, recoverable, handle, observed>>

(* A slip: the index of the entry before the head.                         *)
HeadSequenceBefore ==
  /\ handle = "open"
  /\ queue = <<>>
  /\ observed' = head.sequence - 1
  /\ UNCHANGED <<store, recoverable, handle, head, queue, written, acked>>

(* head_sequence takes the lock, so it waits for the appends before it.    *)
HeadSequence ==
  /\ handle = "open"
  /\ queue = <<>>
  /\ observed' = head.sequence
  /\ UNCHANGED <<store, recoverable, handle, head, queue, written, acked>>

-----------------------------------------------------------------------------
(* The process dies; the machine loses power.                              *)

LoseProcess ==
  /\ handle' = "closed"
  /\ head' = NoHead
  /\ queue' = <<>>
  /\ written' = FALSE
  /\ observed' = None

Crash ==
  /\ handle \in Opening \cup {"open"}
  /\ LoseProcess
  /\ UNCHANGED <<storeVars, acked>>

(* What was acknowledged and lost with an unsynced tail is forgotten: its  *)
(* sequence is given out again.                                            *)
LosePower ==
  /\ PowerLoss
  /\ \E s \in recoverable : store' = s /\ recoverable' = {s}
  /\ acked' = {e \in acked : e.sequence \in DOMAIN store'.entries
                             /\ store'.entries[e.sequence] = e}
  /\ LoseProcess

-----------------------------------------------------------------------------
Open ==
  \/ OpenNew \/ OpenExisting \/ OpenError
  \/ PutPubkey \/ PutGenesis \/ PutHeadSequence \/ PutHeadHash

Next ==
  \/ Open
  \/ \E w \in Writer, u \in Unsigned : AppendCall(w, u)
  \/ \E i \in DOMAIN queue : AppendCancel(i)
  \/ AppendWrite
  \/ AppendError
  \/ AppendReturn
  \/ HeadSequence
  \/ Sync
  \/ Crash
  \/ LosePower

Spec == Init /\ [][Next]_vars

(* The executor polls a task that can run: the holder of the mutex finishes*)
(* its call, with a result or with an error.                               *)
FairSpec == Spec /\ WF_vars(AppendWrite \/ AppendError) /\ WF_vars(AppendReturn)
===============================================================================
