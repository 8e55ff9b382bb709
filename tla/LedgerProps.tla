------------------------------ MODULE LedgerProps ------------------------------
(***************************************************************************)
(* What RocksLedger must guarantee, on the state machine of Ledger.tla.    *)
(***************************************************************************)
EXTENDS Ledger

StoreType(s) ==
  /\ s \in [pubkey : BOOLEAN, entries : {s.entries},
            headSequence : Nat \cup {None}, headHash : {s.headHash}]
  /\ DOMAIN s.entries \subseteq Nat

(* The type of every variable; a hash or a signature is opaque.            *)
TypeOK ==
  /\ StoreType(store)
  /\ \A s \in recoverable : StoreType(s)
  /\ handle \in Opening \cup {"closed", "failed", "open"}
  /\ head \in [sequence : Nat \cup {None}, hash : {head.hash}]
  /\ queue \in Seq(Call)
  /\ written \in BOOLEAN
  /\ observed \in Nat \cup {None}

-----------------------------------------------------------------------------
(* verify_chain, run at any moment without the lock and on any state a     *)
(* crash or a power loss can leave, finds no broken entry and counts all.  *)
ChainVerifies ==
  \A s \in recoverable :
    VerifyChain(s.entries) =
      [status |-> "Ok", entries |-> Cardinality(DOMAIN s.entries)]

(* The two head keys, which open trusts without looking at the entries,    *)
(* name the last entry and its hash, in every state that can be recovered. *)
HeadMetadataMatches ==
  \A s \in recoverable :
    s.headHash # {} =>
      /\ s.headSequence \in DOMAIN s.entries
      /\ s.headSequence + 1 \notin DOMAIN s.entries
      /\ s.headHash = {ChainHash(s.entries[s.headSequence])}

(* The in-memory head, from which the next sequence and previous hash are  *)
(* taken, is the stored head whenever no batch is between the two.         *)
HeadIsStoreHead ==
  handle = "open" /\ ~written =>
    /\ head.sequence = store.headSequence
    /\ {head.hash} = store.headHash

(* A torn genesis is the only way open can refuse a store this code wrote: *)
(* nothing but the genesis block is ever lost with it.                     *)
FailsOnlyOnGenesis ==
  handle = "failed" => DOMAIN store.entries = {0}

(* Every state a power loss can leave holds a prefix of what is visible.   *)
IsPrefixOf(old, new) ==
  /\ DOMAIN old \subseteq DOMAIN new
  /\ \A k \in DOMAIN old : new[k] = old[k]
  /\ \A k \in DOMAIN new, j \in DOMAIN old : k < j => k \in DOMAIN old

RecoverablePrefix ==
  \A s \in recoverable : IsPrefixOf(s.entries, store.entries)

(* A caller that was told the head can replay everything up to it.         *)
ObservedReplays ==
  observed # None => Replay(store.entries, 0, observed + 1) = 0 .. observed

(* An entry that append has acknowledged stays under its sequence, across  *)
(* any number of crashes of the process.  A power loss may take it: `acked`*)
(* forgets what one took, and AckedDurable below says what is lost by that.*)
AckedSurvive ==
  \A entry \in acked :
    /\ entry.sequence \in DOMAIN store.entries
    /\ store.entries[entry.sequence] = entry

(* No two acknowledged entries share a sequence.                           *)
AckedUnique ==
  \A e, f \in acked : e.sequence = f.sequence => e = f

(* A step adds at most one entry and changes none, unless power is lost.   *)
AppendOnly ==
  [][~LosePower =>
       /\ IsPrefixOf(store.entries, store'.entries)
       /\ Cardinality(DOMAIN store'.entries \ DOMAIN store.entries) <= 1]_vars

(* open never refuses a store that only this code has written: ledger.rs:88*)
(* says it opens or creates the ledger.                                    *)
OpenSucceeds == handle # "failed"

(* An entry that append has acknowledged is in every state a power loss can*)
(* leave: ledger.rs:95-96 says the write is already synced on commit.      *)
AckedDurable ==
  \A entry \in acked, s \in recoverable :
    /\ entry.sequence \in DOMAIN s.entries
    /\ s.entries[entry.sequence] = entry

(* A call that waits for the mutex gets an answer, in order of arrival,    *)
(* unless the process dies: no writer starves.                             *)
Waiting(w) == \E i \in DOMAIN queue : queue[i].writer = w

AppendAnswered == \A w \in Writer : Waiting(w) ~> ~Waiting(w)

-----------------------------------------------------------------------------
(* The inductive invariant of the proofs.                                  *)

(* Each entry is stored under its own sequence, signed, and carries the    *)
(* hash of the one before it.                                              *)
Chained(entries) ==
  \A k \in DOMAIN entries :
    /\ entries[k].sequence = k
    /\ SignatureValid(entries[k])
    /\ k = 0 => entries[k] = GenesisEntry
    /\ k > 0 => VerifyLink(entries[k - 1], entries[k])

(* The keys and the head metadata of one store agree.                      *)
StoreOK(s) ==
  /\ StoreType(s)
  /\ Chained(s.entries)
  /\ s.headSequence = None =>
       /\ DOMAIN s.entries \subseteq {0}
       /\ s.headHash = {}
  /\ s.headSequence # None =>
       /\ DOMAIN s.entries = 0 .. s.headSequence
       /\ \/ s.headHash = {} /\ s.headSequence = 0
          \/ s.headHash = {ChainHash(s.entries[s.headSequence])}

(* What each place in open and append knows of the store.                  *)
HandleOK ==
  /\ handle \in {"put_pubkey", "put_genesis", "put_head_sequence"} =>
       store.headSequence = None
  /\ handle = "put_head_sequence" => DOMAIN store.entries = {0}
  /\ handle \in {"put_head_hash", "failed"} =>
       store.headSequence = 0 /\ store.headHash = {}
  /\ handle # "open" => queue = <<>> /\ ~written /\ observed = None
  /\ handle = "open" /\ ~written =>
       /\ store.headSequence # None
       /\ head.sequence = store.headSequence
       /\ store.headHash = {head.hash}
  /\ written =>
       /\ queue # <<>>
       /\ head.sequence \in Nat
       /\ store.headSequence = HolderEntry.sequence
       /\ store.headHash = {ChainHash(HolderEntry)}
       /\ store.entries[HolderEntry.sequence] = HolderEntry

(* Every recoverable state is well formed and a prefix of the visible one. *)
StoresOK ==
  /\ store \in recoverable
  /\ \A s \in recoverable : StoreOK(s) /\ IsPrefixOf(s.entries, store.entries)

LedgerInv == TypeOK /\ StoresOK /\ HandleOK

(* Once told, a head sequence stays below the stored one.                  *)
ObservedInv ==
  observed # None =>
    store.headSequence # None /\ observed <= store.headSequence

-----------------------------------------------------------------------------
(* The store implements the abstract log of its unsigned entries.          *)
LogOf(s) == [k \in DOMAIN s.entries |-> s.entries[k].unsigned]

Abstract == INSTANCE LedgerLog WITH
  Content   <- Unsigned \cup {Genesis},
  log       <- LogOf(store),
  survivors <- {LogOf(s) : s \in recoverable}

ImplementsLog == Abstract!LogSpec
===============================================================================
