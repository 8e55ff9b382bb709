----------------------------- MODULE LedgerChain -----------------------------
(***************************************************************************)
(* The data of an agent's event ledger, core/obsidian-ledger: entries, the *)
(* hash chain that links them, and the read-only operations of RocksLedger *)
(* over a stored key space (verify_chain, replay).  Everything here is a   *)
(* pure definition; the state machine is in Ledger.tla.                    *)
(*                                                                         *)
(* The column family "entries" is a function from the sequence numbers     *)
(* that have a key to the entries stored under them: a store may have      *)
(* gaps, or an entry whose own sequence field is not its key.              *)
(***************************************************************************)
EXTENDS Integers, FiniteSets

CONSTANTS
  Genesis,      \* the unsigned genesis entry, the same on every open
  Unsigned,     \* the unsigned entries that are appended
  Key,          \* the agent's signing key
  ZeroHash,     \* [0u8; 32]
  Hash(_),      \* SHA3-256 of canonical bytes
  Sign(_, _)    \* Ed25519: key, canonical bytes -> signature

ASSUME GenesisAssumption == Genesis.type = "Genesis"

(* What the signature and the chain hash cover: every field but the        *)
(* signature itself.                                                       *)
Canonical(sequence, previous, unsigned) ==
  [sequence |-> sequence, previous |-> previous, unsigned |-> unsigned]

ChainHash(entry) ==
  Hash(Canonical(entry.sequence, entry.previous, entry.unsigned))

NewEntry(sequence, previous, unsigned) ==
  [sequence  |-> sequence,
   previous  |-> previous,
   unsigned  |-> unsigned,
   signature |-> Sign(Key, Canonical(sequence, previous, unsigned))]

GenesisEntry == NewEntry(0, ZeroHash, Genesis)

(* put_cf: insert under a key or overwrite what the key holds.             *)
Put(entries, k, entry) ==
  [i \in DOMAIN entries \cup {k} |-> IF i = k THEN entry ELSE entries[i]]

-----------------------------------------------------------------------------
(* verify_chain walks the keys in order and stops at the first entry that  *)
(* fails one of its checks.                                                *)

SignatureValid(entry) ==
  entry.signature =
    Sign(Key, Canonical(entry.sequence, entry.previous, entry.unsigned))

VerifyLink(prev, next) == next.previous = ChainHash(prev)

(* The key the iterator returned just before k.                            *)
Before(entries, k) ==
  CHOOSE j \in DOMAIN entries :
    /\ j < k
    /\ \A i \in DOMAIN entries : i < k => i <= j

FirstEntryValid(entry) ==
  /\ entry.sequence = 0
  /\ entry.previous = ZeroHash
  /\ entry.unsigned.type = "Genesis"

(* A slip: only the sequence numbers are compared, not the hashes.         *)
EntryValidWithoutLink(entries, k) ==
  /\ SignatureValid(entries[k])
  /\ IF \A i \in DOMAIN entries : k <= i
       THEN FirstEntryValid(entries[k])
       ELSE entries[k].sequence = entries[Before(entries, k)].sequence + 1

EntryValid(entries, k) ==
  /\ SignatureValid(entries[k])
  /\ IF \A i \in DOMAIN entries : k <= i
       THEN FirstEntryValid(entries[k])
       ELSE LET prev == entries[Before(entries, k)] IN
            /\ VerifyLink(prev, entries[k])
            /\ entries[k].sequence = prev.sequence + 1

ChainOk(entries) == \A k \in DOMAIN entries : EntryValid(entries, k)

(* A slip: the walk goes on and reports the last break, not the first.     *)
VerifyChainLastBreak(entries) ==
  IF ChainOk(entries)
    THEN [status |-> "Ok", entries |-> Cardinality(DOMAIN entries)]
    ELSE LET last == CHOOSE k \in DOMAIN entries :
               /\ ~EntryValid(entries, k)
               /\ \A i \in DOMAIN entries : i > k => EntryValid(entries, i)
         IN [status |-> "Broken", sequence |-> entries[last].sequence]

(* ChainStatus: Ok with the number of entries, or Broken at the sequence   *)
(* field of the first bad entry.                                           *)
VerifyChain(entries) ==
  IF ChainOk(entries)
    THEN [status |-> "Ok", entries |-> Cardinality(DOMAIN entries)]
    ELSE LET first == CHOOSE k \in DOMAIN entries :
               /\ ~EntryValid(entries, k)
               /\ \A i \in DOMAIN entries : i < k => EntryValid(entries, i)
         IN [status |-> "Broken", sequence |-> entries[first].sequence]

(* replay: the keys it yields, from `from` (inclusive) to `to` (exclusive).*)
Replay(entries, from, to) == {k \in DOMAIN entries : from <= k /\ k < to}
=============================================================================
