--------------------------- MODULE LedgerCorruption ---------------------------
(***************************************************************************)
(* A ledger whose stored bytes change after they were written: an entry is *)
(* altered under its key (its payload, its previous hash, or both signed   *)
(* again with a key that is not the agent's), dropped, or overwritten with *)
(* an entry of this or another history of the same agent, as when two      *)
(* copies of a ledger are mixed.  The edits are those of                   *)
(* tests/chain_integrity.rs and that one, in any order up to MaxEdits;     *)
(* what is checked is what verify_chain says afterwards.                   *)
(***************************************************************************)
EXTENDS LedgerChain, Sequences

CONSTANTS
  Length,     \* the sequence of the last entry written
  OtherKey,   \* a signing key that is not the agent's
  MaxEdits    \* bound on the number of edits

ASSUME LengthAssumption == Length \in Nat /\ MaxEdits \in Nat

VARIABLES
  original,   \* the entries as append wrote them
  stored,     \* the entries now in the store
  touched     \* history: the keys edited, in order

corruptionVars == <<original, stored, touched>>

(* The chain that appending contents[1], contents[2], ... writes.          *)
ChainOf(contents) ==
  LET chain[k \in 0 .. Length] ==
        IF k = 0 THEN GenesisEntry
        ELSE NewEntry(k, ChainHash(chain[k - 1]), contents[k])
  IN chain

Histories == {ChainOf(c) : c \in [1 .. Length -> Unsigned]}

CorruptionInit ==
  /\ original \in Histories
  /\ stored = original
  /\ touched = <<>>

Edited(k) == touched' = Append(touched, k) /\ UNCHANGED original

AlterPayload(k, u) ==
  /\ stored' = [stored EXCEPT ![k].unsigned = u]
  /\ Edited(k)

AlterPrevious(k, hash) ==
  /\ stored' = [stored EXCEPT ![k].previous = hash]
  /\ Edited(k)

Resign(k, u) ==
  LET e == stored[k] IN
  /\ stored' = [stored EXCEPT
       ![k].unsigned  = u,
       ![k].signature = Sign(OtherKey, Canonical(e.sequence, e.previous, u))]
  /\ Edited(k)

Drop(k) ==
  /\ stored' = [j \in DOMAIN stored \ {k} |-> stored[j]]
  /\ Edited(k)

Overwrite(k, entry) ==
  /\ stored' = Put(stored, k, entry)
  /\ Edited(k)

CorruptionNext ==
  /\ Len(touched) < MaxEdits
  /\ \/ \E k \in DOMAIN stored, u \in Unsigned : AlterPayload(k, u) \/ Resign(k, u)
     \/ \E k \in DOMAIN stored, j \in DOMAIN original :
          AlterPrevious(k, ChainHash(original[j]))
     \/ \E k \in DOMAIN stored : AlterPrevious(k, ZeroHash) \/ Drop(k)
     \/ \E k, j \in DOMAIN original, h \in Histories : Overwrite(k, h[j])

CorruptionSpec == CorruptionInit /\ [][CorruptionNext]_corruptionVars

-----------------------------------------------------------------------------
(* verify_chain accepts a store only if its entries, read in key order,    *)
(* are a prefix of one history that append can write: edits that undid one *)
(* another, cut the end, or replaced the end by that of another history.   *)
(* It does not compare an entry with its key, so an accepted entry may sit *)
(* under a later key than its own sequence.                                *)
AcceptedIsHistory ==
  LET result == VerifyChain(stored) IN
  result.status = "Ok" =>
    /\ \E h \in Histories :
         {stored[k] : k \in DOMAIN stored} = {h[k] : k \in 0 .. result.entries - 1}
    /\ \A j, k \in DOMAIN stored : j < k => stored[j].sequence < stored[k].sequence

(* When one entry was altered under its key and kept its sequence, the     *)
(* break is reported at that entry and not at a later one, unless it is    *)
(* one that append could have written there.                               *)
BreakLocated ==
  \A k \in DOMAIN original :
    /\ touched = <<k>>
    /\ k \in DOMAIN stored
    /\ stored[k].sequence = k
    /\ \A h \in Histories : stored[k] = h[k] => stored[k].previous # original[k].previous
    => VerifyChain(stored) = [status |-> "Broken", sequence |-> k]

===============================================================================
