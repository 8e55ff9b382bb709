--------------------------- MODULE LedgerTampered ---------------------------
(***************************************************************************)
(* Ledger.tla and LedgerCorruption.tla in one behaviour, the way           *)
(* tests/chain_integrity.rs runs them: RocksLedger writes a ledger, and    *)
(* when it is closed another handle edits the bytes that are there.  What  *)
(* is edited is what open and append wrote, through whatever refused       *)
(* batches, crashes and power losses.                                      *)
(***************************************************************************)
EXTENDS LedgerProps, LedgerCorruption

tamperedVars == <<vars, corruptionVars>>

NoEntries == [k \in {} |-> None]

TamperedInit ==
  /\ Init
  /\ original = NoEntries
  /\ stored = NoEntries
  /\ touched = <<>>

(* No other handle has the store yet.                                      *)
Untouched == DOMAIN original = {}

LedgerStep ==
  /\ Untouched
  /\ Next
  /\ UNCHANGED corruptionVars

(* The ledger is dropped with everything in it acknowledged and on disk;   *)
(* from here on RocksLedger does not write to it any more.                 *)
HandOver ==
  /\ Untouched
  /\ handle = "closed"
  /\ recoverable = {store}
  /\ DOMAIN store.entries = 0 .. Length
  /\ \A k \in 1 .. Length : store.entries[k] \in acked
  /\ original' = store.entries
  /\ stored' = store.entries
  /\ UNCHANGED <<vars, touched>>

Edit ==
  /\ ~Untouched
  /\ CorruptionNext
  /\ UNCHANGED vars

TamperedNext == LedgerStep \/ HandOver \/ Edit

TamperedSpec == TamperedInit /\ [][TamperedNext]_tamperedVars

(* The fairness of FairSpec: nothing waits in a ledger that is closed.     *)
TamperedFairSpec ==
  /\ TamperedSpec
  /\ WF_vars(AppendWrite \/ AppendError)
  /\ WF_vars(AppendReturn)
===============================================================================
