-------------------------- MODULE MCLedgerTampered --------------------------
(* The whole ledger, written and then edited, with the hashes and          *)
(* signatures of MCLedger.                                                 *)
EXTENDS MCLedger, LedgerTampered
===============================================================================
