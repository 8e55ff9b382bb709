-------------------------------- MODULE MCLedger --------------------------------
(***************************************************************************)
(* Small instances of Ledger: a hash is a value that determines what was   *)
(* hashed, a signature one that determines the key and the bytes signed.   *)
(***************************************************************************)
EXTENDS LedgerProps

CONSTANT Payload

MCHash(bytes) == [hashOf |-> bytes]

MCSign(key, bytes) == [by |-> key, over |-> bytes]

MCGenesis == [type |-> "Genesis", payload |-> "agent"]

MCUnsigned == [type : {"Observation"}, payload : Payload]

===============================================================================
