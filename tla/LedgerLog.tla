------------------------------- MODULE LedgerLog -------------------------------
(***************************************************************************)
(* What an event ledger promises, with no store, no hashes and no locks: a *)
(* log that grows by one entry at a time and never changes an entry it     *)
(* holds.  When the machine loses power the log may fall back to a shorter *)
(* log it has been, and to nothing else; a log that was synced stays.      *)
(***************************************************************************)
EXTENDS Integers

CONSTANTS
  Content,    \* what an entry carries
  PowerLoss   \* whether the machine may lose power

VARIABLES
  log,        \* the entries, a function from 0 .. n-1 to Content
  survivors   \* the logs a power loss may leave

logVars == <<log, survivors>>

NextPosition == IF DOMAIN log = {} THEN 0
                ELSE 1 + CHOOSE n \in DOMAIN log : n + 1 \notin DOMAIN log

LogInit ==
  /\ log = [n \in {} |-> 0]
  /\ survivors = {log}

Extend(content) ==
  /\ log' = [n \in DOMAIN log \cup {NextPosition} |->
               IF n = NextPosition THEN content ELSE log[n]]
  /\ survivors' = survivors \cup {log'}

Synced ==
  /\ survivors' = {log}
  /\ UNCHANGED log

FallBack ==
  /\ PowerLoss
  /\ log' \in survivors
  /\ survivors' = {log'}

LogNext ==
  \/ \E content \in Content : Extend(content)
  \/ Synced
  \/ FallBack

LogSpec == LogInit /\ [][LogNext]_logVars
===============================================================================
