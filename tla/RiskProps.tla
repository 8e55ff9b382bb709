-------------------------------- MODULE RiskProps --------------------------------
(***************************************************************************)
(* What the risk overlord must guarantee, on the state machine of          *)
(* RiskOverlord.tla.                                                       *)
(***************************************************************************)
EXTENDS RiskOverlord

(* The type of every variable.                                             *)
TypeOK ==
  /\ phase \in {"down", "idle", "deciding", "stopped"}
  /\ shutdown \in BOOLEAN /\ lost \in BOOLEAN
  /\ DOMAIN portfolio.positions \subseteq Order
  /\ DOMAIN portfolio.marks \subseteq Symbol
  /\ decision \in {"green", "yellow", "orange", "red"}
  /\ fills \in Seq([order : Order, quantity : Quantity, price : Price])
  /\ marks \in Seq([symbol : Symbol, price : Price])
  /\ closed \subseteq {"fills", "marks"}
  /\ override \in {"none", "SCALE", "FLATTEN_ALL"}
  /\ applied \in [Order -> [quantity : Nat, value : Nat, slack : Nat]]
  /\ events \in 0 .. MaxEvents /\ crashes \in 0 .. MaxCrashes

-----------------------------------------------------------------------------
(* exposure.rs:28-35, the running average is rounded down at every fill:   *)
(* however many fills have been applied under a prefix since the start,    *)
(* the position is as many shares as they carried, and worth as much at    *)
(* its average as they cost, less than a scaled cent per share held and    *)
(* fill.  It says nothing of the exposure to which position and average    *)
(* lead: every fill is applied as a buy under a prefix of its order's id   *)
(* (main.rs:109-119), so that no price meets a position and a sale adds to *)
(* it, against exposure.rs:71, "Sum |quantity| * mark across every held    *)
(* symbol".                                                                *)
AverageRounds ==
  \A order \in Order :
    LET position == Lookup(portfolio.positions, order, NoPosition)
        worth == position.quantity * position.avg_price
    IN /\ position.quantity = applied[order].quantity
       /\ applied[order].value - worth \in 0 .. applied[order].slack

(* main.rs:140-181: whenever the overlord waits for a message, the         *)
(* override that the portfolio it holds calls for is the last one it has   *)
(* published (FLATTEN_ALL above the gross limit, and some override for a   *)
(* position above its own), or its last publish failed; and it never has   *)
(* FLATTEN_ALL to announce of a portfolio that is within the gross limit.  *)
(* This is the code's rule (circuit_breaker.rs:42-67).  The documents ask  *)
(* for less when the gross limit alone is breached: ORANGE, a scaling by   *)
(* 50%, and RED only for several breaches, a daily loss or a drawdown      *)
(* (docs/whitepaper/13-risk.md:40-41, docs/risk/FRAMEWORK.md:31-32,        *)
(* docs/cities/01-aletheia.md:60).                                         *)
BreachAnnounced ==
  /\ phase = "idle" /\ ~lost =>
       /\ GrossExposure(portfolio) > MaxGross => override = "FLATTEN_ALL"
       /\ Oversized(portfolio) => override # "none"
  /\ phase = "deciding" /\ decision = "red" => GrossExposure(portfolio) > MaxGross

(* main.rs:80: a shutdown ends the loop, though a subscription that has    *)
(* ended keeps it spinning and fills keep coming.                          *)
ShutdownEnds == shutdown ~> phase = "stopped"
===============================================================================
