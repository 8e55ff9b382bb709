--------------------------------- MODULE MCRisk ---------------------------------
(* Fills of two orders and prices of one symbol, with rounding and limits  *)
(* that a few fills breach.                                                *)
EXTENDS RiskProps

MCQuantity == {1, 2}

MCPrice == {1, 4}
===============================================================================
