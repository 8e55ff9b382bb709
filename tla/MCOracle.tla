-------------------------------- MODULE MCOracle --------------------------------
(* The agent and a second caller of one clock.                             *)
EXTENDS OracleProps

MCTask == {"agent", "other"}
===============================================================================
