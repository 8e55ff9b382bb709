---------------------------- MODULE MCPySupervisor ----------------------------
(***************************************************************************)
(* Small instances of PySupervisor.                                        *)
(***************************************************************************)
EXTENDS PySupervisorProps
===============================================================================
