------------------------------ MODULE Lifecycle ------------------------------
(***************************************************************************)
(* The lifecycle states that a heartbeat carries (Lifecycle of             *)
(* core/obsidian-agent-rs/src/lifecycle.rs, the same in the Python SDK).   *)
(***************************************************************************)

State ==
  {"Unregistered", "Registering", "Booting", "Active", "Sleeping",
   "Dreaming", "Probation", "Error", "Retired"}
=============================================================================
