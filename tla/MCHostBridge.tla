----------------------------- MODULE MCHostBridge -----------------------------
(* Small instances of HostBridge for TLC. *)
EXTENDS HostBridge, TLC

===============================================================================
