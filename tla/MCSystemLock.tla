---------------------------- MODULE MCSystemLock ----------------------------
(* SystemLock for two callers and two systems. *)
EXTENDS SystemLock
=============================================================================
