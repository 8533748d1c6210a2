----------------------------- MODULE MCSlotPool -----------------------------
(* Small instances of SlotPool for TLC. *)
EXTENDS SlotPool
=============================================================================
