----------------------------- MODULE MCTaskTree -----------------------------
(***************************************************************************)
(* The device thread and one worker share up to MaxTasks tasks; rings of   *)
(* two cells are reused after two allocations.                             *)
(***************************************************************************)
EXTENDS TaskTree
=============================================================================
