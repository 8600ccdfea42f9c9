---------------------------- MODULE MCTaskQueue -----------------------------
(***************************************************************************)
(* Small rings for TLC.  Three threads on a ring of three slots and seven  *)
(* pushes: the positions go twice round the ring, and a thread can be      *)
(* caught between winning a task and clearing its slot while the two       *)
(* others push and pop past it.  Threads play identical roles.             *)
(***************************************************************************)
EXTENDS TaskQueue, TLC

ThreadSymmetry == Permutations(Threads)
=============================================================================
