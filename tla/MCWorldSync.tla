---------------------------- MODULE MCWorldSync -----------------------------
(* Model-checking instance of WorldSync: the actor, and three more ids, two  *)
(* of them in one block.                                                     *)
EXTENDS WorldSync

CONSTANTS a, i1, i2, j1

MCBlocks == {{a}, {i1, i2}, {j1}}
=============================================================================
