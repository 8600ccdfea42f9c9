--------------------------- MODULE MCEngineFrame ----------------------------
(* Model-checking instance of EngineFrame: a stalker, an item, two threads.  *)
EXTENDS EngineFrame
=============================================================================
