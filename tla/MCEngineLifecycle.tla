------------------------- MODULE MCEngineLifecycle --------------------------
(* TLC instances of EngineLifecycle. *)
EXTENDS EngineLifecycle
=============================================================================
