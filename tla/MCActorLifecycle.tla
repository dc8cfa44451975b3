-------------------------- MODULE MCActorLifecycle --------------------------
(* Small instances of ActorLifecycle for TLC; the constants are in the cfg files. *)
EXTENDS ActorLifecycle, TLC

\* Objects that are neither services nor there from the start are alike.
Perms == Permutations(Obj \ (Service \cup Initial))
=============================================================================
