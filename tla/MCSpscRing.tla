----------------------------- MODULE MCSpscRing -----------------------------
(* TLC instances of SpscRing and of the queue it implements. *)
EXTENDS SpscRing
=============================================================================
