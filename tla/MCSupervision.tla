--------------------------- MODULE MCSupervision ---------------------------
(* Small instances of Supervision for TLC; the constants are in the cfg file. *)
EXTENDS Supervision
=============================================================================
