----------------------------- MODULE MCCoroSync -----------------------------
EXTENDS CoroSync, TLC
=============================================================================
