---------------------------- MODULE MCCoroTasks ----------------------------
EXTENDS CoroTasks

MCSuspends == [b \in 1..N |-> IF b = 1 THEN 2 ELSE IF b = 2 THEN 1 ELSE 0]
=============================================================================
