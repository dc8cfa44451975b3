-------------------------- MODULE MCCoreMessaging ---------------------------
(* TLC instances of CoreMessaging: which events exist and what they are.    *)
EXTENDS CoreMessaging

CONSTANTS e1, e2, e3, e4, e5, e6, e7

\* Core 0 streams to core 1 more than the ring takes.  A behaviour creates some
\* of: two pushes (e1, e2), a send (e3), an event wider than the ring (e4), two
\* whose width field has overflowed to zero, for core 1 (e5) and for core 0 itself
\* (e6), and a best-effort push (e7).  Nothing is relayed.
StreamSource == [e \in Event |-> 0]
StreamDest   == [e \in Event |-> IF e = e6 THEN 0 ELSE 1]
StreamCall   == [e \in Event |-> IF e = e3 THEN "send" ELSE "push"]
StreamWidth  == [e \in Event |-> CASE e = e1 -> 2 [] e = e4 -> 3 [] e \in {e5, e6} -> 0 [] OTHER -> 1]
StreamQos    == [e \in Event |-> IF e = e7 THEN 0 ELSE 2]
NoRelay      == [e \in Event |-> 0]

\* Besides the pushes a behaviour has at most one of the other events, and with a
\* malformed one, which ends a batch, only one push.
OneOther ==
    LET made == {e \in Event : fate[e] # "unborn"} IN
    /\ Cardinality(made \ {e1, e2}) <= 1
    /\ made \cap {e5, e6} # {} => Cardinality(made) <= 2

\* Both cores push to each other, more than either ring takes: core 0 pushes e1
\* and e2, core 1 pushes e3, which its receiver may reply to or forward.
CrossSource == [e \in Event |-> IF e = e3 THEN 1 ELSE 0]
CrossDest   == [e \in Event |-> 1 - CrossSource[e]]
CrossWidth  == [e \in Event |-> 2]
AllPush     == [e \in Event |-> "push"]
AllGuaranteed == [e \in Event |-> 2]
RelayE3     == [e \in Event |-> IF e = e3 THEN 1 ELSE 0]
=============================================================================
