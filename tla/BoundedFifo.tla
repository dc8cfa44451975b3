---------------------------- MODULE BoundedFifo -----------------------------
(***************************************************************************)
(* What qb::lockfree::spsc::ringbuffer promises: a first-in first-out      *)
(* queue of at most Capacity buckets, to which the producer appends the    *)
(* buckets of one call in one step and from which the consumer takes a     *)
(* prefix in one step.  Buckets are numbered as they are accepted.         *)
(***************************************************************************)
EXTENDS Integers, Sequences

CONSTANTS Capacity, MaxSent

VARIABLES
    queue,     \* buckets accepted and not yet taken
    accepted,  \* how many were accepted so far
    batch      \* the buckets of the last take

vars == <<queue, accepted, batch>>

Init == queue = <<>> /\ accepted = 0 /\ batch = <<>>

Put(n) ==
    /\ Len(queue) + n <= Capacity
    /\ accepted + n <= MaxSent
    /\ queue' = queue \o [j \in 1 .. n |-> accepted + j - 1]
    /\ accepted' = accepted + n
    /\ UNCHANGED batch

Take(n) ==
    /\ n <= Len(queue)
    /\ batch' = SubSeq(queue, 1, n)
    /\ queue' = SubSeq(queue, n + 1, Len(queue))
    /\ UNCHANGED accepted

Next == \E n \in 1 .. Capacity : Put(n) \/ Take(n)

Safety == Init /\ [][Next]_vars

\* What was accepted is taken in the end.
Spec == Safety /\ WF_vars(\E n \in 1 .. Capacity : Take(n))
=============================================================================
