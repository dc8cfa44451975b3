------------------------------- MODULE Queues -------------------------------
(***************************************************************************)
(* Queues of handles and keys from which some are taken out wherever they  *)
(* are.                                                                    *)
(***************************************************************************)
EXTENDS Naturals, FiniteSets, Sequences, SequencesExt

\* What is left of queue q when only the members of S stay, in their order.
Keep(q, S) ==
    LET kept == {i \in DOMAIN q : q[i] \in S}
    IN  [k \in 1..Cardinality(kept) |->
           q[CHOOSE i \in kept : Cardinality({j \in kept : j <= i}) = k]]

\* What is left of queue q without the members of S.
Without(q, S) == Keep(q, Range(q) \ S)
=============================================================================
