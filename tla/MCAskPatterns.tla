--------------------------- MODULE MCAskPatterns ---------------------------
(* Small instances of AskPatterns for TLC: two actors share a core. *)
EXTENDS AskPatterns

CONSTANTS a1, a2, a3, x, y

MCCore == [a \in {a1, a2, a3} |-> IF a = a3 THEN 1 ELSE 0]

By(k, a, b, n) == [kind |-> k, owner |-> a, target |-> b, rounds |-> n]

MCPlans == {
    [c \in {x, y} |-> By("retry", a1, a3, 1)],
    [c \in {x, y} |-> By("guarded", a1, a3, 2)],
    [c \in {x, y} |-> IF c = x THEN By("ask", a1, a2, 2) ELSE By("ask", a3, a1, 1)],
    [c \in {x, y} |-> IF c = x THEN By("stream", a1, a3, 1) ELSE By("ask", a3, a1, 1)]}
=============================================================================
