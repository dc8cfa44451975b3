------------------------------ MODULE MCAsyncIO ------------------------------
(* TLC instance of AsyncIO: a server that takes one session, and either one  *)
(* client that does everything or two simple ones that want the same place. *)
EXTENDS AsyncIO

CONSTANTS c1, c2, c3

\* The first client negotiates TLS before a deadline, and writes a message of two
\* bytes and one that is too long; the second connects in the clear, the third with TLS.
Scripts   == [c \in Conn |-> IF c = c1 THEN <<2, 4>> ELSE IF c = c2 THEN <<1>> ELSE <<>>]
Published == [c \in Conn |-> IF c = c1 THEN 4 ELSE IF c = c2 THEN 2 ELSE 0]
Modes     == [c \in Conn |-> IF c = c1 THEN "starttls" ELSE IF c = c2 THEN "plain" ELSE "tls"]
Deadlines == [c \in Conn |-> c = c1]

\* State constraint: the first client is alone.
Alone == op[c1] = "none" \/ (op[c2] = "none" /\ op[c3] = "none")
=============================================================================
