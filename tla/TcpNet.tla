------------------------------- MODULE TcpNet -------------------------------
(* The kernel's side of a TCP connection, as the sockets of qb::io use it:  *)
(* external code.  A connection has a client end and a server end; bytes    *)
(* are numbered in the order in which their sender wrote them.              *)
EXTENDS Integers, Sequences, FiniteSets

CONSTANTS
    Conn,       \* the connections a behaviour may open
    SndBuf      \* how many bytes the server's kernel takes before it blocks

ASSUME NetAssumption == SndBuf \in Nat \ {0}

VARIABLES
    net,        \* the handshake of a connection
    cend,       \* the client's end of it
    send,       \* the server's end of it
    rx,         \* bytes the server's kernel holds for the server
    tx,         \* bytes the server wrote and the client has not read
    sent,       \* how many bytes the client wrote
    got         \* bytes the client has read

netvars == <<net, cend, send, rx, tx, sent, got>>

NetInit ==
    /\ net = [c \in Conn |-> "none"]
    /\ cend = [c \in Conn |-> "none"]
    /\ send = [c \in Conn |-> "none"]
    /\ rx = [c \in Conn |-> <<>>]
    /\ tx = [c \in Conn |-> <<>>]
    /\ sent = [c \in Conn |-> 0]
    /\ got = [c \in Conn |-> <<>>]

\* connect() in progress: the other side answers, and the connection waits in the
\* backlog of the listening socket, or refuses.
Establish(c) ==
    /\ net[c] = "syn" /\ cend[c] = "open"
    /\ net' = [net EXCEPT ![c] = "up"]
    /\ send' = [send EXCEPT ![c] = "backlog"]
    /\ UNCHANGED <<cend, rx, tx, sent, got>>

Refuse(c) ==
    /\ net[c] = "syn" /\ cend[c] = "open"
    /\ net' = [net EXCEPT ![c] = "refused"]
    /\ UNCHANGED <<cend, send, rx, tx, sent, got>>

\* The application at the client's end writes a byte, reads one, or closes.
ClientSend(c) ==
    /\ cend[c] = "open" /\ net[c] = "up"
    /\ sent' = [sent EXCEPT ![c] = @ + 1]
    /\ rx' = [rx EXCEPT ![c] = IF send[c] = "closed" THEN @ ELSE Append(@, sent'[c])]
    /\ UNCHANGED <<net, cend, send, tx, got>>

ClientRead(c) ==
    /\ cend[c] = "open" /\ tx[c] # <<>>
    /\ tx' = [tx EXCEPT ![c] = Tail(@)]
    /\ got' = [got EXCEPT ![c] = Append(@, Head(tx[c]))]
    /\ UNCHANGED <<net, cend, send, rx, sent>>

ClientClose(c) ==
    /\ cend[c] = "open" /\ net[c] = "up"
    /\ cend' = [cend EXCEPT ![c] = "closed"]
    /\ UNCHANGED <<net, send, rx, tx, sent, got>>

\* The connection fails.
Reset(c) ==
    /\ net[c] = "up" /\ send[c] = "open"
    /\ net' = [net EXCEPT ![c] = "reset"]
    /\ rx' = [rx EXCEPT ![c] = <<>>]
    /\ tx' = [tx EXCEPT ![c] = <<>>]
    /\ UNCHANGED <<cend, send, sent, got>>

\* What epoll reports to the server's end: bytes, an end of stream or an error to
\* read, room or an error to write.
Readable(c) == rx[c] # <<>> \/ cend[c] = "closed" \/ net[c] = "reset"
Writable(c) == Len(tx[c]) < SndBuf \/ net[c] = "reset"
=============================================================================
