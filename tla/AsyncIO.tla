------------------------------- MODULE AsyncIO -------------------------------
(* A client that connects with TcpConnector to the server of AsyncSession,   *)
(* over TcpNet.  The two ends are on different event loops; the client's    *)
(* application uses the socket once its coroutine has it.                   *)
EXTENDS TcpConnector, AsyncSession

ioVars == <<netvars, connvars, sesvars>>

IOInit == NetInit /\ ConnectorInit /\ SessionInit

\* The application at the client's end writes the messages of its script.
Client(c) ==
    /\ frame[c] = "resumed"
    /\ \/ sent[c] < FoldSeq(+, 0, Script[c]) /\ ClientSend(c)
       \/ ClientRead(c)
       \/ ClientClose(c)
    /\ UNCHANGED <<connvars, sesvars>>

Network(c) ==
    /\ Establish(c) \/ Refuse(c) \/ Reset(c)
    /\ UNCHANGED <<connvars, sesvars>>

IONext ==
    \/ ConnectorNext /\ UNCHANGED sesvars
    \/ SessionNext /\ UNCHANGED connvars
    \/ \E c \in Conn : Client(c) \/ Network(c)

\* Both event loops run; a client that has its socket reads from it; a handshake
\* that has begun is answered.
IOFairness ==
    \A c \in Conn :
        /\ WF_ioVars((Deferred(c) \/ OnIo(c) \/ OnDeadline(c) \/ Resume(c)) /\ UNCHANGED sesvars)
        /\ WF_ioVars(OnDeadline(c) /\ UNCHANGED sesvars)
        /\ WF_ioVars(Resume(c) /\ UNCHANGED sesvars)
        /\ WF_ioVars((OnEvent(c) \/ Step(c)) /\ UNCHANGED connvars)
        /\ WF_ioVars(frame[c] = "resumed" /\ ClientRead(c) /\ UNCHANGED <<connvars, sesvars>>)

IOSpec == IOInit /\ [][IONext]_ioVars /\ IOFairness

-----------------------------------------------------------------------------
(* Properties.                                                             *)

\* The type of the state.
IOTypeOK ==
    /\ net \in [Conn -> {"none", "syn", "up", "refused", "reset"}]
    /\ cend \in [Conn -> {"none", "open", "closed"}]
    /\ send \in [Conn -> {"none", "backlog", "open", "closed", "extracted"}]
    /\ \A c \in Conn : Len(tx[c]) <= SndBuf
    /\ op \in [Conn -> {"none", "armed", "deferred", "gone"}]
    /\ sphase \in [Conn -> {"connecting", "negotiating", "handshaking"}]
    /\ timer \in [Conn -> {"none", "armed", "spent"}]
    /\ frame \in [Conn -> {"none", "suspended", "ready", "resumed", "destroyed"}]
    /\ sessions \subseteq Conn /\ Cardinality(sessions) <= MaxSessions
    /\ running \in Conn \cup {None}
    /\ stage \in {"idle", "read", "message", "post", "write", "error"}
    /\ \A c \in Conn : pendingWrite(ses[c]) <= MaxWrite /\ pendingRead(ses[c]) <= MaxRead

\* A session of the server is alive with its socket, and one that has left the
\* server lives only as long as its handler runs; a session with output watches
\* for room, and one that is to be disconnected has the event that will do it;
\* it says farewell at most once (io.h on(event::io), dispose; io_handler.h).
SessionsAreServed ==
    /\ IOTypeOK
    /\ \A c \in Conn :
        /\ c \in sessions => ses[c].alive /\ ~ses[c].is_disposed /\ send[c] = "open"
        /\ ses[c].alive => c \in sessions \/ running = c
        /\ send[c] = "open" => c \in sessions
        /\ (c \in sessions /\ running # c) =>
              /\ ses[c].out # <<>> => "WRITE" \in ses[c].events
              /\ ses[c].reason # 0 => ses[c].fed
              /\ "READ" \in ses[c].events
        /\ farewells[c] <= (IF c \in sessions THEN 0 ELSE 1)

\* The start and the end of the i-th message of the client's script.
Frame(c, i) ==
    LET before == FoldSeq(+, 0, SubSeq(Script[c], 1, i - 1))
    IN  <<before + 1, before + Script[c][i]>>

\* The numbers m + 1, m + 2, ... in order.
Consecutive(q, m) == \A i \in DOMAIN q : q[i] = m + i

\* The handler is given the client's messages whole, in order and once, and no
\* byte is lost between the socket and the buffer; what the client reads is what
\* was published, in order, without a gap; and output is thrown away only when
\* the session was told to disconnect, the connection failed, the socket was
\* taken away, or the client sent something while its close was pending.
StreamsAreTrue ==
    \A c \in Conn :
        LET n == Len(handled[c])
            done == IF n = 0 THEN 0 ELSE handled[c][n][2]
        IN
        /\ \A i \in 1 .. n : handled[c][i] = Frame(c, i) /\ Script[c][i] <= MaxMessage
        /\ (c \in sessions /\ net[c] # "reset") =>
              LET unread == ses[c].in \o rx[c]
              IN  Consecutive(unread, done) /\ done + Len(unread) = sent[c]
        /\ Consecutive(got[c] \o tx[c], 0)
        /\ (c \in sessions /\ net[c] # "reset") => Consecutive(got[c] \o tx[c] \o ses[c].out, 0)
        /\ ~cut[c]

\* A connect is answered at most once, a coroutine has an answer when it is
\* resumed, and no socket is left behind: an open one belongs to the operation in
\* flight or to the coroutine that was given it (connector.h).
ConnectAnswersOnce ==
    \A c \in Conn :
        /\ Len(answers[c]) <= 1
        /\ frame[c] \in {"ready", "resumed"} => Len(answers[c]) = 1
        /\ frame[c] = "suspended" => op[c] \in {"armed", "deferred"}
        /\ cend[c] = "open" =>
              \/ op[c] \in {"armed", "deferred"}
              \/ frame[c] \in {"ready", "resumed"} /\ answers[c] = <<"open">>
        /\ completed[c] => op[c] = "gone"

\* Everything comes to an end: a connect with a deadline is answered, a session
\* that was disconnected, lost its client or was to close after its output ends,
\* and output reaches a client that reads.  (A behaviour makes finitely many
\* calls, so that each is settled is that a moment comes after which all are.)
EverythingSettles ==
    <>[](\A c \in Conn :
            /\ op[c] # "deferred" /\ (HasDeadline[c] => op[c] # "armed")
            /\ c \in sessions =>
                  /\ ses[c].reason = 0 /\ cend[c] # "closed" /\ net[c] # "reset"
                  /\ ses[c].out = <<>>)
=============================================================================
