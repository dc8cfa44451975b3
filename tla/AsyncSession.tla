----------------------------- MODULE AsyncSession ----------------------------
(* A TCP server of qb::io (async/io.h io<>, async/io_handler.h, stream.h,   *)
(* async/tcp/acceptor.h): the sessions of one event loop.  The loop runs    *)
(* one handler at a time; on(event::io) is split where the outside can act  *)
(* in between: the read, every message, the write, the end.  User code      *)
(* (handlers, and calls made from elsewhere on the loop's thread) may use   *)
(* the whole interface of a session.                                        *)
EXTENDS TcpNet, SequencesExt

CONSTANTS
    Script,             \* per connection: the sizes of the messages its client writes
    MaxSessions,        \* _max_sessions
    MaxMessage,         \* _max_message_size
    Bucket,             \* QB_DEFAULT_READ_BUFFER_SIZE
    MaxRead,            \* _max_read_buffer_size
    MaxWrite,           \* _max_write_buffer_size
    ReplySize,          \* bytes of a message the server publishes
    MaxPublished,       \* bound: bytes published, per connection
    None

ASSUME SessionAssumption ==
    /\ \A c \in Conn : Script[c] \in Seq(Nat \ {0})
    /\ {MaxSessions, MaxMessage, Bucket, MaxRead, MaxWrite, ReplySize} \subseteq Nat \ {0}
    /\ MaxPublished \in [Conn -> Nat]
    /\ Bucket <= MaxRead
    /\ None \notin Conn

VARIABLES
    sessions,   \* io_handler::_sessions
    ses,        \* the session objects
    running,    \* the session whose on(event::io) is under way, or None
    stage,      \* how far it is
    revents,    \* event._revents
    handled,    \* history: per connection, the messages its handler was given
    farewells,  \* history: on(event::disconnected) calls per session
    cut         \* history: sessions that ended with output nothing excuses

sesvars == <<sessions, ses, running, stage, revents, handled, farewells, cut>>

-----------------------------------------------------------------------------
(* The session object.                                                     *)

\* A session constructed for an accepted socket, started: EV_READ is watched.
NewSession ==
    [alive |-> TRUE, ok |-> TRUE, on_message |-> FALSE, is_disposed |-> FALSE,
     reason |-> 0, system_error |-> FALSE, events |-> {"READ"}, fed |-> FALSE,
     in |-> <<>>, offset |-> 0, out |-> <<>>, published |-> 0]

NoSession == [NewSession EXCEPT !.alive = FALSE, !.events = {}]

user_initiated  == 1
protocol_error  == -1
message_too_large == -2
buffer_overflow == -3

pendingRead(s)  == Len(s.in)
pendingWrite(s) == Len(s.out)

\* Mutant: the loop is not told.
disconnect_unfed(s, why) == [s EXCEPT !.reason = why]

\* disconnect: the reason, and an event fed to the loop.
disconnect(s, why) == [s EXCEPT !.reason = why, !.fed = TRUE]

ready_to_write(s) == [s EXCEPT !.events = @ \cup {"WRITE"}]

\* Mutant: nobody watches for room to write.
publish_unwatched(s) ==
    LET n == Min({ReplySize, MaxWrite - pendingWrite(s)})
    IN  [s EXCEPT !.out = @ \o [i \in 1 .. n |-> s.published + i], !.published = @ + n]

\* publish: nothing once the session is ending; a full buffer ends it; a message
\* that does not fit is cut at the limit and ends it too.
publish(s) ==
    LET data == [i \in 1 .. ReplySize |-> s.published + i]
        kept == SubSeq(s.out \o data, 1, Min({MaxWrite, pendingWrite(s) + ReplySize}))
        t    == [ready_to_write(s) EXCEPT !.out = kept,
                                          !.published = @ + Len(kept) - pendingWrite(s)]
    IN  IF s.is_disposed \/ s.reason # 0 THEN s
        ELSE IF pendingWrite(s) >= MaxWrite
             THEN disconnect([s EXCEPT !.system_error = FALSE], buffer_overflow)
        ELSE IF pendingWrite(s) + ReplySize > MaxWrite
             THEN disconnect([t EXCEPT !.system_error = FALSE], buffer_overflow)
        ELSE t

close_after_deliver(s) == [s EXCEPT !.ok = FALSE]

\* Mutant: what came after the message goes with it.
flush_all(s, n) == [s EXCEPT !.in = <<>>]

flush(s, n) == [s EXCEPT !.in = SubSeq(@, n + 1, Len(@))]

\* What user code may do to a session in one go: publish, then end it or not.
Replies(c, s) == {s} \cup (IF s.published < MaxPublished[c] THEN {publish(s)} ELSE {})

Calls(c, s) ==
    LET r == Replies(c, s)
    IN  r \cup {disconnect(t, user_initiated) : t \in r} \cup {close_after_deliver(t) : t \in r}

\* The last byte of each message in the client's stream.
FrameEnds(c) == {FoldSeq(+, 0, SubSeq(Script[c], 1, i)) : i \in 1 .. Len(Script[c])}

\* byte_terminated::getMessageSize: the search for the delimiter resumes where
\* the last one stopped; 0 is "no message yet".
getMessageSize(c, s) ==
    LET found == {i \in (s.offset + 1) .. pendingRead(s) : s.in[i] \in FrameEnds(c)}
    IN  IF found = {} THEN 0 ELSE Min(found)

-----------------------------------------------------------------------------
(* The end of a handler.                                                   *)

\* A session goes with its last reference, and its socket with it: stop the watcher, close the socket.
\* Bytes nobody read make the kernel reset the connection, which may lose what the
\* client has not read either.
DestroySession(c) ==
    /\ send' = [send EXCEPT ![c] = IF @ = "open" THEN "closed" ELSE @]
    /\ rx' = [rx EXCEPT ![c] = IF send[c] = "open" THEN <<>> ELSE @]
    /\ \/ UNCHANGED tx
       \/ send[c] = "open" /\ rx[c] # <<>> /\ tx' = [tx EXCEPT ![c] = <<>>]
    /\ UNCHANGED <<net, cend, sent, got>>

\* on() goes on at another stage, with the session in state s.
Continue(c, s, next) ==
    /\ ses' = [ses EXCEPT ![c] = s]
    /\ stage' = next
    /\ UNCHANGED <<sessions, running, revents, farewells, cut>>

\* on() returns: the reference it held is the last one if the session has left
\* the server's map meanwhile.
Return(c, s) ==
    /\ running' = None /\ stage' = "idle" /\ revents' = {}
    /\ ses' = [ses EXCEPT ![c] = IF c \in sessions THEN s ELSE NoSession]
    /\ UNCHANGED <<sessions, handled, farewells, cut>>

\* The way to the label error: a reason already given stands, otherwise the
\* system's error is reported unless the protocol is closing the session.
Fail(s, errno) == IF s.reason = 0 THEN [s EXCEPT !.system_error = s.ok /\ errno] ELSE s

-----------------------------------------------------------------------------
(* io::on(event::io).                                                      *)

Ready(c) ==
    ses[c].events \cap ((IF Readable(c) THEN {"READ"} ELSE {})
                        \cup (IF Writable(c) THEN {"WRITE"} ELSE {}))

\* libev reports the socket, or the event that disconnect() fed.
OnEvent(c) ==
    LET s == ses[c] IN
    /\ running = None /\ s.alive
    /\ Ready(c) # {} \/ s.fed
    /\ ~s.on_message
    /\ running' = c
    /\ revents' = Ready(c)
    /\ ses' = [ses EXCEPT ![c].fed = FALSE]
    /\ stage' = IF s.reason # 0 THEN "error"
                ELSE IF "READ" \in Ready(c) /\ s.ok THEN "read"
                ELSE IF "WRITE" \in Ready(c) THEN "write"
                ELSE "error"
    /\ UNCHANGED <<netvars, sessions, handled, farewells, cut>>

\* istream::read refuses to grow the buffer past its limit; recv gives what the
\* kernel has, an end of stream, or an error.
OnRead(c) ==
    LET s == ses[c]
        n == Min({Bucket, Len(rx[c])})
    IN
    /\ running = c /\ stage = "read"
    /\ UNCHANGED <<net, cend, send, tx, sent, got, handled>>
    /\ IF pendingRead(s) + Bucket > MaxRead
       THEN /\ Continue(c, [s EXCEPT !.reason = buffer_overflow, !.system_error = FALSE], "error")
            /\ UNCHANGED rx
       ELSE IF rx[c] # <<>>
       THEN /\ rx' = [rx EXCEPT ![c] = SubSeq(@, n + 1, Len(@))]
            /\ Continue(c, [s EXCEPT !.in = @ \o SubSeq(rx[c], 1, n), !.on_message = TRUE], "message")
       ELSE /\ Continue(c, Fail(s, net[c] = "reset"), "error")
            /\ UNCHANGED rx

\* process_messages after a handler: the message is flushed, and a session that is
\* ending goes on to the write when it still has output.
AfterMessage(c, u, size) ==
    LET v == flush(u, size)
    IN  IF u.reason = 0 /\ u.ok THEN Continue(c, v, "message")
        ELSE IF pendingWrite(v) > 0
             THEN Continue(c, [ready_to_write(v) EXCEPT !.on_message = FALSE], "post")
        ELSE Continue(c, [v EXCEPT !.on_message = FALSE,
                                   !.reason = IF @ = 0 THEN protocol_error ELSE @], "error")

\* One turn of the loop of process_messages.
OnMessage(c) ==
    LET s    == ses[c]
        size == getMessageSize(c, s)
        t    == [s EXCEPT !.offset = 0]
    IN
    /\ running = c /\ stage = "message"
    /\ UNCHANGED netvars
    /\ \/ /\ size = 0
          /\ Continue(c, [s EXCEPT !.offset = pendingRead(s), !.on_message = FALSE], "post")
          /\ UNCHANGED handled
       \/ /\ size > MaxMessage
          /\ Continue(c, [t EXCEPT !.ok = FALSE, !.reason = message_too_large,
                                   !.system_error = FALSE, !.on_message = FALSE], "error")
          /\ UNCHANGED handled
       \/ /\ size \in 1 .. MaxMessage
          /\ handled' = [handled EXCEPT ![c] = Append(@, <<s.in[1], s.in[size]>>)]
          /\ \E u \in Calls(c, t) : AfterMessage(c, u, size)

\* io_handler::extractSession: the socket is the caller's, the session leaves the
\* map and goes with the last reference to it.
extractSession(c) ==
    /\ c \in sessions
    /\ sessions' = sessions \ {c}
    /\ send' = [send EXCEPT ![c] = "extracted"]
    /\ UNCHANGED <<net, cend, rx, tx, sent, got>>

\* A message handler extracts its own session (a protocol upgrade): on() goes on
\* with the object that it keeps alive.
OnMessageExtract(c) ==
    LET s    == ses[c]
        size == getMessageSize(c, s)
    IN
    /\ running = c /\ stage = "message"
    /\ size \in 1 .. MaxMessage
    /\ extractSession(c)
    /\ handled' = [handled EXCEPT ![c] = Append(@, <<s.in[1], s.in[size]>>)]
    /\ ses' = [ses EXCEPT ![c] = flush([s EXCEPT !.offset = 0], size)]
    /\ UNCHANGED <<running, stage, revents, farewells, cut>>

\* handle_post_read, and the output that has piled up is written at once.
PostRead(c) ==
    /\ running = c /\ stage = "post"
    /\ \E u \in Calls(c, ses[c]) :
          IF "WRITE" \in revents \/ pendingWrite(u) > 0
          THEN Continue(c, u, "write") /\ UNCHANGED <<netvars, handled>>
          ELSE Return(c, u) /\ UNCHANGED netvars

\* handle_write: an error; no room; or the kernel takes some of the output.  With
\* nothing left a session that is ending ends, another stops watching for room.
OnWrite(c) ==
    LET s    == ses[c]
        room == SndBuf - Len(tx[c])
        most == Min({room, pendingWrite(s)})
    IN
    /\ running = c /\ stage = "write"
    /\ \/ /\ send[c] = "extracted" \/ net[c] = "reset"
          /\ Continue(c, Fail(s, TRUE), "error")
          /\ UNCHANGED <<netvars, handled>>
       \/ /\ send[c] = "open" /\ net[c] # "reset" /\ room = 0 /\ pendingWrite(s) > 0
          /\ Return(c, ready_to_write(s))
          /\ UNCHANGED netvars
       \/ \E n \in (IF most = 0 THEN 0 ELSE 1) .. most :
             LET t == [s EXCEPT !.out = SubSeq(@, n + 1, Len(@))] IN
             /\ send[c] = "open" /\ net[c] # "reset" /\ (room > 0 \/ pendingWrite(s) = 0)
             /\ tx' = [tx EXCEPT ![c] = @ \o SubSeq(s.out, 1, n)]
             /\ UNCHANGED <<net, cend, send, rx, sent, got>>
             /\ IF pendingWrite(t) > 0 THEN Return(c, t)
                ELSE IF t.reason # 0 \/ ~t.ok
                     THEN Continue(c, Fail(t, FALSE), "error") /\ UNCHANGED handled
                ELSE \E u \in Calls(c, [t EXCEPT !.events = {"READ"}]) : Return(c, u)

\* dispose: on(event::disconnected), the server forgets the session, on() returns
\* and with it goes the last reference.
Dispose(c) ==
    LET s == ses[c] IN
    /\ running = c /\ stage = "error"
    /\ ~s.is_disposed
    /\ farewells' = [farewells EXCEPT ![c] = @ + 1]
    /\ cut' = [cut EXCEPT ![c] = /\ s.out # <<>> /\ s.reason = 0
                                /\ net[c] # "reset" /\ send[c] = "open"
                                /\ "READ" \notin revents]
    /\ sessions' = sessions \ {c}
    /\ ses' = [ses EXCEPT ![c] = NoSession]
    /\ DestroySession(c)
    /\ running' = None /\ stage' = "idle" /\ revents' = {}
    /\ UNCHANGED handled

-----------------------------------------------------------------------------
(* The server, and calls from elsewhere on the loop's thread.              *)

\* acceptor: accept() and io_handler::registerSession, which closes the socket
\* when the server is full; the server's on(session) may use the session.
Accept(c) ==
    /\ running = None
    /\ send[c] = "backlog"
    /\ IF Cardinality(sessions) >= MaxSessions
       THEN /\ send' = [send EXCEPT ![c] = "closed"]
            /\ rx' = [rx EXCEPT ![c] = <<>>]
            /\ UNCHANGED <<sessions, ses>>
       ELSE /\ send' = [send EXCEPT ![c] = "open"]
            /\ sessions' = sessions \cup {c}
            /\ \E s \in Calls(c, NewSession) : ses' = [ses EXCEPT ![c] = s]
            /\ UNCHANGED rx
    /\ UNCHANGED <<net, cend, tx, sent, got, running, stage, revents, handled, farewells, cut>>

\* A timer, an actor or another session's handler uses the session.
UserCall(c) ==
    /\ running = None /\ c \in sessions
    /\ \E s \in Calls(c, ses[c]) \ {ses[c]} : ses' = [ses EXCEPT ![c] = s]
    /\ UNCHANGED <<netvars, sessions, running, stage, revents, handled, farewells, cut>>

\* io_handler::stream: every session of a snapshot of the map publishes.
stream ==
    /\ running = None /\ sessions # {}
    /\ \A c \in sessions : ses[c].published < MaxPublished[c]
    /\ ses' = [c \in Conn |-> IF c \in sessions THEN publish(ses[c]) ELSE ses[c]]
    /\ UNCHANGED <<netvars, sessions, running, stage, revents, handled, farewells, cut>>

\* Extraction from outside a handler: nothing else holds the object.
UserExtract(c) ==
    /\ running = None
    /\ extractSession(c)
    /\ ses' = [ses EXCEPT ![c] = NoSession]
    /\ UNCHANGED <<running, stage, revents, handled, farewells, cut>>

SessionInit ==
    /\ sessions = {}
    /\ ses = [c \in Conn |-> NoSession]
    /\ running = None /\ stage = "idle" /\ revents = {}
    /\ handled = [c \in Conn |-> <<>>]
    /\ farewells = [c \in Conn |-> 0]
    /\ cut = [c \in Conn |-> FALSE]

Step(c) ==
    \/ OnRead(c) \/ OnMessage(c) \/ PostRead(c) \/ OnWrite(c) \/ Dispose(c)

SessionNext ==
    \/ \E c \in Conn : OnEvent(c) \/ Step(c) \/ OnMessageExtract(c)
                       \/ Accept(c) \/ UserCall(c) \/ UserExtract(c)
    \/ stream
=============================================================================
