----------------------------- MODULE TcpConnector ----------------------------
(* The asynchronous connect of qb::io (async/tcp/connector.h): an operation *)
(* that owns itself while its watcher is registered, races its deadline,    *)
(* may negotiate STARTTLS and a TLS handshake, and answers its callback     *)
(* once; the awaiter of co_await connect(), whose frame may be destroyed    *)
(* first; and the teardown of the listener (async/listener.h clear).        *)
EXTENDS TcpNet

CONSTANTS
    Mode,           \* per connection: "plain", "tls" or "starttls"
    HasDeadline,    \* per connection: timeout > 0
    MaxRounds       \* bound: reported events before a handshake is decided

ASSUME ConnectorAssumption ==
    /\ Mode \in [Conn -> {"plain", "tls", "starttls"}]
    /\ HasDeadline \in [Conn -> BOOLEAN]
    /\ MaxRounds \in Nat

VARIABLES
    op,         \* the connector object: what keeps it alive
    sphase,     \* sphase_
    rounds,     \* events its watcher has seen
    completed,  \* completed_
    timer,      \* the deadline's callback
    answers,    \* history: what the completion callback was given
    frame       \* the coroutine that awaits the answer

connvars == <<op, sphase, rounds, completed, timer, answers, frame>>

ConnectorInit ==
    /\ op = [c \in Conn |-> "none"]
    /\ sphase = [c \in Conn |-> "connecting"]
    /\ rounds = [c \in Conn |-> 0]
    /\ completed = [c \in Conn |-> FALSE]
    /\ timer = [c \in Conn |-> "none"]
    /\ answers = [c \in Conn |-> <<>>]
    /\ frame = [c \in Conn |-> "none"]

-----------------------------------------------------------------------------
(* Completion.                                                             *)

\* socket_.disconnect() and its destructor: the client's end is closed.
CloseSocket(c) == cend' = [cend EXCEPT ![c] = "closed"]

\* Mutant: the operation is not over once it has answered.
deliver_unmarked(c, answer) ==
    /\ answers' = [answers EXCEPT ![c] = Append(@, answer)]
    /\ frame' = [frame EXCEPT ![c] = IF @ = "suspended" THEN "ready" ELSE @]
    /\ UNCHANGED <<cend, completed, op, sphase, rounds>>

\* mark_completed_once, deliver and the awaiter's callback: the first
\* answer gives up the operation's reference to itself, and the object with it.  A
\* destroyed frame is not resumed, and the socket meant for it goes with the
\* callback's argument.
deliver(c, answer) ==
    IF completed[c]
    THEN UNCHANGED <<cend, completed, op, sphase, rounds, answers, frame>>
    ELSE /\ completed' = [completed EXCEPT ![c] = TRUE]
         /\ op' = [op EXCEPT ![c] = "gone"]
         /\ sphase' = [sphase EXCEPT ![c] = "connecting"]
         /\ rounds' = [rounds EXCEPT ![c] = 0]
         /\ answers' = [answers EXCEPT ![c] = Append(@, answer)]
         /\ frame' = [frame EXCEPT ![c] = IF @ = "suspended" THEN "ready" ELSE @]
         /\ IF answer = "open" /\ frame[c] = "suspended" THEN UNCHANGED cend ELSE CloseSocket(c)

\* finalize_transport_connect: a plain socket is done; a handshake takes rounds.
Finalize(c) ==
    IF Mode[c] = "plain" THEN {"done"}
    ELSE {"done", "failed"} \cup (IF rounds[c] < MaxRounds THEN {"pending"} ELSE {})

\* neg_.advance of the STARTTLS negotiator.
Advance(c) ==
    {"upgrade", "keep_plaintext", "fail"}
        \cup (IF rounds[c] < MaxRounds THEN {"want_read", "want_write"} ELSE {})

-----------------------------------------------------------------------------
(* run.                                                                    *)

\* arm_io and arm_deadline: watcher and timer.
Arm(c, phase) ==
    /\ op' = [op EXCEPT ![c] = "armed"]
    /\ sphase' = [sphase EXCEPT ![c] = phase]
    /\ timer' = [timer EXCEPT ![c] = IF HasDeadline[c] THEN "armed" ELSE "none"]
    /\ UNCHANGED <<rounds, completed, answers>>

\* co_await connect(): await_suspend starts the operation.  n_connect is under way
\* or, for a local socket, done at once.
RunInProgress(c) ==
    /\ op[c] = "none"
    /\ frame' = [frame EXCEPT ![c] = "suspended"]
    /\ net' = [net EXCEPT ![c] = "syn"]
    /\ cend' = [cend EXCEPT ![c] = "open"]
    /\ Arm(c, "connecting")
    /\ UNCHANGED <<send, rx, tx, sent, got>>

RunDirect(c) ==
    /\ op[c] = "none"
    /\ net' = [net EXCEPT ![c] = "up"]
    /\ send' = [send EXCEPT ![c] = "backlog"]
    /\ cend' = [cend EXCEPT ![c] = "open"]
    /\ UNCHANGED <<rx, tx, sent, got>>
    /\ IF Mode[c] = "starttls"
       THEN Arm(c, "negotiating") /\ frame' = [frame EXCEPT ![c] = "suspended"]
       ELSE \/ /\ "done" \in Finalize(c)
               /\ completed' = [completed EXCEPT ![c] = TRUE]
               /\ op' = [op EXCEPT ![c] = "gone"]
               /\ answers' = [answers EXCEPT ![c] = <<"open">>]
               /\ frame' = [frame EXCEPT ![c] = "ready"]
               /\ UNCHANGED <<sphase, rounds, timer>>
            \/ /\ "pending" \in Finalize(c)
               /\ frame' = [frame EXCEPT ![c] = "suspended"]
               /\ Arm(c, "connecting")
            \/ /\ "failed" \in Finalize(c)
               /\ frame' = [frame EXCEPT ![c] = "suspended"]
               /\ op' = [op EXCEPT ![c] = "deferred"]
               /\ UNCHANGED <<sphase, rounds, completed, timer, answers>>

\* n_connect fails at once: deliver_failure_deferred.
RunFails(c) ==
    /\ op[c] = "none"
    /\ frame' = [frame EXCEPT ![c] = "suspended"]
    /\ op' = [op EXCEPT ![c] = "deferred"]
    /\ UNCHANGED <<netvars, sphase, rounds, completed, timer, answers>>

\* The deadline had passed before run() came to arm it (the name was resolved in
\* n_connect): async::callback runs it there and then.
RunLate(c) ==
    /\ op[c] = "none" /\ HasDeadline[c]
    /\ cend' = [cend EXCEPT ![c] = "closed"]
    /\ completed' = [completed EXCEPT ![c] = TRUE]
    /\ op' = [op EXCEPT ![c] = "gone"]
    /\ answers' = [answers EXCEPT ![c] = <<"none">>]
    /\ frame' = [frame EXCEPT ![c] = "ready"]
    /\ UNCHANGED <<net, send, rx, tx, sent, got, sphase, rounds, timer>>

-----------------------------------------------------------------------------
(* The event loop.                                                         *)

\* deliver_failure, from the listener's queue of deferred calls.
Deferred(c) ==
    /\ op[c] = "deferred"
    /\ deliver(c, "none")
    /\ UNCHANGED <<net, send, rx, tx, sent, got, timer>>

\* What on() and on_starttls() decide from a reported event, in one of the phases
\* of the operation: the answer, or the phase in which it goes on waiting.
Decide(c, phase) ==
    LET finalized == {IF r = "done" THEN "open" ELSE IF r = "failed" THEN "none" ELSE "handshaking" :
                          r \in Finalize(c)}
    IN  IF Mode[c] # "starttls" \/ phase = "handshaking" THEN finalized
        ELSE UNION {CASE a \in {"want_read", "want_write"} -> {"negotiating"}
                      [] a = "keep_plaintext" -> {"open"}
                      [] a = "fail" -> {"none"}
                      [] a = "upgrade" -> {"none"} \cup finalized : a \in Advance(c)}

\* on(event::io): the watcher reports; a decided operation unregisters it first.
OnIo(c) ==
    LET fatal == net[c] \in {"refused", "reset"} IN
    /\ op[c] = "armed"
    /\ net[c] # "syn"
    /\ \E d \in IF fatal THEN {"none"} ELSE Decide(c, sphase[c]) :
          IF d \in {"open", "none"}
          THEN deliver(c, d)
          ELSE /\ sphase' = [sphase EXCEPT ![c] = d]
               /\ rounds' = [rounds EXCEPT ![c] = @ + 1]
               /\ UNCHANGED <<cend, op, completed, answers, frame>>
    /\ UNCHANGED <<net, send, rx, tx, sent, got, timer>>

\* The deadline's callback: it holds the operation weakly.
OnDeadline(c) ==
    /\ timer[c] = "armed"
    /\ timer' = [timer EXCEPT ![c] = "spent"]
    /\ IF op[c] = "gone" THEN UNCHANGED <<cend, op, sphase, rounds, completed, answers, frame>>
       ELSE deliver(c, "none")
    /\ UNCHANGED <<net, send, rx, tx, sent, got>>

\* The scheduler resumes the coroutine: await_resume hands the socket over.
Resume(c) ==
    /\ frame[c] = "ready"
    /\ frame' = [frame EXCEPT ![c] = "resumed"]
    /\ UNCHANGED <<netvars, op, sphase, rounds, completed, timer, answers>>

\* The coroutine is destroyed: the awaiter forgets its handle, and a result that
\* was not taken is closed with it.
DestroyFrame(c) ==
    /\ frame[c] \in {"suspended", "ready"}
    /\ frame' = [frame EXCEPT ![c] = "destroyed"]
    /\ IF frame[c] = "ready" THEN CloseSocket(c) ELSE UNCHANGED cend
    /\ UNCHANGED <<net, send, rx, tx, sent, got, op, sphase, rounds, completed, timer, answers>>

\* listener::clear and reset_coro_scheduler: deferred calls are dropped, watchers
\* detached and their owners destroyed (on_listener_teardown), timers deleted.
Teardown ==
    /\ \E c \in Conn : op[c] \in {"armed", "deferred"}
    /\ op' = [c \in Conn |-> IF op[c] = "none" THEN "none" ELSE "gone"]
    /\ sphase' = [c \in Conn |-> "connecting"]
    /\ rounds' = [c \in Conn |-> 0]
    /\ timer' = [c \in Conn |-> "none"]
    /\ frame' = [c \in Conn |-> IF frame[c] \in {"suspended", "ready"} THEN "destroyed" ELSE frame[c]]
    /\ cend' = [c \in Conn |-> IF frame[c] = "resumed" THEN cend[c]
                               ELSE IF cend[c] = "open" THEN "closed" ELSE cend[c]]
    /\ UNCHANGED <<net, send, rx, tx, sent, got, completed, answers>>

ConnectorNext ==
    \/ \E c \in Conn :
          \/ RunInProgress(c) \/ RunDirect(c) \/ RunFails(c) \/ RunLate(c)
          \/ Deferred(c) \/ OnIo(c) \/ OnDeadline(c) \/ Resume(c) \/ DestroyFrame(c)
    \/ Teardown
=============================================================================
