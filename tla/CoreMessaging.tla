---------------------------- MODULE CoreMessaging ---------------------------
(***************************************************************************)
(* How events travel between VirtualCores (src/qb/core/VirtualCore.cpp,    *)
(* Main.cpp).  Every core runs __workflow__ on its own thread: it polls    *)
(* for a stop request, flushes one outbound pipe per peer into that peer's *)
(* mailbox (__flush_all__), receives its own pipe and then its mailbox,    *)
(* one ring per producer (__receive__), ticks its actors and reaps the     *)
(* killed ones.  When its last actor is gone it leaves the loop, drains    *)
(* what is left and publishes its stopped flag; Main::join waits for every *)
(* thread and sweeps the mailboxes.                                        *)
(*                                                                         *)
(* A core's actors are one: alive[c] holds while some actor of core c can  *)
(* still take events.  An event is a member of Event with fixed attributes *)
(* (width in buckets, QoS, the core that creates it, its first destination *)
(* and the call that sends it); when it is created, if ever, is free.  A   *)
(* mailbox ring is the bounded FIFO that SpscRing implements.              *)
(***************************************************************************)
EXTENDS Integers, Sequences, FiniteSets, SequencesExt

CONSTANTS
    NbCore,          \* number of VirtualCores
    Event,           \* the events a behaviour may create
    source,          \* function: the core whose actor creates an event
    dest,            \* function: the core it is first sent to
    call,            \* function: "push" or "send"
    bucket_size,     \* function: width of an event; 0 is malformed
    qos,             \* function: 0 best effort, 2 guaranteed
    MaxRingEvents,   \* capacity of one producer's ring, in buckets
    MaxCreated,      \* bound: how many of the events one behaviour creates
    MaxHops,         \* bound: how often each event is replied to or forwarded
    MayThrow         \* whether a callback may let an exception escape

\* SignalEvent, synthesised by a core for its own actors.
Sig == "SignalEvent"

ASSUME MessagingAssumption ==
    /\ NbCore \in Nat \ {0} /\ Sig \notin Event
    /\ source \in [Event -> 0 .. (NbCore - 1)]
    /\ dest \in [Event -> 0 .. (NbCore - 1)]
    /\ call \in [Event -> {"push", "send"}]
    /\ bucket_size \in [Event -> Nat]
    /\ qos \in [Event -> {0, 2}]
    /\ MaxRingEvents \in Nat \ {0}
    /\ MaxCreated \in Nat
    /\ MaxHops \in [Event -> Nat]
    /\ MayThrow \in BOOLEAN

Cores == 0 .. (NbCore - 1)

Items == Event \cup {Sig}

VARIABLES
    pc,        \* where each core's thread is in __workflow__
    draining,  \* the core has left the main loop (residual drain)
    at,        \* loop variable of __flush_all__ (pipe) or consume_all (ring)
    any_work,  \* local of __flush_all__
    alive,     \* the core still has a live actor
    pipes,     \* _pipes[c][d]: outbound events, in order
    front,     \* free buckets in front of pipes[c][d] after a partial flush
    mailbox,   \* _mail_boxes[d]: one ring per producer
    batch,     \* the events __receive_events__ is working through
    stopped,   \* _core_stopped
    stop,      \* Main::stop() was called
    signalled, \* the core has synthesised its SignalEvent
    joined,    \* Main::join() has returned
    fate,      \* history: what became of each event
    hops,      \* history: how often it was replied to or forwarded
    pushed,    \* history: events given to push(), per origin and destination
    handled    \* history: events a live actor received, per core

vars == <<pc, draining, at, any_work, alive, pipes, front, mailbox, batch,
          stopped, stop, signalled, joined, fate, hops, pushed, handled>>

thread == <<pc, draining, at, any_work>>
queues == <<pipes, front, mailbox, batch>>
engine == <<stopped, stop, signalled, joined>>
history == <<fate, hops, pushed, handled>>

Init ==
    /\ pc = [c \in Cores |-> "poll"]
    /\ draining = [c \in Cores |-> FALSE]
    /\ at = [c \in Cores |-> 0]
    /\ any_work = [c \in Cores |-> FALSE]
    /\ alive = [c \in Cores |-> TRUE]
    /\ pipes = [c \in Cores |-> [d \in Cores |-> <<>>]]
    /\ front = [c \in Cores |-> [d \in Cores |-> 0]]
    /\ mailbox = [d \in Cores |-> [c \in Cores |-> <<>>]]
    /\ batch = [c \in Cores |-> <<>>]
    /\ stopped = [c \in Cores |-> FALSE]
    /\ stop = FALSE
    /\ signalled = [c \in Cores |-> FALSE]
    /\ joined = FALSE
    /\ fate = [e \in Event |-> "unborn"]
    /\ hops = [e \in Event |-> 0]
    /\ pushed = [c \in Cores |-> [d \in Cores |-> <<>>]]
    /\ handled = [c \in Cores |-> <<>>]

-----------------------------------------------------------------------------
(* Sending.                                                                *)

Buckets(seq) == FoldLeft(LAMBDA n, e : n + bucket_size[e], 0, seq)

\* SharedCoreCommunication::send: all the buckets fit in the ring, or nothing
\* is written.  The ring is the one of the core whose thread sends.
CanSend(c, d, e) ==
    /\ bucket_size[e] > 0
    /\ Buckets(mailbox[d][c]) + bucket_size[e] <= MaxRingEvents

Enqueue(c, d, e) == mailbox' = [mailbox EXCEPT ![d][c] = Append(@, e)]

\* The actor of core c runs: a handler is working on the head of the batch, or
\* a callback is ticking.
InHandler(c) ==
    /\ alive[c]
    /\ \/ pc[c] \in {"self", "mail"} /\ batch[c] # <<>> /\ Head(batch[c]) # Sig
       \/ pc[c] = "tick"

\* Event e is made by a call of kind k in core c.
Creates(c, e, k) ==
    /\ InHandler(c)
    /\ fate[e] = "unborn" /\ source[e] = c /\ call[e] = k
    /\ Cardinality({f \in Event : fate[f] # "unborn"}) < MaxCreated
    /\ fate' = [fate EXCEPT ![e] = "live"]

\* allocate_back at the end of the storage moves the contents to the front of it.
MayCompact(c, d) == front' \in {front, [front EXCEPT ![c][d] = 0]}

\* Actor::push: always at the back of the pipe.
Push(c) == \E e \in Event : LET d == dest[e] IN
    /\ Creates(c, e, "push")
    /\ pipes' = [pipes EXCEPT ![c][d] = Append(@, e)]
    /\ MayCompact(c, d)
    /\ pushed' = [pushed EXCEPT ![c][d] = Append(@, e)]
    /\ UNCHANGED <<thread, alive, mailbox, batch, engine, hops, handled>>

\* VirtualCore::send: straight into the peer's ring when it has room, else
\* into the pipe, in front of what waits there if the event fits in front.
Dispatch(c, d, e) ==
    IF d # c /\ CanSend(c, d, e)
    THEN Enqueue(c, d, e) /\ MayCompact(c, d) /\ UNCHANGED pipes
    ELSE /\ IF front[c][d] >= bucket_size[e] + 1
            THEN /\ pipes' = [pipes EXCEPT ![c][d] = <<e>> \o @]
                 /\ front' = [front EXCEPT ![c][d] = @ - bucket_size[e]]
            ELSE /\ pipes' = [pipes EXCEPT ![c][d] = Append(@, e)]
                 /\ MayCompact(c, d)
         /\ UNCHANGED mailbox

\* Actor::send.
Send(c) == \E e \in Event :
    /\ Creates(c, e, "send")
    /\ Dispatch(c, dest[e], e)
    /\ UNCHANGED <<thread, alive, batch, engine, hops, pushed, handled>>

-----------------------------------------------------------------------------
(* One pass of __workflow__.                                               *)

Goto(c, where) == pc' = [pc EXCEPT ![c] = where]

\* The loops over pipes and over rings pass over the core's own: local events
\* never go through the mailbox.
Peer(c, i) == IF i = c THEN i + 1 ELSE i

\* The stop request is polled at the start of a pass and becomes a SignalEvent
\* in the core's own pipe.
Poll(c) ==
    /\ pc[c] = "poll"
    /\ Goto(c, "flush")
    /\ at' = [at EXCEPT ![c] = Peer(c, 0)]
    /\ any_work' = [any_work EXCEPT ![c] = FALSE]
    /\ IF stop /\ ~signalled[c]
       THEN /\ pipes' = [pipes EXCEPT ![c][c] = Append(@, Sig)]
            /\ signalled' = [signalled EXCEPT ![c] = TRUE]
       ELSE UNCHANGED <<pipes, signalled>>
    /\ UNCHANGED <<draining, alive, front, mailbox, batch, stopped, stop, joined, history>>

\* __flush_all__ passes over empty pipes; the storage of a pipe it has emptied
\* is reset.
FlushNextPipe(c) ==
    /\ pc[c] = "flush"
    /\ at[c] < NbCore
    /\ pipes[c][at[c]] = <<>>
    /\ at' = [at EXCEPT ![c] = Peer(c, @ + 1)]
    /\ front' = [front EXCEPT ![c][at[c]] = 0]
    /\ UNCHANGED <<pc, draining, any_work, alive, pipes, mailbox, batch, engine, history>>

\* The head of the pipe the flush is at.
FlushHead(c, e) ==
    /\ pc[c] = "flush"
    /\ at[c] < NbCore
    /\ pipes[c][at[c]] # <<>>
    /\ e = Head(pipes[c][at[c]])

\* Mutant: forgets to advance past the event it has sent.
FlushStepStays(c, e) ==
    /\ any_work' = [any_work EXCEPT ![c] = TRUE]
    /\ at' = [at EXCEPT ![c] = Peer(c, @ + 1)]
    /\ UNCHANGED <<pc, draining, alive, pipes, front, batch, engine, hops, pushed, handled>>

\* cur += bucket_size.
FlushStep(c, e) ==
    /\ any_work' = [any_work EXCEPT ![c] = TRUE]
    /\ pipes' = [pipes EXCEPT ![c][at[c]] = Tail(@)]
    /\ front' = [front EXCEPT ![c][at[c]] = @ + bucket_size[e]]
    /\ UNCHANGED <<pc, draining, at, alive, batch, engine, hops, pushed, handled>>

\* try_send succeeded, at once or within the retry budget.
FlushSend(c) == \E e \in Event :
    /\ FlushHead(c, e)
    /\ CanSend(c, at[c], e)
    /\ Enqueue(c, at[c], e)
    /\ FlushStep(c, e)
    /\ UNCHANGED fate

\* Wider than any ring: disposed of and skipped.
FlushOversize(c) == \E e \in Event :
    /\ FlushHead(c, e)
    /\ bucket_size[e] > MaxRingEvents
    /\ fate' = [fate EXCEPT ![e] = "disposed"]
    /\ FlushStep(c, e)
    /\ UNCHANGED mailbox

\* Mutant: drops whatever does not fit.
FlushDropAny(c) == \E e \in Event :
    /\ FlushHead(c, e)
    /\ bucket_size[e] \in 1 .. MaxRingEvents
    /\ ~CanSend(c, at[c], e)
    /\ fate' = [fate EXCEPT ![e] = "dropped"]
    /\ FlushStep(c, e)
    /\ UNCHANGED mailbox

\* Best effort: dropped when the ring has no room.
FlushDrop(c) == \E e \in Event :
    /\ FlushHead(c, e)
    /\ bucket_size[e] \in 1 .. MaxRingEvents
    /\ ~CanSend(c, at[c], e)
    /\ qos[e] = 0
    /\ fate' = [fate EXCEPT ![e] = "dropped"]
    /\ FlushStep(c, e)
    /\ UNCHANGED mailbox

\* Zero width: the rest of the pipe cannot be walked and is discarded.
FlushMalformed(c) == \E e \in Event :
    LET rest == ToSet(pipes[c][at[c]]) IN
    /\ FlushHead(c, e)
    /\ bucket_size[e] = 0
    /\ fate' = [f \in Event |-> IF f \in rest THEN "discarded" ELSE fate[f]]
    /\ any_work' = [any_work EXCEPT ![c] = TRUE]
    /\ pipes' = [pipes EXCEPT ![c][at[c]] = <<>>]
    /\ UNCHANGED <<pc, draining, at, alive, front, mailbox, batch, engine, hops, pushed, handled>>

\* Mutant: puts the event that did not fit behind the others.
FlushRequeue(c) == \E e \in Event :
    /\ FlushHead(c, e)
    /\ ~CanSend(c, at[c], e)
    /\ any_work' = [any_work EXCEPT ![c] = TRUE]
    /\ at' = [at EXCEPT ![c] = Peer(c, @ + 1)]
    /\ pipes' = [pipes EXCEPT ![c][at[c]] = Append(Tail(@), e)]
    /\ UNCHANGED <<pc, draining, alive, front, mailbox, batch, engine, history>>

\* Guaranteed, and every attempt of the budget failed: the tail stays in the
\* pipe for the next pass and the flush moves on.
FlushGiveUp(c) == \E e \in Event :
    /\ FlushHead(c, e)
    /\ bucket_size[e] \in 1 .. MaxRingEvents
    /\ ~CanSend(c, at[c], e)
    /\ qos[e] # 0
    /\ any_work' = [any_work EXCEPT ![c] = TRUE]
    /\ at' = [at EXCEPT ![c] = Peer(c, @ + 1)]
    /\ UNCHANGED <<pc, draining, alive, queues, engine, history>>

\* The end of __flush_all__: the main loop receives next; the residual drain
\* stops at once when no pipe held anything.
FlushEnd(c) ==
    /\ pc[c] = "flush"
    /\ at[c] = NbCore
    /\ Goto(c, IF ~draining[c] THEN "swap" ELSE IF any_work[c] THEN "residual" ELSE "halt")
    /\ UNCHANGED <<draining, at, any_work, alive, queues, engine, history>>

\* __receive__, first half: the core's own pipe is swapped out and worked through.
SwapOwnPipe(c) ==
    /\ pc[c] = "swap"
    /\ batch' = [batch EXCEPT ![c] = pipes[c][c]]
    /\ pipes' = [pipes EXCEPT ![c][c] = <<>>]
    /\ Goto(c, "self")
    /\ UNCHANGED <<draining, at, any_work, alive, front, mailbox, engine, history>>

OwnPipeDone(c) ==
    /\ pc[c] = "self"
    /\ batch[c] = <<>>
    /\ Goto(c, "mail")
    /\ at' = [at EXCEPT ![c] = Peer(c, 0)]
    /\ UNCHANGED <<draining, any_work, alive, queues, engine, history>>

\* Mutant: always leaves the last event in the ring.
NextRingButLast(c) ==
    LET ring == mailbox[c][at[c]]
        keep == IF ring = <<>> THEN 1 ELSE Len(ring) IN
    /\ pc[c] = "mail"
    /\ batch[c] = <<>>
    /\ at[c] < NbCore
    /\ batch' = [batch EXCEPT ![c] = SubSeq(ring, 1, keep - 1)]
    /\ mailbox' = [mailbox EXCEPT ![c][at[c]] = SubSeq(ring, keep, Len(ring))]
    /\ at' = [at EXCEPT ![c] = Peer(c, @ + 1)]
    /\ UNCHANGED <<pc, draining, any_work, alive, pipes, front, engine, history>>

\* Second half: every producer's ring in turn is copied out whole.
NextRing(c) ==
    /\ pc[c] = "mail"
    /\ batch[c] = <<>>
    /\ at[c] < NbCore
    /\ batch' = [batch EXCEPT ![c] = mailbox[c][at[c]]]
    /\ mailbox' = [mailbox EXCEPT ![c][at[c]] = <<>>]
    /\ at' = [at EXCEPT ![c] = Peer(c, @ + 1)]
    /\ UNCHANGED <<pc, draining, any_work, alive, pipes, front, engine, history>>

\* The end of __receive__.  In the main loop an actor killed by what was
\* received skips the callbacks.
ReceiveEnd(c) ==
    /\ pc[c] = "mail"
    /\ batch[c] = <<>>
    /\ at[c] = NbCore
    /\ Goto(c, IF draining[c] THEN "flush" ELSE IF alive[c] THEN "tick" ELSE "reap")
    /\ at' = [at EXCEPT ![c] = Peer(c, 0)]
    /\ any_work' = [any_work EXCEPT ![c] = FALSE]
    /\ UNCHANGED <<draining, alive, queues, engine, history>>

\* The next event of the batch.
Incoming(c, e) ==
    /\ pc[c] \in {"self", "mail"}
    /\ batch[c] # <<>>
    /\ e = Head(batch[c])

PopBatch(c) == batch' = [batch EXCEPT ![c] = Tail(@)]

\* A handler ran to its end, kill() included if it called it, and the event was
\* disposed of after it.
HandleEvent(c) == \E e \in Event, killed \in BOOLEAN :
    /\ Incoming(c, e)
    /\ alive[c]
    /\ bucket_size[e] > 0
    /\ PopBatch(c)
    /\ handled' = [handled EXCEPT ![c] = Append(@, e)]
    /\ fate' = [fate EXCEPT ![e] = "handled"]
    /\ alive' = [alive EXCEPT ![c] = ~killed]
    /\ UNCHANGED <<thread, pipes, front, mailbox, engine, hops, pushed>>

\* The handler replied to the event or forwarded it: its alive bit keeps the
\* router from disposing of the bytes, which travel on.
Relay(c, d) == \E e \in Event :
    /\ Incoming(c, e)
    /\ alive[c]
    /\ bucket_size[e] > 0
    /\ hops[e] < MaxHops[e]
    /\ PopBatch(c)
    /\ handled' = [handled EXCEPT ![c] = Append(@, e)]
    /\ hops' = [hops EXCEPT ![e] = @ + 1]
    /\ Dispatch(c, d, e)
    /\ UNCHANGED <<thread, alive, engine, fate, pushed>>

\* No live actor takes the event: the router disposes of it.
RouteNowhere(c) == \E e \in Event :
    /\ Incoming(c, e)
    /\ ~alive[c]
    /\ bucket_size[e] > 0
    /\ PopBatch(c)
    /\ fate' = [fate EXCEPT ![e] = "disposed"]
    /\ UNCHANGED <<thread, alive, pipes, front, mailbox, engine, hops, pushed, handled>>

\* A malformed event ends the batch.
AbortBatch(c) == \E e \in Event :
    /\ Incoming(c, e)
    /\ bucket_size[e] = 0
    /\ fate' = [f \in Event |-> IF f \in ToSet(batch[c]) THEN "discarded" ELSE fate[f]]
    /\ batch' = [batch EXCEPT ![c] = <<>>]
    /\ UNCHANGED <<thread, alive, pipes, front, mailbox, engine, hops, pushed, handled>>

\* Actor::on(SignalEvent) kills the actor.
HandleSignal(c) ==
    /\ Incoming(c, Sig)
    /\ PopBatch(c)
    /\ alive' = [alive EXCEPT ![c] = FALSE]
    /\ UNCHANGED <<thread, pipes, front, mailbox, engine, history>>

\* The callbacks return, having killed the actor or not.
Tick(c) == \E killed \in BOOLEAN :
    /\ pc[c] = "tick"
    /\ alive' = [alive EXCEPT ![c] = ~killed]
    /\ Goto(c, "reap")
    /\ UNCHANGED <<draining, at, any_work, queues, engine, history>>

\* Killed actors are removed; a core without actors leaves the main loop.
Reap(c) ==
    /\ pc[c] = "reap"
    /\ draining' = [draining EXCEPT ![c] = ~alive[c]]
    /\ Goto(c, IF alive[c] THEN "poll" ELSE "swap")
    /\ UNCHANGED <<at, any_work, alive, queues, engine, history>>

\* Mutant: retries for ever, stopped peers included.
ResidualRetries(c) ==
    /\ pc[c] = "residual"
    /\ Goto(c, IF \E d \in Cores \ {c} : pipes[c][d] # <<>> THEN "swap" ELSE "halt")
    /\ UNCHANGED <<draining, at, any_work, alive, queues, engine, history>>

\* __dispose_residual_to_stopped_cores__: pipes to cores that have stopped are
\* disposed of; the drain goes on while a live core still has events waiting.
Residual(c) ==
    LET gone == {d \in Cores \ {c} : stopped[d]}
        lost == UNION {ToSet(pipes[c][d]) : d \in gone}
        live == \E d \in Cores \ ({c} \cup gone) : pipes[c][d] # <<>>
    IN
    /\ pc[c] = "residual"
    /\ fate' = [e \in Event |-> IF e \in lost THEN "disposed" ELSE fate[e]]
    /\ pipes' = [pipes EXCEPT ![c] = [d \in Cores |-> IF d \in gone THEN <<>> ELSE @[d]]]
    /\ front' = [front EXCEPT ![c] = [d \in Cores |-> IF d \in gone THEN 0 ELSE @[d]]]
    /\ Goto(c, IF live THEN "swap" ELSE "halt")
    /\ UNCHANGED <<draining, at, any_work, alive, mailbox, batch, engine, hops, pushed, handled>>

\* mark_core_stopped, and the thread returns.
Halt(c) ==
    /\ pc[c] = "halt"
    /\ stopped' = [stopped EXCEPT ![c] = TRUE]
    /\ Goto(c, "gone")
    /\ UNCHANGED <<draining, at, any_work, alive, queues, stop, signalled, joined, history>>

\* An exception escapes a callback (out of an event handler it would end the
\* process: the router is noexcept): the thread unwinds to start_thread, whose
\* ExitGuard publishes the stopped flag.  What the core still held is lost with
\* it; its mailbox is left for join.
Throw(c) ==
    LET held == UNION {ToSet(pipes[c][d]) : d \in Cores} IN
    /\ MayThrow
    /\ pc[c] = "tick" /\ alive[c]
    /\ fate' = [e \in Event |-> IF e \in held THEN "leaked" ELSE fate[e]]
    /\ pipes' = [pipes EXCEPT ![c] = [d \in Cores |-> <<>>]]
    /\ alive' = [alive EXCEPT ![c] = FALSE]
    /\ stopped' = [stopped EXCEPT ![c] = TRUE]
    /\ Goto(c, "gone")
    /\ UNCHANGED <<draining, at, any_work, front, mailbox, batch, stop, signalled, joined, hops, pushed, handled>>

-----------------------------------------------------------------------------
(* Main.                                                                   *)

Stop ==
    /\ ~stop
    /\ stop' = TRUE
    /\ UNCHANGED <<thread, alive, queues, stopped, signalled, joined, history>>

\* Mutant: join does not sweep the mailboxes.
JoinOnly ==
    /\ \A c \in Cores : pc[c] = "gone"
    /\ ~joined
    /\ joined' = TRUE
    /\ UNCHANGED <<thread, alive, queues, stopped, stop, signalled, history>>

\* Main::join: every thread has returned; what a late flush left in a mailbox
\* is disposed of.
Join ==
    LET left == UNION {ToSet(mailbox[d][c]) : c, d \in Cores} IN
    /\ \A c \in Cores : pc[c] = "gone"
    /\ ~joined
    /\ joined' = TRUE
    /\ fate' = [e \in Event |-> IF e \in left THEN "disposed" ELSE fate[e]]
    /\ mailbox' = [d \in Cores |-> [c \in Cores |-> <<>>]]
    /\ UNCHANGED <<thread, alive, pipes, front, batch, stopped, stop, signalled, hops, pushed, handled>>

\* The actors' choices and the thread's own steps.
Act(c) == Push(c) \/ Send(c) \/ \E d \in Cores : Relay(c, d)

Work(c) ==
    \/ Poll(c) \/ FlushNextPipe(c) \/ FlushSend(c) \/ FlushOversize(c) \/ FlushDrop(c)
    \/ FlushMalformed(c) \/ FlushGiveUp(c) \/ FlushEnd(c)
    \/ SwapOwnPipe(c) \/ OwnPipeDone(c) \/ NextRing(c) \/ ReceiveEnd(c)
    \/ HandleEvent(c) \/ RouteNowhere(c) \/ AbortBatch(c) \/ HandleSignal(c)
    \/ Tick(c) \/ Reap(c) \/ Residual(c) \/ Halt(c)

Next == Stop \/ Join \/ \E c \in Cores : Work(c) \/ Act(c) \/ Throw(c)

\* Every core's thread is scheduled, its handlers return, and someone joins.
Fairness == WF_vars(Join) /\ \A c \in Cores : WF_vars(Work(c))

Spec == Init /\ [][Next]_vars /\ Fairness

-----------------------------------------------------------------------------
(* Properties.                                                             *)

Fates == {"unborn", "live", "handled", "disposed", "dropped", "discarded", "leaked"}

\* The type of the state.
TypeOK ==
    /\ pc \in [Cores -> {"poll", "flush", "swap", "self", "mail", "tick", "reap",
                        "residual", "halt", "gone"}]
    /\ draining \in [Cores -> BOOLEAN]
    /\ at \in [Cores -> 0 .. NbCore]
    /\ any_work \in [Cores -> BOOLEAN]
    /\ alive \in [Cores -> BOOLEAN]
    /\ pipes \in [Cores -> [Cores -> Seq(Items)]]
    /\ front \in [Cores -> [Cores -> Nat]]
    /\ mailbox \in [Cores -> [Cores -> Seq(Event)]]
    /\ batch \in [Cores -> Seq(Items)]
    /\ stopped \in [Cores -> BOOLEAN]
    /\ stop \in BOOLEAN
    /\ signalled \in [Cores -> BOOLEAN]
    /\ joined \in BOOLEAN
    /\ fate \in [Event -> Fates]
    /\ hops \in [Event -> Nat] /\ \A e \in Event : hops[e] <= MaxHops[e]
    /\ pushed \in [Cores -> [Cores -> Seq(Event)]]
    /\ handled \in [Cores -> Seq(Event)]

\* The queues an event bound for core d can be in.
Towards(d) ==
    {<<"batch", d, d>>} \cup ({"pipe", "ring"} \X Cores \X {d})

Queue(q) ==
    CASE q[1] = "batch" -> batch[q[2]]
      [] q[1] = "pipe"  -> pipes[q[2]][q[3]]
      [] q[1] = "ring"  -> mailbox[q[3]][q[2]]

Places(e) ==
    UNION {{q} \X {i \in DOMAIN Queue(q) : Queue(q)[i] = e} :
               q \in UNION {Towards(d) : d \in Cores}}

\* An event that is not settled is in exactly one queue, once, and a settled one
\* is in none: it is never lost, duplicated, disposed of twice or handled after
\* it was disposed of, whatever the interleaving of flushes, receives, crashes
\* and shutdown (VirtualCore.cpp __flush_all__, __receive__, the residual drain).
OnePlacePerLiveEvent ==
    \A e \in Event : Cardinality(Places(e)) = IF fate[e] = "live" THEN 1 ELSE 0

\* When join returns nothing is left: every guaranteed event of deliverable width
\* was handled or disposed of (or leaked by the core that threw), unless a
\* malformed one took the rest of its batch with it.
NothingLeftBehind ==
    joined => \A e \in Event :
        /\ fate[e] # "live"
        /\ (/\ qos[e] = 2 /\ bucket_size[e] <= MaxRingEvents
            /\ \A f \in Event : bucket_size[f] = 0 => fate[f] = "unborn") =>
                  \/ fate[e] \in {"unborn", "handled", "disposed"}
                  \/ MayThrow /\ fate[e] = "leaked"

\* Every event is accounted for, from its creation to the join.
EventsAccountedFor == TypeOK /\ OnePlacePerLiveEvent /\ NothingLeftBehind

Position(seq, e) == CHOOSE i \in 1 .. Len(seq) : seq[i] = e

\* Of two events one core pushes to another (and that were not relayed), the
\* first is handled first: backpressure, partial flushes and send() calls that
\* overtake them do not reorder pushes.
PushesArriveInOrder ==
    \A c, d \in Cores : \A i, j \in 1 .. Len(pushed[c][d]) :
        LET e == pushed[c][d][i]
            f == pushed[c][d][j]
        IN  (i < j /\ f \in ToSet(handled[d]) /\ hops[e] = 0 /\ hops[f] = 0) =>
                /\ fate[e] # "live"
                /\ e \in ToSet(handled[d]) =>
                       Position(handled[d], e) < Position(handled[d], f)

\* A guaranteed event of deliverable width is given up only when the core it is
\* bound for has no live actor left: never because its mailbox was full.
GuaranteedUnlessDead ==
    [][\A e \in Event, d \in Cores :
          (/\ fate[e] = "live" /\ fate'[e] \in {"disposed", "dropped"}
           /\ qos[e] = 2 /\ bucket_size[e] \in 1 .. MaxRingEvents
           /\ \E p \in Places(e) : p[1] \in Towards(d)) => ~alive[d]]_vars

\* stop() brings every core down and join returns, even when the cores are
\* blocked on each other's full mailboxes or one of them has thrown.
StopTerminates == stop ~> joined

\* While all cores run no event waits for ever: two cores whose mailboxes are
\* both full get out of it.  (A behaviour creates finitely many events, so that
\* each of them settles is that a moment comes after which none is live.)
EventsSettle ==
    <>[]((\A e \in Event : fate[e] # "live") \/ \E c \in Cores : pc[c] = "gone")
=============================================================================
