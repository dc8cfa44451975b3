---------------------------- MODULE AskPatterns ----------------------------
(***************************************************************************)
(* ask(): correlated requests between actors, and what is built on it      *)
(* (core/Actor.{h,cpp}, core/patterns/{request,resilience,idempotency,     *)
(* streaming}.h).                                                          *)
(*                                                                         *)
(* A call is made by a coroutine of its owner.  It sends a request that    *)
(* carries a correlation id, enters a slot under that id in the registry   *)
(* of its thread and parks until the reply is delivered to the slot, the   *)
(* timer fires or the owner is killed.  Replies are ordinary events: they  *)
(* may come late, come for a call of an earlier actor with the same id, or *)
(* never.  Actors of one core share registry and counter.  Events between  *)
(* two actors keep their order, as CoreMessaging shows.                    *)
(***************************************************************************)
EXTENDS Queues

CONSTANTS
    Actor,      \* actor ids
    Core,       \* the core of each actor
    Call,       \* coroutines that make calls
    Plans,      \* what each coroutine calls and how often: [kind, owner, target, rounds]
    Destroyable,\* kinds of call whose frame may be destroyed while it waits
    Rounds,     \* bound on the rounds of a plan
    Attempts,   \* max_attempts of ask_retry()
    Threshold,  \* failure_threshold of the circuit breaker
    CacheCap,   \* capacity of the dedup_map
    Chunks,     \* chunks a stream is answered with
    StreamCap,  \* chunks a stream buffers
    MaxKills    \* bound on killed actors

Kinds == {"ask", "retry", "guarded", "stream"}

ASSUME AskAssumption ==
    /\ Core \in [Actor -> Nat]
    /\ Plans \subseteq [Call -> [kind : Kinds, owner : Actor, target : Actor, rounds : 1..Rounds]]
    /\ Destroyable \subseteq Kinds
    /\ {Rounds, Attempts, Threshold, CacheCap, StreamCap} \subseteq Nat \ {0}
    /\ {Chunks, MaxKills} \subseteq Nat

VARIABLES
    plan,       \* the plan of this behaviour
    status,     \* "alive", "killed" (not reaped yet) or "gone"
    kills,      \* incarnations of an id that were killed
    counter,    \* tls_ask_counter of each core
    slots,      \* tls_ask_slots of each core: pairs of an id and a call
    net,        \* events on their way, by source and destination
    pc,         \* where the coroutine of a call is
    born,       \* the incarnation of its owner
    round,      \* calls it has made
    attempt,    \* attempts of an ask_retry()
    corr,       \* correlation id of its request
    timer,      \* its ev_timer runs
    out,        \* kind outcome, or how the call ended
    reply,      \* the reply it was given
    stream,     \* stream_state: queue, done, dropped
    got,        \* chunks the consumer has been given
    breaker,    \* the circuit breaker of the guarded calls
    cache,      \* the dedup_map of each actor, least recently used first
    ran,        \* history: executions of a keyed operation since it was last forgotten
    serving     \* streams a responder is answering: request and chunks sent

calls == <<pc, born, round, attempt, corr, timer, out, reply>>
streams == <<stream, got>>
answers == <<cache, ran, serving>>
vars == <<plan, status, kills, counter, slots, net, calls, streams, breaker, answers>>

Kind(c) == plan[c].kind
Owner(c) == plan[c].owner
Target(c) == plan[c].target
Keys == Call \X (1..Rounds)

NoStream == [queue |-> <<>>, done |-> FALSE, dropped |-> FALSE]
NoReply == [corr |-> <<0, 0>>]

Init ==
    /\ plan \in Plans
    /\ status = [a \in Actor |-> "alive"] /\ kills = [a \in Actor |-> 0]
    /\ counter = [k \in Range(Core) |-> 0] /\ slots = [k \in Range(Core) |-> {}]
    /\ net = [p \in Actor \X Actor |-> <<>>]
    /\ pc = [c \in Call |-> "idle"] /\ born = [c \in Call |-> 0] /\ round = [c \in Call |-> 0]
    /\ attempt = [c \in Call |-> 0] /\ corr = [c \in Call |-> <<0, 0>>]
    /\ timer = [c \in Call |-> FALSE] /\ out = [c \in Call |-> "none"] /\ reply = [c \in Call |-> NoReply]
    /\ stream = [c \in Call |-> NoStream] /\ got = [c \in Call |-> <<>>]
    /\ breaker = [state |-> "closed", failures |-> 0, cooled |-> FALSE]
    /\ cache = [a \in Actor |-> <<>>] /\ ran = [k \in Keys |-> 0] /\ serving = [a \in Actor |-> {}]

\* The owner's scope token.
Cancelled(c) == status[Owner(c)] # "alive" \/ kills[Owner(c)] # born[c]

-----------------------------------------------------------------------------
(* The circuit breaker *)

allow(b) == b.state = "closed" \/ (b.state = "open" /\ b.cooled)

\* The breaker once a call is admitted.
Admitted(b) == IF b.state = "open" THEN [b EXCEPT !.state = "half_open"] ELSE b

on_success(b) == [b EXCEPT !.state = "closed", !.failures = 0]

Opened(b) == [b EXCEPT !.state = "open", !.cooled = FALSE]

on_failure(b) ==
    IF b.state = "half_open" THEN Opened(b)
    ELSE IF b.failures + 1 >= Threshold THEN Opened([b EXCEPT !.failures = Threshold])
    ELSE [b EXCEPT !.failures = @ + 1]

\* Mutant: a call that is cancelled says nothing about the target.
on_abandoned_ignored(b) == b

on_abandoned(b) == IF b.state = "half_open" THEN Opened(b) ELSE b

\* The cooldown is over.
Cool ==
    /\ breaker.state = "open" /\ ~breaker.cooled
    /\ breaker' = [breaker EXCEPT !.cooled = TRUE]
    /\ UNCHANGED <<plan, status, kills, counter, slots, net, calls, streams, answers>>

\* ask_guarded() reports how its ask ended.
Report(c, how) ==
    breaker' = IF Kind(c) # "guarded" THEN breaker
               ELSE IF how = "ok" THEN on_success(breaker)
               ELSE IF how = "cancelled" THEN on_abandoned(breaker)
               ELSE on_failure(breaker)

-----------------------------------------------------------------------------
(* The caller *)

Send(from, to, m) == net' = [net EXCEPT ![<<from, to>>] = Append(@, m)]

\* Mutant: the counter alone, without the core.
ask_next_id_unsalted(a) == <<0, counter[Core[a]] + 1>>

\* ask_next_id(): the counter of the thread, salted with the core.
ask_next_id(a) == <<Core[a] + 1, counter[Core[a]] + 1>>

\* The call is over; its slot, its timer and its callback are gone.
Ends(c, how) ==
    /\ pc' = [pc EXCEPT ![c] = "ended"]
    /\ out' = [out EXCEPT ![c] = how]
    /\ timer' = [timer EXCEPT ![c] = FALSE]
    /\ slots' = [slots EXCEPT ![Core[Owner(c)]] = {s \in @ : s[1] # corr[c]}]

\* ask() or ask_stream() sends the request and parks; when the token is
\* already cancelled the request is sent and the call ends at once.
Ask(c, n, cancelled) ==
    LET id == ask_next_id(Owner(c))
        m == [corr |-> id, call |-> c, key |-> <<c, n>>, resp |-> 0, end |-> FALSE]
        k == Core[Owner(c)]
    IN  /\ counter' = [counter EXCEPT ![k] = @ + 1]
        /\ corr' = [corr EXCEPT ![c] = id]
        /\ Send(Owner(c), Target(c), m)
        /\ IF cancelled THEN
              /\ pc' = [pc EXCEPT ![c] = "ended"]
              /\ out' = [out EXCEPT ![c] = "cancelled"]
              /\ timer' = [timer EXCEPT ![c] = FALSE]
              /\ UNCHANGED slots
           ELSE
              /\ pc' = [pc EXCEPT ![c] = IF Kind(c) = "stream" THEN "reading" ELSE "parked"]
              /\ out' = [out EXCEPT ![c] = "pending"]
              /\ timer' = [timer EXCEPT ![c] = Kind(c) # "stream"]
              /\ slots' = [slots EXCEPT ![k] = @ \union {<<id, c>>}]

\* A coroutine of the owner makes its next call; it may be running when the
\* owner has just been killed.
Begin(c) ==
    /\ pc[c] \in {"idle", "ended"} /\ round[c] < plan[c].rounds /\ status[Owner(c)] # "gone"
    /\ round' = [round EXCEPT ![c] = @ + 1]
    /\ born' = [born EXCEPT ![c] = kills[Owner(c)]]
    /\ attempt' = [attempt EXCEPT ![c] = 1]
    /\ reply' = [reply EXCEPT ![c] = NoReply]
    /\ stream' = [stream EXCEPT ![c] = NoStream] /\ got' = [got EXCEPT ![c] = <<>>]
    /\ IF Kind(c) = "guarded" /\ ~allow(breaker) THEN
          /\ pc' = [pc EXCEPT ![c] = "ended"]
          /\ out' = [out EXCEPT ![c] = "circuit_open"]
          /\ UNCHANGED <<counter, slots, net, corr, timer, breaker>>
       ELSE
          /\ Ask(c, round[c] + 1, status[Owner(c)] # "alive")
          /\ LET b == IF Kind(c) = "guarded" THEN Admitted(breaker) ELSE breaker
             IN  breaker' = IF Kind(c) = "guarded" /\ status[Owner(c)] # "alive" THEN on_abandoned(b) ELSE b
    /\ UNCHANGED <<plan, status, kills, answers>>

\* await_resume() of an ask: finish(), then the result or an exception.
ResumeAsk(c) ==
    /\ Kind(c) # "stream" /\ pc[c] = "woken"
    /\ IF Kind(c) = "retry" /\ out[c] = "timed_out" /\ attempt[c] < Attempts
       THEN /\ pc' = [pc EXCEPT ![c] = "backoff"]
            /\ timer' = [timer EXCEPT ![c] = FALSE]
            /\ slots' = [slots EXCEPT ![Core[Owner(c)]] = {s \in @ : s[1] # corr[c]}]
            /\ UNCHANGED <<out, breaker>>
       ELSE Ends(c, out[c]) /\ Report(c, out[c])
    /\ UNCHANGED <<plan, status, kills, counter, net, born, round, attempt, corr, reply, streams, answers>>

\* The sleep of ask_retry() ends, by its timer or by the token.
BackoffEnds(c) ==
    /\ pc[c] = "backoff"
    /\ IF Cancelled(c)
       THEN Ends(c, "cancelled") /\ UNCHANGED <<counter, net, corr, attempt>>
       ELSE Ask(c, round[c], FALSE) /\ attempt' = [attempt EXCEPT ![c] = @ + 1]
    /\ UNCHANGED <<plan, status, kills, born, round, reply, streams, breaker, answers>>

\* The timer of an ask or of a next() fires.
on_timeout(c) ==
    /\ timer[c]
    /\ timer' = [timer EXCEPT ![c] = FALSE]
    /\ IF pc[c] = "parked" /\ ~stream[c].done
       THEN pc' = [pc EXCEPT ![c] = "woken"] /\ out' = [out EXCEPT ![c] = "timed_out"]
       ELSE UNCHANGED <<pc, out>>
    /\ UNCHANGED <<plan, status, kills, counter, slots, net, born, round, attempt, corr, reply, streams, breaker, answers>>

-----------------------------------------------------------------------------
(* The consumer of a stream *)

\* What await_resume() of next() finds, first to last.
Take(c) ==
    \/ /\ stream[c].queue # <<>>
       /\ got' = [got EXCEPT ![c] = Append(@, Head(stream[c].queue))]
       /\ stream' = [stream EXCEPT ![c].queue = Tail(@)]
       /\ pc' = [pc EXCEPT ![c] = "reading"]
       /\ timer' = [timer EXCEPT ![c] = FALSE]
       /\ out' = [out EXCEPT ![c] = "pending"]
       /\ UNCHANGED slots
    \/ /\ stream[c].queue = <<>>
       /\ Ends(c, IF stream[c].dropped THEN "overflow" ELSE IF Cancelled(c) THEN "cancelled"
                  ELSE IF stream[c].done THEN "eof" ELSE out[c])
       /\ UNCHANGED streams

\* next() does not suspend when a chunk, the end or the kill is there.
NextChunk(c) ==
    /\ Kind(c) = "stream" /\ pc[c] = "reading"
    /\ IF stream[c].queue # <<>> \/ stream[c].done \/ Cancelled(c) THEN Take(c)
       ELSE /\ pc' = [pc EXCEPT ![c] = "parked"]
            /\ timer' = [timer EXCEPT ![c] = TRUE]
            /\ UNCHANGED <<out, slots, streams>>
    /\ UNCHANGED <<plan, status, kills, counter, net, born, round, attempt, corr, reply, breaker, answers>>

ResumeNext(c) ==
    /\ Kind(c) = "stream" /\ pc[c] = "woken"
    /\ Take(c)
    /\ UNCHANGED <<plan, status, kills, counter, net, born, round, attempt, corr, reply, breaker, answers>>

\* stream_state::wake(), for a parked next().
Woken(c) == IF pc[c] = "parked" THEN [pc EXCEPT ![c] = "woken"] ELSE pc

\* Mutant: a full buffer drops the chunk.
deliver_dropping(c, m) ==
    stream' = [stream EXCEPT ![c] =
        IF m.end THEN [@ EXCEPT !.done = TRUE] ELSE IF @.done THEN @
        ELSE IF Len(@.queue) >= StreamCap THEN @
        ELSE [@ EXCEPT !.queue = Append(@, m.resp)]]

\* What deliver() and finish() make of a stream_state: a full buffer fails it.
Delivered(r, m) ==
    IF m.end THEN [r EXCEPT !.done = TRUE] ELSE IF r.done THEN r
    ELSE IF Len(r.queue) >= StreamCap THEN [r EXCEPT !.dropped = TRUE, !.done = TRUE]
    ELSE [r EXCEPT !.queue = Append(r.queue, m.resp)]

deliver(c, m) == stream' = [stream EXCEPT ![c] = Delivered(stream[c], m)]

-----------------------------------------------------------------------------
(* An event arrives *)

\* ask_deliver(): the call whose slot has the id, belongs to the receiver
\* and is not done.
Slot(a, id) == {s[2] : s \in {t \in slots[Core[a]] : /\ t[1] = id /\ Owner(t[2]) = a
                                                     /\ Kind(t[2]) = "stream" \/ pc[t[2]] = "parked"}}

\* resolve_ask() gives the event to the slot.
Resolve(c, m) ==
    IF Kind(c) = "stream"
    THEN /\ deliver(c, m)
         /\ pc' = IF stream'[c] # stream[c] THEN Woken(c) ELSE pc
         /\ UNCHANGED <<out, reply, got>>
    ELSE /\ pc' = [pc EXCEPT ![c] = "woken"]
         /\ out' = [out EXCEPT ![c] = "ok"]
         /\ reply' = [reply EXCEPT ![c] = m]
         /\ UNCHANGED streams

\* Mutant: a keyed operation is executed for every request.
ExecuteAlways(a, m) ==
    /\ ran' = [ran EXCEPT ![m.key] = @ + 1]
    /\ cache' = [cache EXCEPT ![a] = Append(Without(@, {m.key}), m.key)]

\* find() and put() of the dedup_map around the operation; only an
\* ask_retry() sends a key.
Execute(a, m) ==
    LET hit == m.key \in Range(cache[a])
        evicts == ~hit /\ Len(cache[a]) >= CacheCap
        kept == IF evicts THEN Tail(cache[a]) ELSE cache[a]
    IN  IF Kind(m.call) # "retry" THEN UNCHANGED <<cache, ran>>
        ELSE /\ cache' = [cache EXCEPT ![a] = Append(Without(kept, {m.key}), m.key)]
             /\ ran' = [k \in Keys |-> IF k = m.key /\ ~hit THEN ran[k] + 1
                                      ELSE IF evicts /\ k = Head(cache[a]) THEN 0 ELSE ran[k]]

\* answer_idempotent() or answer() runs the operation and replies the event;
\* a stream request is answered chunk by chunk later.
Answer(a, m, rest) ==
    IF Kind(m.call) = "stream"
    THEN /\ serving' = [serving EXCEPT ![a] = @ \union {[m |-> m, sent |-> 0]}]
         /\ net' = rest
         /\ UNCHANGED <<cache, ran>>
    ELSE /\ Execute(a, m)
         /\ net' = [rest EXCEPT ![<<a, Owner(m.call)>>] = Append(@, [m EXCEPT !.resp = 1])]
         /\ UNCHANGED serving

\* The router finds no handler for a killed actor.  on(E&) first tries
\* resolve_ask(); the actor that serves this request type then answers, the
\* others ignore what is left of an old call.
Arrives(from, a) ==
    /\ net[<<from, a>>] # <<>>
    /\ LET m == Head(net[<<from, a>>])
           rest == [net EXCEPT ![<<from, a>>] = Tail(@)]
           hit == Slot(a, m.corr)
       IN  \/ /\ status[a] = "alive" /\ hit # {}
              /\ \E c \in hit : Resolve(c, m)
              /\ net' = rest
              /\ UNCHANGED answers
           \/ /\ status[a] = "alive" /\ hit = {} /\ a = Target(m.call)
              /\ Answer(a, m, rest)
              /\ UNCHANGED <<pc, out, reply, streams>>
           \/ /\ status[a] # "alive" \/ (hit = {} /\ a # Target(m.call))
              /\ net' = rest
              /\ UNCHANGED <<pc, out, reply, streams, answers>>
    /\ UNCHANGED <<plan, status, kills, counter, slots, born, round, attempt, corr, timer, breaker>>

\* yield_answer() sends the next chunk, end_stream() the end.
Yield(a) ==
    \E s \in serving[a] :
        LET ends == s.sent = Chunks
        IN  /\ status[a] = "alive"
            /\ Send(a, Owner(s.m.call), [s.m EXCEPT !.resp = IF ends THEN 0 ELSE s.sent + 1, !.end = ends])
            /\ serving' = [serving EXCEPT ![a] = (@ \ {s}) \union IF ends THEN {} ELSE {[s EXCEPT !.sent = @ + 1]}]
            /\ UNCHANGED <<plan, status, kills, counter, slots, calls, streams, breaker, cache, ran>>

-----------------------------------------------------------------------------
(* Kills, id reuse, destroyed frames *)

\* kill() cancels the scope: every parked call of the actor is woken.  Only
\* actors that the plan names matter; each is killed once.
Kill(a) ==
    /\ status[a] = "alive"
    /\ Cardinality({b \in Actor : status[b] # "alive" \/ kills[b] > 0}) < MaxKills
    /\ kills[a] = 0
    /\ \E c \in Call : a \in {Owner(c), Target(c)}
    /\ status' = [status EXCEPT ![a] = "killed"]
    /\ pc' = [c \in Call |-> IF Owner(c) = a /\ pc[c] = "parked" THEN "woken" ELSE pc[c]]
    /\ out' = [c \in Call |-> IF Owner(c) = a /\ pc[c] = "parked" THEN "cancelled" ELSE out[c]]
    /\ UNCHANGED <<plan, kills, counter, slots, net, born, round, attempt, corr, timer, reply, streams, breaker, answers>>

\* The killed actor is destroyed, and its dedup_map with it.
Reap(a) ==
    /\ status[a] = "killed"
    /\ status' = [status EXCEPT ![a] = "gone"]
    /\ cache' = [cache EXCEPT ![a] = <<>>]
    /\ ran' = [k \in Keys |-> IF k \in Range(cache[a]) THEN 0 ELSE ran[k]]
    /\ serving' = [serving EXCEPT ![a] = {}]
    /\ UNCHANGED <<plan, kills, counter, slots, net, calls, streams, breaker>>

\* A new actor receives the id.
Respawn(a) ==
    /\ status[a] = "gone"
    /\ status' = [status EXCEPT ![a] = "alive"]
    /\ kills' = [kills EXCEPT ![a] = @ + 1]
    /\ UNCHANGED <<plan, counter, slots, net, calls, streams, breaker, answers>>

\* The frame of a call is destroyed while it waits, as the loser of a
\* when_any() is.
Destroy(c) ==
    /\ Kind(c) \in Destroyable /\ pc[c] \in {"parked", "woken", "backoff", "reading"}
    /\ Ends(c, "destroyed")
    /\ UNCHANGED <<plan, status, kills, counter, net, born, round, attempt, corr, reply, streams, breaker, answers>>

Next ==
    \/ Cool
    \/ \E c \in Call : Begin(c) \/ ResumeAsk(c) \/ BackoffEnds(c) \/ on_timeout(c) \/ NextChunk(c) \/ ResumeNext(c) \/ Destroy(c)
    \/ \E a, b \in Actor : Arrives(a, b)
    \/ \E a \in Actor : Yield(a) \/ Kill(a) \/ Reap(a) \/ Respawn(a)

\* Timers fire, the loop runs what is woken, and a consumer reads on.
Fairness ==
    \A c \in Call : WF_vars(ResumeAsk(c) \/ BackoffEnds(c) \/ on_timeout(c) \/ NextChunk(c) \/ ResumeNext(c))

Spec == Init /\ [][Next]_vars /\ Fairness

-----------------------------------------------------------------------------
Waiting(c) == pc[c] \in {"parked", "woken"} \/ (Kind(c) = "stream" /\ pc[c] = "reading")

TypeOK ==
    /\ plan \in Plans
    /\ status \in [Actor -> {"alive", "killed", "gone"}] /\ kills \in [Actor -> 0..1]
    /\ counter \in [Range(Core) -> Nat]
    /\ slots \in [Range(Core) -> SUBSET ((Nat \X Nat) \X Call)]
    /\ pc \in [Call -> {"idle", "parked", "woken", "reading", "backoff", "ended"}]
    /\ round \in [Call -> 0..Rounds] /\ attempt \in [Call -> 0..Attempts]
    /\ timer \in [Call -> BOOLEAN]
    /\ out \in [Call -> {"none", "pending", "ok", "timed_out", "cancelled", "circuit_open",
                         "eof", "overflow", "destroyed"}]
    /\ \A c \in Call : Len(stream[c].queue) <= StreamCap
    /\ breaker.state \in {"closed", "open", "half_open"} /\ breaker.failures \in 0..Threshold
    /\ \A a \in Actor : Len(cache[a]) <= CacheCap

(* The registry and the waiting calls agree: a slot is the one of a call   *)
(* whose frame lives and whose present request has that id, and a call     *)
(* that waits has its slot, whatever timeouts, kills and destroyed frames  *)
(* came before.  A slot left behind is a pointer into a freed frame.       *)
SlotsAreLive ==
    /\ TypeOK
    /\ \A k \in Range(Core) : \A s \in slots[k] :
          Waiting(s[2]) /\ corr[s[2]] = s[1] /\ Core[Owner(s[2])] = k
    /\ \A c \in Call : Waiting(c) => <<corr[c], c>> \in slots[Core[Owner(c)]]

(* A call is resolved by the answer to its own present request: not by a   *)
(* late answer to an earlier attempt or an earlier actor, a request of     *)
(* another core with the same number, or its own request seen by an actor  *)
(* of the same core.  And the registry it is found in is true.             *)
RepliesMatch ==
    /\ SlotsAreLive
    /\ \A c \in Call : out[c] = "ok" => reply[c].call = c /\ reply[c].corr = corr[c] /\ reply[c].resp = 1

(* A consumer receives the chunks in order, none twice; none is missing    *)
(* while its actor lives, and an end of stream comes only after all of     *)
(* them: what a full buffer or a late consumer costs is an error.          *)
StreamIsWhole ==
    \A c \in Call : /\ \A i \in 1..(Len(got[c]) - 1) : got[c][i] < got[c][i + 1]
                    /\ ~Cancelled(c) => got[c] = [i \in 1..Len(got[c]) |-> i]
                    /\ out[c] = "eof" => Len(got[c]) = Chunks

(* A keyed operation that is retried runs once, as long as the responder   *)
(* keeps its key.                                                          *)
EffectsAreOnce == \A k \in Keys : ran[k] <= 1

(* Every call ends, by its reply, its timeouts or the kill of its owner;   *)
(* and a half-open breaker, which refuses every call but the one it waits  *)
(* for, is closed or opened again, whatever order kills and the answers to *)
(* calls admitted earlier come in.                                         *)
CallsEnd ==
    /\ \A c \in Call : pc[c] \in {"parked", "woken", "reading", "backoff"} ~> pc[c] = "ended"
    /\ breaker.state = "half_open" ~> breaker.state # "half_open"
=============================================================================
