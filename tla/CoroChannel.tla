----------------------------- MODULE CoroChannel -----------------------------
(***************************************************************************)
(* channel<T> of io/async/coroutine/channel.h: coroutines on one thread    *)
(* send and receive values through buffered or rendezvous channels, with   *)
(* timeouts, with select() over all the channels, and with close().        *)
(*                                                                         *)
(* A send that finds a receiver writes the value into the receiver's frame *)
(* and schedules it.  A sender that finds no room parks; it is woken, one  *)
(* for each value taken out or receiver that parks, and delivers only when *)
(* it is resumed, so that anything may happen in between.  A queue entry   *)
(* whose wait is over (a fired timer, a select resolved elsewhere) stays   *)
(* behind and is skipped later.                                            *)
(***************************************************************************)
EXTENDS Queues

CONSTANTS
    Channel, Sender, Receiver,
    Dest,       \* the channel each sender sends to
    Capacity,   \* the capacity of each channel; 0 is a rendezvous
    MaxSends,   \* bound: values each sender offers
    MaxWaits,   \* bound: entries in each channel's queue of selects
    Reclaim,    \* which suspended frames may be destroyed
    Stale       \* a queue entry whose wait is over

ASSUME ChannelAssumption ==
    /\ Dest \in [Sender -> Channel] /\ Capacity \in [Channel -> Nat]
    /\ MaxSends \in [Sender -> Nat] /\ MaxWaits \in [Channel -> Nat]
    /\ Reclaim \subseteq {"parked", "woken receiver", "woken sender"}
    /\ IsFiniteSet(Sender) /\ IsFiniteSet(Receiver)
    /\ Sender \intersect Receiver = {} /\ Stale \notin Sender \union Receiver
    /\ "all" \notin Channel

VARIABLES
    chan,       \* each channel's buffer, queues and flags
    at,         \* where each coroutine is
    on,         \* the channel it awaits, or All for a select
    timed,      \* it waits with a timer
    result,     \* what was written into a receiver's frame
    sent,       \* how many values each sender has offered
    readyQueue, \* the scheduler's ready queue
    taken,      \* values received (history)
    refused,    \* values whose sender was told, or is gone (history)
    dropped,    \* values in the hands of an abandoned select (history)
    rebuffered  \* values put back for an abandoned receiver (history)

sys == <<chan, at, on, timed, result, readyQueue>>
hist == <<taken, refused, dropped, rebuffered>>
channelVars == <<sys, sent, hist>>

Coroutine == Sender \union Receiver
Values == UNION {{s} \X (1..MaxSends[s]) : s \in Sender}
None == "none"
All == "all"
NoValue == <<"none">>
Closed == <<"closed">>
Timeout == <<"timeout">>

ChannelInit ==
    /\ chan = [k \in Channel |-> [buffer |-> <<>>, senders |-> <<>>, receivers |-> <<>>,
                                  selects |-> <<>>, closed |-> FALSE, alive |-> TRUE]]
    /\ at = [c \in Coroutine |-> "running"]
    /\ on = [c \in Coroutine |-> None]
    /\ timed = [c \in Coroutine |-> FALSE]
    /\ result = [r \in Receiver |-> NoValue]
    /\ sent = [s \in Sender |-> 0]
    /\ readyQueue = <<>>
    /\ taken = {} /\ refused = {} /\ dropped = {} /\ rebuffered = {}

Value(s) == <<s, sent[s]>>

-----------------------------------------------------------------------------
(* Queues with stale entries *)

\* The position of the first entry still waiting, 0 when there is none.
FirstLive(q) ==
    LET live == {i \in 1..Len(q) : q[i] # Stale}
    IN  IF live = {} THEN 0 ELSE Min(live)

\* What is left of q once that entry is popped: everything before it goes too.
AfterLive(q) == IF FirstLive(q) = 0 THEN <<>> ELSE SubSeq(q, FirstLive(q) + 1, Len(q))

\* Mutant: pops the sender and never schedules it.
NobodyNext(q) == <<>>

\* wake_one_sender(): the coroutine it schedules, if any.
NextSender(q) == IF FirstLive(q) = 0 THEN <<>> ELSE <<q[FirstLive(q)]>>

Wake(a, cs) == [c \in Coroutine |-> IF c \in Range(cs) THEN "woken" ELSE a[c]]

\* The entries of the members of S stay behind in q, their wait over.
GoStale(q, S) == [i \in DOMAIN q |-> IF q[i] \in S THEN Stale ELSE q[i]]

\* A select that is resolved, or whose frame is gone, leaves stale entries in
\* the queues of the channels.
Retire(ch, r) == [k \in Channel |-> [ch[k] EXCEPT !.selects = GoStale(@, {r})]]

-----------------------------------------------------------------------------
(* Delivering a value v to channel k *)

HasReceiver(k) == chan[k].receivers # <<>>
HasSelect(k) == ~HasReceiver(k) /\ FirstLive(chan[k].selects) # 0
Nobody(k) == ~HasReceiver(k) /\ ~HasSelect(k)

\* To the first parked receiver, else to the first live select waiter; a is
\* where the coroutines are and q the ready queue.
Hand(k, v, a, q) ==
    LET r == IF HasReceiver(k) THEN Head(chan[k].receivers)
             ELSE chan[k].selects[FirstLive(chan[k].selects)]
    IN  /\ ~Nobody(k)
        /\ result' = [result EXCEPT ![r] = v]
        /\ chan' = IF HasReceiver(k)
                   THEN [chan EXCEPT ![k].receivers = Tail(@)]
                   ELSE Retire([chan EXCEPT ![k].selects = AfterLive(@)], r)
        /\ at' = [a EXCEPT ![r] = "woken"]
        /\ readyQueue' = Append(q, r)

\* Mutant: in front of the values already there.
BufferFirst(k, v, a, q) ==
    /\ Nobody(k)
    /\ chan' = [chan EXCEPT ![k].buffer = <<v>> \o @, ![k].selects = <<>>]
    /\ at' = a /\ readyQueue' = q
    /\ UNCHANGED result

\* Into the buffer: offer_to_select_waiter() has dropped the stale entries.
Buffer(k, v, a, q) ==
    /\ Nobody(k)
    /\ chan' = [chan EXCEPT ![k].buffer = Append(@, v), ![k].selects = <<>>]
    /\ at' = a /\ readyQueue' = q
    /\ UNCHANGED result

-----------------------------------------------------------------------------
(* Senders *)

Offers(s) ==
    /\ at[s] = "running" /\ sent[s] < MaxSends[s] /\ chan[Dest[s]].alive
    /\ sent' = [sent EXCEPT ![s] = @ + 1]

\* send(), send_for() and try_send() without suspension; a closed channel
\* refuses, by an exception or by the result.
SendNow(s) ==
    LET v == <<s, sent[s] + 1>>
        k == Dest[s]
    IN  /\ Offers(s)
        /\ IF chan[k].closed
           THEN refused' = refused \union {v} /\ UNCHANGED sys
           ELSE /\ \/ Hand(k, v, at, readyQueue)
                   \/ Len(chan[k].buffer) < Capacity[k] /\ Buffer(k, v, at, readyQueue)
                /\ UNCHANGED <<on, timed, refused>>
        /\ UNCHANGED <<taken, dropped, rebuffered>>

\* No receiver, no select and no room.
Full(k) == ~chan[k].closed /\ Nobody(k) /\ Len(chan[k].buffer) >= Capacity[k]

TrySendFails(s) ==
    /\ Offers(s) /\ Full(Dest[s])
    /\ chan' = [chan EXCEPT ![Dest[s]].selects = <<>>]
    /\ refused' = refused \union {<<s, sent[s] + 1>>}
    /\ UNCHANGED <<at, on, timed, result, readyQueue, taken, dropped, rebuffered>>

\* send() parks, and so does send_for() (t), which starts a timer and leaves
\* stale select entries alone.
SendParks(s, t) ==
    LET k == Dest[s]
    IN  /\ Offers(s) /\ Full(k)
        /\ chan' = [chan EXCEPT ![k].senders = Append(@, s), ![k].selects = IF t THEN @ ELSE <<>>]
        /\ at' = [at EXCEPT ![s] = "parked"]
        /\ on' = [on EXCEPT ![s] = k]
        /\ timed' = [timed EXCEPT ![s] = t]
        /\ UNCHANGED <<result, readyQueue, hist>>

\* await_resume() of a woken sender: a channel closed or destroyed meanwhile
\* refuses, else the value is delivered, into a full buffer if need be.
SenderResumes(s) ==
    LET k == on[s]
        a == [at EXCEPT ![s] = "running"]
    IN  /\ readyQueue # <<>> /\ s = Head(readyQueue) /\ at[s] = "woken"
        /\ IF chan[k].closed \/ ~chan[k].alive
           THEN /\ refused' = refused \union {Value(s)}
                /\ at' = a /\ readyQueue' = Tail(readyQueue) /\ UNCHANGED <<chan, result>>
           ELSE /\ Hand(k, Value(s), a, Tail(readyQueue)) \/ Buffer(k, Value(s), a, Tail(readyQueue))
                /\ UNCHANGED refused
        /\ on' = [on EXCEPT ![s] = None]
        /\ timed' = [timed EXCEPT ![s] = FALSE]
        /\ UNCHANGED <<sent, taken, dropped, rebuffered>>

\* send_timer finds the guard clear: it sets it, and the sender's entry is
\* stale from then on; the resumed send_for() reports the timeout.
SendTimer(s) ==
    /\ at[s] = "parked" /\ timed[s]
    /\ at' = [at EXCEPT ![s] = "fired"]
    /\ chan' = [chan EXCEPT ![on[s]].senders = GoStale(@, {s})]
    /\ readyQueue' = Append(readyQueue, s)
    /\ UNCHANGED <<on, timed, result, sent, hist>>

FiredResumes(s) ==
    /\ readyQueue # <<>> /\ s = Head(readyQueue) /\ at[s] = "fired"
    /\ at' = [at EXCEPT ![s] = "running"]
    /\ on' = [on EXCEPT ![s] = None]
    /\ timed' = [timed EXCEPT ![s] = FALSE]
    /\ readyQueue' = Tail(readyQueue)
    /\ refused' = refused \union {Value(s)}
    /\ UNCHANGED <<chan, result, sent, taken, dropped, rebuffered>>

-----------------------------------------------------------------------------
(* Receivers *)

\* The front of k's buffer is taken out and one parked sender woken.
Pop(k) ==
    /\ chan[k].buffer # <<>>
    /\ chan' = [chan EXCEPT ![k].buffer = Tail(@), ![k].senders = AfterLive(@)]

\* recv(), recv_for(), try_recv() and select() on a buffered value.
RecvNow(r, k) ==
    /\ at[r] = "running" /\ chan[k].alive
    /\ Pop(k)
    /\ at' = Wake(at, NextSender(chan[k].senders))
    /\ readyQueue' = readyQueue \o NextSender(chan[k].senders)
    /\ taken' = taken \union {Head(chan[k].buffer)}
    /\ UNCHANGED <<on, timed, result, sent, refused, dropped, rebuffered>>

Parks(r, k, t, a, cs) ==
    /\ at' = Wake([a EXCEPT ![r] = "parked"], cs)
    /\ on' = [on EXCEPT ![r] = k]
    /\ timed' = [timed EXCEPT ![r] = t]
    /\ readyQueue' = readyQueue \o cs
    /\ UNCHANGED <<result, sent, hist>>

Empty(k) == chan[k].buffer = <<>> /\ ~chan[k].closed

\* Mutant: without the wake-up of a sender parked before it.
RecvParksSilently(r, k) ==
    /\ at[r] = "running" /\ chan[k].alive /\ Empty(k)
    /\ chan' = [chan EXCEPT ![k].receivers = Append(@, r)]
    /\ Parks(r, k, FALSE, at, <<>>)

\* recv() parks and wakes a sender, which is to hand its value over.
RecvParks(r, k) ==
    /\ at[r] = "running" /\ chan[k].alive /\ Empty(k)
    /\ chan' = [chan EXCEPT ![k].receivers = Append(@, r), ![k].senders = AfterLive(@)]
    /\ Parks(r, k, FALSE, at, NextSender(chan[k].senders))

\* recv_for() parks among the select waiters and starts a timer.
RecvForParks(r, k) ==
    /\ at[r] = "running" /\ chan[k].alive /\ Empty(k) /\ Len(chan[k].selects) < MaxWaits[k]
    /\ chan' = [chan EXCEPT ![k].selects = Append(@, r), ![k].senders = AfterLive(@)]
    /\ Parks(r, k, TRUE, at, NextSender(chan[k].senders))

\* select() over every channel; one sender of each is woken.
SelectParks(r) ==
    LET woken == {c \in Sender : \E k \in Channel : NextSender(chan[k].senders) = <<c>>}
    IN  /\ at[r] = "running"
        /\ \A k \in Channel : chan[k].alive /\ Empty(k) /\ Len(chan[k].selects) < MaxWaits[k]
        /\ chan' = [k \in Channel |-> [chan[k] EXCEPT !.selects = Append(@, r),
                                                      !.senders = AfterLive(@)]]
        /\ \E cs \in SetToSeqs(woken) : Parks(r, All, FALSE, at, cs)

\* channel_timer finds the wait unresolved.
RecvTimer(r) ==
    /\ at[r] = "parked" /\ timed[r]
    /\ result' = [result EXCEPT ![r] = Timeout]
    /\ chan' = Retire(chan, r)
    /\ at' = [at EXCEPT ![r] = "woken"]
    /\ readyQueue' = Append(readyQueue, r)
    /\ UNCHANGED <<on, timed, sent, hist>>

\* await_resume(): the value, nothing on a timeout or a closed channel; a
\* plain recv() looks at the buffer once more.
ReceiverResumes(r) ==
    LET k == on[r]
        again == result[r] = Closed /\ k # All /\ ~timed[r] /\ chan[k].alive /\ chan[k].buffer # <<>>
        cs == IF again THEN NextSender(chan[k].senders) ELSE <<>>
        got == IF again THEN Head(chan[k].buffer) ELSE result[r]
    IN  /\ readyQueue # <<>> /\ r = Head(readyQueue)
        /\ IF again THEN Pop(k) ELSE UNCHANGED chan
        /\ at' = Wake([at EXCEPT ![r] = "running"], cs)
        /\ readyQueue' = Tail(readyQueue) \o cs
        /\ taken' = IF got \in {Closed, Timeout} THEN taken ELSE taken \union {got}
        /\ result' = [result EXCEPT ![r] = NoValue]
        /\ on' = [on EXCEPT ![r] = None]
        /\ timed' = [timed EXCEPT ![r] = FALSE]
        /\ UNCHANGED <<sent, refused, dropped, rebuffered>>

-----------------------------------------------------------------------------
(* close(), destruction of the channel, destruction of frames *)

\* Everybody parked on k is scheduled: receivers, senders, select waiters.
CloseChannel(k, up) ==
    LET rs == chan[k].receivers
        ss == Without(chan[k].senders, {Stale})
        ws == Without(chan[k].selects, {Stale})
        shut == [chan EXCEPT ![k].receivers = <<>>, ![k].senders = <<>>, ![k].selects = <<>>,
                             ![k].closed = TRUE, ![k].alive = up]
    IN  /\ result' = [r \in Receiver |-> IF r \in Range(rs) \union Range(ws) THEN Closed ELSE result[r]]
        /\ at' = Wake(at, rs \o ss \o ws)
        /\ readyQueue' = readyQueue \o rs \o ss \o ws
        /\ chan' = [j \in Channel |-> [shut[j] EXCEPT !.selects = GoStale(@, Range(ws))]]
        /\ UNCHANGED <<on, timed, sent, hist>>

Close(k) == chan[k].alive /\ ~chan[k].closed /\ CloseChannel(k, TRUE)

\* ~channel() closes, and the awaiters see that it is gone; its owner lets go
\* of it when the buffer is empty.
DropChannel(k) ==
    /\ chan[k].alive /\ chan[k].buffer = <<>>
    /\ IF chan[k].closed
       THEN chan' = [chan EXCEPT ![k].alive = FALSE]
            /\ UNCHANGED <<at, on, timed, result, readyQueue, sent, hist>>
       ELSE CloseChannel(k, FALSE)

\* Mutant: leaves its entry as it is.
DestroyUnretracted(c) ==
    /\ "parked" \in Reclaim /\ at[c] = "parked"
    /\ refused' = IF c \in Sender THEN refused \union {Value(c)} ELSE refused
    /\ UNCHANGED <<chan, result, readyQueue, taken, dropped, rebuffered>>

\* A parked frame retracts its entry, or leaves a stale one (timed, select).
DestroyParked(c) ==
    /\ "parked" \in Reclaim /\ at[c] = "parked"
    /\ chan' = [k \in Channel |-> [chan[k] EXCEPT
            !.senders = IF timed[c] THEN GoStale(@, {c}) ELSE Without(@, {c}),
            !.receivers = Without(@, {c}),
            !.selects = GoStale(@, {c})]]
    /\ refused' = IF c \in Sender THEN refused \union {Value(c)} ELSE refused
    /\ UNCHANGED <<result, readyQueue, taken, dropped, rebuffered>>

\* A scheduled sender is forgotten with its value.
DestroyScheduledSender(s) ==
    /\ \/ at[s] = "woken" /\ "woken sender" \in Reclaim
       \/ at[s] = "fired" /\ "parked" \in Reclaim
    /\ refused' = refused \union {Value(s)}
    /\ readyQueue' = Without(readyQueue, {s})
    /\ UNCHANGED <<chan, result, taken, dropped, rebuffered>>

\* Mutant: the value goes with the frame.
DestroyWithValue(r) ==
    /\ "woken receiver" \in Reclaim /\ at[r] = "woken"
    /\ readyQueue' = Without(readyQueue, {r})
    /\ result' = [result EXCEPT ![r] = NoValue]
    /\ UNCHANGED <<chan, hist>>

\* A woken receiver puts the value it was handed back into the buffer; an
\* abandoned select drops it.
DestroyWokenReceiver(r) ==
    LET v == result[r]
    IN  /\ "woken receiver" \in Reclaim /\ at[r] = "woken"
        /\ readyQueue' = Without(readyQueue, {r})
        /\ result' = [result EXCEPT ![r] = NoValue]
        /\ \/ v \in {Closed, Timeout} /\ UNCHANGED <<chan, dropped, rebuffered>>
           \/ /\ v \in Values /\ on[r] = All
              /\ dropped' = dropped \union {v} /\ UNCHANGED <<chan, rebuffered>>
           \/ /\ v \in Values /\ on[r] # All
              /\ IF chan[on[r]].alive
                 THEN /\ chan' = [chan EXCEPT ![on[r]].buffer = Append(@, v)]
                      /\ rebuffered' = rebuffered \union {v} /\ UNCHANGED dropped
                 ELSE dropped' = dropped \union {v} /\ UNCHANGED <<chan, rebuffered>>
        /\ UNCHANGED <<taken, refused>>

Destroy(c) ==
    /\ \/ DestroyParked(c)
       \/ c \in Sender /\ DestroyScheduledSender(c)
       \/ c \in Receiver /\ DestroyWokenReceiver(c)
    /\ at' = [at EXCEPT ![c] = "running"]
    /\ on' = [on EXCEPT ![c] = None]
    /\ timed' = [timed EXCEPT ![c] = FALSE]
    /\ UNCHANGED sent

ChannelNext ==
    \/ \E s \in Sender :
          \/ SendNow(s) \/ TrySendFails(s) \/ \E t \in BOOLEAN : SendParks(s, t)
          \/ SenderResumes(s) \/ SendTimer(s) \/ FiredResumes(s)
    \/ \E r \in Receiver :
          \/ \E k \in Channel : RecvNow(r, k) \/ RecvParks(r, k) \/ RecvForParks(r, k)
          \/ SelectParks(r) \/ RecvTimer(r) \/ ReceiverResumes(r)
    \/ \E k \in Channel : Close(k) \/ DropChannel(k)
    \/ \E c \in Coroutine : Destroy(c)

Resume == (\E s \in Sender : SenderResumes(s) \/ FiredResumes(s))
            \/ \E r \in Receiver : ReceiverResumes(r)

\* The scheduler drains its ready queue.
ChannelSpec == ChannelInit /\ [][ChannelNext]_channelVars /\ WF_channelVars(Resume)

-----------------------------------------------------------------------------
ChannelTypeOK ==
    /\ chan \in [Channel -> [buffer : Seq(Values), senders : Seq(Sender \union {Stale}),
                             receivers : Seq(Receiver), selects : Seq(Receiver \union {Stale}),
                             closed : BOOLEAN, alive : BOOLEAN]]
    /\ at \in [Coroutine -> {"running", "parked", "woken", "fired"}]
    /\ on \in [Coroutine -> Channel \union {None, All}]
    /\ timed \in [Coroutine -> BOOLEAN]
    /\ result \in [Receiver -> Values \union {NoValue, Closed, Timeout}]
    /\ sent \in [Sender -> Nat]
    /\ readyQueue \in Seq(Coroutine)
    /\ taken \subseteq Values /\ refused \subseteq Values /\ dropped \subseteq Values /\ rebuffered \subseteq Values

\* In how many places value v is.
Places(v) ==
    LET buffered(k) == {i \in DOMAIN chan[k].buffer : chan[k].buffer[i] = v}
    IN  Cardinality(UNION {{k} \X buffered(k) : k \in Channel})
          + Cardinality({r \in Receiver : result[r] = v})
          + Cardinality({s \in Sender : at[s] # "running" /\ Value(s) = v})
          + Cardinality({h \in 1..3 : v \in <<taken, refused, dropped>>[h]})

(* No message is lost or delivered twice: a value offered is in one        *)
(* buffer, in one frame, received, refused to its sender, or was in the    *)
(* hands of a select that was abandoned.                                   *)
NothingLost == \A s \in Sender : \A n \in 1..sent[s] : Places(<<s, n>>) = 1

(* The values of one sender are received in the order sent, except one     *)
(* that an abandoned receiver put back into the buffer.                    *)
SenderOrder ==
    [][\A v \in taken' \ (taken \union rebuffered) :
          \A n \in v[2]..MaxSends[v[1]] : <<v[1], n>> \notin taken]_channelVars

(* The queues hold the coroutines parked in them, each once, besides stale *)
(* entries, and the ready queue the scheduled ones: no send, receive,      *)
(* timer or close schedules a frame that is gone or not waiting.           *)
HandlesAreLive ==
    /\ IsInjective(readyQueue) /\ Range(readyQueue) = {c \in Coroutine : at[c] \in {"woken", "fired"}}
    /\ \A c \in Coroutine, k \in Channel :
          Cardinality({i \in DOMAIN chan[k].senders : chan[k].senders[i] = c})
            + Cardinality({i \in DOMAIN chan[k].receivers : chan[k].receivers[i] = c})
            + Cardinality({i \in DOMAIN chan[k].selects : chan[k].selects[i] = c})
          = (IF at[c] = "parked" /\ on[c] \in {k, All} THEN 1 ELSE 0)

RecvWaits(r, k) == at[r] = "parked" /\ on[r] \in {k, All}
SendWaits(s) == at[s] = "parked"

(* No slot goes unclaimed: while a sender is parked on a channel, its      *)
(* buffer and the senders already woken for it account for the capacity,   *)
(* and for a receiver that waits.                                          *)
SlotsAreClaimed ==
    \A k \in Channel :
        (\E s \in Sender : SendWaits(s) /\ Dest[s] = k)
        => Len(chan[k].buffer) + Cardinality({s \in Sender : Dest[s] = k /\ at[s] = "woken"})
             >= Capacity[k] + Cardinality({r \in Receiver : RecvWaits(r, k)})

(* The queues are true: nobody is in them in vain or forgotten.            *)
QueuesAreTrue == ChannelTypeOK /\ HandlesAreLive /\ SlotsAreClaimed

(* A sender and a receiver parked on the same channel do not stay so, as   *)
(* long as the scheduler runs what is ready.                               *)
RendezvousHappens ==
    \A s \in Sender, r \in Receiver :
        (SendWaits(s) /\ RecvWaits(r, Dest[s])) ~> ~(SendWaits(s) /\ RecvWaits(r, Dest[s]))
=============================================================================
