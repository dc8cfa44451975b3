------------------------------ MODULE CoroSync ------------------------------
(***************************************************************************)
(* The coroutine synchronisation primitives of io/async/coroutine/sync.h:  *)
(* semaphore, async_mutex, async_rw_lock, barrier, async_event and         *)
(* async_latch, one object of one kind, shared by a set of coroutines.     *)
(*                                                                         *)
(* Everything runs on one thread.  A coroutine that awaits either goes on, *)
(* or is put on the scheduler's ready queue at once, or parks its handle   *)
(* in a deque of the object.  Whoever opens the object pops handles and    *)
(* schedules them: what a coroutine waited for is already its own while it *)
(* sits in the ready queue.  A suspended frame may be destroyed at any     *)
(* moment (the loser of a when_any, a cancelled task, a killed actor), and *)
(* its awaiter's destructor has to give back what it was handed.           *)
(***************************************************************************)
EXTENDS Queues

CONSTANTS
    Coroutine,  \* frames; a destroyed one stands for the next at its address
    Kind,       \* the kinds of object to try
    Permits,    \* semaphore(permits)
    Expected,   \* barrier(count)
    Count,      \* async_latch(count)
    Reclaim,    \* how the frames that may be destroyed are suspended
    Droppable   \* the kinds of object that may be destroyed under waiters

ASSUME SizesAssumption ==
    /\ IsFiniteSet(Coroutine)
    /\ Permits \in Nat \ {0} /\ Expected \in Nat \ {0} /\ Count \in Nat \ {0}
    /\ Reclaim \subseteq {"parked", "woken", "granted"} /\ Droppable \subseteq Kind
    /\ Kind \subseteq {"semaphore", "mutex", "rw_lock", "barrier", "event", "auto_event", "latch"}

VARIABLES
    kind,       \* what the object is
    obj,        \* its counters and flags
    waiters,    \* its deques of parked handles, one per kind of await
    alive,      \* the flag its destructor clears
    at,         \* where each coroutine is
    on,         \* what it awaits
    token,      \* it awaits with the cancellation token
    holds,      \* what the guard in its frame holds
    cancelled,  \* the state of that token
    ready       \* the scheduler's ready queue

vars == <<kind, obj, waiters, alive, at, on, token, holds, cancelled, ready>>

Await == {"acquire", "lock", "read", "write", "arrive", "wait"}
Locks == {"acquire", "lock", "read", "write"}

(* "granted": scheduled by its own await_suspend, without having parked;   *)
(* "woken": popped from a deque and scheduled; "cancelled": retracted and  *)
(* scheduled by the token's callback.                                      *)
Suspended == {"parked", "woken", "granted", "cancelled"}
Scheduled == {"woken", "granted", "cancelled"}

Init ==
    /\ kind \in Kind
    /\ obj = [available |-> Permits, held |-> 0, locked |-> FALSE,
              readers |-> 0, write_locked |-> FALSE, remaining |-> Expected,
              signaled |-> FALSE, count |-> Count]
    /\ waiters = [w \in Await |-> <<>>]
    /\ alive = TRUE
    /\ at = [c \in Coroutine |-> "running"]
    /\ on = [c \in Coroutine |-> "none"]
    /\ token = [c \in Coroutine |-> FALSE]
    /\ holds = [c \in Coroutine |-> "none"]
    /\ cancelled = FALSE
    /\ ready = <<>>

(***************************************************************************)
(* schedule_via_current() for the handles cs, in order, from positions a   *)
(* and ready queue r.                                                      *)
(***************************************************************************)
Schedule(cs, a, r) ==
    /\ at' = [c \in Coroutine |-> IF c \in Range(cs) THEN "woken" ELSE a[c]]
    /\ ready' = r \o cs

Idle(c) == alive /\ at[c] = "running" /\ holds[c] = "none"

\* The awaiter of c parks its handle in deque w.
Park(c, w) ==
    /\ waiters' = [waiters EXCEPT ![w] = Append(@, c)]
    /\ at' = [at EXCEPT ![c] = "parked"]
    /\ on' = [on EXCEPT ![c] = w]
    /\ UNCHANGED <<ready, holds>>

\* await_suspend gives c what it asks for and schedules it.
Grant(c, w) ==
    /\ at' = [at EXCEPT ![c] = "granted"]
    /\ on' = [on EXCEPT ![c] = w]
    /\ ready' = Append(ready, c)
    /\ UNCHANGED <<waiters, holds>>

\* c takes it without being suspended.
Take(c, w) ==
    /\ holds' = [holds EXCEPT ![c] = w]
    /\ UNCHANGED <<waiters, at, on, ready>>

-----------------------------------------------------------------------------
(* semaphore *)

TakePermit == [obj EXCEPT !.available = @ - 1, !.held = @ + 1]

\* acquire(), with a token that is not cancelled when t; await_ready takes a
\* free permit on the spot, as try_acquire() does.
Acquire(c, t) ==
    /\ kind = "semaphore" /\ Idle(c)
    /\ t => ~cancelled
    /\ token' = [token EXCEPT ![c] = t]
    /\ \/ obj.available > 0 /\ obj' = TakePermit /\ Take(c, "acquire")
       \/ obj.available = 0 /\ Park(c, "acquire") /\ UNCHANGED obj
    /\ UNCHANGED <<kind, alive, cancelled>>

\* Mutant: serves the waiter that came last.
releaseToLast(a, r) ==
    IF obj.held > 0 /\ waiters["acquire"] # <<>>
    THEN /\ Schedule(<<Last(waiters["acquire"])>>, a, r)
         /\ waiters' = [waiters EXCEPT !["acquire"] = Front(@)]
         /\ UNCHANGED obj
    ELSE /\ Schedule(<<>>, a, r)
         /\ obj' = [obj EXCEPT !.held = @ - 1, !.available = @ + 1]
         /\ UNCHANGED waiters

\* A release beyond what is held is ignored; a permit goes straight to the
\* first waiter, or back to the object.
release(a, r) ==
    IF obj.held > 0 /\ waiters["acquire"] # <<>>
    THEN /\ Schedule(<<Head(waiters["acquire"])>>, a, r)
         /\ waiters' = [waiters EXCEPT !["acquire"] = Tail(@)]
         /\ UNCHANGED obj
    ELSE /\ Schedule(<<>>, a, r)
         /\ obj' = IF obj.held = 0 THEN obj
                   ELSE [obj EXCEPT !.held = @ - 1,
                                    !.available = IF @ < Permits THEN @ + 1 ELSE @]
         /\ UNCHANGED waiters

\* The token is cancelled: the callbacks retract the parked acquirers that
\* registered one, in the order they parked.  They do not ask whether the
\* semaphore still exists.
Cancel ==
    LET hooked == Keep(waiters["acquire"], {c \in Coroutine : token[c]})
    IN  /\ ~cancelled /\ kind = "semaphore"
        /\ cancelled' = TRUE
        /\ at' = [c \in Coroutine |-> IF c \in Range(hooked) THEN "cancelled" ELSE at[c]]
        /\ ready' = ready \o hooked
        /\ waiters' = [waiters EXCEPT !["acquire"] = Keep(@, {c \in Coroutine : ~token[c]})]
        /\ UNCHANGED <<kind, obj, alive, on, token, holds>>

-----------------------------------------------------------------------------
(* async_mutex: await_ready is always false, a free mutex is taken by      *)
(* await_suspend and the coroutine goes through the ready queue.           *)

Lock(c) ==
    /\ kind = "mutex" /\ Idle(c)
    /\ \/ ~obj.locked /\ obj' = [obj EXCEPT !.locked = TRUE] /\ Grant(c, "lock")
       \/ obj.locked /\ Park(c, "lock") /\ UNCHANGED obj
    /\ UNCHANGED <<kind, alive, token, cancelled>>

TryLock(c) ==
    /\ kind = "mutex" /\ Idle(c) /\ ~obj.locked
    /\ obj' = [obj EXCEPT !.locked = TRUE]
    /\ Take(c, "lock")
    /\ UNCHANGED <<kind, alive, token, cancelled>>

unlock(a, r) ==
    \/ /\ waiters["lock"] = <<>>
       /\ Schedule(<<>>, a, r)
       /\ obj' = [obj EXCEPT !.locked = FALSE]
       /\ UNCHANGED waiters
    \/ /\ waiters["lock"] # <<>>
       /\ Schedule(<<Head(waiters["lock"])>>, a, r)
       /\ waiters' = [waiters EXCEPT !["lock"] = Tail(@)]
       /\ UNCHANGED obj

-----------------------------------------------------------------------------
(* async_rw_lock *)

LockRead(c) ==
    /\ kind = "rw_lock" /\ Idle(c)
    /\ IF ~obj.write_locked /\ waiters["write"] = <<>>
       THEN obj' = [obj EXCEPT !.readers = @ + 1] /\ Grant(c, "read")
       ELSE Park(c, "read") /\ UNCHANGED obj
    /\ UNCHANGED <<kind, alive, token, cancelled>>

LockWrite(c) ==
    /\ kind = "rw_lock" /\ Idle(c)
    /\ IF ~obj.write_locked /\ obj.readers = 0
       THEN obj' = [obj EXCEPT !.write_locked = TRUE] /\ Grant(c, "write")
       ELSE Park(c, "write") /\ UNCHANGED obj
    /\ UNCHANGED <<kind, alive, token, cancelled>>

\* The write lock is handed to the first parked writer.
HandToWriter(a, r) ==
    /\ Schedule(<<Head(waiters["write"])>>, a, r)
    /\ waiters' = [waiters EXCEPT !["write"] = Tail(@)]

\* Mutant: any reader that leaves lets the writer in.
unlock_read_any(a, r) ==
    IF waiters["write"] # <<>>
    THEN /\ HandToWriter(a, r)
         /\ obj' = [obj EXCEPT !.readers = @ - 1, !.write_locked = TRUE]
    ELSE /\ Schedule(<<>>, a, r)
         /\ obj' = [obj EXCEPT !.readers = @ - 1]
         /\ UNCHANGED waiters

unlock_read(a, r) ==
    IF obj.readers = 1 /\ waiters["write"] # <<>>
    THEN /\ HandToWriter(a, r)
         /\ obj' = [obj EXCEPT !.readers = 0, !.write_locked = TRUE]
    ELSE /\ Schedule(<<>>, a, r)
         /\ obj' = [obj EXCEPT !.readers = IF @ = 0 THEN 0 ELSE @ - 1]
         /\ UNCHANGED waiters

\* Mutant: forgets the writers.
unlock_write_readers(a, r) ==
    /\ Schedule(waiters["read"], a, r)
    /\ obj' = [obj EXCEPT !.write_locked = FALSE, !.readers = @ + Len(waiters["read"])]
    /\ waiters' = [waiters EXCEPT !["read"] = <<>>]

\* Every parked reader is admitted; a writer only when there is none.
unlock_write(a, r) ==
    \/ /\ waiters["read"] # <<>>
       /\ Schedule(waiters["read"], a, r)
       /\ obj' = [obj EXCEPT !.write_locked = FALSE,
                             !.readers = @ + Len(waiters["read"])]
       /\ waiters' = [waiters EXCEPT !["read"] = <<>>]
    \/ /\ waiters["read"] = <<>> /\ waiters["write"] # <<>>
       /\ HandToWriter(a, r)
       /\ UNCHANGED obj
    \/ /\ waiters["read"] = <<>> /\ waiters["write"] = <<>>
       /\ Schedule(<<>>, a, r)
       /\ obj' = [obj EXCEPT !.write_locked = FALSE]
       /\ UNCHANGED waiters

\* What gives w back: the guards' destructors, and the awaiters' for a
\* coroutine that was woken and never resumed.
GiveBack(w, a, r) ==
    \/ w = "acquire" /\ release(a, r)
    \/ w = "lock" /\ unlock(a, r)
    \/ w = "read" /\ unlock_read(a, r)
    \/ w = "write" /\ unlock_write(a, r)

Release(c) ==
    /\ holds[c] # "none" /\ at[c] = "running"
    /\ GiveBack(holds[c], at, ready)
    /\ holds' = [holds EXCEPT ![c] = "none"]
    /\ UNCHANGED <<kind, alive, on, token, cancelled>>

-----------------------------------------------------------------------------
(* barrier *)

ArriveAndWait(c) ==
    LET all == Append(waiters["arrive"], c)
    IN  /\ kind = "barrier" /\ Idle(c) /\ obj.remaining > 0
        /\ obj' = [obj EXCEPT !.remaining = @ - 1]
        /\ on' = [on EXCEPT ![c] = "arrive"]
        /\ IF obj.remaining = 1
           THEN Schedule(all, at, ready) /\ waiters' = [waiters EXCEPT !["arrive"] = <<>>]
           ELSE /\ at' = [at EXCEPT ![c] = "parked"]
                /\ waiters' = [waiters EXCEPT !["arrive"] = all]
                /\ UNCHANGED ready
        /\ UNCHANGED <<kind, alive, token, holds, cancelled>>

\* reset(), for the next phase of the same barrier.
ResetBarrier ==
    /\ kind = "barrier" /\ alive /\ obj.remaining = 0
    /\ obj' = [obj EXCEPT !.remaining = Expected]
    /\ waiters' = [waiters EXCEPT !["arrive"] = <<>>]
    /\ UNCHANGED <<kind, alive, at, on, token, holds, cancelled, ready>>

-----------------------------------------------------------------------------
(* async_event and async_latch *)

IsEvent == kind \in {"event", "auto_event"}

\* wait(): a set event lets c through, and an auto-reset one is consumed.
WaitEvent(c) ==
    /\ IsEvent /\ Idle(c)
    /\ \/ /\ obj.signaled
          /\ obj' = [obj EXCEPT !.signaled = (kind = "event")]
          /\ UNCHANGED <<waiters, at, on, ready, holds>>
       \/ ~obj.signaled /\ Park(c, "wait") /\ UNCHANGED obj
    /\ UNCHANGED <<kind, alive, token, cancelled>>

set_event(a, r) ==
    \/ /\ kind = "auto_event" /\ waiters["wait"] # <<>>
       /\ Schedule(<<Head(waiters["wait"])>>, a, r)
       /\ waiters' = [waiters EXCEPT !["wait"] = Tail(@)]
       /\ UNCHANGED obj
    \/ /\ kind = "auto_event" /\ waiters["wait"] = <<>>
       /\ Schedule(<<>>, a, r)
       /\ obj' = [obj EXCEPT !.signaled = TRUE]
       /\ UNCHANGED waiters
    \/ /\ kind = "event"
       /\ Schedule(waiters["wait"], a, r)
       /\ obj' = [obj EXCEPT !.signaled = TRUE]
       /\ waiters' = [waiters EXCEPT !["wait"] = <<>>]

SetEvent ==
    /\ IsEvent /\ alive
    /\ set_event(at, ready)
    /\ UNCHANGED <<kind, alive, on, token, holds, cancelled>>

ResetEvent ==
    /\ IsEvent /\ alive /\ obj.signaled
    /\ obj' = [obj EXCEPT !.signaled = FALSE]
    /\ UNCHANGED <<kind, waiters, alive, at, on, token, holds, cancelled, ready>>

WaitLatch(c) ==
    /\ kind = "latch" /\ Idle(c) /\ obj.count > 0
    /\ Park(c, "wait")
    /\ UNCHANGED <<kind, obj, alive, token, cancelled>>

CountDown(n) ==
    /\ kind = "latch" /\ alive /\ obj.count > 0
    /\ obj' = [obj EXCEPT !.count = IF n >= @ THEN 0 ELSE @ - n]
    /\ IF n >= obj.count
       THEN /\ Schedule(waiters["wait"], at, ready)
            /\ waiters' = [waiters EXCEPT !["wait"] = <<>>]
       ELSE UNCHANGED <<waiters, at, ready>>
    /\ UNCHANGED <<kind, alive, on, token, holds, cancelled>>

-----------------------------------------------------------------------------
(* The scheduler, the owners of frames, and the owner of the object *)

\* run_ready() resumes the first handle; await_resume of a cancelled acquire
\* throws, the others return with what they waited for.
Resume ==
    /\ ready # <<>>
    /\ LET c == Head(ready)
       IN  /\ at' = [at EXCEPT ![c] = "running"]
           /\ holds' = [holds EXCEPT ![c] = IF on[c] \in Locks /\ at[c] # "cancelled"
                                            THEN on[c] ELSE "none"]
           /\ on' = [on EXCEPT ![c] = "none"]
           /\ token' = [token EXCEPT ![c] = FALSE]
    /\ ready' = Tail(ready)
    /\ UNCHANGED <<kind, obj, waiters, alive, cancelled>>

\* Mutant: leaves the handle in its deque.
DestroyUnretracted(c) ==
    /\ "parked" \in Reclaim /\ at[c] = "parked"
    /\ at' = [at EXCEPT ![c] = "running"]
    /\ UNCHANGED <<obj, waiters, ready>>

\* The destructor of a frame that is still in a deque retracts it; the
\* barrier's arrival stays counted.
DestroyParked(c) ==
    /\ "parked" \in Reclaim /\ at[c] = "parked"
    /\ at' = [at EXCEPT ![c] = "running"]
    /\ waiters' = IF alive THEN [waiters EXCEPT ![on[c]] = Keep(@, Coroutine \ {c})] ELSE waiters
    /\ UNCHANGED <<obj, ready>>

\* Mutant: the permit or the signal the frame was handed is lost with it.
DestroyForgets(c) ==
    /\ at[c] \in Scheduled /\ "woken" \in Reclaim /\ on[c] \in {"acquire", "wait"}
    /\ at' = [at EXCEPT ![c] = "running"]
    /\ ready' = Keep(ready, Coroutine \ {c})
    /\ UNCHANGED <<obj, waiters>>

\* The scheduler forgets a scheduled frame; then its awaiter gives back what
\* it was handed, unless it never parked (granted), or was cancelled, or the
\* object is gone.
DestroyScheduled(c) ==
    LET a == [at EXCEPT ![c] = "running"]
        r == Keep(ready, Coroutine \ {c})
    IN  \/ /\ "woken" \in Reclaim /\ at[c] = "woken" /\ alive /\ on[c] \in Locks
           /\ GiveBack(on[c], a, r)
        \/ /\ "woken" \in Reclaim /\ at[c] = "woken" /\ alive /\ kind = "auto_event"
           /\ set_event(a, r)
        \/ /\ \/ at[c] = "woken" /\ "woken" \in Reclaim
                 /\ (~alive \/ kind \in {"event", "barrier", "latch"})
              \/ at[c] = "cancelled" /\ "woken" \in Reclaim
              \/ at[c] = "granted" /\ "granted" \in Reclaim
           /\ at' = a /\ ready' = r /\ UNCHANGED <<obj, waiters>>

Destroy(c) ==
    /\ DestroyParked(c) \/ DestroyScheduled(c)
    /\ on' = [on EXCEPT ![c] = "none"]
    /\ token' = [token EXCEPT ![c] = FALSE]
    /\ UNCHANGED <<kind, alive, holds, cancelled>>

\* The object's owner destroys it while nobody holds it or is about to.
DropObject ==
    /\ alive /\ kind \in Droppable
    /\ \A c \in Coroutine : holds[c] = "none" /\ ~(at[c] \in {"woken", "granted"} /\ on[c] \in Locks)
    /\ alive' = FALSE
    /\ UNCHANGED <<kind, obj, waiters, at, on, token, holds, cancelled, ready>>

Next ==
    \/ \E c \in Coroutine :
          \/ \E t \in BOOLEAN : Acquire(c, t)
          \/ Lock(c) \/ TryLock(c) \/ LockRead(c) \/ LockWrite(c)
          \/ Release(c) \/ ArriveAndWait(c) \/ WaitEvent(c) \/ WaitLatch(c) \/ Destroy(c)
    \/ Cancel \/ ResetBarrier \/ SetEvent \/ ResetEvent
    \/ \E n \in 1..Count : CountDown(n)
    \/ Resume \/ DropObject

\* The scheduler drains its queue and guards leave their scopes.
Fairness ==
    /\ WF_vars(Resume)
    /\ \A c \in Coroutine : WF_vars(Release(c))

Spec == Init /\ [][Next]_vars /\ Fairness
-----------------------------------------------------------------------------
TypeOK ==
    /\ kind \in Kind /\ alive \in BOOLEAN /\ cancelled \in BOOLEAN
    /\ obj \in [available : 0..Permits, held : 0..Permits, locked : BOOLEAN,
                readers : 0..Cardinality(Coroutine), write_locked : BOOLEAN,
                remaining : 0..Expected, signaled : BOOLEAN, count : 0..Count]
    /\ waiters \in [Await -> Seq(Coroutine)]
    /\ at \in [Coroutine -> {"running"} \union Suspended]
    /\ on \in [Coroutine -> Await \union {"none"}]
    /\ token \in [Coroutine -> BOOLEAN]
    /\ holds \in [Coroutine -> Locks \union {"none"}]
    /\ ready \in Seq(Coroutine)

\* The coroutines that own a w: they hold it, or it was handed to them.
Owners(w) ==
    {c \in Coroutine : holds[c] = w \/ (on[c] = w /\ at[c] \in {"woken", "granted"})}

(* Every permit is either in the semaphore or owned by one coroutine,      *)
(* through hand-offs, cancellations racing them and the destruction of     *)
(* acquirers that were already granted one (semaphore::release and the     *)
(* destructors of the two acquire awaiters).                               *)
PermitsConserved ==
    /\ obj.held = Cardinality(Owners("acquire"))
    /\ obj.available + obj.held = Permits

(* The mutex is locked exactly while one coroutine owns it: no two ever    *)
(* do, and it is never left locked behind an awaiter that was reclaimed    *)
(* after unlock() had popped it.                                           *)
MutexHasItsOwner == Cardinality(Owners("lock")) = (IF obj.locked THEN 1 ELSE 0)

(* The read-write lock counts its readers, never admits readers and a      *)
(* writer together, and is not left locked by reclaimed awaiters.          *)
ReadersOrOneWriter ==
    /\ obj.readers = Cardinality(Owners("read"))
    /\ Cardinality(Owners("write")) = (IF obj.write_locked THEN 1 ELSE 0)
    /\ obj.write_locked => obj.readers = 0

(* What a coroutine owns is neither lost nor given twice.                  *)
OwnershipConserved == TypeOK /\ PermitsConserved /\ MutexHasItsOwner /\ ReadersOrOneWriter

(* A deque of a living object holds the parked coroutines that await it,   *)
(* each once, and the ready queue the scheduled ones: release(), unlock(), *)
(* set() and the others never schedule a handle whose frame is gone.       *)
HandlesAreLive ==
    /\ IsInjective(ready)
    /\ Range(ready) = {c \in Coroutine : at[c] \in Scheduled}
    /\ alive => \A w \in Await :
          /\ IsInjective(waiters[w])
          /\ Range(waiters[w]) = {c \in Coroutine : at[c] = "parked" /\ on[c] = w}

(* No lost wake-up: a coroutine is parked only while what it waits for is  *)
(* taken, closed or not yet complete.                                      *)
ParkedForAReason ==
    alive => \A c \in Coroutine : at[c] = "parked" =>
        /\ on[c] = "acquire" => obj.available = 0 /\ obj.held > 0
        /\ on[c] = "lock" => obj.locked
        /\ on[c] = "write" => obj.write_locked \/ obj.readers > 0
        /\ on[c] = "arrive" => obj.remaining > 0
        /\ on[c] = "wait" => ~obj.signaled /\ obj.count > 0

(* A set() of an auto-reset event is consumed only by a coroutine that     *)
(* goes through: when the one it woke leaves the ready queue in any other  *)
(* way than by being resumed, another is woken or the event stays set.     *)
SignalSurvivesReclaim ==
    [][\A c \in Coroutine :
          (kind = "auto_event" /\ alive /\ at[c] = "woken" /\ at'[c] = "running" /\ ~Resume)
          => obj'.signaled \/ \E d \in Coroutine : at[d] = "parked" /\ at'[d] = "woken"]_vars

(* Locks and permits are handed over in turn: a coroutine parked for a     *)
(* permit, the mutex or the write lock is served or reclaimed, as long as  *)
(* guards leave their scopes and the scheduler runs.                       *)
WaitersAreServed ==
    \A c \in Coroutine :
        (at[c] = "parked" /\ on[c] \in {"acquire", "lock", "write"}) ~> at[c] # "parked"
=============================================================================
