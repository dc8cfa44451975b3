----------------------------- MODULE CoroTasks -----------------------------
(***************************************************************************)
(* Coroutine frames, the scheduler that runs them and the constructs that  *)
(* await several of them: when_all, when_any, with_timeout, cancellable    *)
(* operations and sleeps, the joins of a coroutine_scope                   *)
(* (io/async/coroutine/{task,scheduler,combinators,cancellation,scope}.h), *)
(* and ask_quorum (core/patterns/scatter.h).                               *)
(*                                                                         *)
(* A parent coroutine awaits one construct.  Each of its branches is a     *)
(* runner frame, spawned and owned by the scheduler, that awaits an inner  *)
(* task by symmetric transfer; a finished runner is destroyed when the     *)
(* drain of the ready queue ends.  A frame destroyed earlier must leave no *)
(* handle behind, and the parent must be resumed once, with the truth.     *)
(***************************************************************************)
EXTENDS Queues

CONSTANTS
    N,          \* number of branches of when_all, when_any and a scope
    Need,       \* how many replies a quorum needs
    Mode,       \* the constructs to try
    Suspends,   \* how often each inner task suspends before it ends
    ResetWhen   \* when the scheduler may be reset: "idle" or "any"

ASSUME TasksAssumption ==
    /\ N \in Nat \ {0} /\ Need \in 1..N /\ Suspends \in [1..N -> Nat] /\ ResetWhen \in {"idle", "any"}
    /\ Mode \subseteq {"when_all", "when_any", "timeout", "cancellable", "sleep",
                       "join_all", "join_any", "join_all_for", "quorum"}

VARIABLES
    mode,       \* what the parent awaits
    parent,     \* "fresh", "awaiting", "resumed" or "destroyed"
    outcome,    \* what its await returned
    runner,     \* the runner frame of each branch
    inner,      \* the inner frame of each branch
    left,       \* suspensions before the inner task ends
    ended,      \* branches whose inner task ended, and those of them that threw
    threw,
    handles,    \* branches whose handle the shared state holds
    resolved,   \* the shared done flag
    count,      \* completed branches; the active tasks of a scope; replies
    slot,       \* the parent's slot is registered with the scope or quorum
    timer,      \* the ev_timer, or the frame of the timer coroutine
    cancelled,  \* the token
    ready,      \* the ready queue
    deferred,   \* frames_to_destroy_
    awaited     \* history: the branches the await began with

shared == <<handles, resolved, count, slot>>
tasksVars == <<mode, parent, outcome, runner, inner, left, ended, threw, shared, timer, cancelled, ready, deferred, awaited>>

Scopes == {"join_all", "join_any", "join_all_for"}
Singles == {"timeout", "cancellable"}
IsScope == mode \in Scopes
Detached == IsScope \/ mode = "quorum"     \* branches that outlive the await
Branches == IF mode = "sleep" THEN 0 ELSE IF mode \in Singles THEN 1 ELSE N
Branch == 1..Branches

Parent == <<"parent", 0>>
Runner(b) == <<"runner", b>>
Inner(b) == <<"inner", b>>
Timer == <<"timer", 0>>
Frames == {Parent, Timer} \union {Runner(b) : b \in 1..N} \union {Inner(b) : b \in 1..N}

TasksInit ==
    /\ mode \in Mode
    /\ parent = "fresh" /\ outcome = "none"
    /\ runner = [b \in 1..N |-> "none"]
    /\ inner = [b \in 1..N |-> IF b \in Branch THEN "fresh" ELSE "freed"]
    /\ left = Suspends
    /\ ended = {} /\ threw = {}
    /\ handles = {} /\ resolved = FALSE /\ count = 0 /\ slot = FALSE
    /\ timer = "off" /\ cancelled = FALSE
    /\ ready = <<>> /\ deferred = {} /\ awaited = {}

-----------------------------------------------------------------------------
(* The scheduler *)

\* schedule_resume(): a frame already queued is not queued again.
schedule_resume(f, q) == IF f \in Range(q) THEN q ELSE Append(q, f)

\* Mutant: leaves the frames in the ready queue.
scrub_not(q, bs) == q

\* cancel_spawned() of the runners of bs and forget() of their inner tasks.
scrub(q, bs) == Without(q, {Runner(b) : b \in bs} \union {Inner(b) : b \in bs})

Freed(fs, bs) == [b \in 1..N |-> IF b \in bs THEN "freed" ELSE fs[b]]

\* The inner tasks live in the state that the awaiter and the runners share;
\* detached ones in the runner's own frame.
Settle(par, run, inn) ==
    LET held == par \in {"fresh", "awaiting"} \/ \E b \in Branch : run[b] \in {"fresh", "waiting", "final"}
    IN  [b \in 1..N |-> IF Detached
                        THEN IF run[b] = "freed" THEN "freed" ELSE inn[b]
                        ELSE IF held THEN inn[b] ELSE "freed"]

\* The timer coroutine is cancelled with its handle, unless it is ending.
TimerCancelled == IF timer \in {"fresh", "sleeping", "fired"} THEN "off" ELSE timer

-----------------------------------------------------------------------------
(* The parent starts its await *)

AwaitReady ==
    \/ mode \in {"cancellable", "sleep", "quorum"} /\ cancelled
    \/ mode \in {"join_all", "join_all_for"} /\ count = 0
    \/ mode = "join_any" /\ ended # {}

\* The branches that the await itself spawns, in their order.
Spawned == IF IsScope THEN {} ELSE Branch
SpawnedRunners == [b \in 1..N |-> IF b \in Spawned THEN "fresh" ELSE runner[b]]
SpawnedHandles == Keep([b \in 1..N |-> Runner(b)], {Runner(b) : b \in Spawned})

\* Only a quorum has spawned its collectors before it looks at the token.
StartReady ==
    /\ parent = "fresh" /\ AwaitReady
    /\ parent' = "resumed"
    /\ outcome' = IF ~IsScope THEN "cancelled" ELSE IF mode = "join_all" /\ threw # {} THEN "error" ELSE "joined"
    /\ runner' = IF mode = "quorum" THEN SpawnedRunners ELSE runner
    /\ ready' = IF mode = "quorum" THEN ready \o SpawnedHandles ELSE ready
    /\ inner' = Settle("resumed", runner', inner)
    /\ UNCHANGED <<mode, left, ended, threw, shared, timer, cancelled, deferred, awaited>>

\* await_suspend(): branches are spawned in order, after them the timer; a
\* join only registers its slot.
Start ==
    LET timed == mode \in {"timeout", "sleep", "join_all_for"}
    IN  /\ parent = "fresh" /\ ~AwaitReady
        /\ parent' = "awaiting"
        /\ runner' = SpawnedRunners
        /\ handles' = IF Detached THEN {} ELSE Spawned
        /\ slot' = Detached
        /\ awaited' = {b \in Branch : runner'[b] \in {"fresh", "waiting"}}
        /\ timer' = IF ~timed THEN "off" ELSE IF mode = "timeout" THEN "sleeping" ELSE "fresh"
        /\ ready' = ready \o SpawnedHandles
                      \o (IF timed /\ mode # "timeout" THEN <<Timer>> ELSE <<>>)
        /\ UNCHANGED <<mode, outcome, inner, left, ended, threw, resolved, count, cancelled, deferred>>

\* coroutine_scope::spawn(), by whoever has the scope.
Spawn(b) ==
    /\ IsScope /\ runner[b] = "none" /\ parent # "destroyed"
    /\ \A a \in 1..(b - 1) : runner[a] # "none"
    /\ runner' = [runner EXCEPT ![b] = "fresh"]
    /\ count' = count + 1
    /\ ready' = Append(ready, Runner(b))
    /\ UNCHANGED <<mode, parent, outcome, inner, left, ended, threw, handles, resolved, slot, timer, cancelled, deferred, awaited>>

-----------------------------------------------------------------------------
(* A branch ends: the rest of run_one(), run_task(), task_runner() or      *)
(* run_wrapped(), with q the rest of the ready queue.                      *)

\* The runner ends in final_suspend and defers its destruction.
RunnerEnds(b, run) ==
    /\ runner' = [run EXCEPT ![b] = "final"]
    /\ deferred' = deferred \union {b}

\* Mutant: the parent is resumed one branch too early.
EndWhenAllEarly(b, q) ==
    /\ mode = "when_all"
    /\ handles' = handles \ {b}
    /\ count' = count + 1
    /\ ready' = IF count + 1 >= N - 1 THEN schedule_resume(Parent, q) ELSE q
    /\ inner' = [inner EXCEPT ![b] = "done"]
    /\ RunnerEnds(b, runner)
    /\ UNCHANGED <<resolved, slot>>

EndWhenAll(b, q) ==
    /\ mode = "when_all"
    /\ handles' = handles \ {b}
    /\ count' = count + 1
    /\ ready' = IF count + 1 = N THEN schedule_resume(Parent, q) ELSE q
    /\ inner' = [inner EXCEPT ![b] = "done"]
    /\ RunnerEnds(b, runner)
    /\ UNCHANGED <<resolved, slot>>

\* The first branch destroys the others before it schedules the parent.
EndWhenAny(b, q) ==
    LET losers == handles \ {b}
    IN  /\ mode = "when_any" /\ ~resolved
        /\ handles' = {} /\ resolved' = TRUE
        /\ ready' = schedule_resume(Parent, scrub(q, losers))
        /\ inner' = [Freed(inner, losers) EXCEPT ![b] = "done"]
        /\ RunnerEnds(b, Freed(runner, losers))
        /\ UNCHANGED <<count, slot>>

\* Mutant: an inner task that ends with an exception leaves at once.
EndSingleSilently(b, q) ==
    /\ mode \in Singles
    /\ resolved' = (resolved \/ b \notin threw')
    /\ ready' = IF resolved \/ b \in threw' THEN q ELSE schedule_resume(Parent, q)
    /\ inner' = [inner EXCEPT ![b] = "done"]
    /\ RunnerEnds(b, runner)
    /\ UNCHANGED <<handles, count, slot>>

\* A timeout may have come first; then nobody is told.
EndSingle(b, q) ==
    /\ mode \in Singles
    /\ resolved' = TRUE
    /\ ready' = IF resolved THEN q ELSE schedule_resume(Parent, q)
    /\ inner' = [inner EXCEPT ![b] = "done"]
    /\ RunnerEnds(b, runner)
    /\ UNCHANGED <<handles, count, slot>>

\* on_task_done() wakes a join_any, and the others at zero; a slot whose
\* awaiter is gone is empty.
on_task_done(b, q) ==
    LET wakes == mode = "join_any" \/ count = 1
    IN  /\ IsScope
        /\ count' = count - 1
        /\ ready' = IF slot /\ wakes /\ parent = "awaiting" THEN schedule_resume(Parent, q) ELSE q
        /\ slot' = (slot /\ ~wakes)
        /\ inner' = [inner EXCEPT ![b] = "done"]
        /\ RunnerEnds(b, runner)
        /\ UNCHANGED <<handles, resolved>>

\* A collector counts its reply or its failure until the quorum is reached or
\* out of reach, and then wakes whoever waits.
EndQuorum(b, q) ==
    LET ok   == IF b \in threw' THEN count ELSE count + 1
        done == ok >= Need \/ Cardinality(threw') > N - Need
    IN  /\ mode = "quorum"
        /\ count' = IF resolved THEN count ELSE ok
        /\ resolved' = (resolved \/ done)
        /\ ready' = IF slot /\ ~resolved /\ done /\ parent = "awaiting" THEN schedule_resume(Parent, q) ELSE q
        /\ slot' = (slot /\ ~done)
        /\ inner' = [inner EXCEPT ![b] = "done"]
        /\ RunnerEnds(b, runner)
        /\ UNCHANGED handles

EndBranch(b, q) ==
    EndWhenAll(b, q) \/ EndWhenAny(b, q) \/ EndSingle(b, q) \/ on_task_done(b, q) \/ EndQuorum(b, q)

-----------------------------------------------------------------------------
(* run_ready(): the first handle is resumed *)

\* The inner task of b runs until it suspends or ends.  The asks of a quorum
\* have its token: cancelled, they end where they would wait.
InnerRuns(b) ==
    LET ends == left[b] = 0 \/ (mode = "quorum" /\ cancelled)
        late == mode = "quorum" /\ cancelled /\ (left[b] > 0 \/ inner[b] = "fresh")
    IN
    \/ /\ ~ends
       /\ left' = [left EXCEPT ![b] = @ - 1]
       /\ inner' = [inner EXCEPT ![b] = "parked"]
       /\ runner' = [runner EXCEPT ![b] = "waiting"]
       /\ ready' = Tail(ready)
       /\ UNCHANGED <<ended, threw, shared, deferred>>
    \/ /\ ends
       /\ ended' = ended \union {b}
       /\ threw' \in {threw \union {b}} \union (IF late THEN {} ELSE {threw})
       /\ EndBranch(b, Tail(ready))
       /\ UNCHANGED left

RunBranch(b) ==
    /\ ready # <<>> /\ Head(ready) \in {Runner(b), Inner(b)}
    /\ InnerRuns(b)
    /\ UNCHANGED <<mode, parent, outcome, timer, cancelled, awaited>>

\* What await_resume() returns, or throws.
Outcome ==
    IF mode = "timeout" /\ timer = "expired" THEN "timeout"
    ELSE IF mode \in {"cancellable", "sleep", "quorum"} /\ cancelled THEN "cancelled"
    ELSE IF mode = "quorum" THEN IF count < Need THEN "error" ELSE "value"
    ELSE IF mode = "join_all_for" THEN IF count = 0 THEN "joined" ELSE "timeout"
    ELSE IF mode # "join_any" /\ threw # {} THEN "error"
    ELSE IF IsScope THEN "joined" ELSE "value"

\* await_resume(), then the awaiter is destroyed at the end of the expression.
RunParent ==
    /\ ready # <<>> /\ Head(ready) = Parent
    /\ parent' = "resumed"
    /\ outcome' = Outcome
    /\ inner' = Settle("resumed", runner, inner)
    /\ timer' = TimerCancelled
    /\ ready' = Without(Tail(ready), {Timer})
    /\ UNCHANGED <<mode, runner, left, ended, threw, shared, cancelled, deferred, awaited>>

\* The timer coroutine falls asleep, later wakes the parent if its slot or
\* its done flag says that it still waits.
RunTimer ==
    /\ ready # <<>> /\ Head(ready) = Timer
    /\ \/ timer = "fresh" /\ timer' = "sleeping" /\ ready' = Tail(ready) /\ UNCHANGED shared
       \/ /\ timer = "fired" /\ timer' = "final"
          /\ resolved' = (resolved \/ mode = "sleep")
          /\ ready' = IF parent = "awaiting" /\ (IsScope \/ ~resolved)
                      THEN schedule_resume(Parent, Tail(ready)) ELSE Tail(ready)
          /\ UNCHANGED <<handles, count, slot>>
    /\ UNCHANGED <<mode, parent, outcome, runner, inner, left, ended, threw, cancelled, deferred, awaited>>

\* The end of run_ready(), which may come early: it resumes at most so many.
DrainEnds ==
    /\ deferred # {} \/ timer = "final"
    /\ runner' = Freed(runner, deferred)
    /\ inner' = Settle(parent, runner', inner)
    /\ deferred' = {}
    /\ timer' = IF timer = "final" THEN "off" ELSE timer
    /\ UNCHANGED <<mode, parent, outcome, left, ended, threw, shared, cancelled, ready, awaited>>

-----------------------------------------------------------------------------
(* What comes from outside: wake-ups, timers, cancellation, owners *)

\* What an inner task waits for happens.
WakeInner(b) ==
    /\ inner[b] = "parked"
    /\ ready' = schedule_resume(Inner(b), ready)
    /\ ready' # ready
    /\ UNCHANGED <<mode, parent, outcome, runner, inner, left, ended, threw, shared, timer, cancelled, deferred, awaited>>

\* on_timeout() resolves the await itself; a sleep's timer schedules the
\* timer coroutine.
TimerFires ==
    /\ timer = "sleeping"
    /\ IF mode = "timeout"
       THEN /\ timer' = IF resolved THEN "off" ELSE "expired"
            /\ resolved' = TRUE
            /\ ready' = IF resolved THEN ready ELSE schedule_resume(Parent, ready)
       ELSE /\ timer' = "fired"
            /\ ready' = schedule_resume(Timer, ready)
            /\ UNCHANGED resolved
    /\ UNCHANGED <<mode, parent, outcome, runner, inner, left, ended, threw, handles, count, slot, cancelled, deferred, awaited>>

\* token.cancel(): the callback, registered while the awaiter lives, reclaims
\* the branch or the timer and schedules the parent.
Cancel ==
    LET hits == parent = "awaiting" /\ ~resolved
        bs == IF hits THEN handles ELSE {}
        q == scrub(IF hits THEN Without(ready, {Timer}) ELSE ready, bs)
    IN  /\ mode \in {"cancellable", "sleep"} /\ ~cancelled
        /\ cancelled' = TRUE
        /\ resolved' = (resolved \/ hits)
        /\ handles' = handles \ bs
        /\ runner' = Freed(runner, bs)
        /\ inner' = Freed(inner, bs)
        /\ timer' = IF hits THEN TimerCancelled ELSE timer
        /\ ready' = IF hits THEN schedule_resume(Parent, q) ELSE q
        /\ UNCHANGED <<mode, parent, outcome, left, ended, threw, count, slot, deferred, awaited>>

\* The same of an actor's token: every ask that waits is woken.
CancelQuorum ==
    LET parked == {b \in 1..N : inner[b] = "parked" /\ Inner(b) \notin Range(ready)}
    IN  /\ mode = "quorum" /\ ~cancelled
        /\ cancelled' = TRUE
        /\ ready' = ready \o Keep([b \in 1..N |-> Inner(b)], {Inner(b) : b \in parked})
        /\ UNCHANGED <<mode, parent, outcome, runner, inner, left, ended, threw, shared, timer, deferred, awaited>>

\* The parent's frame is destroyed while it is suspended: the awaiter's
\* destructor takes the branches along, unless the await is resolved; the
\* tasks of a scope go on.
DestroyParent ==
    LET bs == IF mode \in Singles /\ resolved THEN {} ELSE handles
    IN  /\ parent = "awaiting"
        /\ parent' = "destroyed"
        /\ resolved' = (resolved \/ mode \in Singles \union {"sleep"})
        /\ handles' = handles \ bs
        /\ runner' = Freed(runner, bs)
        /\ inner' = Settle("destroyed", runner', Freed(inner, bs))
        /\ timer' = IF mode = "timeout" THEN "off" ELSE TimerCancelled
        /\ ready' = Without(scrub(ready, bs), {Parent, Timer})
        /\ UNCHANGED <<mode, outcome, left, ended, threw, count, slot, cancelled, deferred, awaited>>

\* reset_coro_scheduler(), outside of a drain: every owned frame goes, and
\* with them all they own; the ready queue is not scrubbed of them.
Reset ==
    LET bs == {b \in 1..N : runner[b] \in {"fresh", "waiting"}}
    IN  /\ parent \in {"awaiting", "resumed", "destroyed"} /\ deferred = {} /\ timer # "final"
        /\ ResetWhen = "idle" => ready = <<>>
        /\ parent' = IF parent = "awaiting" THEN "destroyed" ELSE parent
        /\ runner' = Freed(runner, bs)
        /\ inner' = [b \in 1..N |-> IF IsScope /\ runner[b] = "none" THEN inner[b] ELSE "freed"]
        /\ timer' = TimerCancelled
        /\ ready' = Without(ready, {Inner(b) : b \in 1..N})
        /\ handles' = {}
        /\ resolved' = (resolved \/ mode \in Singles \union {"sleep"})
        /\ UNCHANGED <<mode, outcome, left, ended, threw, count, slot, cancelled, deferred, awaited>>

TasksNext ==
    \/ StartReady \/ Start \/ RunParent \/ RunTimer \/ DrainEnds
    \/ TimerFires \/ Cancel \/ CancelQuorum \/ DestroyParent \/ Reset
    \/ \E b \in Branch : Spawn(b) \/ RunBranch(b) \/ WakeInner(b)

\* The loop drains the queue, and what inner tasks and timers wait for comes.
TasksFairness ==
    /\ WF_tasksVars(RunParent \/ RunTimer \/ \E b \in Branch : RunBranch(b))
    /\ WF_tasksVars(DrainEnds) /\ WF_tasksVars(TimerFires)
    /\ \A b \in 1..N : WF_tasksVars(WakeInner(b))

TasksSpec == TasksInit /\ [][TasksNext]_tasksVars /\ TasksFairness

-----------------------------------------------------------------------------
TasksTypeOK ==
    /\ mode \in Mode
    /\ parent \in {"fresh", "awaiting", "resumed", "destroyed"}
    /\ outcome \in {"none", "value", "error", "timeout", "cancelled", "joined"}
    /\ runner \in [1..N -> {"none", "fresh", "waiting", "final", "freed"}]
    /\ inner \in [1..N -> {"fresh", "parked", "done", "freed"}]
    /\ left \in [1..N -> Nat]
    /\ ended \subseteq 1..N /\ threw \subseteq ended /\ awaited \subseteq 1..N
    /\ handles \subseteq 1..N /\ resolved \in BOOLEAN /\ count \in 0..N /\ slot \in BOOLEAN
    /\ timer \in {"off", "fresh", "sleeping", "fired", "final", "expired"}
    /\ cancelled \in BOOLEAN
    /\ ready \in Seq(Frames) /\ deferred \subseteq 1..N

(* run_ready() never pops a frame that is freed, finished or running, nor  *)
(* the same frame twice for one suspension, and a spawned frame is not     *)
(* forgotten: branches, timers and parents are destroyed and rescheduled   *)
(* from callbacks, timers and destructors in any order.  A quorum that is  *)
(* decided does not wait for the rest.                                     *)
QueueIsLive ==
    /\ IsInjective(ready)
    /\ Parent \in Range(ready) => parent = "awaiting"
    /\ Timer \in Range(ready) <=> timer \in {"fresh", "fired"}
    /\ \A b \in 1..N : /\ Runner(b) \in Range(ready) <=> runner[b] = "fresh"
                       /\ Inner(b) \in Range(ready) => inner[b] = "parked" /\ runner[b] = "waiting"
                       /\ b \in deferred <=> runner[b] = "final"
    /\ mode = "quorum" /\ resolved /\ parent = "awaiting" => Parent \in Range(ready)

(* A branch does not outlive its await: once the parent has gone on or was *)
(* destroyed, no branch of a when_all, a when_any or a cancellable         *)
(* operation is left to run, and no timer; the losers of a when_any are    *)
(* gone as soon as it is decided.                                          *)
BranchesEndWithTheAwait ==
    /\ parent \in {"resumed", "destroyed"} =>
          /\ timer \in {"off", "final", "expired"}
          /\ mode \in {"when_all", "when_any", "cancellable"} =>
                \A b \in 1..N : runner[b] \in {"none", "final", "freed"} /\ inner[b] \in {"done", "freed"}
    /\ mode = "when_any" /\ resolved =>
          \A b \in 1..N \ ended : runner[b] = "freed" /\ inner[b] = "freed"

(* The scheduler's queues and the frames agree, up to the end of the await.*)
FramesAreTracked == TasksTypeOK /\ QueueIsLive /\ BranchesEndWithTheAwait

(* What the await returns is true: every branch of a when_all, and every   *)
(* task that was active when a join_all began, has ended; one branch alone *)
(* has won a when_any; an exception of a branch is not swallowed; a        *)
(* timeout is reported only when the timer came first; a quorum has its    *)
(* replies, or can no longer have them.                                    *)
OutcomeIsTrue ==
    parent = "resumed" =>
        /\ mode \in {"when_all", "join_all"} => awaited \subseteq ended
        /\ mode = "join_all_for" /\ outcome = "joined" => awaited \subseteq ended
        /\ mode = "join_any" => ended # {}
        /\ mode = "when_any" => Cardinality(ended) = 1
        /\ mode \in {"when_all", "when_any"} => (outcome = "error" <=> threw # {})
        /\ mode \in Singles /\ outcome \in {"value", "error"} => ended = {1} /\ (outcome = "error" <=> threw = {1})
        /\ mode = "timeout" => (outcome = "timeout" <=> timer = "expired")
        /\ mode = "quorum" => /\ outcome = "value" => Cardinality(ended \ threw) >= Need
                              /\ outcome = "error" => Cardinality(threw) > N - Need
        /\ outcome = "cancelled" => cancelled

(* Every await of a branch or a task ends, by its branches, its timer or   *)
(* the destruction of the parent; and every spawned frame is freed in the  *)
(* end, its inner task with it, those of a timed-out operation and of a    *)
(* scope included.                                                         *)
EverythingEnds ==
    /\ (parent = "awaiting" /\ (IsScope => awaited # {})) ~> parent # "awaiting"
    /\ parent \in {"resumed", "destroyed"}
          ~> \A b \in 1..N : runner[b] # "none" => runner[b] = "freed" /\ inner[b] = "freed"
=============================================================================
