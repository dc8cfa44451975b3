-------------------------- MODULE EngineLifecycle ---------------------------
(***************************************************************************)
(* qb::Main (src/qb/core/Main.cpp, Main.h) and the part of                 *)
(* VirtualCore::__workflow__ that reads what Main publishes: the start     *)
(* barrier over one counter that also carries error codes, the signal slot *)
(* and its generation, the stop token, join and the destructor.            *)
(*                                                                         *)
(* One worker thread per core runs start_thread.  What its actors do in a  *)
(* pass is free: go on, kill themselves, or let an exception escape.  The  *)
(* residual drain at the end of __workflow__ is CoreMessaging's.           *)
(***************************************************************************)
EXTENDS Integers, FiniteSets

CONSTANTS
    NbCore,      \* cores registered before start()
    Failures,    \* the ways an initialisation may fail: a subset of InitErrors
    MayThrow,    \* whether a pass may let an exception escape
    SelfKill,    \* whether actors may end by themselves
    Signals,     \* signals the process may receive besides stop()
    MaxSignals   \* bound: raised signals, stop() included

BadInit == 512
NoActor == 1024
BadActorInit == 2048
ExceptionThrown == 4096

InitErrors == {BadInit, NoActor, BadActorInit, ExceptionThrown}

SIGHUP == 1
SIGINT == 2
SIGTERM == 15

\* qb::MaxCores stays below the error codes, so that a full count is no error.
ASSUME EngineAssumption ==
    /\ NbCore \in 1 .. (BadInit - 1)
    /\ Failures \subseteq InitErrors
    /\ MayThrow \in BOOLEAN
    /\ SelfKill \in BOOLEAN
    /\ Signals \subseteq {SIGHUP, SIGINT, SIGTERM}
    /\ MaxSignals \in Nat

Cores == 0 .. (NbCore - 1)

VARIABLES
    main,               \* the thread that owns the Main object
    async,              \* the argument of start()
    spawned,            \* cores whose worker was started
    is_running,         \* _is_running
    sync_start,         \* _sync_start: ready count or error code
    shared_com,         \* SharedCoreCommunication: "none", "up" or "freed"
    worker,             \* each worker's place in start_thread
    failed,             \* history: the core's initialisation failed
    stop_requested,     \* _stop_source
    signal_pending,     \* Main::_signal_pending
    signal_generation,  \* Main::_signal_generation
    raiser,             \* a signal stored but whose generation is not yet bumped
    raised,             \* history: how many signals were raised
    stopping,           \* history: stop() returned
    last_generation,    \* VirtualCore::_last_signal_generation
    seen_generation,    \* local of __workflow__: the generation just loaded
    stop_delivered,     \* VirtualCore::_stop_delivered
    delivered           \* history: signals each core's actors received

engineVars == <<main, async, spawned, is_running, sync_start, shared_com, worker, failed,
                stop_requested, signal_pending, signal_generation, raiser, raised,
                stopping, last_generation, seen_generation, stop_delivered, delivered>>

mainVars == <<main, async, spawned, is_running, shared_com, stop_requested>>
signalVars == <<signal_pending, signal_generation, raiser, raised, stopping>>
pollVars == <<last_generation, seen_generation, stop_delivered, delivered>>

EngineInit ==
    /\ main = "idle"
    /\ async \in BOOLEAN
    /\ spawned = 0
    /\ is_running = FALSE
    /\ sync_start = 0
    /\ shared_com = "none"
    /\ worker = [c \in Cores |-> "unborn"]
    /\ failed = [c \in Cores |-> FALSE]
    /\ stop_requested = FALSE
    /\ signal_pending = 0
    /\ signal_generation = 0
    /\ raiser = 0
    /\ raised = 0
    /\ stopping = FALSE
    /\ last_generation = [c \in Cores |-> 0]
    /\ seen_generation = [c \in Cores |-> 0]
    /\ stop_delivered = [c \in Cores |-> FALSE]
    /\ delivered = [c \in Cores |-> {}]

hasError == sync_start >= BadInit

Done(c) == worker[c] \in {"unborn", "done"}

-----------------------------------------------------------------------------
(* The owner of the Main object.                                           *)

\* start(): the shared state is made, then one worker after the other; without
\* async the caller becomes the last worker.
Start ==
    /\ main = "idle"
    /\ ~is_running
    /\ is_running' = TRUE
    /\ sync_start' = 0
    /\ signal_pending' = 0
    /\ signal_generation' = 0
    /\ shared_com' = "up"
    /\ main' = "spawn"
    /\ UNCHANGED <<async, spawned, worker, failed, stop_requested, raiser, raised, stopping, pollVars>>

Spawn ==
    /\ main = "spawn"
    /\ spawned < NbCore
    /\ worker' = [worker EXCEPT ![spawned] = "init"]
    /\ spawned' = spawned + 1
    /\ UNCHANGED <<main, async, is_running, sync_start, shared_com, failed, stop_requested,
                   signalVars, pollVars>>

\* The asynchronous start() spins on the barrier counter; the synchronous one
\* comes back when the worker it became returns.  Then it looks for an error.
StartReturns ==
    /\ main = "spawn"
    /\ spawned = NbCore
    /\ IF async THEN sync_start >= NbCore ELSE Done(NbCore - 1)
    /\ is_running' = ~hasError
    /\ main' = "started"
    /\ UNCHANGED <<async, spawned, sync_start, shared_com, worker, failed, stop_requested,
                   signalVars, pollVars>>

\* join() returns once every worker has.
Join ==
    /\ main = "started"
    /\ \A c \in Cores : Done(c)
    /\ main' = "joined"
    /\ UNCHANGED <<async, spawned, is_running, sync_start, shared_com, worker, failed,
                   stop_requested, signalVars, pollVars>>

\* ~Main: a running engine is asked to stop and joined.
Destroy ==
    /\ main \in {"started", "joined"}
    /\ main' = IF is_running THEN "rejoin" ELSE "members"
    /\ stop_requested' = (stop_requested \/ is_running)
    /\ UNCHANGED <<async, spawned, is_running, sync_start, shared_com, worker, failed,
                   signalVars, pollVars>>

DestroyJoin ==
    /\ main = "rejoin"
    /\ \A c \in Cores : Done(c)
    /\ main' = "members"
    /\ UNCHANGED <<async, spawned, is_running, sync_start, shared_com, worker, failed,
                   stop_requested, signalVars, pollVars>>

\* The members go in reverse order of declaration: _shared_com, and then _cores,
\* whose jthread destructors join.
FreeSharedCom ==
    /\ main = "members"
    /\ shared_com' = "freed"
    /\ main' = "jthreads"
    /\ UNCHANGED <<async, spawned, is_running, sync_start, worker, failed, stop_requested,
                   signalVars, pollVars>>

JoinThreads ==
    /\ main = "jthreads"
    /\ \A c \in Cores : Done(c)
    /\ main' = "destroyed"
    /\ UNCHANGED <<async, spawned, is_running, sync_start, shared_com, worker, failed,
                   stop_requested, signalVars, pollVars>>

Owner == Start \/ Spawn \/ StartReturns \/ Join \/ Destroy \/ DestroyJoin \/ FreeSharedCom \/ JoinThreads

-----------------------------------------------------------------------------
(* Signals.  The signum is stored first and the generation bumped after, so *)
(* that a core that sees the new generation sees the signum too.           *)

RaiseStore(s) ==
    /\ main \in {"spawn", "started", "joined", "rejoin"}
    /\ raiser = 0
    /\ raised < MaxSignals
    /\ signal_pending' = s
    /\ raiser' = s
    /\ raised' = raised + 1
    /\ UNCHANGED <<mainVars, sync_start, worker, failed, signal_generation, stopping, pollVars>>

\* onSignal(s) from the operating system, once start() installed the handler: it
\* does so before it waits for the workers, and before it becomes the last one.
OnSignal ==
    /\ main # "spawn" \/ (~async /\ spawned = NbCore)
    /\ \E s \in Signals : RaiseStore(s)

\* Main::stop().
StopStore == RaiseStore(SIGINT)

RaiseBump ==
    /\ raiser # 0
    /\ signal_generation' = signal_generation + 1
    /\ raiser' = 0
    /\ stopping' = (stopping \/ raiser = SIGINT)
    /\ UNCHANGED <<mainVars, sync_start, worker, failed, signal_pending, raised, pollVars>>

-----------------------------------------------------------------------------
(* start_thread on one worker.                                             *)

Goto(c, where) == worker' = [worker EXCEPT ![c] = where]

\* Mutant: an exception leaves no error code.
InitialiseSilent(c) ==
    /\ worker[c] = "init"
    /\ \/ Goto(c, "arrive") /\ UNCHANGED <<sync_start, failed>>
       \/ ExceptionThrown \in Failures /\ Goto(c, "exit") /\ UNCHANGED <<sync_start, failed>>
    /\ UNCHANGED <<mainVars, signalVars, pollVars>>

\* The core and its actors initialise, or an error code replaces the count.  An
\* exception skips the barrier.
Initialise(c) ==
    /\ worker[c] = "init"
    /\ \/ Goto(c, "arrive") /\ UNCHANGED <<sync_start, failed>>
       \/ \E err \in Failures :
             /\ sync_start' = err
             /\ failed' = [failed EXCEPT ![c] = TRUE]
             /\ Goto(c, IF err = ExceptionThrown THEN "exit" ELSE "arrive")
    /\ UNCHANGED <<mainVars, signalVars, pollVars>>

\* __wait__all__cores__ready: count oneself in, then spin.
Arrive(c) ==
    /\ worker[c] = "arrive"
    /\ sync_start' = sync_start + 1
    /\ Goto(c, "spin")
    /\ UNCHANGED <<mainVars, failed, signalVars, pollVars>>

\* Mutant: the barrier opens one core early.
LeaveBarrierEarly(c) ==
    /\ worker[c] = "spin"
    /\ sync_start >= NbCore - 1
    /\ Goto(c, IF sync_start < BadInit THEN "poll" ELSE "exit")
    /\ UNCHANGED <<mainVars, sync_start, failed, signalVars, pollVars>>

LeaveBarrier(c) ==
    /\ worker[c] = "spin"
    /\ sync_start >= NbCore
    /\ Goto(c, IF sync_start < BadInit THEN "poll" ELSE "exit")
    /\ UNCHANGED <<mainVars, sync_start, failed, signalVars, pollVars>>

\* The hot path of a pass: nothing pending.
PollNothing(c) ==
    /\ worker[c] = "poll"
    /\ signal_pending = 0 /\ ~stop_requested
    /\ Goto(c, "pass")
    /\ UNCHANGED <<mainVars, sync_start, failed, signalVars, pollVars>>

\* Something is: load the generation, and then the signum under it.
PollGeneration(c) ==
    /\ worker[c] = "poll"
    /\ signal_pending # 0 \/ stop_requested
    /\ seen_generation' = [seen_generation EXCEPT ![c] = signal_generation]
    /\ Goto(c, "signum")
    /\ UNCHANGED <<mainVars, sync_start, failed, signalVars, last_generation, stop_delivered, delivered>>

\* Mutant: a one-shot latch: only the first signal is delivered.
PollSignumOnce(c) ==
    LET new == signal_pending # 0 /\ delivered[c] = {} IN
    /\ worker[c] = "signum"
    /\ IF new
       THEN /\ delivered' = [delivered EXCEPT ![c] = @ \cup {signal_pending}]
            /\ Goto(c, IF signal_pending \in {SIGINT, SIGTERM} THEN "drain" ELSE "pass")
       ELSE Goto(c, "pass") /\ UNCHANGED delivered
    /\ UNCHANGED <<mainVars, sync_start, failed, signalVars, seen_generation,
                   last_generation, stop_delivered>>

\* A SignalEvent is synthesised for a new generation, or once for the stop token.
PollSignum(c) ==
    LET new == signal_pending # 0 /\ seen_generation[c] # last_generation[c]
        signum == IF signal_pending # 0 THEN signal_pending ELSE SIGINT
    IN
    /\ worker[c] = "signum"
    /\ IF new \/ (stop_requested /\ ~stop_delivered[c])
       THEN /\ last_generation' = IF new THEN [last_generation EXCEPT ![c] = seen_generation[c]]
                                  ELSE last_generation
            /\ stop_delivered' = [stop_delivered EXCEPT ![c] = @ \/ stop_requested]
            /\ delivered' = [delivered EXCEPT ![c] = @ \cup {signum}]
            /\ Goto(c, IF signum \in {SIGINT, SIGTERM} THEN "drain" ELSE "pass")
       ELSE /\ Goto(c, "pass")
            /\ UNCHANGED <<last_generation, stop_delivered, delivered>>
    /\ UNCHANGED <<mainVars, sync_start, failed, signalVars, seen_generation>>

\* The rest of a pass: actors go on, kill themselves, or throw.
Pass(c) ==
    /\ worker[c] = "pass"
    /\ \/ Goto(c, "poll") /\ UNCHANGED sync_start
       \/ SelfKill /\ Goto(c, "drain") /\ UNCHANGED sync_start
       \/ MayThrow /\ Goto(c, "exit") /\ sync_start' = ExceptionThrown
    /\ UNCHANGED <<mainVars, failed, signalVars, pollVars>>

\* The residual drain ends.
Drain(c) ==
    /\ worker[c] = "drain"
    /\ Goto(c, "exit")
    /\ UNCHANGED <<mainVars, sync_start, failed, signalVars, pollVars>>

\* ExitGuard publishes the stopped flag in the shared state; the thread returns.
Exit(c) ==
    /\ worker[c] = "exit"
    /\ Goto(c, "done")
    /\ UNCHANGED <<mainVars, sync_start, failed, signalVars, pollVars>>

Worker(c) ==
    \/ Initialise(c) \/ Arrive(c) \/ LeaveBarrier(c)
    \/ PollNothing(c) \/ PollGeneration(c) \/ PollSignum(c)
    \/ Pass(c) \/ Drain(c) \/ Exit(c)

EngineNext == Owner \/ OnSignal \/ StopStore \/ RaiseBump \/ \E c \in Cores : Worker(c)

\* Threads are scheduled, start() and a begun signal handler run to their end.
\* Whether and when the owner joins or destroys, or a signal comes, is free.
EngineFairness ==
    /\ WF_engineVars(Spawn \/ StartReturns \/ DestroyJoin \/ FreeSharedCom \/ JoinThreads)
    /\ WF_engineVars(RaiseBump)
    /\ \A c \in Cores : WF_engineVars(Worker(c))

EngineSpec == EngineInit /\ [][EngineNext]_engineVars /\ EngineFairness

-----------------------------------------------------------------------------
(* Properties.                                                             *)

\* The type of the state.
EngineTypeOK ==
    /\ main \in {"idle", "spawn", "started", "joined", "rejoin", "members", "jthreads", "destroyed"}
    /\ async \in BOOLEAN
    /\ spawned \in 0 .. NbCore
    /\ is_running \in BOOLEAN
    /\ sync_start \in Nat
    /\ shared_com \in {"none", "up", "freed"}
    /\ worker \in [Cores -> {"unborn", "init", "arrive", "spin", "poll", "signum", "pass",
                            "drain", "exit", "done"}]
    /\ failed \in [Cores -> BOOLEAN]
    /\ stop_requested \in BOOLEAN
    /\ signal_pending \in {0, SIGHUP, SIGINT, SIGTERM}
    /\ signal_generation \in Nat
    /\ raiser \in {0, SIGHUP, SIGINT, SIGTERM}
    /\ raised \in Nat
    /\ stopping \in BOOLEAN
    /\ last_generation \in [Cores -> Nat]
    /\ seen_generation \in [Cores -> Nat]
    /\ stop_delivered \in [Cores -> BOOLEAN]
    /\ delivered \in [Cores -> SUBSET {SIGHUP, SIGINT, SIGTERM}]

InWorkflow(c) == worker[c] \in {"poll", "signum", "pass", "drain"}

\* One bad core aborts the whole start: no core enters its workflow unless every
\* core has initialised, and no arrival hides an error, although count and error
\* share one counter.
AllInitialisedBeforeAnyRuns ==
    /\ EngineTypeOK
    /\ (\E c \in Cores : InWorkflow(c)) =>
          \A d \in Cores : ~failed[d] /\ worker[d] \notin {"unborn", "init", "arrive"}
    /\ (\E c \in Cores : failed[c]) => hasError

\* Nobody stays in the start barrier, whichever cores fail.
BarrierOpens == \A c \in Cores : worker[c] = "spin" ~> worker[c] # "spin"

\* stop(), unless a later signal has replaced it in the pending slot, ends every
\* core that runs, a core that has already delivered an earlier signal included;
\* and the destructor of a running engine ends, unless a reload signal is the last
\* one that was raised: its stop request is then delivered as another reload.
StopEnds ==
    /\ \A c \in Cores :
          (stopping /\ signal_pending = SIGINT) ~> (Done(c) \/ signal_pending # SIGINT)
    /\ (main = "rejoin" /\ signal_pending # SIGHUP)
          ~> (main = "destroyed" \/ signal_pending = SIGHUP)
=============================================================================
