--------------------------- MODULE ActorLifecycle ---------------------------
(***************************************************************************)
(* The actors of one VirtualCore (src/qb/core/VirtualCore.cpp, Actor.cpp): *)
(* service ids, router subscriptions, loop callbacks, the asynchronous     *)
(* onInit() with its stash and deadline, kill() and the deferred removal.  *)
(* One thread runs everything; what interleaves is user code: handlers,    *)
(* ticks, coroutines the listener resumes, and destructors, each of which  *)
(* may create or kill actors while the core is in the middle of a pass.    *)
(*                                                                         *)
(* An actor object is a member of Obj and is never reused; its id is, as   *)
(* in the code.  A handler has at most one effect: a handler with several  *)
(* is several events in a row.                                             *)
(***************************************************************************)
EXTENDS Integers, Sequences, FiniteSets, FiniteSetsExt

CONSTANTS
    Obj,         \* actor objects a behaviour may construct
    Service,     \* those of the one ServiceActor type (id 1)
    None,        \* no object
    MaxId,       \* greatest service id of the pool
    NbService,   \* _nb_service: ids up to it are reserved for services
    Initial,     \* the objects __init__actors__ starts the core with
    Outcomes,    \* how a dynamically added actor's onInit() may end
    CoroKill,    \* coroutines resumed by the listener may call kill()
    Aware,       \* every await of an onInit() is cancellation-aware
    StashCap,    \* kActivationStashCap
    MaxEvents    \* bound: unicast events that arrive

\* A unicast event: its number among those of its actor, and what it asks for.
Event == [n : Nat, kind : {"business", "unregister"}]

\* A suspended onInit(): its actor, whether its frame is done and with what
\* answer, whether the deadline has passed and was acted on, and the stash.
Activation == [obj : Obj, done : BOOLEAN, ok : BOOLEAN, expired : BOOLEAN,
               cancelling : BOOLEAN, stash : Seq(Event)]

ASSUME LifecycleAssumption ==
    /\ None \notin Obj /\ None \notin Activation
    /\ Service \subseteq Obj /\ Initial \subseteq Obj
    /\ MaxId \in Nat \ {0} /\ NbService \in {0, 1} /\ NbService < MaxId
    /\ (Service # {} => NbService = 1)
    /\ Cardinality(Initial \ Service) <= MaxId - NbService
    /\ Cardinality(Initial \cap Service) <= 1
    /\ Outcomes \subseteq {"true", "false", "suspended"}
    /\ CoroKill \in BOOLEAN /\ Aware \in BOOLEAN
    /\ StashCap \in Nat /\ MaxEvents \in Nat

NotFound == 0
Pool == (NbService + 1) .. MaxId
Ids == NotFound .. MaxId

VARIABLES
    pc,          \* place in the pass: run, pump, recv, tick, reap, left
    obj,         \* the objects: where they are in their life
    free,        \* _ids
    actors,      \* _actors: id -> object
    subs,        \* _router: id -> object its events are dispatched to
    callbacks,   \* _actor_callbacks / _callback_list: id -> object
    activating,  \* _activating: id -> Activation
    dying,       \* _dying_with_frame
    to_remove,   \* _actor_to_remove
    todo,        \* ids left in the loop under way: done_ids or the reap batch
    due,         \* ids whose cancelled onInit the listener resumes this pass
    snapshot,    \* cb_snapshot: callbacks still to tick in this pass
    replay,      \* the stash being replayed: its id and what is left of it
    arrived,     \* history: unicast events that reached each object
    delivered,   \* history: those its handlers were given
    overflowed   \* history: objects whose full stash dropped an event

tables == <<obj, free, actors, subs, callbacks, activating, dying, to_remove>>
loops == <<todo, due, snapshot, replay>>
history == <<arrived, delivered, overflowed>>
vars == <<pc, tables, loops, history>>

Alive(o) == o # None /\ obj[o].st = "live" /\ obj[o].alive

Frame(o) == [obj |-> o, done |-> FALSE, ok |-> FALSE, expired |-> FALSE,
             cancelling |-> FALSE, stash |-> <<>>]

Activating == {i \in Ids : activating[i] # None}

NbArrived == FoldSet(LAMBDA o, n : n + Len(arrived[o]), 0, Obj)

-----------------------------------------------------------------------------
(* Construction, __drive_init__, appendActor.                              *)

\* The id the constructor takes: the smallest free one (ServiceIdPool::acquire),
\* NotFound when there is none; a service has its own.
NewId(o) == IF o \in Service THEN 1
            ELSE IF free = {} THEN NotFound ELSE Min(free)

\* addReferencedActor -> constructor (subscribes) -> appendActor -> initActor.
\* A refused or failed actor is destroyed at once; of a failed one removeActor()
\* has erased the entries of its id by then, of a refused one nobody has.
AddRefActor(o, outcome) ==
    LET i == NewId(o)
        valid == i # NotFound
        duplicate == valid /\ actors[i] # None
        kept == valid /\ ~duplicate /\ outcome # "false"
        erased == ~duplicate /\ outcome = "false"
        suspended == ~duplicate /\ outcome = "suspended"
    IN /\ obj[o].st = "unborn"
       /\ obj' = [obj EXCEPT ![o] =
              [st |-> IF kept THEN "live" ELSE "destroyed", id |-> i,
               alive |-> TRUE, activated |-> ~suspended, cancelled |-> FALSE,
               failed |-> ~kept]]
       /\ free' = free \ {i}
       /\ subs' = [subs EXCEPT ![i] =
              IF ~valid THEN @ ELSE IF erased THEN None ELSE o]
       /\ callbacks' = [callbacks EXCEPT ![i] = IF erased THEN None ELSE @]
       /\ actors' = [actors EXCEPT ![i] = IF kept THEN o ELSE @]
       /\ activating' = [activating EXCEPT ![i] =
              IF suspended /\ @ = None THEN Frame(o) ELSE @]
       /\ UNCHANGED <<dying, to_remove>>

\* Actor::kill of the victim.
Kill(v) ==
    /\ Alive(v)
    /\ obj' = [obj EXCEPT ![v].alive = FALSE, ![v].cancelled = TRUE]
    /\ to_remove' = to_remove \cup {obj[v].id}
    /\ UNCHANGED <<free, actors, subs, callbacks, activating, dying>>

\* VirtualCore::registerCallback.
RegisterCallback(o) ==
    /\ callbacks[obj[o].id] = None
    /\ callbacks' = [callbacks EXCEPT ![obj[o].id] = o]
    /\ UNCHANGED <<obj, free, actors, subs, activating, dying, to_remove>>

\* What the code of actor o does in one handler, tick or coroutine step.
Effect(o, mayKill) ==
    \/ UNCHANGED tables
    \/ mayKill /\ \E v \in Obj : Kill(v)
    \/ RegisterCallback(o)
    \/ \E n \in Obj, out \in Outcomes : AddRefActor(n, out)

-----------------------------------------------------------------------------
(* Removal.                                                                *)

\* Mutant: the subscriptions stay.
KeepSubscriptions(i) == UNCHANGED subs

unregisterEvents(i) == subs' = [subs EXCEPT ![i] = None]

unregisterCallback(i) == callbacks' = [callbacks EXCEPT ![i] = None]

eraseActivation(i) == activating' = [activating EXCEPT ![i] = None]

\* The onInit() frame of the actor is still suspended: the actor must outlive it.
Deferred(i) == activating[i] # None /\ ~activating[i].done

\* removeActor(i).  The destructor may kill one more actor, v.
RemoveActor(i, rest, v) ==
    LET o == actors[i]
        deferred == Deferred(i)
        destroys == o # None /\ ~deferred
        kills == destroys /\ v # None
    IN /\ v # None => destroys /\ v # o /\ Alive(v)
       /\ obj' = [x \in Obj |->
              IF x = o THEN [obj[x] EXCEPT !.cancelled = TRUE,
                                !.st = IF destroys THEN "destroyed" ELSE @]
              ELSE IF kills /\ x = v
                   THEN [obj[x] EXCEPT !.alive = FALSE, !.cancelled = TRUE]
                   ELSE obj[x]]
       /\ to_remove' = IF kills THEN rest \cup {obj[v].id} ELSE rest
       /\ IF deferred
          THEN /\ dying' = dying \cup {i}
               /\ UNCHANGED <<free, actors, subs, callbacks, activating>>
          ELSE /\ dying' = dying \ {i}
               /\ eraseActivation(i)
               /\ unregisterCallback(i)
               /\ unregisterEvents(i)
               /\ actors' = [actors EXCEPT ![i] = None]
               /\ free' = IF destroys /\ i > NbService
                          THEN free \cup {i} ELSE free

\* The head of the next pass: the listener will resume every onInit() whose
\* scope is cancelled by now.
NextPass ==
    /\ pc' = "run"
    /\ due' = {i \in Activating : ~activating[i].done
                                  /\ obj[activating[i].obj].cancelled}

Empty == \A i \in Ids : actors[i] = None

-----------------------------------------------------------------------------
(* The listener: coroutines run.                                           *)

\* A coroutine of a live actor makes a step.
CoroutineStep == \E o \in Obj :
    /\ pc = "run" /\ Alive(o)
    /\ Effect(o, CoroKill)
    /\ UNCHANGED <<pc, loops, history>>

\* A suspended onInit() runs to its end; k: it calls kill() on the way.  A
\* cancelled one that does not catch cancelled_error fails.
InitEnds(i, ok, k) ==
    LET o == activating[i].obj IN
    /\ pc = "run" /\ activating[i] # None /\ ~activating[i].done
    /\ k => CoroKill /\ Alive(o)
    /\ activating' = [activating EXCEPT ![i].done = TRUE, ![i].ok = ok]
    /\ obj' = [obj EXCEPT ![o].failed = ~ok, ![o].alive = @ /\ ~k,
                          ![o].cancelled = @ \/ k]
    /\ to_remove' = IF k THEN to_remove \cup {i} ELSE to_remove
    /\ due' = due \ {i}
    /\ UNCHANGED <<pc, free, actors, subs, callbacks, dying, todo, snapshot,
                   replay, history>>

\* The wall clock passes the deadline of an activation.
DeadlinePasses(i) ==
    /\ pc # "left" /\ activating[i] # None /\ ~activating[i].expired
    /\ activating' = [activating EXCEPT ![i].expired = TRUE]
    /\ UNCHANGED <<pc, obj, free, actors, subs, callbacks, dying, to_remove,
                   loops, history>>

-----------------------------------------------------------------------------
(* __pump_activations__.                                                   *)

\* Mutant: the deadline is never enforced.
NeverExpires(i) == FALSE

\* The deadline of an activation has passed and nothing was done about it yet.
Expires(i) ==
    /\ activating[i] # None /\ ~activating[i].done
    /\ activating[i].expired /\ ~activating[i].cancelling

\* Its first loop: collect what is done, cancel what has expired.
ListenerReturns ==
    /\ pc = "run"
    /\ Aware => due = {}
    /\ IF Activating = {}
       THEN pc' = "recv" /\ UNCHANGED <<todo, activating, obj>>
       ELSE /\ pc' = "pump"
            /\ todo' = {i \in Activating : activating[i].done}
            /\ activating' = [i \in Ids |->
                   IF Expires(i) THEN [activating[i] EXCEPT !.cancelling = TRUE]
                   ELSE activating[i]]
            /\ obj' = [o \in Obj |->
                   IF \E i \in Ids : Expires(i) /\ actors[i] = o
                   THEN [obj[o] EXCEPT !.cancelled = TRUE] ELSE obj[o]]
    /\ UNCHANGED <<free, actors, subs, callbacks, dying, to_remove, due,
                   snapshot, replay, history>>

\* A finished activation that failed, or was killed meanwhile: the actor goes.
PumpFails(i, v) ==
    LET act == activating[i] IN
    /\ pc = "pump" /\ i \in todo /\ replay.rest = <<>>
    /\ i \in dying \/ ~act.ok \/ actors[i] = None
    /\ todo' = todo \ {i}
    /\ IF actors[i] # None
       THEN RemoveActor(i, to_remove, v)
       ELSE /\ v = None
            /\ activating' = [activating EXCEPT ![i] = None]
            /\ dying' = dying \ {i}
            /\ UNCHANGED <<obj, free, actors, subs, callbacks, to_remove>>
    /\ UNCHANGED <<pc, due, snapshot, replay, history>>

\* One that succeeded: the actor is active, its stash is to be replayed.
PumpActivates(i) ==
    /\ pc = "pump" /\ i \in todo /\ replay.rest = <<>>
    /\ i \notin dying /\ activating[i].ok /\ actors[i] # None
    /\ todo' = todo \ {i}
    /\ obj' = [obj EXCEPT ![actors[i]].activated = TRUE]
    /\ replay' = [id |-> i, rest |-> activating[i].stash]
    /\ activating' = [activating EXCEPT ![i] = None]
    /\ UNCHANGED <<pc, free, actors, subs, callbacks, dying, to_remove, due,
                   snapshot, history>>

\* The router hands event e to the object subscribed under id i.
Route(i, e) ==
    LET o == subs[i] IN
    IF ~Alive(o) THEN UNCHANGED <<tables, delivered>>
    ELSE /\ delivered' = [delivered EXCEPT ![o] = Append(@, e)]
         /\ IF e.kind = "unregister"
            THEN /\ unregisterCallback(i)
                 /\ UNCHANGED <<obj, free, actors, subs, activating, dying,
                                to_remove>>
            ELSE Effect(o, TRUE)

\* Mutant: replays the stash from its end.
ReplayBackwards ==
    /\ pc = "pump" /\ replay.rest # <<>>
    /\ replay' = [replay EXCEPT !.rest = SubSeq(@, 1, Len(@) - 1)]
    /\ Route(replay.id, replay.rest[Len(replay.rest)])
    /\ UNCHANGED <<pc, todo, due, snapshot, arrived, overflowed>>

ReplayStashed ==
    /\ pc = "pump" /\ replay.rest # <<>>
    /\ replay' = [replay EXCEPT !.rest = Tail(@)]
    /\ Route(replay.id, Head(replay.rest))
    /\ UNCHANGED <<pc, todo, due, snapshot, arrived, overflowed>>

\* Mutant: an empty core goes on.
PumpReturnsAlways ==
    /\ pc = "pump" /\ todo = {} /\ replay.rest = <<>>
    /\ pc' = "recv"
    /\ UNCHANGED <<tables, loops, history>>

PumpReturns ==
    /\ pc = "pump" /\ todo = {} /\ replay.rest = <<>>
    /\ pc' = IF Empty THEN "left" ELSE "recv"
    /\ UNCHANGED <<tables, loops, history>>

-----------------------------------------------------------------------------
(* __receive_events__: the dispatch gate and the router.                   *)

StashFull(i) == Len(activating[i].stash) >= StashCap

\* A unicast event other than KillEvent: stashed while its actor activates.
Receive(i, kind) ==
    LET gated == activating[i] # None
        o == IF gated THEN activating[i].obj ELSE subs[i]
        e == [n |-> Len(arrived[o]) + 1, kind |-> kind]
        full == gated /\ StashFull(i)
    IN /\ pc = "recv" /\ i # NotFound /\ o # None
       /\ NbArrived < MaxEvents
       /\ arrived' = [arrived EXCEPT ![o] = IF Alive(o) THEN Append(@, e) ELSE @]
       /\ IF gated
          THEN /\ activating' = [activating EXCEPT
                      ![i].stash = IF full THEN @ ELSE Append(@, e),
                      ![i].expired = @ \/ full]
               /\ overflowed' = IF full THEN overflowed \cup {o} ELSE overflowed
               /\ UNCHANGED <<obj, free, actors, subs, callbacks, dying,
                              to_remove, delivered>>
          ELSE Route(i, e) /\ UNCHANGED overflowed
       /\ UNCHANGED <<pc, loops>>

\* Mutant: kills the id, whether or not a live actor has it.
ReceiveKillId(i) ==
    /\ pc = "recv" /\ i # NotFound
    /\ to_remove' = to_remove \cup {i}
    /\ obj' = [o \in Obj |-> IF Alive(o) /\ subs[i] = o
                              THEN [obj[o] EXCEPT !.alive = FALSE] ELSE obj[o]]
    /\ UNCHANGED <<pc, free, actors, subs, callbacks, activating, dying, loops,
                   history>>

\* KillEvent passes the gate.
ReceiveKill(i) ==
    /\ pc = "recv" /\ i # NotFound
    /\ Kill(subs[i])
    /\ UNCHANGED <<pc, loops, history>>

\* A terminal SignalEvent is broadcast to every subscribed actor.
ReceiveSignal ==
    LET hit == {o \in Obj : Alive(o) /\ \E i \in Ids : subs[i] = o} IN
    /\ pc = "recv" /\ hit # {}
    /\ obj' = [o \in Obj |->
           IF o \in hit THEN [obj[o] EXCEPT !.alive = FALSE, !.cancelled = TRUE]
           ELSE obj[o]]
    /\ to_remove' = to_remove \cup {obj[o].id : o \in hit}
    /\ UNCHANGED <<pc, free, actors, subs, callbacks, activating, dying, loops,
                   history>>

\* Reception that killed an actor skips the callbacks of this pass.
ReceiveEnd ==
    /\ pc = "recv"
    /\ IF to_remove # {}
       THEN pc' = "reap" /\ todo' = {} /\ UNCHANGED snapshot
       ELSE /\ pc' = "tick" /\ UNCHANGED todo
            /\ snapshot' = {<<i, callbacks[i]>> :
                               i \in {j \in Ids : callbacks[j] # None}}
    /\ UNCHANGED <<tables, due, replay, history>>

-----------------------------------------------------------------------------
(* Callbacks, the reap loop and the end of the pass.                       *)

\* One entry of the snapshot; an actor killed earlier in this pass is skipped.
Tick == \E entry \in snapshot :
    /\ pc = "tick"
    /\ snapshot' = snapshot \ {entry}
    /\ IF entry[1] \in to_remove THEN UNCHANGED tables
       ELSE Effect(entry[2], TRUE)
    /\ UNCHANGED <<pc, todo, due, replay, history>>

TickEnd ==
    /\ pc = "tick" /\ snapshot = {}
    /\ IF to_remove # {} THEN pc' = "reap" /\ todo' = {} /\ UNCHANGED due
       ELSE NextPass /\ UNCHANGED todo
    /\ UNCHANGED <<tables, snapshot, replay, history>>

\* A batch at a time, so that a destructor may kill while the batch is removed.
ReapSwap ==
    /\ pc = "reap" /\ todo = {} /\ to_remove # {}
    /\ todo' = to_remove
    /\ to_remove' = {}
    /\ UNCHANGED <<pc, obj, free, actors, subs, callbacks, activating, dying,
                   due, snapshot, replay, history>>

ReapOne(i, v) ==
    /\ pc = "reap" /\ i \in todo
    /\ todo' = todo \ {i}
    /\ RemoveActor(i, to_remove, v)
    /\ UNCHANGED <<pc, due, snapshot, replay, history>>

ReapEnd ==
    /\ pc = "reap" /\ todo = {} /\ to_remove = {}
    /\ IF Empty THEN pc' = "left" /\ UNCHANGED due ELSE NextPass
    /\ UNCHANGED <<tables, todo, snapshot, replay, history>>

-----------------------------------------------------------------------------
\* The ids the initial actors get, in the order they are constructed.
InitialIds == {f \in [Initial -> Pool \cup (IF NbService = 1 THEN {1} ELSE {})] :
    /\ \A x, y \in Initial : x # y => f[x] # f[y]
    /\ \A x \in Initial : x \in Service <=> f[x] = 1 /\ NbService = 1
    /\ \A x \in Initial \ Service : \A j \in Pool :
          j < f[x] => \E y \in Initial : f[y] = j}

\* The core enters __workflow__: every initial actor is constructed and its
\* onInit() has returned true or is suspended.
Init ==
    \E f \in InitialIds, susp \in SUBSET Initial :
       LET at(i) == {o \in Initial : f[o] = i}
           owner(i) == IF at(i) = {} THEN None ELSE CHOOSE o \in at(i) : TRUE
       IN /\ pc = "run"
          /\ obj = [o \in Obj |->
                [st |-> IF o \in Initial THEN "live" ELSE "unborn",
                 id |-> IF o \in Initial THEN f[o] ELSE NotFound,
                 alive |-> TRUE, activated |-> o \notin susp,
                 cancelled |-> FALSE, failed |-> FALSE]]
          /\ free = Pool \ {f[o] : o \in Initial}
          /\ actors = [i \in Ids |-> owner(i)]
          /\ subs = [i \in Ids |-> owner(i)]
          /\ callbacks = [i \in Ids |-> None]
          /\ activating = [i \in Ids |->
                IF owner(i) \in susp THEN Frame(owner(i)) ELSE None]
          /\ dying = {} /\ to_remove = {} /\ todo = {} /\ due = {}
          /\ snapshot = {}
          /\ replay = [id |-> NotFound, rest |-> <<>>]
          /\ arrived = [o \in Obj |-> <<>>]
          /\ delivered = [o \in Obj |-> <<>>]
          /\ overflowed = {}

\* One step of the core's own loop: no user code decides whether it happens.
LoopStep ==
    \/ ListenerReturns
    \/ \E i \in Ids, v \in Obj \cup {None} : PumpFails(i, v)
    \/ \E i \in Ids : PumpActivates(i)
    \/ ReplayStashed
    \/ PumpReturns
    \/ ReceiveEnd
    \/ Tick
    \/ TickEnd
    \/ ReapSwap
    \/ \E i \in Ids, v \in Obj \cup {None} : ReapOne(i, v)
    \/ ReapEnd

\* The listener resumes an onInit() whose scope was cancelled.
ResumeCancelled == \E i \in due : \E ok, k \in BOOLEAN : InitEnds(i, ok, k)

Next ==
    \/ LoopStep
    \/ CoroutineStep
    \/ \E i \in Ids, ok, k \in BOOLEAN : InitEnds(i, ok, k)
    \/ \E i \in Ids : DeadlinePasses(i)
    \/ \E i \in Ids, kind \in {"business", "unregister"} : Receive(i, kind)
    \/ \E i \in Ids : ReceiveKill(i)
    \/ ReceiveSignal

Spec == Init /\ [][Next]_vars

\* The thread keeps looping, a cancelled await is resumed by the next listener
\* run (schedule_via_current), and the wall clock advances.
FairSpec ==
    /\ Spec
    /\ WF_vars(LoopStep)
    /\ WF_vars(ResumeCancelled)
    /\ \A i \in Ids : WF_vars(DeadlinePasses(i))

-----------------------------------------------------------------------------
(* Properties.                                                             *)

\* The shape of the state.
TypeOK ==
    /\ pc \in {"run", "pump", "recv", "tick", "reap", "left"}
    /\ free \subseteq Pool
    /\ \A f \in {actors, subs, callbacks} : f \in [Ids -> Obj \cup {None}]
    /\ \A i \in Activating : Len(activating[i].stash) <= StashCap
    /\ \A S \in {dying, to_remove, todo, due} : S \subseteq Ids

\* The core never keeps a pointer to a destroyed actor: not in the router, not
\* among the callbacks or the snapshot being ticked, and no suspended onInit()
\* frame outlives its actor (removeActor defers the destruction for it).
NoDanglingPointer ==
    /\ \A i \in Ids : /\ subs[i] # None => obj[subs[i]].st = "live"
                      /\ callbacks[i] # None => obj[callbacks[i]].st = "live"
    /\ \A entry \in snapshot : obj[entry[2]].st = "live"
    /\ \A i \in Activating : obj[activating[i].obj].st = "live"

\* An id is in the pool only when nothing of its former owner is left: a new
\* actor that gets it inherits no subscription, callback, activation or mark.
FreeIdIsClean == \A i \in free :
    /\ actors[i] = None /\ subs[i] = None /\ callbacks[i] = None
    /\ activating[i] = None /\ i \notin dying

\* When a pass begins no killed actor is stranded in _actors, save those whose
\* onInit() frame still has to unwind: the reap loop drained every kill, those
\* made by destructors while it ran included.
NoKilledActorStranded ==
    (pc = "run" /\ ~CoroKill) =>
        \A i \in Ids : actors[i] # None /\ ~Alive(actors[i]) => i \in dying

\* An actor is destroyed only because it was killed or its onInit() failed:
\* kill() "Terminate[s] this actor" (Actor.h:361), never another one.
DestroyedForAReason == \A o \in Obj :
    obj[o].st = "destroyed" => ~obj[o].alive \/ obj[o].failed

\* The stash neither loses nor reorders: what reached a live actor is what its
\* handlers saw, followed by what the core still holds for it; and no unicast
\* event is handled before onInit() has succeeded.
StashKeepsOrder == \A o \in Obj \ overflowed :
    Alive(o) =>
        LET i == obj[o].id
            gated == activating[i] # None
        IN /\ gated => delivered[o] = <<>> /\ arrived[o] = activating[i].stash
           /\ ~gated => arrived[o] = delivered[o] \o
                          (IF replay.id = i THEN replay.rest ELSE <<>>)

\* "a killed actor must not get another tick" (VirtualCore.cpp:726): every
\* callback the pass is about to run belongs to an actor that was not killed.
KilledActorsDoNotTick ==
    pc = "tick" => \A entry \in snapshot : entry[1] \in to_remove \/ Alive(entry[2])

\* Nothing stale is left behind: no pointer to a destroyed actor, no trace of the
\* last owner of an id, no killed actor that stays or ticks again.
NothingStale ==
    /\ TypeOK /\ NoDanglingPointer /\ FreeIdIsClean
    /\ NoKilledActorStranded /\ KilledActorsDoNotTick

\* No onInit() keeps its actor activating for ever: the deadline ends it.
ActivationEnds == \A o \in Obj :
    (obj[o].st = "live" /\ ~obj[o].activated)
        ~> (obj[o].activated \/ obj[o].st = "destroyed")

\* A killed actor is eventually destroyed, even one killed in the middle of its
\* onInit() or from another actor's destructor, and a core that has lost its last
\* actor leaves its loop: _actors.empty() is tested wherever the last one can go.
CoreWindsDown ==
    /\ \A o \in Obj : (obj[o].st = "live" /\ ~obj[o].alive) ~> (obj[o].st = "destroyed")
    /\ Empty ~> (pc = "left")
=============================================================================
