---------------------------- MODULE Supervision ----------------------------
(***************************************************************************)
(* A Supervisor and its children (core/patterns/supervisor.h).  All are    *)
(* actors of one core: stop() and kill() only push events into the core's  *)
(* own pipe and mark the actor; a pass of the loop runs coroutines, then   *)
(* dispatches the events pushed before, then reaps the killed, whose ids   *)
(* go back to the pool and are the next to be given out.                   *)
(***************************************************************************)
EXTENDS Naturals, FiniteSets, Sequences, SequencesExt

CONSTANTS
    Count,       \* child_count
    Strategies,  \* the restart strategies to try
    MaxRestarts, \* restart cap; 0 is unlimited
    Window,      \* whether restarts are counted over a sliding window
    MaxStops     \* bound on the children that stop

ASSUME SupervisionAssumption ==
    /\ Count \in Nat \ {0}
    /\ Strategies \subseteq {"one_for_one", "one_for_all", "rest_for_one"}
    /\ MaxRestarts \in Nat /\ Window \in BOOLEAN /\ MaxStops \in Nat

VARIABLES
    strategy,
    supervisor,  \* "alive", "killed"
    children,    \* _children: the id of each slot's child
    gen,         \* _gen
    recent,      \* restarts that count against the cap
    escalated,   \* slots left down by on_escalate()
    actors,      \* the children in the core's actor map, by id
    pipe,        \* events pushed, for the next pass
    batch,       \* events of this pass
    phase,       \* of the loop: "coroutines", "dispatch" or "reap"
    stops,       \* children that have stopped
    stray        \* history: current children ended by a KillEvent for an older one

super == <<supervisor, children, gen, recent, escalated>>
vars == <<strategy, super, actors, pipe, batch, phase, stops, stray>>

Slot == 1..Count
Child(j, g) == [slot |-> j, gen |-> g, alive |-> TRUE]
ChildDown(j, g) == [type |-> "ChildDown", slot |-> j, gen |-> g, to |-> 0]
KillEvent(i) == [type |-> "KillEvent", slot |-> 0, gen |-> 0, to |-> i]

\* onInit() has started a child in every slot; 0 is the supervisor's id.
Init ==
    /\ strategy \in Strategies
    /\ supervisor = "alive"
    /\ children = [j \in Slot |-> j] /\ gen = [j \in Slot |-> 0]
    /\ recent = 0 /\ escalated = {}
    /\ actors = [i \in Slot |-> Child(i, 0)]
    /\ pipe = <<>> /\ batch = <<>> /\ phase = "coroutines"
    /\ stops = 0 /\ stray = {}

-----------------------------------------------------------------------------
(* The loop *)

\* The events pushed so far are dispatched.
Receive ==
    /\ phase = "coroutines"
    /\ batch' = pipe /\ pipe' = <<>> /\ phase' = "dispatch"
    /\ UNCHANGED <<strategy, super, actors, stops, stray>>

DispatchEnds ==
    /\ phase = "dispatch" /\ batch = <<>>
    /\ phase' = "reap"
    /\ UNCHANGED <<strategy, super, actors, pipe, batch, stops, stray>>

\* Killed actors are destroyed and their ids are free again.
Reap ==
    /\ phase = "reap"
    /\ actors' = [i \in {n \in DOMAIN actors : actors[n].alive} |-> actors[i]]
    /\ phase' = "coroutines"
    /\ UNCHANGED <<strategy, super, pipe, batch, stops, stray>>

\* SupervisedActor::stop(), from a handler, a callback or a coroutine.
stop(i) ==
    /\ actors[i].alive /\ stops < MaxStops
    /\ stops' = stops + 1
    /\ pipe' = Append(pipe, ChildDown(actors[i].slot, actors[i].gen))
    /\ actors' = [actors EXCEPT ![i].alive = FALSE]
    /\ UNCHANGED <<strategy, super, batch, phase, stray>>

-----------------------------------------------------------------------------
(* The supervisor's handlers *)

\* The n-th smallest of a set of numbers.
Nth(S, n) == CHOOSE i \in S : Cardinality({k \in S : k <= i}) = n

\* acquire() gives out the smallest free id.
FreeIds == (1..(Cardinality(DOMAIN actors) + Count)) \ DOMAIN actors

\* spawn_child() for the slots lo..hi in turn, with generations g.
start_slots(lo, hi, g) ==
    LET id(j) == Nth(FreeIds, j - lo + 1)
        new == {id(j) : j \in lo..hi}
    IN  /\ children' = [j \in Slot |-> IF j \in lo..hi THEN id(j) ELSE children[j]]
        /\ actors' = [i \in DOMAIN actors \union new |->
                         IF i \in new THEN LET j == CHOOSE k \in lo..hi : id(k) = i IN Child(j, g[j])
                         ELSE actors[i]]
        /\ escalated' = escalated \ (lo..hi)

Bumped(js) == [j \in Slot |-> IF j \in js THEN gen[j] + 1 ELSE gen[j]]

Kills(js) == [n \in 1..Cardinality(js) |-> KillEvent(children[Nth(js, n)])]

\* Mutant: the survivors keep their generation.
restart_slots_unbumped(lo, hi, down) ==
    /\ gen' = Bumped({down})
    /\ pipe' = pipe \o Kills((lo..hi) \ {down})
    /\ start_slots(lo, hi, gen')

\* The survivors are sent a KillEvent, then every slot gets a new child.
restart_slots(lo, hi, down) ==
    /\ gen' = Bumped(lo..hi)
    /\ pipe' = pipe \o Kills((lo..hi) \ {down})
    /\ start_slots(lo, hi, gen')

\* over_restart_limit(): restarts older than the window do not count.
Counted == IF Window THEN 0..recent ELSE {recent}

Restart(j) ==
    CASE strategy = "one_for_one" -> restart_slots(j, j, j)
      [] strategy = "one_for_all" -> restart_slots(1, Count, j)
      [] strategy = "rest_for_one" -> restart_slots(j, Count, j)

OnChildDown(e) ==
    /\ e.type = "ChildDown"
    /\ \/ /\ supervisor = "killed" \/ e.gen # gen[e.slot]
          /\ UNCHANGED <<super, actors, pipe>>
       \/ /\ supervisor = "alive" /\ e.gen = gen[e.slot]
          /\ \E n \in Counted :
                IF MaxRestarts > 0 /\ n >= MaxRestarts
                THEN /\ recent' = n
                     /\ escalated' = escalated \union {e.slot}
                     /\ UNCHANGED <<children, gen, actors, pipe>>
                ELSE recent' = n + 1 /\ Restart(e.slot)
          /\ UNCHANGED supervisor
    /\ UNCHANGED stray

\* Mutant: the children are left alone.
OnKillSupervisor_only(e) ==
    /\ e.type = "KillEvent" /\ e.to = 0
    /\ supervisor' = "killed"
    /\ gen' = Bumped(Slot)
    /\ UNCHANGED <<children, recent, escalated, actors, pipe, stray>>

\* Supervisor::on(KillEvent) tears its children down first.
OnKillSupervisor(e) ==
    /\ e.type = "KillEvent" /\ e.to = 0
    /\ supervisor' = "killed"
    /\ gen' = Bumped(Slot)
    /\ pipe' = pipe \o Kills(Slot)
    /\ UNCHANGED <<children, recent, escalated, actors, stray>>

\* Actor::on(KillEvent) of the child that has the id by now, if any.
OnKillChild(e) ==
    LET hit == e.to \in DOMAIN actors /\ actors[e.to].alive
    IN  /\ e.type = "KillEvent" /\ e.to # 0
        /\ actors' = IF hit THEN [actors EXCEPT ![e.to].alive = FALSE] ELSE actors
        /\ stray' = IF hit /\ actors[e.to].gen = gen[actors[e.to].slot]
                    THEN stray \union {actors[e.to]} ELSE stray
        /\ UNCHANGED <<super, pipe>>

Dispatch ==
    /\ phase = "dispatch" /\ batch # <<>>
    /\ OnChildDown(Head(batch)) \/ OnKillSupervisor(Head(batch)) \/ OnKillChild(Head(batch))
    /\ batch' = Tail(batch)
    /\ UNCHANGED <<strategy, phase, stops>>

\* Somebody kills the supervisor.
KillSupervisor ==
    /\ supervisor = "alive" /\ KillEvent(0) \notin Range(pipe \o batch)
    /\ pipe' = Append(pipe, KillEvent(0))
    /\ UNCHANGED <<strategy, super, actors, batch, phase, stops, stray>>

Next ==
    \/ Receive \/ Dispatch \/ DispatchEnds \/ Reap \/ KillSupervisor
    \/ \E i \in DOMAIN actors : stop(i)

\* The loop keeps turning.
Spec == Init /\ [][Next]_vars /\ WF_vars(Receive \/ Dispatch \/ DispatchEnds \/ Reap)

-----------------------------------------------------------------------------
Queued == Range(pipe) \union Range(batch)
OnDuty(j) == {i \in DOMAIN actors : actors[i].alive /\ actors[i].slot = j /\ actors[i].gen = gen[j]}

TypeOK ==
    /\ strategy \in Strategies /\ supervisor \in {"alive", "killed"}
    /\ children \in [Slot -> Nat \ {0}] /\ gen \in [Slot -> Nat]
    /\ recent \in Nat /\ escalated \subseteq Slot
    /\ \A i \in DOMAIN actors : actors[i] \in [slot : Slot, gen : Nat, alive : BOOLEAN]
    /\ phase \in {"coroutines", "dispatch", "reap"} /\ stops \in 0..MaxStops

(* Every slot has one child on duty, or the supervisor is about to learn   *)
(* that it is down, or has given up on it; and a child that was replaced   *)
(* is about to be killed.  Children stop together, while a restart is      *)
(* under way and after the supervisor was told to die, and reports of      *)
(* replaced children are still queued.  The one exception: a restart sends *)
(* a KillEvent to the id of each sibling, and when that sibling has        *)
(* stopped as well its id may already be a new child's.                    *)
SlotsAreServed ==
    /\ TypeOK
    /\ \A j \in Slot : Cardinality(OnDuty(j)) <= 1
    /\ supervisor = "alive" =>
          \A j \in Slot : \/ OnDuty(j) = {children[j]}
                          \/ ChildDown(j, gen[j]) \in Queued
                          \/ j \in escalated
                          \/ strategy # "one_for_one" /\ Child(j, gen[j]) \in stray
    /\ \A i \in DOMAIN actors : actors[i].alive /\ i \notin OnDuty(actors[i].slot) => KillEvent(i) \in Queued

(* No child outlives its supervisor for long, also one that was started    *)
(* just before.                                                            *)
NoOrphans == supervisor = "killed" ~> \A i \in DOMAIN actors : ~actors[i].alive
=============================================================================
