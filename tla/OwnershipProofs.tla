--------------------------- MODULE OwnershipProofs ---------------------------
(***************************************************************************)
(* Parents and those they started.  A supervisor keeps its slots served,   *)
(* for any number of children, any cap on restarts and each strategy.  An  *)
(* await leaves no handle of a destroyed branch behind and is resumed with *)
(* the truth, for any number of branches, each construct, and however      *)
(* often their inner tasks suspend.                                        *)
(***************************************************************************)
EXTENDS Supervision, CoroTasks, QueueTheorems

-----------------------------------------------------------------------------
(* A supervisor and its children: the inductive invariant *)

Actor == [slot : Slot, gen : Nat, alive : BOOLEAN]
Message == [type : {"ChildDown"}, slot : Slot, gen : Nat, to : {0}]
           \union [type : {"KillEvent"}, slot : {0}, gen : {0}, to : Nat]

Types ==
    /\ TypeOK
    /\ IsFiniteSet(DOMAIN actors) /\ DOMAIN actors \subseteq Nat \ {0}
    /\ actors \in [DOMAIN actors -> Actor]
    /\ pipe \in Seq(Message) /\ batch \in Seq(Message)
    /\ phase # "dispatch" => batch = <<>>

\* Only the child that was started last in a slot has the slot's generation.
Latest(i) == LET a == actors[i] IN a.gen <= gen[a.slot] /\ (a.gen = gen[a.slot] => i = children[a.slot])

\* A replaced child that lives is about to be killed.
Doomed(i) == actors[i].alive /\ actors[i].gen # gen[actors[i].slot] => KillEvent(i) \in Queued

\* A report is of a child that is down, or of one that was replaced.
Report(m) == m.type = "ChildDown" => m.gen <= gen[m.slot] /\ (m.gen = gen[m.slot] => OnDuty(m.slot) = {})

\* A slot has its child, or the supervisor will learn that it is down or has given up.
Watched(j) ==
    \/ OnDuty(j) = {children[j]}
    \/ ChildDown(j, gen[j]) \in Queued
    \/ j \in escalated
    \/ strategy # "one_for_one" /\ Child(j, gen[j]) \in stray

\* A supervisor that restarts one for one sends no child a KillEvent while it lives.
Spared(m) == supervisor = "alive" /\ strategy = "one_for_one" => ~(m.type = "KillEvent" /\ m.to # 0)

IInv ==
    /\ Types
    /\ \A i \in DOMAIN actors : Latest(i) /\ Doomed(i)
    /\ \A m \in Queued : Report(m) /\ Spared(m)
    /\ supervisor = "alive" => \A j \in Slot : Watched(j)

-----------------------------------------------------------------------------
(* Queues, ids and kills *)

\* What a queue holds after an event joined it, after it was joined by another
\* queue, and after its head was taken.
LEMMA QueueRanges ==
    ASSUME NEW S, NEW q \in Seq(S)
    PROVE  /\ \A e \in S : Append(q, e) \in Seq(S) /\ Range(Append(q, e)) = Range(q) \union {e}
           /\ \A r \in Seq(S) : q \o r \in Seq(S) /\ Range(q \o r) = Range(q) \union Range(r)
           /\ q # <<>> => /\ Tail(q) \in Seq(S) /\ Head(q) \in S
                          /\ Range(q) = {Head(q)} \union Range(Tail(q))
           /\ Range(q) \subseteq S
<1>1. Len(q) \in Nat /\ DOMAIN q = 1..Len(q)
  OBVIOUS
<1>2. ASSUME NEW e \in S PROVE Append(q, e) \in Seq(S) /\ Range(Append(q, e)) = Range(q) \union {e}
  <2>1. /\ Append(q, e) \in Seq(S) /\ DOMAIN Append(q, e) = 1..(Len(q) + 1)
        /\ \A i \in 1..(Len(q) + 1) : Append(q, e)[i] = IF i <= Len(q) THEN q[i] ELSE e
    BY <1>1
  <2>2. ASSUME NEW x PROVE x \in Range(Append(q, e)) <=> x \in Range(q) \union {e}
    <3>1. x \in Range(Append(q, e)) => x \in Range(q) \union {e}
      BY <1>1, <2>1 DEF Range
    <3>2. x \in Range(q) => x \in Range(Append(q, e))
      BY <1>1, <2>1 DEF Range
    <3>3. e \in Range(Append(q, e))
      <4>1. Len(q) + 1 \in 1..(Len(q) + 1) /\ ~(Len(q) + 1 <= Len(q))
        BY <1>1
      <4>2. Append(q, e)[Len(q) + 1] = e
        BY <2>1, <4>1
      <4> QED
        BY <2>1, <4>1, <4>2 DEF Range
    <3> QED
      BY <3>1, <3>2, <3>3
  <2> QED
    BY <2>1, <2>2
<1>3. ASSUME NEW r \in Seq(S) PROVE q \o r \in Seq(S) /\ Range(q \o r) = Range(q) \union Range(r)
  <2>1. /\ q \o r \in Seq(S) /\ DOMAIN (q \o r) = 1..(Len(q) + Len(r)) /\ Len(r) \in Nat /\ DOMAIN r = 1..Len(r)
        /\ \A i \in 1..(Len(q) + Len(r)) : (q \o r)[i] = IF i <= Len(q) THEN q[i] ELSE r[i - Len(q)]
    BY <1>1
  <2>2. ASSUME NEW x PROVE x \in Range(q \o r) <=> x \in Range(q) \union Range(r)
    <3>1. x \in Range(q \o r) => x \in Range(q) \union Range(r)
      <4>1. SUFFICES ASSUME NEW i \in 1..(Len(q) + Len(r)), x = (q \o r)[i] PROVE x \in Range(q) \union Range(r)
        BY <2>1 DEF Range
      <4>2. CASE i <= Len(q)
        BY <1>1, <2>1, <4>1, <4>2 DEF Range
      <4>3. CASE ~(i <= Len(q))
        <5>1. i - Len(q) \in 1..Len(r) /\ x = r[i - Len(q)]
          BY <1>1, <2>1, <4>1, <4>3
        <5> QED
          BY <2>1, <5>1 DEF Range
      <4> QED
        BY <4>2, <4>3
    <3>2. x \in Range(q) => x \in Range(q \o r)
      BY <1>1, <2>1 DEF Range
    <3>3. x \in Range(r) => x \in Range(q \o r)
      <4>1. SUFFICES ASSUME NEW i \in 1..Len(r), x = r[i] PROVE x \in Range(q \o r)
        BY <2>1 DEF Range
      <4>2. i + Len(q) \in 1..(Len(q) + Len(r)) /\ ~(i + Len(q) <= Len(q)) /\ i + Len(q) - Len(q) = i
        BY <1>1, <2>1
      <4>3. (q \o r)[i + Len(q)] = x
        BY <2>1, <4>1, <4>2
      <4> QED
        BY <2>1, <4>2, <4>3 DEF Range
    <3> QED
      BY <3>1, <3>2, <3>3
  <2> QED
    BY <2>1, <2>2
<1>4. ASSUME q # <<>>
      PROVE  /\ Tail(q) \in Seq(S) /\ Head(q) \in S
             /\ Range(q) = {Head(q)} \union Range(Tail(q))
  <2>1. /\ Len(q) >= 1 /\ Tail(q) \in Seq(S) /\ DOMAIN Tail(q) = 1..(Len(q) - 1) /\ Head(q) = q[1] /\ Head(q) \in S
        /\ \A i \in 1..(Len(q) - 1) : Tail(q)[i] = q[i + 1]
    BY <1>1, <1>4
  <2>2. ASSUME NEW x PROVE x \in Range(q) <=> x = Head(q) \/ x \in Range(Tail(q))
    <3>1. x \in Range(q) => x = Head(q) \/ x \in Range(Tail(q))
      <4>1. SUFFICES ASSUME NEW i \in 1..Len(q), x = q[i], i # 1 PROVE x \in Range(Tail(q))
        BY <1>1, <2>1 DEF Range
      <4>2. i - 1 \in 1..(Len(q) - 1) /\ (i - 1) + 1 = i
        BY <1>1, <4>1
      <4>3. Tail(q)[i - 1] = x
        BY <2>1, <4>1, <4>2
      <4> QED
        BY <2>1, <4>2, <4>3 DEF Range
    <3>2. x = Head(q) => x \in Range(q)
      BY <1>1, <2>1 DEF Range
    <3>3. x \in Range(Tail(q)) => x \in Range(q)
      BY <1>1, <2>1 DEF Range
    <3> QED
      BY <3>1, <3>2, <3>3
  <2> QED
    BY <2>1, <2>2
<1>5. Range(q) \subseteq S
  BY <1>1 DEF Range
<1> QED
  BY <1>2, <1>3, <1>4, <1>5

\* Nth numbers the members of a finite set of positions.
LEMMA NthIsMember ==
    ASSUME NEW n \in Nat, NEW S \in SUBSET (1..n)
    PROVE  /\ IsFiniteSet(S) /\ Cardinality(S) \in Nat
           /\ \A k \in 1..Cardinality(S) : Nth(S, k) \in S
           /\ \A k, l \in 1..Cardinality(S) : Nth(S, k) = Nth(S, l) => k = l
           /\ \A i \in S : \E k \in 1..Cardinality(S) : Nth(S, k) = i
<1> DEFINE rank == [i \in S |-> Cardinality({j \in S : j <= i})]
<1>1. IsFiniteSet(S) /\ Cardinality(S) \in Nat /\ rank \in Bijection(S, 1..Cardinality(S))
  BY RankIsBijection
<1>2. \A i, k \in S : rank[i] = rank[k] => i = k
  BY <1>1 DEF Bijection, Injection, IsInjective
<1>3. \A k \in 1..Cardinality(S) : \E i \in S : rank[i] = k
  BY <1>1 DEF Bijection, Surjection
<1>4. \A k \in 1..Cardinality(S) : Nth(S, k) \in S /\ rank[Nth(S, k)] = k
  <2> SUFFICES ASSUME NEW k \in 1..Cardinality(S) PROVE Nth(S, k) \in S /\ rank[Nth(S, k)] = k
    OBVIOUS
  <2>1. \E i \in S : Cardinality({j \in S : j <= i}) = k
    BY <1>3
  <2>2. Nth(S, k) \in S /\ Cardinality({j \in S : j <= Nth(S, k)}) = k
    BY <2>1 DEF Nth
  <2> QED
    BY <2>2
<1>5. \A i \in S : rank[i] \in 1..Cardinality(S)
  BY <1>1 DEF Bijection, Injection
<1> HIDE DEF rank
<1>6. \A i \in S : Nth(S, rank[i]) = i
  BY <1>2, <1>4, <1>5
<1> QED
  BY <1>1, <1>4, <1>5, <1>6

\* There is a free id for every slot, and none of them is in use.
LEMMA FreeIdsSuffice ==
    ASSUME Types
    PROVE  /\ \A k \in 1..Count : Nth(FreeIds, k) \in Nat \ {0} /\ Nth(FreeIds, k) \notin DOMAIN actors
           /\ \A k, l \in 1..Count : Nth(FreeIds, k) = Nth(FreeIds, l) => k = l
           /\ IsFiniteSet(FreeIds) /\ \A k \in 1..Count : Nth(FreeIds, k) \in FreeIds
<1> DEFINE D == DOMAIN actors
           m == Cardinality(D)
           F == 1..(m + Count)
<1>1. IsFiniteSet(D) /\ m \in Nat /\ Count \in Nat \ {0}
  BY SupervisionAssumption, FS_CardinalityType DEF Types
<1> HIDE DEF m
<1>2. IsFiniteSet(F) /\ Cardinality(F) = m + Count
  <2>1. 1 \in Int /\ m + Count \in Int /\ 1 <= m + Count
    BY <1>1
  <2> DEFINE b == m + Count
  <2>2. b \in Int /\ 1 <= b
    BY <2>1
  <2> HIDE DEF b
  <2>3. IsFiniteSet(1..b) /\ Cardinality(1..b) = IF 1 > b THEN 0 ELSE b - 1 + 1
    BY <2>1, <2>2, FS_Interval
  <2>4. Cardinality(1..b) = b
    BY <2>2, <2>3
  <2>5. F = 1..b
    BY DEF b
  <2> HIDE DEF F
  <2> QED
    BY <2>3, <2>4, <2>5 DEF b
<1>3. Cardinality(F \ D) = m + Count - Cardinality(F \cap D) /\ IsFiniteSet(F \cap D)
  <2> HIDE DEF F, D
  <2>1. Cardinality(F \ D) = Cardinality(F) - Cardinality(F \cap D)
    BY <1>2, FS_Difference
  <2>2. IsFiniteSet(F \cap D)
    BY <1>2, FS_Intersection
  <2>3. Cardinality(F \cap D) \in Nat
    BY <2>2, FS_CardinalityType
  <2> QED
    BY <1>1, <1>2, <2>1, <2>2, <2>3
<1>4. Cardinality(F \cap D) <= m /\ Cardinality(F \cap D) \in Nat
  <2>1. F \cap D \in SUBSET D
    OBVIOUS
  <2> QED
    BY <1>1, <1>3, <2>1, FS_Subset, FS_CardinalityType DEF m
<1>5. FreeIds = F \ D /\ FreeIds \in SUBSET (1..(m + Count)) /\ m + Count \in Nat
  BY <1>1 DEF FreeIds, m
<1>6. Cardinality(FreeIds) >= Count
  BY <1>1, <1>3, <1>4, <1>5
<1>7. \A k \in 1..Count : k \in 1..Cardinality(FreeIds)
  <2>1. Cardinality(FreeIds) \in Nat
    BY <1>5, NthIsMember
  <2> QED
    BY <1>1, <1>6, <2>1
<1>8. \A k \in 1..Count : Nth(FreeIds, k) \in FreeIds
  BY <1>5, <1>7, NthIsMember
<1>9. \A k, l \in 1..Count : Nth(FreeIds, k) = Nth(FreeIds, l) => k = l
  BY <1>5, <1>7, NthIsMember
<1>10. IsFiniteSet(FreeIds)
  BY <1>5, NthIsMember
<1> QED
  BY <1>1, <1>5, <1>8, <1>9, <1>10

\* Every sibling is sent its KillEvent, by the id its slot has now.
LEMMA KillsAreSent ==
    ASSUME Types, NEW js \in SUBSET Slot
    PROVE  /\ Kills(js) \in Seq(Message)
           /\ \A e : e \in Range(Kills(js)) <=> \E j \in js : e = KillEvent(children[j])
<1>1. Count \in Nat /\ children \in [Slot -> Nat \ {0}] /\ js \in SUBSET (1..Count)
  BY SupervisionAssumption DEF Types, TypeOK, Slot
<1>2. /\ Cardinality(js) \in Nat /\ \A n \in 1..Cardinality(js) : Nth(js, n) \in js
      /\ \A j \in js : \E n \in 1..Cardinality(js) : Nth(js, n) = j
  BY <1>1, NthIsMember
<1>3. \A n \in 1..Cardinality(js) : KillEvent(children[Nth(js, n)]) \in Message
  BY <1>1, <1>2 DEF KillEvent, Message
<1>4. Kills(js) \in Seq(Message)
  BY <1>2, <1>3 DEF Kills
<1>5. ASSUME NEW e PROVE e \in Range(Kills(js)) <=> \E j \in js : e = KillEvent(children[j])
  <2>1. e \in Range(Kills(js)) <=> \E n \in 1..Cardinality(js) : e = KillEvent(children[Nth(js, n)])
    BY DEF Range, Kills
  <2> QED
    BY <1>2, <2>1
<1> QED
  BY <1>4, <1>5

-----------------------------------------------------------------------------
(* Steps that change no slot *)

\* Actors are destroyed at most, and an event goes at most when it has no effect
\* left: a report of a replaced child or to a dead supervisor, a KillEvent for
\* nobody who lives.
Quiet ==
    /\ UNCHANGED <<strategy, super, stops, stray>>
    /\ \A i \in DOMAIN actors' : i \in DOMAIN actors /\ actors'[i] = actors[i]
    /\ \A i \in DOMAIN actors : actors[i].alive => i \in DOMAIN actors'
    /\ \A m \in Queued' : m \in Queued \/ m = KillEvent(0)
    /\ \A i \in DOMAIN actors : actors[i].alive /\ KillEvent(i) \in Queued => KillEvent(i) \in Queued'
    /\ supervisor = "alive" => \A j \in Slot : ChildDown(j, gen[j]) \in Queued => ChildDown(j, gen[j]) \in Queued'

\* A step that only moves events or reaps the dead (Receive, DispatchEnds, Reap, a
\* KillEvent to nobody) keeps the invariant.
LEMMA QuietStep ==
    ASSUME IInv, Types', Quiet
    PROVE  IInv'
<1>1. strategy' = strategy /\ supervisor' = supervisor /\ children' = children /\ gen' = gen
      /\ escalated' = escalated /\ stray' = stray
  BY DEF Quiet, super
<1>2. \A j : OnDuty(j)' = OnDuty(j)
  BY <1>1 DEF OnDuty, Quiet
<1>3. ASSUME NEW i \in DOMAIN actors' PROVE Latest(i)' /\ Doomed(i)'
  <2>1. i \in DOMAIN actors /\ actors'[i] = actors[i] /\ Latest(i) /\ Doomed(i)
    BY <1>3 DEF Quiet, IInv
  <2>2. actors[i].alive /\ KillEvent(i) \in Queued => KillEvent(i) \in Queued'
    BY <2>1 DEF Quiet
  <2>3. KillEvent(i)' = KillEvent(i)
    BY DEF KillEvent
  <2> QED
    BY <1>1, <2>1, <2>2, <2>3 DEF Latest, Doomed
<1>4. ASSUME NEW m \in Queued' PROVE Report(m)' /\ Spared(m)'
  <2>1. CASE m \in Queued
    BY <1>1, <1>2, <2>1 DEF IInv, Report, Spared
  <2>2. CASE m = KillEvent(0)
    BY <2>2 DEF Report, Spared, KillEvent
  <2> QED
    BY <1>4, <2>1, <2>2 DEF Quiet
<1>5. ASSUME supervisor' = "alive", NEW j \in Slot PROVE Watched(j)'
  <2>1. Watched(j) /\ (ChildDown(j, gen[j]) \in Queued => ChildDown(j, gen[j]) \in Queued')
    BY <1>1, <1>5 DEF IInv, Quiet
  <2>2. ChildDown(j, gen[j])' = ChildDown(j, gen[j]) /\ Child(j, gen[j])' = Child(j, gen[j])
    BY <1>1 DEF ChildDown, Child
  <2> QED
    BY <1>1, <1>2, <2>1, <2>2 DEF Watched
<1> QED
  BY <1>3, <1>4, <1>5 DEF IInv, Slot

\* The types survive when the supervisor's state and the actors' do.
LEMMA QuietTypes ==
    ASSUME Types, UNCHANGED <<strategy, super, stops, actors>>, phase' \in {"coroutines", "dispatch", "reap"},
           pipe' \in Seq(Message), batch' \in Seq(Message), phase' # "dispatch" => batch' = <<>>
    PROVE  Types'
BY DEF Types, TypeOK, super, Slot, Actor, Message

\* The loop takes the events that were pushed.
LEMMA ReceiveStep == ASSUME IInv, Receive PROVE IInv'
<1>0. Types /\ batch = <<>>
  BY DEF IInv, Types, Receive
<1>1. /\ batch' = pipe /\ pipe' = <<>> /\ UNCHANGED <<strategy, super, actors, stops, stray>> /\ phase' = "dispatch"
  BY DEF Receive
<1>2. Range(<<>>) = {} /\ <<>> \in Seq(Message)
  BY EmptyQueue
<1>3. Types'
  BY <1>0, <1>1, <1>2, QuietTypes DEF Types
<1>4. Queued' = Queued
  BY <1>0, <1>1, <1>2 DEF Queued
<1>5. Quiet
  BY <1>1, <1>4 DEF Quiet
<1> QED
  BY <1>3, <1>5, QuietStep

\* The batch has been dispatched.
LEMMA DispatchEndsStep == ASSUME IInv, DispatchEnds PROVE IInv'
<1>1. /\ UNCHANGED <<strategy, super, actors, stops, stray, pipe, batch>> /\ phase' = "reap" /\ batch = <<>> /\ Types
  BY DEF DispatchEnds, IInv
<1>2. Types'
  BY <1>1, QuietTypes DEF Types
<1>3. Quiet
  BY <1>1 DEF Quiet, Queued
<1> QED
  BY <1>2, <1>3, QuietStep

\* Somebody kills the supervisor.
LEMMA KillSupervisorStep == ASSUME IInv, KillSupervisor PROVE IInv'
<1>1. /\ UNCHANGED <<strategy, super, actors, stops, stray, phase, batch>> /\ pipe' = Append(pipe, KillEvent(0)) /\ Types
  BY DEF KillSupervisor, IInv
<1>2. KillEvent(0) \in Message
  BY DEF KillEvent, Message
<1>3. Append(pipe, KillEvent(0)) \in Seq(Message) /\ Range(Append(pipe, KillEvent(0))) = Range(pipe) \union {KillEvent(0)}
  BY <1>1, <1>2, QueueRanges DEF Types
<1>4. Types'
  BY <1>1, <1>3, QuietTypes DEF Types, TypeOK
<1>5. Queued' = Queued \union {KillEvent(0)}
  BY <1>1, <1>3 DEF Queued
<1>6. Quiet
  BY <1>1, <1>5 DEF Quiet
<1> QED
  BY <1>4, <1>6, QuietStep

\* The killed are destroyed.
LEMMA ReapStep == ASSUME IInv, Reap PROVE IInv'
<1> DEFINE L == {n \in DOMAIN actors : actors[n].alive}
<1>1. /\ actors' = [i \in L |-> actors[i]] /\ UNCHANGED <<strategy, super, pipe, batch, stops, stray>>
      /\ phase' = "coroutines" /\ phase = "reap" /\ Types
  BY DEF Reap, IInv
<1>2. DOMAIN actors' = L /\ (\A i \in L : actors'[i] = actors[i]) /\ L \in SUBSET (DOMAIN actors)
  BY <1>1
<1>3. IsFiniteSet(L)
  BY <1>1, <1>2, FS_Subset DEF Types
<1>4. actors' \in [DOMAIN actors' -> Actor]
  BY <1>1, <1>2 DEF Types
<1>5. TypeOK'
  <2>1. \A i \in DOMAIN actors' : actors'[i] \in [slot : Slot, gen : Nat, alive : BOOLEAN]
    BY <1>4 DEF Actor
  <2> QED
    BY <1>1, <2>1 DEF Types, TypeOK, super, Slot
<1>6. Types'
  BY <1>1, <1>2, <1>3, <1>4, <1>5 DEF Types, Actor, Message, Slot
<1>7. Quiet
  BY <1>1, <1>2 DEF Quiet, Queued
<1> QED
  BY <1>6, <1>7, QuietStep

-----------------------------------------------------------------------------
(* A child ends *)

\* Child i, which lived, is dead, by its own stop() or by a KillEvent; if it was
\* on duty its end is reported, or the KillEvent was for an older child.
Falls(i) ==
    /\ i \in DOMAIN actors /\ actors[i].alive
    /\ actors' = [actors EXCEPT ![i].alive = FALSE]
    /\ UNCHANGED <<strategy, super>> /\ stray \subseteq stray'
    /\ \A m \in Queued' : m \in Queued \/ m = ChildDown(actors[i].slot, actors[i].gen)
    /\ \A m \in Queued : m \in Queued' \/ m = KillEvent(i)
    /\ supervisor = "alive" /\ actors[i].gen = gen[actors[i].slot] =>
          \/ ChildDown(actors[i].slot, actors[i].gen) \in Queued'
          \/ strategy # "one_for_one" /\ Child(actors[i].slot, actors[i].gen) \in stray'

\* The end of a child keeps the invariant: it reports itself, or it is killed on
\* behalf of a restart that has already replaced it.
LEMMA FallStep ==
    ASSUME IInv, Types', NEW i, Falls(i)
    PROVE  IInv'
<1>1. /\ strategy' = strategy /\ supervisor' = supervisor /\ children' = children /\ gen' = gen
      /\ escalated' = escalated /\ i \in DOMAIN actors
  BY DEF Falls, super
<1>k. PICK k \in Slot, g \in Nat : k = actors[i].slot /\ g = actors[i].gen
  BY <1>1 DEF IInv, Types, TypeOK
<1>2. /\ DOMAIN actors' = DOMAIN actors
      /\ \A n \in DOMAIN actors : /\ n # i => actors'[n] = actors[n]
                                  /\ actors'[n].slot = actors[n].slot /\ actors'[n].gen = actors[n].gen
                                  /\ actors'[n].alive => actors[n].alive /\ n # i
  BY DEF Falls, IInv, Types, Actor
<1>3. Latest(i) /\ k \in Slot /\ g \in Nat /\ gen \in [Slot -> Nat] /\ children \in [Slot -> Nat \ {0}]
  BY <1>1 DEF IInv, Types, TypeOK
<1>4. \A j : OnDuty(j)' = OnDuty(j) \ {i}
  BY <1>1, <1>2 DEF OnDuty
<1>5. \A j \in Slot : OnDuty(j) \subseteq {children[j]}
  BY DEF OnDuty, IInv, Latest
<1>6. g = gen[k] => OnDuty(k)' = {}
  BY <1>k, <1>3, <1>4, <1>5 DEF Latest
<1>7. \A j \in Slot : (j # k \/ g # gen[k]) => OnDuty(j)' = OnDuty(j)
  BY <1>k, <1>4 DEF OnDuty
<1>8. ASSUME NEW n \in DOMAIN actors' PROVE Latest(n)' /\ Doomed(n)'
  <2>1. Latest(n) /\ Doomed(n) /\ n \in DOMAIN actors
    BY <1>2, <1>8 DEF IInv
  <2>2. Latest(n)'
    BY <1>1, <1>2, <2>1 DEF Latest
  <2>3. ASSUME actors'[n].alive, actors'[n].gen # gen'[actors'[n].slot] PROVE KillEvent(n) \in Queued'
    <3>1. KillEvent(n) \in Queued /\ n # i
      BY <1>1, <1>2, <2>1, <2>3 DEF Doomed
    <3>2. KillEvent(n) # KillEvent(i)
      BY <3>1 DEF KillEvent
    <3> QED
      BY <3>1, <3>2 DEF Falls
  <2>4. KillEvent(n)' = KillEvent(n)
    BY DEF KillEvent
  <2> QED
    BY <2>2, <2>3, <2>4 DEF Doomed
<1>9. ASSUME NEW m \in Queued' PROVE Report(m)' /\ Spared(m)'
  <2>1. CASE m \in Queued
    <3>1. Report(m) /\ Spared(m)
      BY <2>1 DEF IInv
    <3>2. \A j : OnDuty(j) = {} => OnDuty(j)' = {}
      BY <1>4
    <3> QED
      BY <1>1, <3>1, <3>2 DEF Report, Spared
  <2>2. CASE m = ChildDown(k, g)
    <3>1. m.type = "ChildDown" /\ m.slot = k /\ m.gen = g
      BY <2>2 DEF ChildDown
    <3>2. g <= gen[k]
      BY <1>k, <1>3 DEF Latest
    <3> QED
      BY <1>1, <1>6, <3>1, <3>2 DEF Report, Spared
  <2> QED
    BY <1>k, <1>9, <2>1, <2>2 DEF Falls
<1>10. ASSUME supervisor' = "alive", NEW j \in Slot PROVE Watched(j)'
  <2>1. Watched(j)
    BY <1>1, <1>10 DEF IInv
  <2>2. ChildDown(j, gen[j])' = ChildDown(j, gen[j]) /\ Child(j, gen[j])' = Child(j, gen[j])
    BY <1>1 DEF ChildDown, Child
  <2>3. ChildDown(j, gen[j]) \in Queued => ChildDown(j, gen[j]) \in Queued'
    BY DEF Falls, ChildDown, KillEvent
  <2>4. stray \subseteq stray'
    BY DEF Falls
  <2>5. CASE j # k \/ g # gen[k]
    BY <1>1, <1>7, <2>1, <2>2, <2>3, <2>4, <2>5 DEF Watched
  <2>6. CASE j = k /\ g = gen[k]
    <3>1. \/ ChildDown(j, gen[j]) \in Queued'
          \/ strategy # "one_for_one" /\ Child(j, gen[j]) \in stray'
      BY <1>k, <1>1, <1>10, <2>6 DEF Falls
    <3> QED
      BY <1>1, <2>2, <3>1 DEF Watched
  <2> QED
    BY <2>5, <2>6
<1> QED
  BY <1>8, <1>9, <1>10 DEF IInv, Slot

\* A child that ends leaves the tables well formed.
LEMMA FallTypes ==
    ASSUME Types, NEW i \in DOMAIN actors, actors' = [actors EXCEPT ![i].alive = FALSE], UNCHANGED <<strategy, super>>,
           stops' \in 0..MaxStops, phase' = phase,
           pipe' \in Seq(Message), batch' \in Seq(Message), phase # "dispatch" => batch' = <<>>
    PROVE  Types'
<1>1. actors' \in [DOMAIN actors -> Actor] /\ DOMAIN actors' = DOMAIN actors
  BY DEF Types, Actor
<1>2. TypeOK'
  BY <1>1 DEF Types, TypeOK, super, Slot, Actor
<1> QED
  BY <1>1, <1>2 DEF Types, Actor, Message, Slot

\* A child stops: its supervisor will be told.
LEMMA StopStep == ASSUME IInv, NEW i \in DOMAIN actors, stop(i) PROVE IInv'
<1>1. PICK k \in Slot, g \in Nat : k = actors[i].slot /\ g = actors[i].gen
  BY DEF IInv, Types, TypeOK
<1>2. /\ actors[i].alive /\ actors' = [actors EXCEPT ![i].alive = FALSE] /\ pipe' = Append(pipe, ChildDown(k, g))
      /\ UNCHANGED <<strategy, super, batch, phase, stray>> /\ stops' = stops + 1 /\ stops < MaxStops
      /\ Types
  BY <1>1 DEF stop, IInv
<1>3. stops' \in 0..MaxStops
  BY <1>2, SupervisionAssumption DEF Types, TypeOK
<1>4. ChildDown(k, g) \in Message
  BY DEF ChildDown, Message
<1>5. pipe' \in Seq(Message) /\ Range(pipe') = Range(pipe) \union {ChildDown(k, g)}
  BY <1>2, <1>4, QueueRanges DEF Types
<1>6. Types'
  BY <1>2, <1>3, <1>5, FallTypes DEF Types
<1>7. Queued' = Queued \union {ChildDown(k, g)}
  BY <1>2, <1>5 DEF Queued
<1>8. Falls(i)
  BY <1>1, <1>2, <1>7 DEF Falls
<1> QED
  BY <1>6, <1>8, FallStep

-----------------------------------------------------------------------------
(* Dispatched events *)

\* Event e is taken from the batch, and the events R are pushed.
Taken(e, R) ==
    /\ e \in Message /\ e \in Queued
    /\ batch' = Tail(batch) /\ batch' \in Seq(Message) /\ pipe' \in Seq(Message)
    /\ \A m \in Queued : m \in Queued' \/ m = e
    /\ \A m : m \in Queued' => m \in Queued \/ m \in R
    /\ \A m \in R : m \in Queued'

\* The dispatch of an event takes it from the batch and adds what its handler pushes.
LEMMA TakenEvent ==
    ASSUME Types, batch # <<>>, batch' = Tail(batch), NEW q \in Seq(Message), pipe' = pipe \o q
    PROVE  Taken(Head(batch), Range(q))
<1>1. pipe \in Seq(Message) /\ batch \in Seq(Message)
  BY DEF Types
<1>2. /\ Tail(batch) \in Seq(Message) /\ Head(batch) \in Message
      /\ Range(batch) = {Head(batch)} \union Range(Tail(batch))
  BY <1>1, QueueRanges
<1>3. pipe \o q \in Seq(Message) /\ Range(pipe \o q) = Range(pipe) \union Range(q)
  BY <1>1, QueueRanges
<1>4. Queued = Range(pipe) \union {Head(batch)} \union Range(Tail(batch))
  BY <1>2 DEF Queued
<1>5. Queued' = Range(pipe) \union Range(q) \union Range(Tail(batch))
  BY <1>3 DEF Queued
<1> QED
  BY <1>2, <1>3, <1>4, <1>5 DEF Taken

\* The dispatch of an event whose handler pushes nothing.
LEMMA TakenQuietly ==
    ASSUME Types, batch # <<>>, batch' = Tail(batch), pipe' = pipe
    PROVE  Taken(Head(batch), {})
<1>1. pipe \in Seq(Message)
  BY DEF Types
<1>2. pipe' = pipe \o <<>> /\ <<>> \in Seq(Message) /\ Range(<<>>) = {}
  BY <1>1, EmptyQueue
<1> QED
  BY <1>2, TakenEvent

\* A KillEvent reaches the child that has the id, if there is one.
LEMMA KillChildStep ==
    ASSUME IInv, NEW e, Taken(e, {}), OnKillChild(e), phase = "dispatch", UNCHANGED <<strategy, phase, stops>>
    PROVE  IInv'
<1>1. Types /\ e.type = "KillEvent" /\ e.to # 0 /\ e.to \in Nat /\ e = KillEvent(e.to) /\ UNCHANGED super
  BY DEF OnKillChild, IInv, Taken, Message, KillEvent
<1>2. CASE e.to \in DOMAIN actors /\ actors[e.to].alive
  <2>1. PICK i \in DOMAIN actors : i = e.to
    BY <1>2
  <2>2. PICK k \in Slot, g \in Nat : k = actors[i].slot /\ g = actors[i].gen
    BY <1>1 DEF Types, TypeOK
  <2>3. actors' = [actors EXCEPT ![i].alive = FALSE] /\ actors[i].alive
    BY <1>2, <2>1 DEF OnKillChild
  <2>4. stray' = IF g = gen[k] THEN stray \union {actors[i]} ELSE stray
    BY <1>2, <2>1, <2>2 DEF OnKillChild
  <2>5. actors[i] = Child(k, g)
    BY <1>1, <2>2, <2>3 DEF Types, Actor, Child
  <2>6. Types'
    BY <1>1, <2>3, FallTypes DEF Types, TypeOK, Taken
  <2>7. supervisor = "alive" => strategy # "one_for_one"
    BY <1>1 DEF IInv, Spared, Taken
  <2>8. Falls(i)
    BY <1>1, <2>1, <2>2, <2>3, <2>4, <2>5, <2>7 DEF Falls, Taken
  <2> QED
    BY <2>6, <2>8, FallStep
<1>3. CASE ~(e.to \in DOMAIN actors /\ actors[e.to].alive)
  <2>1. actors' = actors /\ stray' = stray
    BY <1>3 DEF OnKillChild
  <2>2. Types'
    BY <1>1, <2>1, QuietTypes DEF Taken, Types, TypeOK
  <2>3. \A i \in DOMAIN actors : actors[i].alive => KillEvent(i) # e
    BY <1>1, <1>3 DEF KillEvent
  <2>4. \A j \in Slot : ChildDown(j, gen[j]) # e
    BY <1>1 DEF ChildDown
  <2>5. Quiet
    BY <1>1, <2>1, <2>3, <2>4 DEF Quiet, Taken
  <2> QED
    BY <2>2, <2>5, QuietStep
<1> QED
  BY <1>2, <1>3

\* A report that nobody waits for any more.
LEMMA StaleReportStep ==
    ASSUME IInv, NEW e, Taken(e, {}), e.type = "ChildDown", supervisor = "killed" \/ e.gen # gen[e.slot],
           phase = "dispatch", UNCHANGED <<strategy, phase, stops, super, actors, stray>>
    PROVE  IInv'
<1>1. Types'
  BY QuietTypes DEF IInv, Types, TypeOK, Taken
<1>2. \A i \in DOMAIN actors : KillEvent(i) # e
  BY DEF KillEvent
<1>3. supervisor = "alive" => \A j \in Slot : ChildDown(j, gen[j]) # e
  BY DEF ChildDown
<1>4. Quiet
  BY <1>2, <1>3 DEF Quiet, Taken
<1> QED
  BY <1>1, <1>4, QuietStep

\* The cap is reached: the slot stays down, and the supervisor says so.
LEMMA EscalateStep ==
    ASSUME IInv, NEW e, Taken(e, {}), e.type = "ChildDown", recent' \in Nat, escalated' = escalated \union {e.slot},
           phase = "dispatch", UNCHANGED <<strategy, phase, stops, supervisor, children, gen, actors, stray>>
    PROVE  IInv'
<1>1. e.slot \in Slot /\ e.gen \in Nat /\ e = ChildDown(e.slot, e.gen)
  BY DEF Taken, Message, ChildDown
<1>2. Types'
  BY <1>1 DEF IInv, Types, TypeOK, Taken, Slot, Actor, Message
<1>3. \A j : OnDuty(j)' = OnDuty(j)
  BY DEF OnDuty
<1>4. ASSUME NEW i \in DOMAIN actors' PROVE Latest(i)' /\ Doomed(i)'
  <2>1. Latest(i) /\ Doomed(i) /\ KillEvent(i)' = KillEvent(i) /\ KillEvent(i) # e
    BY <1>4 DEF IInv, KillEvent
  <2> QED
    BY <2>1 DEF Latest, Doomed, Taken
<1>5. ASSUME NEW m \in Queued' PROVE Report(m)' /\ Spared(m)'
  <2>1. Report(m) /\ Spared(m)
    BY <1>5 DEF IInv, Taken
  <2> QED
    BY <1>3, <2>1 DEF Report, Spared
<1>6. ASSUME supervisor' = "alive", NEW j \in Slot PROVE Watched(j)'
  <2>1. Watched(j)
    BY <1>6 DEF IInv
  <2>2. ChildDown(j, gen[j])' = ChildDown(j, gen[j]) /\ Child(j, gen[j])' = Child(j, gen[j])
    BY DEF ChildDown, Child
  <2>3. j # e.slot => ChildDown(j, gen[j]) # e
    BY DEF ChildDown
  <2> QED
    BY <1>3, <2>1, <2>2, <2>3 DEF Watched, Taken
<1> QED
  BY <1>2, <1>4, <1>5, <1>6 DEF IInv, Slot

-----------------------------------------------------------------------------
(* Restarts *)

\* What start_slots() does: a new child of generation g in every slot of js, under
\* an id nobody has; everything else stays.
Started(js, g) ==
    /\ children' \in [Slot -> Nat \ {0}]
    /\ DOMAIN actors' = DOMAIN actors \union {children'[j] : j \in js}
    /\ actors' \in [DOMAIN actors' -> Actor]
    /\ \A i \in DOMAIN actors : actors'[i] = actors[i]
    /\ \A j \in js : children'[j] \notin DOMAIN actors /\ actors'[children'[j]] = Child(j, g[j])
    /\ \A j \in Slot \ js : children'[j] = children[j]
    /\ IsFiniteSet(DOMAIN actors') /\ DOMAIN actors' \subseteq Nat \ {0}
    /\ escalated' = escalated \ js

\* spawn_child() for a range of slots: each slot gets an id of its own that nobody
\* has, and the actors that exist are left alone.
LEMMA StartSlots ==
    ASSUME Types, NEW lo \in Slot, NEW hi \in Slot, lo <= hi, NEW g \in [Slot -> Nat], start_slots(lo, hi, g)
    PROVE  Started(lo..hi, g)
<1> DEFINE id(j) == Nth(FreeIds, j - lo + 1)
           js == lo..hi
           new == {id(j) : j \in js}
           owner(i) == CHOOSE k \in js : id(k) = i
<1>1. /\ children' = [j \in Slot |-> IF j \in js THEN id(j) ELSE children[j]]
      /\ actors' = [i \in DOMAIN actors \union new |-> IF i \in new THEN Child(owner(i), g[owner(i)]) ELSE actors[i]]
      /\ escalated' = escalated \ js
  BY DEF start_slots
<1>2. Count \in Nat /\ js \subseteq Slot /\ \A j \in js : j - lo + 1 \in 1..Count
  BY SupervisionAssumption DEF Slot
<1>3. \A j \in js : id(j) \in Nat \ {0} /\ id(j) \notin DOMAIN actors
  BY <1>2, FreeIdsSuffice
<1>4. \A j, k \in js : id(j) = id(k) => j = k
  <2> SUFFICES ASSUME NEW j \in js, NEW k \in js, id(j) = id(k) PROVE j = k
    OBVIOUS
  <2>1. j - lo + 1 \in 1..Count /\ k - lo + 1 \in 1..Count
    BY <1>2
  <2>2. j - lo + 1 = k - lo + 1
    BY <2>1, FreeIdsSuffice
  <2>3. j \in Int /\ k \in Int /\ lo \in Int
    BY DEF Slot
  <2> QED
    BY <2>2, <2>3
<1> HIDE DEF id
<1>5. \A j \in js : owner(id(j)) = j
  BY <1>4
<1> HIDE DEF owner
<1>6. children' \in [Slot -> Nat \ {0}] /\ (\A j \in js : children'[j] = id(j)) /\ \A j \in Slot \ js : children'[j] = children[j]
  BY <1>1, <1>2, <1>3 DEF Types, TypeOK
<1>7. new = {children'[j] : j \in js}
  BY <1>6
<1>8. DOMAIN actors' = DOMAIN actors \union new /\ \A i \in DOMAIN actors : i \notin new /\ actors'[i] = actors[i]
  BY <1>1, <1>3
<1>9. \A j \in js : actors'[id(j)] = Child(j, g[j])
  BY <1>1, <1>5
<1>10. actors' \in [DOMAIN actors' -> Actor]
  <2>1. \A j \in js : Child(j, g[j]) \in Actor
    BY <1>2 DEF Child, Actor
  <2>2. \A i \in DOMAIN actors : actors[i] \in Actor
    BY DEF Types
  <2>3. \A i \in DOMAIN actors' : actors'[i] \in Actor
    BY <1>8, <1>9, <2>1, <2>2
  <2>4. actors' = [i \in DOMAIN actors' |-> actors'[i]]
    BY <1>1
  <2> QED
    BY <2>3, <2>4
<1>11. IsFiniteSet(DOMAIN actors') /\ DOMAIN actors' \subseteq Nat \ {0}
  <2>1. IsFiniteSet(FreeIds) /\ new \in SUBSET FreeIds
    BY <1>2, FreeIdsSuffice DEF id
  <2>2. IsFiniteSet(new)
    BY <2>1, FS_Subset
  <2>3. IsFiniteSet(DOMAIN actors \union new)
    BY <2>2, FS_Union DEF Types
  <2> QED
    BY <1>3, <1>8, <2>3 DEF Types
<1> QED
  BY <1>1, <1>3, <1>6, <1>7, <1>8, <1>9, <1>10, <1>11 DEF Started

\* The slots js are restarted on the report e of a child that is down: reports of
\* the children they had are stale now, and the siblings that were on duty are
\* sent their KillEvents before their ids can be anybody else's.
LEMMA RestartStep ==
    ASSUME IInv, NEW js \in SUBSET Slot, NEW e, e.type = "ChildDown", e.slot \in js, e.gen = gen[e.slot],
           supervisor = "alive", supervisor' = supervisor, recent' \in Nat, gen' = Bumped(js),
           Started(js, gen'), Taken(e, Range(Kills(js \ {e.slot}))),
           strategy = "one_for_one" => js = {e.slot},
           phase = "dispatch", UNCHANGED <<strategy, phase, stops, stray>>
    PROVE  IInv'
<1> DEFINE R == Range(Kills(js \ {e.slot}))
<1>1. Types /\ gen \in [Slot -> Nat] /\ children \in [Slot -> Nat \ {0}] /\ e.slot \in Slot
  BY DEF IInv, Types, TypeOK
<1>2. /\ gen' \in [Slot -> Nat] /\ (\A j \in js : gen'[j] = gen[j] + 1) /\ \A j \in Slot \ js : gen'[j] = gen[j]
  BY <1>1 DEF Bumped
<1>3. \A m : m \in R <=> \E j \in js \ {e.slot} : m = KillEvent(children[j])
  BY <1>1, KillsAreSent
<1>4. Types'
  <2>1. \A i \in DOMAIN actors' : actors'[i] \in [slot : Slot, gen : Nat, alive : BOOLEAN]
    BY DEF Started, Actor
  <2>2. TypeOK'
    BY <1>1, <1>2, <2>1 DEF Types, TypeOK, Started, Slot
  <2> QED
    BY <1>1, <2>2 DEF Types, Started, Taken, Actor, Message, Slot
<1>5. \A j \in Slot : OnDuty(j) \subseteq {children[j]}
  BY DEF OnDuty, IInv, Latest
<1>6. OnDuty(e.slot) = {}
  BY DEF IInv, Report, Taken
<1>7. \A i \in DOMAIN actors : actors[i].slot \in Slot /\ actors[i].gen \in Nat /\ actors[i].gen <= gen[actors[i].slot]
  BY <1>1 DEF Types, TypeOK, IInv, Latest
<1>8. \A i \in DOMAIN actors : actors[i].slot \in js => actors'[i].gen # gen'[actors'[i].slot] /\ actors'[i].gen <= gen'[actors'[i].slot]
  <2> SUFFICES ASSUME NEW i \in DOMAIN actors, actors[i].slot \in js
               PROVE  actors'[i].gen # gen'[actors'[i].slot] /\ actors'[i].gen <= gen'[actors'[i].slot]
    OBVIOUS
  <2>1. actors'[i] = actors[i]
    BY DEF Started
  <2>2. PICK k \in Slot, g \in Nat : k = actors[i].slot /\ g = actors[i].gen
    BY <1>7
  <2>3. g <= gen[k] /\ gen'[k] = gen[k] + 1 /\ gen[k] \in Nat
    BY <1>1, <1>2, <1>7, <2>2
  <2>4. g # gen'[k] /\ g <= gen'[k]
    BY <2>3
  <2> QED
    BY <2>1, <2>2, <2>4
<1>9. \A j \in js : /\ children'[j] \in DOMAIN actors' /\ children'[j] \notin DOMAIN actors
                    /\ actors'[children'[j]].alive /\ actors'[children'[j]].slot = j /\ actors'[children'[j]].gen = gen'[j]
  <2> SUFFICES ASSUME NEW j \in js
               PROVE  /\ children'[j] \in DOMAIN actors' /\ children'[j] \notin DOMAIN actors
                      /\ actors'[children'[j]].alive /\ actors'[children'[j]].slot = j /\ actors'[children'[j]].gen = gen'[j]
    OBVIOUS
  <2>1. children'[j] \in DOMAIN actors' /\ children'[j] \notin DOMAIN actors /\ actors'[children'[j]] = Child(j, gen'[j])
    BY DEF Started
  <2> QED
    BY <2>1 DEF Child
<1>10. \A i \in DOMAIN actors' : i \in DOMAIN actors \/ \E j \in js : i = children'[j]
  BY DEF Started
<1>11. ASSUME NEW i \in DOMAIN actors' PROVE Latest(i)' /\ Doomed(i)'
  <2>1. CASE i \in DOMAIN actors /\ actors[i].slot \in js
    <3>1. actors'[i] = actors[i] /\ Doomed(i) /\ KillEvent(i)' = KillEvent(i)
      BY <2>1 DEF Started, IInv, KillEvent
    <3>2. Latest(i)'
      BY <1>8, <2>1 DEF Latest
    <3>3. actors[i].alive => KillEvent(i) \in Queued'
      <4>1. CASE actors[i].alive /\ actors[i].gen = gen[actors[i].slot]
        <5>1. i \in OnDuty(actors[i].slot)
          BY <2>1, <4>1 DEF OnDuty
        <5>2. actors[i].slot # e.slot /\ i = children[actors[i].slot]
          BY <1>5, <1>6, <1>7, <2>1, <5>1
        <5>3. KillEvent(i) \in R
          BY <1>3, <2>1, <5>2
        <5> QED
          BY <5>3 DEF Taken
      <4>2. CASE actors[i].alive /\ actors[i].gen # gen[actors[i].slot]
        <5>1. KillEvent(i) \in Queued /\ KillEvent(i) # e
          BY <3>1, <4>2 DEF Doomed, KillEvent
        <5> QED
          BY <5>1 DEF Taken
      <4> QED
        BY <4>1, <4>2
    <3> QED
      BY <3>1, <3>2, <3>3 DEF Doomed
  <2>2. CASE i \in DOMAIN actors /\ actors[i].slot \notin js
    <3>1. /\ actors'[i] = actors[i] /\ gen'[actors[i].slot] = gen[actors[i].slot]
          /\ children'[actors[i].slot] = children[actors[i].slot] /\ Latest(i) /\ Doomed(i)
      BY <1>2, <1>7, <2>2 DEF Started, IInv
    <3>2. KillEvent(i)' = KillEvent(i) /\ KillEvent(i) # e
      BY DEF KillEvent
    <3> QED
      BY <3>1, <3>2 DEF Latest, Doomed, Taken
  <2>3. CASE \E j \in js : i = children'[j]
    <3>1. PICK j \in js : i = children'[j]
      BY <2>3
    <3>2. actors'[i].slot = j /\ actors'[i].gen = gen'[j] /\ gen'[j] \in Nat /\ j \in Slot
      BY <1>2, <1>9, <3>1
    <3> QED
      BY <3>1, <3>2 DEF Latest, Doomed
  <2> QED
    BY <1>10, <1>11, <2>1, <2>2, <2>3
<1>12. \A j \in Slot : OnDuty(j)' \subseteq {children'[j]}
  BY <1>11 DEF OnDuty, Latest
<1>13. \A j \in js : OnDuty(j)' = {children'[j]}
  <2> SUFFICES ASSUME NEW j \in js PROVE OnDuty(j)' = {children'[j]}
    OBVIOUS
  <2>1. children'[j] \in OnDuty(j)'
    BY <1>9 DEF OnDuty
  <2> QED
    BY <1>12, <2>1
<1>14. \A j \in Slot \ js : OnDuty(j)' = OnDuty(j)
  <2> SUFFICES ASSUME NEW j \in Slot \ js, NEW i PROVE i \in OnDuty(j)' <=> i \in OnDuty(j)
    OBVIOUS
  <2>1. gen'[j] = gen[j]
    BY <1>2
  <2>2. i \in OnDuty(j) => i \in OnDuty(j)'
    BY <2>1 DEF OnDuty, Started
  <2>3. i \in OnDuty(j)' => i \in OnDuty(j)
    <3>1. CASE i \in DOMAIN actors
      BY <2>1, <3>1 DEF OnDuty, Started
    <3>2. CASE \E k \in js : i = children'[k]
      BY <1>9, <3>2 DEF OnDuty
    <3> QED
      BY <1>10, <3>1, <3>2 DEF OnDuty
  <2> QED
    BY <2>2, <2>3
<1>15. ASSUME NEW m \in Queued' PROVE Report(m)' /\ Spared(m)'
  <2>1. CASE m \in Queued
    <3>1. m \in Message /\ Report(m) /\ Spared(m)
      <4>1. Range(pipe) \subseteq Message /\ Range(batch) \subseteq Message
        BY <1>1, QueueRanges DEF Types
      <4> QED
        BY <2>1, <4>1 DEF IInv, Queued
    <3>2. Spared(m)'
      BY <3>1 DEF Spared
    <3>3. ASSUME m.type = "ChildDown"
          PROVE  m.gen <= gen'[m.slot] /\ (m.gen = gen'[m.slot] => OnDuty(m.slot)' = {})
      <4>1. m.slot \in Slot /\ m.gen \in Nat /\ m.gen <= gen[m.slot] /\ (m.gen = gen[m.slot] => OnDuty(m.slot) = {})
        BY <3>1, <3>3 DEF Message, Report
      <4>2. CASE m.slot \in js
        <5>1. gen'[m.slot] = gen[m.slot] + 1 /\ gen[m.slot] \in Nat
          BY <1>1, <1>2, <4>1, <4>2
        <5> QED
          BY <4>1, <5>1
      <4>3. CASE m.slot \notin js
        BY <1>2, <1>14, <4>1, <4>3
      <4> QED
        BY <4>2, <4>3
    <3> QED
      BY <3>2, <3>3 DEF Report
  <2>2. CASE m \in R
    <3>1. PICK j \in js \ {e.slot} : m = KillEvent(children[j])
      BY <1>3, <2>2
    <3>2. strategy # "one_for_one" /\ strategy' = strategy
      BY <3>1
    <3> QED
      BY <3>1, <3>2 DEF Report, Spared, KillEvent
  <2> QED
    BY <1>15, <2>1, <2>2 DEF Taken
<1>16. ASSUME NEW j \in Slot PROVE Watched(j)'
  <2>1. CASE j \in js
    BY <1>13, <2>1 DEF Watched
  <2>2. CASE j \notin js
    <3>1. Watched(j) /\ OnDuty(j)' = OnDuty(j) /\ children'[j] = children[j] /\ gen'[j] = gen[j]
      BY <1>2, <1>14, <2>2 DEF IInv, Started
    <3>2. ChildDown(j, gen[j])' = ChildDown(j, gen[j]) /\ Child(j, gen[j])' = Child(j, gen[j])
      BY <3>1 DEF ChildDown, Child
    <3>3. ChildDown(j, gen[j]) # e
      BY <2>2 DEF ChildDown
    <3>4. j \in escalated => j \in escalated'
      BY <2>2 DEF Started
    <3> QED
      BY <3>1, <3>2, <3>3, <3>4 DEF Watched, Taken
  <2> QED
    BY <2>1, <2>2
<1> QED
  BY <1>4, <1>11, <1>15, <1>16 DEF IInv, Slot

\* on(ChildDown): a stale report, a report past the cap, or a restart.
LEMMA ChildDownStep ==
    ASSUME IInv, Dispatch, OnChildDown(Head(batch))
    PROVE  IInv'
<1> DEFINE e == Head(batch)
<1>1. /\ Types /\ batch # <<>> /\ batch' = Tail(batch) /\ UNCHANGED <<strategy, phase, stops, stray>>
      /\ phase = "dispatch" /\ e.type = "ChildDown"
  BY DEF IInv, Dispatch, OnChildDown
<1>2. CASE (supervisor = "killed" \/ e.gen # gen[e.slot]) /\ UNCHANGED <<super, actors, pipe>>
  <2>1. Taken(e, {}) /\ (supervisor = "killed" \/ e.gen # gen[e.slot])
    BY <1>1, <1>2, TakenQuietly
  <2> QED
    BY <1>1, <1>2, <2>1, StaleReportStep
<1>3. ASSUME supervisor = "alive", e.gen = gen[e.slot], NEW n \in Counted, recent' = n,
             escalated' = escalated \union {e.slot}, UNCHANGED <<supervisor, children, gen, actors, pipe>>
      PROVE  IInv'
  <2>1. recent' \in Nat
    BY <1>1, <1>3 DEF Counted, Types, TypeOK
  <2>2. Taken(e, {})
    BY <1>1, <1>3, TakenQuietly
  <2> QED
    BY <1>1, <1>3, <2>1, <2>2, EscalateStep
<1>4. ASSUME supervisor = "alive", e.gen = gen[e.slot], NEW n \in Counted, recent' = n + 1, supervisor' = supervisor,
             Restart(e.slot)
      PROVE  IInv'
  <2>1. recent' \in Nat
    BY <1>1, <1>4 DEF Counted, Types, TypeOK
  <2>2. e.slot \in Slot
    <3>1. e \in Message
      BY <1>1, QueueRanges DEF Types
    <3> QED
      BY <1>1, <3>1 DEF Message
  <2>3. ASSUME NEW lo \in Slot, NEW hi \in Slot, e.slot \in lo..hi, restart_slots(lo, hi, e.slot),
               strategy = "one_for_one" => lo..hi = {e.slot}
        PROVE  IInv'
    <3>1. /\ gen' = Bumped(lo..hi) /\ pipe' = pipe \o Kills((lo..hi) \ {e.slot}) /\ start_slots(lo, hi, gen')
          /\ (lo..hi) \in SUBSET Slot /\ lo <= hi
      BY <2>3, SupervisionAssumption DEF restart_slots, Slot
    <3>2. gen' \in [Slot -> Nat]
      BY <1>1, <3>1 DEF Bumped, Types, TypeOK
    <3>3. Started(lo..hi, gen')
      BY <1>1, <3>1, <3>2, StartSlots
    <3>4. Kills((lo..hi) \ {e.slot}) \in Seq(Message)
      BY <1>1, <3>1, KillsAreSent
    <3>5. Taken(e, Range(Kills((lo..hi) \ {e.slot})))
      BY <1>1, <3>1, <3>4, TakenEvent
    <3> QED
      BY <1>1, <1>4, <2>1, <2>3, <3>1, <3>3, <3>5, RestartStep
  <2>4. 1 \in Slot /\ Count \in Slot
    BY SupervisionAssumption DEF Slot
  <2>5. e.slot \in e.slot..e.slot /\ e.slot..e.slot = {e.slot} /\ e.slot \in 1..Count /\ e.slot \in e.slot..Count
    BY <2>2, SupervisionAssumption DEF Slot
  <2>6. strategy \in {"one_for_one", "one_for_all", "rest_for_one"}
    BY <1>1, SupervisionAssumption DEF Types, TypeOK
  <2>7. CASE strategy = "one_for_one"
    BY <1>4, <2>2, <2>3, <2>5, <2>7 DEF Restart
  <2>8. CASE strategy = "one_for_all"
    BY <1>4, <2>2, <2>3, <2>4, <2>5, <2>8 DEF Restart
  <2>9. CASE strategy = "rest_for_one"
    BY <1>4, <2>2, <2>3, <2>4, <2>5, <2>9 DEF Restart
  <2> QED
    BY <2>6, <2>7, <2>8, <2>9
<1> QED
  BY <1>2, <1>3, <1>4 DEF OnChildDown

\* Supervisor::on(KillEvent): every child that lives is replaced by nobody, and
\* is sent a KillEvent unless it has one coming.
LEMMA KillHandledStep ==
    ASSUME IInv, Dispatch, OnKillSupervisor(Head(batch))
    PROVE  IInv'
<1> DEFINE e == Head(batch)
           R == Range(Kills(Slot))
<1>1. /\ Types /\ batch # <<>> /\ batch' = Tail(batch) /\ UNCHANGED <<strategy, phase, stops, stray>>
      /\ phase = "dispatch" /\ e.type = "KillEvent" /\ e.to = 0 /\ supervisor' = "killed" /\ gen' = Bumped(Slot)
      /\ pipe' = pipe \o Kills(Slot) /\ UNCHANGED <<children, recent, escalated, actors>>
  BY DEF IInv, Dispatch, OnKillSupervisor
<1>2. Kills(Slot) \in Seq(Message) /\ \A m : m \in R <=> \E j \in Slot : m = KillEvent(children[j])
  BY <1>1, KillsAreSent
<1>3. Taken(e, R)
  BY <1>1, <1>2, TakenEvent
<1> HIDE DEF e, R
<1>4. gen \in [Slot -> Nat] /\ gen' \in [Slot -> Nat] /\ \A j \in Slot : gen'[j] = gen[j] + 1
  BY <1>1 DEF Bumped, Types, TypeOK
<1>5. Types'
  BY <1>1, <1>3, <1>4 DEF Types, TypeOK, Taken, Slot, Actor, Message
<1>6. ASSUME NEW i \in DOMAIN actors' PROVE Latest(i)' /\ Doomed(i)'
  <2>1. PICK k \in Slot, g \in Nat : k = actors[i].slot /\ g = actors[i].gen
    BY <1>1, <1>6 DEF Types, TypeOK
  <2>2. Latest(i) /\ Doomed(i) /\ i \in DOMAIN actors /\ KillEvent(i)' = KillEvent(i)
    BY <1>1, <1>6 DEF IInv, KillEvent
  <2>3. g <= gen[k] /\ gen[k] \in Nat /\ gen'[k] = gen[k] + 1
    BY <1>4, <2>1, <2>2 DEF Latest
  <2>4. g <= gen'[k] /\ g # gen'[k]
    BY <2>3
  <2>5. actors[i].alive => KillEvent(i) \in Queued'
    <3>1. CASE actors[i].alive /\ g = gen[k]
      <4>1. KillEvent(i) \in R
        BY <1>2, <2>1, <2>2, <3>1 DEF Latest
      <4> QED
        BY <1>3, <4>1 DEF Taken
    <3>2. CASE actors[i].alive /\ g # gen[k]
      <4>1. KillEvent(i) \in Queued /\ i # 0
        BY <1>1, <2>1, <2>2, <3>2 DEF Doomed, Types
      <4>2. KillEvent(i) # e
        BY <1>1, <4>1 DEF KillEvent
      <4> QED
        BY <1>3, <4>1, <4>2 DEF Taken
    <3> QED
      BY <3>1, <3>2
  <2> QED
    BY <1>1, <2>1, <2>2, <2>4, <2>5 DEF Latest, Doomed
<1>7. \A j \in Slot : OnDuty(j)' = {}
  <2> SUFFICES ASSUME NEW j \in Slot, NEW i, i \in OnDuty(j)' PROVE FALSE
    OBVIOUS
  <2>1. i \in DOMAIN actors /\ actors[i].slot = j /\ actors[i].gen = gen'[j] /\ Latest(i) /\ actors[i].gen \in Nat
    BY <1>1 DEF OnDuty, IInv, Types, TypeOK
  <2>2. actors[i].gen <= gen[j] /\ gen[j] \in Nat /\ gen'[j] = gen[j] + 1
    BY <1>4, <2>1 DEF Latest
  <2> QED
    BY <2>1, <2>2
<1>8. ASSUME NEW m \in Queued' PROVE Report(m)' /\ Spared(m)'
  <2>1. Spared(m)'
    BY <1>1 DEF Spared
  <2>2. CASE m \in Queued
    <3>1. m \in Message /\ Report(m)
      <4>1. Range(pipe) \subseteq Message /\ Range(batch) \subseteq Message
        BY <1>1, QueueRanges DEF Types
      <4> QED
        BY <2>2, <4>1 DEF IInv, Queued
    <3>2. ASSUME m.type = "ChildDown"
          PROVE  m.gen <= gen'[m.slot] /\ OnDuty(m.slot)' = {}
      <4>1. m.slot \in Slot /\ m.gen \in Nat /\ m.gen <= gen[m.slot]
        BY <3>1, <3>2 DEF Message, Report
      <4>2. gen'[m.slot] = gen[m.slot] + 1 /\ gen[m.slot] \in Nat
        BY <1>4, <4>1
      <4> QED
        BY <1>7, <4>1, <4>2
    <3> QED
      BY <2>1, <3>2 DEF Report
  <2>3. CASE m \in R
    BY <1>2, <2>1, <2>3 DEF Report, KillEvent
  <2> QED
    BY <1>3, <1>8, <2>2, <2>3 DEF Taken
<1> QED
  BY <1>1, <1>5, <1>6, <1>8 DEF IInv

-----------------------------------------------------------------------------
(* The theorem *)

\* The inductive invariant holds when onInit() has started the children.
LEMMA SupervisionStarts == Init => IInv
<1> SUFFICES ASSUME Init PROVE IInv
  OBVIOUS
<1>1. /\ strategy \in Strategies /\ supervisor = "alive" /\ children = [j \in Slot |-> j] /\ gen = [j \in Slot |-> 0]
      /\ recent = 0 /\ escalated = {} /\ actors = [i \in Slot |-> Child(i, 0)]
      /\ pipe = <<>> /\ batch = <<>> /\ phase = "coroutines" /\ stops = 0
  BY DEF Init
<1>2. Slot \subseteq Nat \ {0} /\ IsFiniteSet(Slot)
  <2>1. 1 \in Int /\ Count \in Int
    BY SupervisionAssumption
  <2> QED
    BY <2>1, FS_Interval DEF Slot
<1>3. \A i \in Slot : Child(i, 0) \in Actor /\ Child(i, 0).slot = i /\ Child(i, 0).gen = 0 /\ Child(i, 0).alive
  BY DEF Child, Actor
<1>4. Queued = {} /\ <<>> \in Seq(Message)
  BY <1>1, EmptyQueue DEF Queued
<1>5. TypeOK
  BY <1>1, <1>2, <1>3, SupervisionAssumption DEF TypeOK, Actor
<1>6. Types
  BY <1>1, <1>2, <1>3, <1>4, <1>5 DEF Types
<1>7. \A i \in DOMAIN actors : Latest(i) /\ Doomed(i)
  BY <1>1, <1>3 DEF Latest, Doomed
<1>8. ASSUME NEW j \in Slot PROVE OnDuty(j) = {children[j]}
  BY <1>1, <1>3 DEF OnDuty
<1> QED
  BY <1>4, <1>6, <1>7, <1>8 DEF IInv, Watched

\* Every step keeps it.
LEMMA SupervisionStep == IInv /\ [Next]_vars => IInv'
<1> SUFFICES ASSUME IInv, [Next]_vars PROVE IInv'
  OBVIOUS
<1>1. CASE Dispatch /\ OnKillChild(Head(batch))
  <2>1. /\ Types /\ batch # <<>> /\ batch' = Tail(batch) /\ pipe' = pipe /\ phase = "dispatch"
        /\ UNCHANGED <<strategy, phase, stops>>
    BY <1>1 DEF Dispatch, OnKillChild, IInv
  <2>2. Taken(Head(batch), {})
    BY <2>1, TakenQuietly
  <2> QED
    BY <1>1, <2>1, <2>2, KillChildStep
<1>2. CASE Dispatch
  BY <1>1, <1>2, ChildDownStep, KillHandledStep DEF Dispatch
<1>3. CASE UNCHANGED vars
  <2>1. UNCHANGED <<strategy, super, stops, stray, actors, pipe, batch, phase>>
    BY <1>3 DEF vars
  <2>2. Types'
    BY <2>1, QuietTypes DEF IInv, Types, TypeOK
  <2>3. Quiet
    BY <2>1 DEF Quiet, Queued
  <2> QED
    BY <2>2, <2>3, QuietStep
<1> QED
  BY <1>2, <1>3, ReceiveStep, DispatchEndsStep, ReapStep, KillSupervisorStep, StopStep DEF Next

\* For any number of children, any cap and each strategy: a slot never has two
\* children on duty; while the supervisor lives it has one, or its end will be
\* handled, or the supervisor has given up on it (with one_for_one there is no
\* other case: no child is killed in another's stead); and a child that was
\* replaced, or has lost its supervisor, has its KillEvent coming
\* (supervisor.h on(ChildDown), restart_slots, on(KillEvent)).
THEOREM SupervisorServesSlots == Spec => []SlotsAreServed
<1>1. IInv => SlotsAreServed
  <2> SUFFICES ASSUME IInv PROVE SlotsAreServed
    OBVIOUS
  <2>1. ASSUME NEW j \in Slot PROVE Cardinality(OnDuty(j)) <= 1
    <3>1. OnDuty(j) = {} \/ OnDuty(j) = {children[j]}
      BY DEF OnDuty, IInv, Latest
    <3>2. Cardinality({}) = 0 /\ Cardinality({children[j]}) = 1
      BY FS_EmptySet, FS_Singleton
    <3>3. CASE OnDuty(j) = {}
      BY <3>2, <3>3
    <3>4. CASE OnDuty(j) = {children[j]}
      BY <3>2, <3>4
    <3> QED
      BY <3>1, <3>3, <3>4
  <2>2. ASSUME NEW i \in DOMAIN actors, actors[i].alive, i \notin OnDuty(actors[i].slot)
        PROVE  KillEvent(i) \in Queued
    BY <2>2 DEF IInv, Doomed, OnDuty
  <2> QED
    BY <2>1, <2>2 DEF SlotsAreServed, IInv, Types, Watched
<1> QED
  BY <1>1, SupervisionStarts, SupervisionStep, PTL DEF Spec

-----------------------------------------------------------------------------
(* An await and its branches: the ready queue as sets *)

\* Who is in the ready queue.
Queue(q) == q \in Seq(Frames) /\ IsInjective(q)
Marks(q) == {f \in {Parent, Timer} : f \in Range(q)}
Runners(q) == {b \in 1..N : Runner(b) \in Range(q)}
Inners(q) == {b \in 1..N : Inner(b) \in Range(q)}

\* Frames of different kinds, and of different branches, are different.
LEMMA FramesDiffer ==
  /\ Parent # Timer
  /\ \A b : Runner(b) \notin {Parent, Timer} /\ Inner(b) \notin {Parent, Timer}
  /\ \A b, c : Runner(b) # Inner(c)
  /\ \A b, c : Runner(b) = Runner(c) => b = c
  /\ \A b, c : Inner(b) = Inner(c) => b = c
BY DEF Parent, Timer, Runner, Inner

\* The kinds of frames.
LEMMA FrameKinds ==
  /\ Parent \in Frames /\ Timer \in Frames
  /\ \A b \in 1..N : Runner(b) \in Frames /\ Inner(b) \in Frames
BY DEF Frames

\* Two queues with the same frames show the same sets.
LEMMA QueueRange ==
  ASSUME NEW q, NEW r, Range(r) = Range(q)
  PROVE  Marks(r) = Marks(q) /\ Runners(r) = Runners(q) /\ Inners(r) = Inners(q)
BY DEF Marks, Runners, Inners

\* schedule_resume() puts a frame in, once.
LEMMA ScheduledRange ==
  ASSUME NEW q, Queue(q), NEW f \in Frames
  PROVE  Queue(schedule_resume(f, q)) /\ Range(schedule_resume(f, q)) = Range(q) \cup {f}
<1>1. CASE f \in Range(q)
  BY <1>1 DEF schedule_resume
<1>2. CASE f \notin Range(q)
  <2>1. /\ Append(q, f) \in Seq(Frames) /\ IsInjective(Append(q, f))
        /\ Range(Append(q, f)) = Range(q) \cup {f}
    BY <1>2, AppendedQueue DEF Queue
  <2> QED
    BY <1>2, <2>1 DEF schedule_resume, Queue
<1> QED
  BY <1>1, <1>2

\* The parent is scheduled.
LEMMA ScheduleParent ==
  ASSUME NEW q, Queue(q)
  PROVE  LET r == schedule_resume(Parent, q)
         IN  Queue(r) /\ Marks(r) = Marks(q) \cup {Parent} /\ Runners(r) = Runners(q) /\ Inners(r) = Inners(q)
<1>1. Queue(schedule_resume(Parent, q)) /\ Range(schedule_resume(Parent, q)) = Range(q) \cup {Parent}
  BY ScheduledRange, FrameKinds
<1> QED
  BY <1>1, FramesDiffer DEF Marks, Runners, Inners

\* The timer coroutine is scheduled.
LEMMA ScheduleTimer ==
  ASSUME NEW q, Queue(q)
  PROVE  LET r == schedule_resume(Timer, q)
         IN  Queue(r) /\ Marks(r) = Marks(q) \cup {Timer} /\ Runners(r) = Runners(q) /\ Inners(r) = Inners(q)
<1>1. Queue(schedule_resume(Timer, q)) /\ Range(schedule_resume(Timer, q)) = Range(q) \cup {Timer}
  BY ScheduledRange, FrameKinds
<1> QED
  BY <1>1, FramesDiffer DEF Marks, Runners, Inners

\* An inner task is scheduled.
LEMMA ScheduleInner ==
  ASSUME NEW q, Queue(q), NEW b \in 1..N
  PROVE  LET r == schedule_resume(Inner(b), q)
         IN  Queue(r) /\ Marks(r) = Marks(q) /\ Runners(r) = Runners(q) /\ Inners(r) = Inners(q) \cup {b}
<1>1. Queue(schedule_resume(Inner(b), q)) /\ Range(schedule_resume(Inner(b), q)) = Range(q) \cup {Inner(b)}
  BY ScheduledRange, FrameKinds
<1> QED
  BY <1>1, FramesDiffer DEF Marks, Runners, Inners

\* A frame behind the others that is in none of them.
LEMMA AppendRunner ==
  ASSUME NEW q, Queue(q), NEW b \in 1..N, b \notin Runners(q)
  PROVE  LET r == Append(q, Runner(b))
         IN  Queue(r) /\ Marks(r) = Marks(q) /\ Runners(r) = Runners(q) \cup {b} /\ Inners(r) = Inners(q)
<1> DEFINE r == Append(q, Runner(b))
<1>1. Runner(b) \notin Range(q)
  BY DEF Runners
<1>2. r \in Seq(Frames) /\ IsInjective(r) /\ Range(r) = Range(q) \cup {Runner(b)}
  BY <1>1, AppendedQueue, FrameKinds DEF Queue
<1> QED
  BY <1>2, FramesDiffer DEF Queue, Marks, Runners, Inners

\* The first frame is popped.
LEMMA PopQueue ==
  ASSUME NEW q, Queue(q), q # <<>>
  PROVE  /\ Queue(Tail(q)) /\ Head(q) \in Frames
         /\ Marks(Tail(q)) = Marks(q) \ {Head(q)}
         /\ Runners(Tail(q)) = Runners(q) \ {b \in 1..N : Runner(b) = Head(q)}
         /\ Inners(Tail(q)) = Inners(q) \ {b \in 1..N : Inner(b) = Head(q)}
         /\ Head(q) \in {Parent, Timer} => Head(q) \in Marks(q)
         /\ \A b \in 1..N : Runner(b) = Head(q) => b \in Runners(q)
         /\ \A b \in 1..N : Inner(b) = Head(q) => b \in Inners(q)
<1>1. /\ Head(q) \in Frames /\ Head(q) \in Range(q)
      /\ Tail(q) \in Seq(Frames) /\ IsInjective(Tail(q))
      /\ Range(Tail(q)) = Range(q) \ {Head(q)}
  BY HeadAndTail DEF Queue
<1> QED
  BY <1>1 DEF Queue, Marks, Runners, Inners

\* Popping the parent, the timer, a runner, an inner task.
LEMMA PopKinds ==
  ASSUME NEW q, Queue(q), q # <<>>
  PROVE  /\ Head(q) = Parent => /\ Parent \in Marks(q) /\ Marks(Tail(q)) = Marks(q) \ {Parent}
                                /\ Runners(Tail(q)) = Runners(q) /\ Inners(Tail(q)) = Inners(q)
         /\ Head(q) = Timer => /\ Timer \in Marks(q) /\ Marks(Tail(q)) = Marks(q) \ {Timer}
                               /\ Runners(Tail(q)) = Runners(q) /\ Inners(Tail(q)) = Inners(q)
         /\ \A b \in 1..N : Head(q) = Runner(b) =>
               /\ b \in Runners(q) /\ Marks(Tail(q)) = Marks(q)
               /\ Runners(Tail(q)) = Runners(q) \ {b} /\ Inners(Tail(q)) = Inners(q)
         /\ \A b \in 1..N : Head(q) = Inner(b) =>
               /\ b \in Inners(q) /\ Marks(Tail(q)) = Marks(q)
               /\ Runners(Tail(q)) = Runners(q) /\ Inners(Tail(q)) = Inners(q) \ {b}
<1> DEFINE h == Head(q)
<1>1. /\ Marks(Tail(q)) = Marks(q) \ {h}
      /\ Runners(Tail(q)) = Runners(q) \ {b \in 1..N : Runner(b) = h}
      /\ Inners(Tail(q)) = Inners(q) \ {b \in 1..N : Inner(b) = h}
      /\ h \in {Parent, Timer} => h \in Marks(q)
      /\ \A b \in 1..N : Runner(b) = h => b \in Runners(q)
      /\ \A b \in 1..N : Inner(b) = h => b \in Inners(q)
  BY PopQueue
<1>2. Marks(q) \subseteq {Parent, Timer}
  BY DEF Marks
<1> HIDE DEF h
<1>3. ASSUME h = Parent
      PROVE  /\ Parent \in Marks(q) /\ Marks(Tail(q)) = Marks(q) \ {Parent}
             /\ Runners(Tail(q)) = Runners(q) /\ Inners(Tail(q)) = Inners(q)
  BY <1>1, <1>3, FramesDiffer
<1>4. ASSUME h = Timer
      PROVE  /\ Timer \in Marks(q) /\ Marks(Tail(q)) = Marks(q) \ {Timer}
             /\ Runners(Tail(q)) = Runners(q) /\ Inners(Tail(q)) = Inners(q)
  BY <1>1, <1>4, FramesDiffer
<1>5. ASSUME NEW b \in 1..N, h = Runner(b)
      PROVE  /\ b \in Runners(q) /\ Marks(Tail(q)) = Marks(q)
             /\ Runners(Tail(q)) = Runners(q) \ {b} /\ Inners(Tail(q)) = Inners(q)
  BY <1>1, <1>2, <1>5, FramesDiffer
<1>6. ASSUME NEW b \in 1..N, h = Inner(b)
      PROVE  /\ b \in Inners(q) /\ Marks(Tail(q)) = Marks(q)
             /\ Runners(Tail(q)) = Runners(q) /\ Inners(Tail(q)) = Inners(q) \ {b}
  <2>1. Inner(b) \notin {Parent, Timer} /\ \A c : Runner(c) # Inner(b) /\ (Inner(c) = Inner(b) => c = b)
    BY FramesDiffer
  <2>2. {c \in 1..N : Runner(c) = h} = {} /\ {c \in 1..N : Inner(c) = h} = {b} /\ h \notin Marks(q)
    BY <1>2, <1>6, <2>1
  <2> QED
    BY <1>1, <1>6, <2>2
<1> QED
  BY <1>3, <1>4, <1>5, <1>6 DEF h

\* scrub() takes the runners and inner tasks of bs out.
LEMMA ScrubQueue ==
  ASSUME NEW q, Queue(q), NEW bs \in SUBSET (1..N)
  PROVE  LET r == scrub(q, bs)
         IN  Queue(r) /\ Marks(r) = Marks(q) /\ Runners(r) = Runners(q) \ bs /\ Inners(r) = Inners(q) \ bs
<1> DEFINE gone == {Runner(b) : b \in bs} \union {Inner(b) : b \in bs}
           r == Without(q, gone)
<1>1. r \in Seq(Frames) /\ IsInjective(r) /\ Range(r) = Range(q) \ gone
  BY WithoutIsTrue DEF Queue
<1>2. scrub(q, bs) = r
  BY DEF scrub
<1>3. Parent \notin gone /\ Timer \notin gone
  BY FramesDiffer
<1>4. \A b \in 1..N : (Runner(b) \in gone <=> b \in bs) /\ (Inner(b) \in gone <=> b \in bs)
  BY FramesDiffer
<1> HIDE DEF r, gone
<1> QED
  BY <1>1, <1>2, <1>3, <1>4 DEF Queue, Marks, Runners, Inners

\* The timer is taken out.
LEMMA WithoutTimer ==
  ASSUME NEW q, Queue(q)
  PROVE  LET r == Without(q, {Timer})
         IN  Queue(r) /\ Marks(r) = Marks(q) \ {Timer} /\ Runners(r) = Runners(q) /\ Inners(r) = Inners(q)
<1>1. /\ Without(q, {Timer}) \in Seq(Frames) /\ IsInjective(Without(q, {Timer}))
      /\ Range(Without(q, {Timer})) = Range(q) \ {Timer}
  BY WithoutIsTrue DEF Queue
<1> QED
  BY <1>1, FramesDiffer DEF Queue, Marks, Runners, Inners

\* The parent and the timer are taken out.
LEMMA WithoutOwner ==
  ASSUME NEW q, Queue(q)
  PROVE  LET r == Without(q, {Parent, Timer})
         IN  Queue(r) /\ Marks(r) = {} /\ Runners(r) = Runners(q) /\ Inners(r) = Inners(q)
<1>1. /\ Without(q, {Parent, Timer}) \in Seq(Frames) /\ IsInjective(Without(q, {Parent, Timer}))
      /\ Range(Without(q, {Parent, Timer})) = Range(q) \ {Parent, Timer}
  BY WithoutIsTrue DEF Queue
<1> QED
  BY <1>1, FramesDiffer DEF Queue, Marks, Runners, Inners

\* An empty queue has nobody.
LEMMA NobodyQueued ==
  Queue(<<>>) /\ Marks(<<>>) = {} /\ Runners(<<>>) = {} /\ Inners(<<>>) = {}
BY EmptyQueue DEF Queue, Marks, Runners, Inners

\* All the runners, and all the inner tasks, in the order of the branches.
LEMMA AllRunners ==
  ASSUME N \in Nat
  PROVE  LET q == [b \in 1..N |-> Runner(b)]
         IN  q \in Seq(Frames) /\ IsInjective(q) /\ Range(q) = {Runner(b) : b \in 1..N}
<1> DEFINE q == [b \in 1..N |-> Runner(b)]
<1>1. q \in [1..N -> Frames]
  BY FrameKinds
<1>2. q \in Seq(Frames)
  BY <1>1
<1> QED
  BY <1>2, FramesDiffer DEF IsInjective, Range

\* So of the inner tasks.
LEMMA AllInners ==
  ASSUME N \in Nat
  PROVE  LET q == [b \in 1..N |-> Inner(b)]
         IN  q \in Seq(Frames) /\ IsInjective(q) /\ Range(q) = {Inner(b) : b \in 1..N}
<1> DEFINE q == [b \in 1..N |-> Inner(b)]
<1>1. q \in [1..N -> Frames]
  BY FrameKinds
<1>2. q \in Seq(Frames)
  BY <1>1
<1> QED
  BY <1>2, FramesDiffer DEF IsInjective, Range

\* The runners of bs join the queue.
LEMMA JoinRunners ==
  ASSUME N \in Nat, NEW q, Queue(q), NEW bs \in SUBSET (1..N), Runners(q) \cap bs = {}
  PROVE  LET r == q \o Keep([b \in 1..N |-> Runner(b)], {Runner(b) : b \in bs})
         IN  Queue(r) /\ Marks(r) = Marks(q) /\ Runners(r) = Runners(q) \cup bs /\ Inners(r) = Inners(q)
<1> DEFINE all == [b \in 1..N |-> Runner(b)]
           S == {Runner(b) : b \in bs}
           k == Keep(all, S)
           r == q \o k
<1>1. all \in Seq(Frames) /\ IsInjective(all) /\ Range(all) = {Runner(b) : b \in 1..N}
  BY AllRunners
<1> HIDE DEF all
<1>2. k \in Seq(Frames) /\ IsInjective(k) /\ Range(k) = Range(all) \cap S
  BY <1>1, KeepIsTrue
<1>3. Range(k) = S
  BY <1>1, <1>2
<1> HIDE DEF k
<1>4. Range(q) \cap Range(k) = {}
  BY <1>3 DEF Runners
<1>5. r \in Seq(Frames) /\ IsInjective(r) /\ Range(r) = Range(q) \cup S
  BY <1>2, <1>3, <1>4, JoinedQueues DEF Queue
<1>6. Parent \notin S /\ Timer \notin S
  BY FramesDiffer
<1>7. \A b \in 1..N : (Runner(b) \in S <=> b \in bs) /\ Inner(b) \notin S
  BY FramesDiffer
<1> HIDE DEF r, S
<1>8. Queue(r) /\ Marks(r) = Marks(q) /\ Runners(r) = Runners(q) \cup bs /\ Inners(r) = Inners(q)
  BY <1>5, <1>6, <1>7 DEF Queue, Marks, Runners, Inners
<1> QED
  BY <1>8 DEF r, k, all, S

\* The inner tasks of bs join the queue.
LEMMA JoinInners ==
  ASSUME N \in Nat, NEW q, Queue(q), NEW bs \in SUBSET (1..N), Inners(q) \cap bs = {}
  PROVE  LET r == q \o Keep([b \in 1..N |-> Inner(b)], {Inner(b) : b \in bs})
         IN  Queue(r) /\ Marks(r) = Marks(q) /\ Runners(r) = Runners(q) /\ Inners(r) = Inners(q) \cup bs
<1> DEFINE all == [b \in 1..N |-> Inner(b)]
           S == {Inner(b) : b \in bs}
           k == Keep(all, S)
           r == q \o k
<1>1. all \in Seq(Frames) /\ IsInjective(all) /\ Range(all) = {Inner(b) : b \in 1..N}
  BY AllInners
<1> HIDE DEF all
<1>2. k \in Seq(Frames) /\ IsInjective(k) /\ Range(k) = Range(all) \cap S
  BY <1>1, KeepIsTrue
<1>3. Range(k) = S
  BY <1>1, <1>2
<1> HIDE DEF k
<1>4. Range(q) \cap Range(k) = {}
  BY <1>3 DEF Inners
<1>5. r \in Seq(Frames) /\ IsInjective(r) /\ Range(r) = Range(q) \cup S
  BY <1>2, <1>3, <1>4, JoinedQueues DEF Queue
<1>6. Parent \notin S /\ Timer \notin S
  BY FramesDiffer
<1>7. \A b \in 1..N : (Inner(b) \in S <=> b \in bs) /\ Runner(b) \notin S
  BY FramesDiffer
<1> HIDE DEF r, S
<1>8. Queue(r) /\ Marks(r) = Marks(q) /\ Runners(r) = Runners(q) /\ Inners(r) = Inners(q) \cup bs
  BY <1>5, <1>6, <1>7 DEF Queue, Marks, Runners, Inners
<1> QED
  BY <1>8 DEF r, k, all, S

\* The timer coroutine joins the queue.
LEMMA JoinTimer ==
  ASSUME NEW q, Queue(q), Timer \notin Marks(q)
  PROVE  LET r == q \o <<Timer>>
         IN  Queue(r) /\ Marks(r) = Marks(q) \cup {Timer} /\ Runners(r) = Runners(q) /\ Inners(r) = Inners(q)
<1> DEFINE t == <<Timer>>
           r == q \o t
<1>1. Timer \notin Range(q)
  BY DEF Marks
<1>2. t \in Seq(Frames) /\ IsInjective(t) /\ Range(t) = {Timer}
  BY OneElement, FrameKinds
<1> HIDE DEF t
<1>3. r \in Seq(Frames) /\ IsInjective(r) /\ Range(r) = Range(q) \cup {Timer}
  <2>1. Range(q) \cap Range(t) = {}
    BY <1>1, <1>2
  <2> QED
    BY <1>2, <2>1, JoinedQueues DEF Queue
<1> QED
  BY <1>3, FramesDiffer DEF t, Queue, Marks, Runners, Inners

-----------------------------------------------------------------------------
(* The inductive invariant *)

\* Branches whose runner has still to end, and those not spawned yet.
Active == {b \in 1..N : runner[b] \in {"fresh", "waiting"}}
Unborn == {b \in 1..N : runner[b] = "none"}

\* Who is in the ready queue, and whose destruction is deferred.
QueueIsTrue ==
    /\ Queue(ready)
    /\ Parent \in Marks(ready) => parent = "awaiting"
    /\ Timer \in Marks(ready) <=> timer \in {"fresh", "fired"}
    /\ \A b \in 1..N : /\ b \in Runners(ready) <=> runner[b] = "fresh"
                       /\ b \in Inners(ready) => inner[b] = "parked"
                       /\ b \in deferred <=> runner[b] = "final"

\* A runner and its inner task agree.
Placed ==
    \A b \in 1..N :
        /\ b \notin Branch => runner[b] = "none" /\ inner[b] = "freed"
        /\ inner[b] = "parked" => runner[b] = "waiting"
        /\ runner[b] \in {"final", "freed"} => inner[b] \in {"done", "freed"}
        /\ b \in ended => runner[b] \in {"final", "freed"}

\* Before the await begins there are at most the tasks of a scope.
Before ==
    parent = "fresh" =>
        /\ handles = {} /\ ~resolved /\ ~slot /\ timer = "off" /\ awaited = {}
        /\ ~IsScope => count = 0 /\ ended = {} /\ threw = {} /\ \A b \in 1..N : runner[b] = "none"

\* The shared state has the handles of the branches that still run.
Held ==
    /\ Detached \/ mode = "sleep" => handles = {}
    /\ mode \in {"when_all", "when_any"} /\ parent = "awaiting" => handles = Active
    /\ mode \in Singles /\ parent = "awaiting" /\ ~resolved => handles = Active
    /\ mode \in Singles /\ parent \in {"resumed", "destroyed"} /\ ~resolved => Active = {}
    /\ mode = "cancellable" /\ resolved => Active = {}
    /\ ~IsScope /\ parent = "awaiting" => \A b \in Branch : runner[b] # "none"

\* A when_any is decided by one branch, and the others go.
Won ==
    mode = "when_any" => IF resolved THEN Active = {} /\ \E b \in 1..N : ended = {b}
                         ELSE ended = {} /\ (parent = "awaiting" => Active = 1..N)

\* What the shared count counts.
CountedEnds == mode = "when_all" => count = Cardinality(ended)

CountedTasks ==
    IsScope =>
        /\ count >= Cardinality(Active)
        /\ count + Cardinality(Unborn) <= N
        /\ parent \in {"fresh", "awaiting"} => count = Cardinality(Active)
        /\ parent = "awaiting" => awaited \subseteq ended \cup Active

CountedReplies ==
    mode = "quorum" =>
        /\ count <= Cardinality(ended \ threw)
        /\ ~resolved => count = Cardinality(ended \ threw)
        /\ resolved => count >= Need \/ Cardinality(threw) > N - Need

Uncounted == mode \notin Scopes \cup {"when_all", "quorum"} => count = 0

CountIsTrue == CountedEnds /\ CountedTasks /\ CountedReplies /\ Uncounted

\* Why the parent is scheduled.
Woken ==
    Parent \in Marks(ready) =>
        /\ mode = "when_all" => ended = 1..N
        /\ mode \in Singles \cup {"when_any", "quorum"} => resolved
        /\ mode = "timeout" => timer = "expired" \/ ended = {1}
        /\ mode = "cancellable" => cancelled \/ ended = {1}
        /\ mode = "join_all" => awaited \subseteq ended
        /\ mode = "join_any" => ended # {}

\* Which awaits have a timer, and of which kind.
Timed ==
    /\ timer # "off" => mode \in {"timeout", "sleep", "join_all_for"}
    /\ timer \in {"fresh", "fired", "final"} => mode # "timeout"
    /\ timer = "expired" => mode = "timeout"

\* A quorum that is decided has scheduled its parent.
Decided ==
    mode = "quorum" /\ parent = "awaiting" => IF resolved THEN Parent \in Marks(ready) ELSE slot

TasksInv ==
    /\ TasksTypeOK /\ QueueIsTrue /\ Placed /\ Before /\ Held /\ Won /\ CountIsTrue /\ Woken
    /\ Timed /\ Decided /\ BranchesEndWithTheAwait /\ OutcomeIsTrue

\* The constants.
LEMMA TaskBounds ==
  /\ N \in Nat \ {0} /\ 1 \in 1..N /\ Need \in 1..N /\ Suspends \in [1..N -> Nat]
  /\ IsFiniteSet(1..N) /\ Cardinality(1..N) = N
  /\ Mode \subseteq {"when_all", "when_any", "timeout", "cancellable", "sleep",
                     "join_all", "join_any", "join_all_for", "quorum"}
<1>1. N \in Nat \ {0} /\ Need \in 1..N /\ Suspends \in [1..N -> Nat]
  BY TasksAssumption
<1>2. IsFiniteSet(1..N) /\ Cardinality(1..N) = N
  BY <1>1, FS_Interval, 1 \in Int, N \in Int
<1> QED
  BY <1>1, <1>2, TasksAssumption

\* The branches of an await.
LEMMA BranchFacts ==
  /\ Branch \subseteq 1..N
  /\ mode = "sleep" => Branch = {}
  /\ mode \in Singles => Branch = {1}
  /\ mode \notin Singles \cup {"sleep"} => Branch = 1..N
<1>1. N \in Nat \ {0}
  BY TaskBounds
<1> QED
  BY <1>1 DEF Branch, Branches, Singles

\* The invariant holds at the start.
LEMMA TasksStart == TasksInit => TasksInv
<1> SUFFICES ASSUME TasksInit PROVE TasksInv
  OBVIOUS
<1> USE DEF TasksInit
<1>1. Queue(ready) /\ Marks(ready) = {} /\ Runners(ready) = {} /\ Inners(ready) = {}
  BY NobodyQueued
<1>2. Active = {} /\ Unborn = 1..N
  BY DEF Active, Unborn
<1>3. Cardinality(Active) = 0 /\ Cardinality(Unborn) = N /\ Cardinality({}) = 0
  BY <1>2, FS_EmptySet, TaskBounds
<1>4. TasksTypeOK
  <2>1. count \in 0..N
    BY TaskBounds
  <2>2. left \in [1..N -> Nat]
    BY TaskBounds
  <2>3. runner \in [1..N -> {"none", "fresh", "waiting", "final", "freed"}]
    OBVIOUS
  <2>4. inner \in [1..N -> {"fresh", "parked", "done", "freed"}]
    OBVIOUS
  <2> QED
    BY <1>1, <2>1, <2>2, <2>3, <2>4 DEF TasksTypeOK, Queue
<1>5. QueueIsTrue /\ Placed /\ Before
  BY <1>1 DEF QueueIsTrue, Placed, Before
<1>6. Held /\ Won /\ Woken /\ Timed /\ Decided
  BY <1>1 DEF Held, Won, Woken, Timed, Decided
<1>7. ended \ threw = {}
  OBVIOUS
<1>8. CountIsTrue
  BY <1>3, <1>7, TaskBounds DEF CountIsTrue, CountedEnds, CountedTasks, CountedReplies, Uncounted
<1>9. BranchesEndWithTheAwait /\ OutcomeIsTrue
  BY DEF BranchesEndWithTheAwait, OutcomeIsTrue
<1> QED
  BY <1>4, <1>5, <1>6, <1>8, <1>9 DEF TasksInv

\* Settle() frees inner tasks, never one of a branch that still runs.
SettledAs(run, inn, next) ==
    /\ next \in [1..N -> {"fresh", "parked", "done", "freed"}]
    /\ \A b \in 1..N : next[b] \in {inn[b], "freed"}
    /\ \A b \in Branch : run[b] \in {"fresh", "waiting"} => next[b] = inn[b]

\* That is what it does.
LEMMA Settled ==
  ASSUME NEW par, NEW run, NEW inn, NEW next,
         inn \in [1..N -> {"fresh", "parked", "done", "freed"}], next = Settle(par, run, inn)
  PROVE  SettledAs(run, inn, next)
<1> DEFINE held == par \in {"fresh", "awaiting"} \/ \E b \in Branch : run[b] \in {"fresh", "waiting", "final"}
           s == [b \in 1..N |-> IF Detached
                        THEN IF run[b] = "freed" THEN "freed" ELSE inn[b]
                        ELSE IF held THEN inn[b] ELSE "freed"]
<1>1. next = s
  BY DEF Settle
<1>2. s \in [1..N -> {"fresh", "parked", "done", "freed"}]
  OBVIOUS
<1>3. \A b \in 1..N : s[b] \in {inn[b], "freed"}
  OBVIOUS
<1>4. ASSUME NEW b \in Branch, run[b] \in {"fresh", "waiting"} PROVE s[b] = inn[b]
  <2>1. held /\ b \in 1..N /\ run[b] # "freed"
    BY <1>4, BranchFacts
  <2> QED
    BY <2>1
<1> HIDE DEF s
<1> QED
  BY <1>1, <1>2, <1>3, <1>4 DEF SettledAs

-----------------------------------------------------------------------------
(* Events from outside *)

\* What an inner task waits for happens.
LEMMA WakeInnerKeeps ==
  ASSUME TasksInv, NEW b \in Branch, WakeInner(b)
  PROVE  TasksInv'
<1>0. b \in 1..N
  BY BranchFacts
<1>1. Queue(ready) /\ inner[b] = "parked"
  BY DEF TasksInv, QueueIsTrue, WakeInner
<1>2. /\ Queue(ready') /\ Marks(ready') = Marks(ready) /\ Runners(ready') = Runners(ready)
      /\ Inners(ready') = Inners(ready) \cup {b}
  BY <1>0, <1>1, ScheduleInner DEF WakeInner
<1>3. UNCHANGED <<mode, parent, outcome, runner, inner, left, ended, threw, shared, timer, cancelled,
                  deferred, awaited>>
  BY DEF WakeInner
<1>4. TasksTypeOK'
  BY <1>2, <1>3 DEF TasksInv, TasksTypeOK, Queue, shared
<1>5. QueueIsTrue' /\ Woken' /\ Decided'
  BY <1>1, <1>2, <1>3 DEF TasksInv, QueueIsTrue, Woken, Decided, shared
<1>6. Placed' /\ Before' /\ Timed'
  BY <1>3 DEF TasksInv, Placed, Before, Timed, shared, Branch, Branches, IsScope
<1>7. Active' = Active /\ Unborn' = Unborn
  BY <1>3 DEF Active, Unborn
<1>8. Held' /\ Won' /\ CountIsTrue'
  BY <1>3, <1>7 DEF TasksInv, Held, Won, CountIsTrue, CountedEnds, CountedTasks, CountedReplies, Uncounted,
                    shared, Branch, Branches, IsScope, Detached
<1>9. BranchesEndWithTheAwait' /\ OutcomeIsTrue'
  BY <1>3 DEF TasksInv, BranchesEndWithTheAwait, OutcomeIsTrue, shared
<1> QED
  BY <1>4, <1>5, <1>6, <1>8, <1>9 DEF TasksInv

\* The token of an actor wakes the asks of a quorum.
LEMMA CancelQuorumKeeps ==
  ASSUME TasksInv, CancelQuorum
  PROVE  TasksInv'
<1> DEFINE parked == {b \in 1..N : inner[b] = "parked" /\ Inner(b) \notin Range(ready)}
<1>1. /\ mode = "quorum" /\ cancelled' = TRUE
      /\ ready' = ready \o Keep([b \in 1..N |-> Inner(b)], {Inner(b) : b \in parked})
      /\ UNCHANGED <<mode, parent, outcome, runner, inner, left, ended, threw, shared, timer, deferred, awaited>>
  BY DEF CancelQuorum
<1>2. Queue(ready) /\ parked \in SUBSET (1..N) /\ Inners(ready) \cap parked = {} /\ N \in Nat
  BY TaskBounds DEF TasksInv, QueueIsTrue, Inners
<1>3. \A b \in parked : inner[b] = "parked"
  OBVIOUS
<1> HIDE DEF parked
<1>4. /\ Queue(ready') /\ Marks(ready') = Marks(ready) /\ Runners(ready') = Runners(ready)
      /\ Inners(ready') = Inners(ready) \cup parked
  BY <1>1, <1>2, JoinInners
<1>5. TasksTypeOK'
  BY <1>1, <1>4 DEF TasksInv, TasksTypeOK, Queue, shared
<1>6. QueueIsTrue' /\ Woken' /\ Decided'
  BY <1>1, <1>3, <1>4 DEF TasksInv, QueueIsTrue, Woken, Decided, shared
<1>7. Placed' /\ Before' /\ Timed'
  BY <1>1 DEF TasksInv, Placed, Before, Timed, shared, Branch, Branches, IsScope
<1>8. Active' = Active /\ Unborn' = Unborn
  BY <1>1 DEF Active, Unborn
<1>9. Held' /\ Won' /\ CountIsTrue'
  BY <1>1, <1>8 DEF TasksInv, Held, Won, CountIsTrue, CountedEnds, CountedTasks, CountedReplies, Uncounted,
                    shared, Branch, Branches, IsScope, Detached
<1>10. BranchesEndWithTheAwait' /\ OutcomeIsTrue'
  BY <1>1 DEF TasksInv, BranchesEndWithTheAwait, OutcomeIsTrue, shared
<1> QED
  BY <1>5, <1>6, <1>7, <1>9, <1>10 DEF TasksInv

\* A deadline resolves its await; a sleep wakes the timer coroutine.
LEMMA TimerFiresKeeps ==
  ASSUME TasksInv, TimerFires
  PROVE  TasksInv'
<1>1. /\ timer = "sleeping" /\ Queue(ready)
      /\ UNCHANGED <<mode, parent, outcome, runner, inner, left, ended, threw, handles, count, slot,
                     cancelled, deferred, awaited>>
  BY DEF TimerFires, TasksInv, QueueIsTrue
<1>2. parent = "awaiting"
  BY <1>1 DEF TasksInv, TasksTypeOK, Before, BranchesEndWithTheAwait
<1>3. /\ Queue(ready') /\ Runners(ready') = Runners(ready) /\ Inners(ready') = Inners(ready)
      /\ \/ /\ mode = "timeout" /\ resolved /\ timer' = "off" /\ resolved' = TRUE
            /\ Marks(ready') = Marks(ready)
         \/ /\ mode = "timeout" /\ ~resolved /\ timer' = "expired" /\ resolved' = TRUE
            /\ Marks(ready') = Marks(ready) \cup {Parent}
         \/ /\ mode # "timeout" /\ timer' = "fired" /\ resolved' = resolved
            /\ Marks(ready') = Marks(ready) \cup {Timer}
  <2>1. CASE mode = "timeout" /\ resolved
    BY <1>1, <2>1 DEF TimerFires
  <2>2. CASE mode = "timeout" /\ ~resolved
    BY <1>1, <2>2, ScheduleParent DEF TimerFires
  <2>3. CASE mode # "timeout"
    BY <1>1, <2>3, ScheduleTimer DEF TimerFires
  <2> QED
    BY <2>1, <2>2, <2>3
<1>4. TasksTypeOK'
  BY <1>1, <1>3 DEF TasksInv, TasksTypeOK, Queue
<1>5. QueueIsTrue'
  BY <1>1, <1>2, <1>3, FramesDiffer DEF TasksInv, QueueIsTrue
<1>6. Timed'
  BY <1>1, <1>3 DEF TasksInv, Timed
<1>7. Woken'
  BY <1>1, <1>3, FramesDiffer DEF TasksInv, Woken, Timed, Singles
<1>8. Decided' /\ Before' /\ Placed'
  BY <1>1, <1>2, <1>3 DEF TasksInv, Decided, Before, Placed, Timed, Branch, Branches, IsScope
<1>9. Active' = Active /\ Unborn' = Unborn
  BY <1>1 DEF Active, Unborn
<1>10. Held' /\ Won'
  BY <1>1, <1>2, <1>3, <1>9 DEF TasksInv, Held, Won, Timed, Branch, Branches, IsScope, Detached, Singles
<1>11. CountIsTrue'
  BY <1>1, <1>3, <1>9 DEF TasksInv, Timed, CountIsTrue, CountedEnds, CountedTasks, CountedReplies, Uncounted,
                          IsScope, Scopes
<1>12. BranchesEndWithTheAwait'
  BY <1>1, <1>2, <1>3 DEF TasksInv, BranchesEndWithTheAwait
<1>13. OutcomeIsTrue'
  BY <1>1, <1>2 DEF OutcomeIsTrue
<1> QED
  BY <1>4, <1>5, <1>6, <1>7, <1>8, <1>10, <1>11, <1>12, <1>13 DEF TasksInv

\* The timer coroutine runs.
LEMMA RunTimerKeeps ==
  ASSUME TasksInv, RunTimer
  PROVE  TasksInv'
<1>1. /\ ready # <<>> /\ Head(ready) = Timer /\ Queue(ready)
      /\ UNCHANGED <<mode, parent, outcome, runner, inner, left, ended, threw, handles, count, slot,
                     cancelled, deferred, awaited>>
  BY DEF RunTimer, TasksInv, QueueIsTrue, shared
<1>2. /\ Queue(Tail(ready)) /\ Marks(Tail(ready)) = Marks(ready) \ {Timer}
      /\ Runners(Tail(ready)) = Runners(ready) /\ Inners(Tail(ready)) = Inners(ready)
      /\ Timer \in Marks(ready)
  BY <1>1, PopQueue, PopKinds
<1>3. parent = "awaiting" /\ mode \in {"sleep", "join_all_for"} /\ timer \in {"fresh", "fired"}
  BY <1>2 DEF TasksInv, TasksTypeOK, QueueIsTrue, Before, BranchesEndWithTheAwait, Timed
<1>4. /\ Queue(ready') /\ Runners(ready') = Runners(ready) /\ Inners(ready') = Inners(ready)
      /\ Timer \notin Marks(ready')
      /\ Parent \in Marks(ready) => Parent \in Marks(ready')
      /\ timer' \in {"sleeping", "final"}
      /\ resolved' = resolved \/ (resolved' = TRUE /\ mode = "sleep")
  <2>1. CASE timer' = "sleeping" /\ ready' = Tail(ready) /\ UNCHANGED shared
    BY <1>2, <2>1, FramesDiffer DEF shared
  <2>2. CASE timer' = "final" /\ ready' = schedule_resume(Parent, Tail(ready))
             /\ resolved' = (resolved \/ mode = "sleep")
    <3>1. Queue(ready') /\ Runners(ready') = Runners(ready) /\ Inners(ready') = Inners(ready)
          /\ Marks(ready') = (Marks(ready) \ {Timer}) \cup {Parent}
      BY <1>2, <2>2, ScheduleParent
    <3>2. resolved' = resolved \/ (resolved' = TRUE /\ mode = "sleep")
      BY <2>2 DEF TasksInv, TasksTypeOK
    <3> QED
      BY <2>2, <3>1, <3>2, FramesDiffer
  <2>3. CASE timer' = "final" /\ ready' = Tail(ready) /\ resolved' = (resolved \/ mode = "sleep")
    <3>1. resolved' = resolved \/ (resolved' = TRUE /\ mode = "sleep")
      BY <2>3 DEF TasksInv, TasksTypeOK
    <3> QED
      BY <1>2, <2>3, <3>1, FramesDiffer
  <2> QED
    BY <2>1, <2>2, <2>3 DEF RunTimer
<1>5. TasksTypeOK'
  BY <1>1, <1>4 DEF TasksInv, TasksTypeOK, Queue
<1>6. QueueIsTrue'
  BY <1>1, <1>3, <1>4 DEF TasksInv, QueueIsTrue
<1>7. Timed' /\ Decided' /\ Before' /\ Placed'
  BY <1>1, <1>3, <1>4 DEF TasksInv, Timed, Decided, Before, Placed, Branch, Branches, IsScope
<1>8. Woken'
  BY <1>1, <1>3 DEF TasksInv, Woken, Singles
<1>9. Active' = Active /\ Unborn' = Unborn
  BY <1>1 DEF Active, Unborn
<1>10. Held' /\ Won'
  BY <1>1, <1>3, <1>9 DEF TasksInv, Held, Won, Branch, Branches, IsScope, Detached, Singles
<1>11. CountIsTrue'
  BY <1>1, <1>3, <1>4, <1>9 DEF TasksInv, CountIsTrue, CountedEnds, CountedTasks, CountedReplies, Uncounted,
                          IsScope, Scopes
<1>12. BranchesEndWithTheAwait' /\ OutcomeIsTrue'
  BY <1>1, <1>3 DEF BranchesEndWithTheAwait, OutcomeIsTrue
<1> QED
  BY <1>5, <1>6, <1>7, <1>8, <1>10, <1>11, <1>12 DEF TasksInv

\* The deferred frames go.
LEMMA DrainEndsKeeps ==
  ASSUME TasksInv, DrainEnds
  PROVE  TasksInv'
<1>1. /\ deferred' = {} /\ runner' = Freed(runner, deferred)
      /\ timer' = IF timer = "final" THEN "off" ELSE timer
      /\ UNCHANGED <<mode, parent, outcome, left, ended, threw, handles, resolved, count, slot, cancelled, ready, awaited>>
  BY DEF DrainEnds, shared
<1>2. inner' = Settle(parent, runner', inner)
  BY DEF DrainEnds
<1>3. runner \in [1..N -> {"none", "fresh", "waiting", "final", "freed"}]
  BY DEF TasksInv, TasksTypeOK
<1>4. /\ runner' \in [1..N -> {"none", "fresh", "waiting", "freed"}]
      /\ \A b \in 1..N : runner'[b] = IF runner[b] = "final" THEN "freed" ELSE runner[b]
  BY <1>1, <1>3 DEF TasksInv, QueueIsTrue, Freed
<1>5. /\ inner' \in [1..N -> {"fresh", "parked", "done", "freed"}]
      /\ \A b \in 1..N : inner'[b] \in {inner[b], "freed"}
      /\ \A b \in Branch : runner[b] \in {"fresh", "waiting"} => inner'[b] = inner[b]
  <2>1. \A b \in Branch : b \in 1..N /\ (runner[b] \in {"fresh", "waiting"} => runner'[b] \in {"fresh", "waiting"})
    BY <1>4, BranchFacts
  <2>2. inner \in [1..N -> {"fresh", "parked", "done", "freed"}]
    BY DEF TasksInv, TasksTypeOK
  <2>3. PICK par, run, inn, next : par = parent /\ run = runner' /\ inn = inner /\ next = inner'
    OBVIOUS
  <2>4. inn \in [1..N -> {"fresh", "parked", "done", "freed"}] /\ next = Settle(par, run, inn)
    BY <1>2, <2>2, <2>3
  <2>5. SettledAs(run, inn, next)
    BY <2>4, Settled
  <2> QED
    BY <2>1, <2>3, <2>5 DEF SettledAs
<1>6. Active' = Active /\ Unborn' = Unborn
  BY <1>4 DEF Active, Unborn
<1>7. Branch' = Branch /\ IsScope' = IsScope /\ Detached' = Detached
  BY <1>1 DEF Branch, Branches, IsScope, Detached
<1>8. TasksTypeOK'
  BY <1>1, <1>4, <1>5 DEF TasksInv, TasksTypeOK
<1>9. QueueIsTrue'
  <2>1. \A b \in 1..N : b \in Inners(ready) => inner'[b] = "parked"
    BY <1>5 DEF TasksInv, QueueIsTrue, Placed
  <2> QED
    BY <1>1, <1>4, <2>1 DEF TasksInv, QueueIsTrue
<1>10. Placed'
  BY <1>1, <1>4, <1>5, <1>7 DEF TasksInv, Placed
<1>11. Before' /\ Timed' /\ Decided' /\ Woken'
  BY <1>1, <1>4, <1>7 DEF TasksInv, Before, Timed, Decided, Woken
<1>12. Held' /\ Won'
  <2>1. Won'
    BY <1>1, <1>6 DEF TasksInv, Won
  <2>2. \A b \in 1..N : runner'[b] = "none" => runner[b] = "none"
    BY <1>4
  <2>3. Branch \subseteq 1..N
    BY BranchFacts
  <2>4. Held'
    BY <1>1, <1>6, <1>7, <2>2, <2>3 DEF TasksInv, Held
  <2> QED
    BY <2>1, <2>4
<1>13. CountIsTrue'
  BY <1>1, <1>6, <1>7 DEF TasksInv, CountIsTrue, CountedEnds, CountedTasks, CountedReplies, Uncounted
<1>14. BranchesEndWithTheAwait'
  BY <1>1, <1>4, <1>5 DEF TasksInv, BranchesEndWithTheAwait, TasksTypeOK
<1>15. OutcomeIsTrue'
  BY <1>1 DEF TasksInv, OutcomeIsTrue, Timed
<1> QED
  BY <1>8, <1>9, <1>10, <1>11, <1>12, <1>13, <1>14, <1>15 DEF TasksInv

-----------------------------------------------------------------------------
(* Counting branches *)

\* A set of branches is finite, and all of them if it has N members.
LEMMA BranchCount ==
  ASSUME NEW S \in SUBSET (1..N)
  PROVE  /\ IsFiniteSet(S) /\ Cardinality(S) \in Nat /\ Cardinality(S) <= N
         /\ Cardinality(S) = N => S = 1..N
         /\ Cardinality(S) = 0 <=> S = {}
<1>0. IsFiniteSet(1..N) /\ Cardinality(1..N) = N
  BY TaskBounds
<1>1. IsFiniteSet(S) /\ Cardinality(S) <= N /\ (Cardinality(S) = N => S = 1..N)
  BY <1>0, FS_Subset
<1>2. Cardinality(S) \in Nat /\ (Cardinality(S) = 0 <=> S = {})
  BY <1>1, FS_CardinalityType, FS_EmptySet
<1> QED
  BY <1>1, <1>2

\* One more, one less.
LEMMA CountOneMore ==
  ASSUME NEW S \in SUBSET (1..N), NEW b \in 1..N
  PROVE  /\ b \notin S => Cardinality(S \cup {b}) = Cardinality(S) + 1
         /\ b \in S => Cardinality(S \ {b}) = Cardinality(S) - 1
<1>1. IsFiniteSet(S)
  BY BranchCount
<1> QED
  BY <1>1, FS_AddElement, FS_RemoveElement

\* A subset has no more.
LEMMA CountSubset ==
  ASSUME NEW S \in SUBSET (1..N), NEW T \in SUBSET S
  PROVE  Cardinality(T) <= Cardinality(S)
<1>1. IsFiniteSet(S)
  BY BranchCount
<1> QED
  BY <1>1, FS_Subset

\* One element counts one.
LEMMA CountSingle == \A b : Cardinality({b}) = 1
BY FS_Singleton

-----------------------------------------------------------------------------
(* The parent goes on *)

\* The parent resumes when its await is over.
LEMMA RunParentKeeps ==
  ASSUME TasksInv, RunParent
  PROVE  TasksInv'
<1>1. /\ ready # <<>> /\ Head(ready) = Parent /\ Queue(ready)
      /\ parent' = "resumed" /\ outcome' = Outcome /\ timer' = TimerCancelled
      /\ inner' = Settle("resumed", runner, inner)
      /\ ready' = Without(Tail(ready), {Timer})
      /\ UNCHANGED <<mode, runner, left, ended, threw, handles, resolved, count, slot, cancelled, deferred, awaited>>
  BY DEF RunParent, TasksInv, QueueIsTrue, shared
<1>2. /\ Queue(Tail(ready)) /\ Marks(Tail(ready)) = Marks(ready) \ {Parent}
      /\ Runners(Tail(ready)) = Runners(ready) /\ Inners(Tail(ready)) = Inners(ready)
      /\ Parent \in Marks(ready)
  BY <1>1, PopQueue, PopKinds
<1>3. /\ Queue(ready') /\ Marks(ready') = {}
      /\ Runners(ready') = Runners(ready) /\ Inners(ready') = Inners(ready)
  <2>1. /\ Queue(ready') /\ Marks(ready') = Marks(Tail(ready)) \ {Timer}
        /\ Runners(ready') = Runners(ready) /\ Inners(ready') = Inners(ready)
    BY <1>1, <1>2, WithoutTimer
  <2>2. Marks(ready) \subseteq {Parent, Timer}
    BY DEF Marks
  <2> QED
    BY <1>2, <2>1, <2>2
<1>4. parent = "awaiting"
  BY <1>2 DEF TasksInv, QueueIsTrue
<1>5. SettledAs(runner, inner, inner')
  <2>1. PICK run, inn, next : run = runner /\ inn = inner /\ next = inner'
    OBVIOUS
  <2>2. inn \in [1..N -> {"fresh", "parked", "done", "freed"}] /\ next = Settle("resumed", run, inn)
    BY <1>1, <2>1 DEF TasksInv, TasksTypeOK
  <2>3. SettledAs(run, inn, next)
    BY <2>2, Settled
  <2> QED
    BY <2>1, <2>3
<1>6. Active' = Active /\ Unborn' = Unborn /\ Branch' = Branch /\ IsScope' = IsScope /\ Detached' = Detached
  BY <1>1 DEF Active, Unborn, Branch, Branches, IsScope, Detached
<1>7. /\ timer' \in {"off", "final", "expired"}
      /\ timer' = "final" => timer = "final"
      /\ timer' = "expired" <=> timer = "expired"
  BY <1>1 DEF TasksInv, TasksTypeOK, TimerCancelled
<1>8. outcome' \in {"value", "error", "timeout", "cancelled", "joined"}
  BY <1>1 DEF Outcome
<1>9. TasksTypeOK'
  BY <1>1, <1>3, <1>5, <1>7, <1>8 DEF TasksInv, TasksTypeOK, Queue, SettledAs
<1>10. QueueIsTrue'
  <2>1. \A b \in 1..N : b \in Inners(ready) => inner'[b] = "parked"
    BY <1>5 DEF TasksInv, QueueIsTrue, Placed, SettledAs
  <2> QED
    BY <1>1, <1>3, <1>7, <2>1 DEF TasksInv, QueueIsTrue
<1>11. Placed'
  BY <1>1, <1>5, <1>6 DEF TasksInv, Placed, SettledAs
<1>12. Before' /\ Timed' /\ Woken' /\ Decided'
  BY <1>1, <1>3, <1>7 DEF TasksInv, Before, Timed, Woken, Decided
<1>13. Held' /\ Won'
  BY <1>1, <1>2, <1>6 DEF TasksInv, Held, Won, Woken
<1>14. CountIsTrue'
  BY <1>1, <1>6 DEF TasksInv, CountIsTrue, CountedEnds, CountedTasks, CountedReplies, Uncounted
<1>15. BranchesEndWithTheAwait'
  <2>1. ASSUME mode \in {"when_all", "when_any", "cancellable"}, NEW b \in 1..N
        PROVE  runner[b] \in {"none", "final", "freed"} /\ inner[b] \in {"done", "freed"}
    <3>1. runner[b] \in {"none", "fresh", "waiting", "final", "freed"}
      BY DEF TasksInv, TasksTypeOK
    <3>2. CASE mode = "when_all"
      BY <1>2, <3>2 DEF TasksInv, Woken, Placed
    <3>3. CASE mode \in {"when_any", "cancellable"}
      <4>1. Active = {}
        BY <1>2, <3>3 DEF TasksInv, Woken, Won, Held, Singles
      <4>2. runner[b] \in {"none", "final", "freed"}
        BY <3>1, <4>1 DEF Active
      <4>3. ~IsScope
        BY <3>3 DEF IsScope, Scopes
      <4>4. b \in Branch => runner[b] # "none"
        BY <1>4, <4>3 DEF TasksInv, Held
      <4> QED
        BY <4>2, <4>4 DEF TasksInv, Placed
    <3> QED
      BY <2>1, <3>2, <3>3
  <2>2. \A b \in 1..N : inner'[b] \in {inner[b], "freed"}
    BY <1>5 DEF SettledAs
  <2>3. mode = "when_any" /\ resolved => \A b \in 1..N \ ended : runner[b] = "freed" /\ inner[b] = "freed"
    BY DEF TasksInv, BranchesEndWithTheAwait
  <2> QED
    BY <1>1, <1>7, <2>1, <2>2, <2>3 DEF BranchesEndWithTheAwait
<1>16. OutcomeIsTrue'
  <2>0. threw \subseteq ended /\ ended \subseteq 1..N /\ awaited \subseteq 1..N /\ mode \in Mode
    BY DEF TasksInv, TasksTypeOK
  <2>1. ASSUME mode \in {"when_all", "join_all"} PROVE awaited \subseteq ended
    BY <1>2, <2>0, <2>1 DEF TasksInv, Woken
  <2>2. ASSUME mode = "join_all_for", outcome' = "joined" PROVE awaited \subseteq ended
    <3>1. count = 0
      BY <1>1, <2>2 DEF Outcome
    <3>2. IsScope
      BY <2>2 DEF IsScope, Scopes
    <3>3. Cardinality(Active) = 0 /\ awaited \subseteq ended \cup Active
      BY <1>4, <3>1, <3>2 DEF TasksInv, CountIsTrue, CountedTasks
    <3>4. Active = {}
      BY <3>3, BranchCount DEF Active
    <3> QED
      BY <3>3, <3>4
  <2>3. ASSUME mode = "join_any" PROVE ended # {}
    BY <1>2, <2>3 DEF TasksInv, Woken
  <2>4. ASSUME mode = "when_any" PROVE Cardinality(ended) = 1
    BY <1>2, <2>4, CountSingle DEF TasksInv, Woken, Won
  <2>5. ASSUME mode \in {"when_all", "when_any"} PROVE outcome' = "error" <=> threw # {}
    BY <1>1, <2>5 DEF Outcome, IsScope, Scopes
  <2>6. ASSUME mode \in Singles, outcome' \in {"value", "error"}
        PROVE  ended = {1} /\ (outcome' = "error" <=> threw = {1})
    <3>1. ended = {1}
      BY <1>1, <1>2, <2>6 DEF TasksInv, Woken, Outcome, Singles
    <3>2. outcome' = "error" <=> threw # {}
      BY <1>1, <2>6 DEF Outcome, Singles, IsScope, Scopes
    <3> QED
      BY <2>0, <3>1, <3>2
  <2>7. ASSUME mode = "timeout" PROVE outcome' = "timeout" <=> timer' = "expired"
    BY <1>1, <1>7, <2>7 DEF Outcome, IsScope, Scopes
  <2>8. ASSUME mode = "quorum"
        PROVE  /\ outcome' = "value" => Cardinality(ended \ threw) >= Need
               /\ outcome' = "error" => Cardinality(threw) > N - Need
    <3>1. /\ resolved /\ count <= Cardinality(ended \ threw)
          /\ count >= Need \/ Cardinality(threw) > N - Need
      BY <1>2, <2>8 DEF TasksInv, Woken, CountIsTrue, CountedReplies
    <3>2. Cardinality(ended \ threw) \in Nat /\ count \in Nat /\ Need \in Nat
      BY <2>0, BranchCount, TaskBounds DEF TasksInv, TasksTypeOK
    <3>3. outcome' = "value" => ~(count < Need)
      BY <1>1, <2>8 DEF Outcome
    <3>4. outcome' = "error" => count < Need
      BY <1>1, <2>8 DEF Outcome
    <3> QED
      BY <3>1, <3>2, <3>3, <3>4
  <2>9. ASSUME outcome' = "cancelled" PROVE cancelled
    BY <1>1, <2>9 DEF Outcome
  <2> QED
    BY <1>1, <2>1, <2>2, <2>3, <2>4, <2>5, <2>6, <2>7, <2>8, <2>9 DEF OutcomeIsTrue
<1> QED
  BY <1>9, <1>10, <1>11, <1>12, <1>13, <1>14, <1>15, <1>16 DEF TasksInv

\* The parent's frame is destroyed, and with it the branches it waits for.
LEMMA DestroyParentKeeps ==
  ASSUME TasksInv, DestroyParent
  PROVE  TasksInv'
<1> DEFINE bs == IF mode \in Singles /\ resolved THEN {} ELSE handles
<1>1. /\ parent = "awaiting" /\ parent' = "destroyed" /\ Queue(ready)
      /\ resolved' = (resolved \/ mode \in Singles \union {"sleep"})
      /\ handles' = handles \ bs
      /\ runner' = Freed(runner, bs)
      /\ inner' = Settle("destroyed", runner', Freed(inner, bs))
      /\ timer' = IF mode = "timeout" THEN "off" ELSE TimerCancelled
      /\ ready' = Without(scrub(ready, bs), {Parent, Timer})
      /\ UNCHANGED <<mode, outcome, left, ended, threw, count, slot, cancelled, deferred, awaited>>
  BY DEF DestroyParent, TasksInv, QueueIsTrue
<1>2. /\ bs \subseteq Active
      /\ mode \in {"when_all", "when_any", "cancellable"} => bs = Active
      /\ IsScope \/ mode \in {"quorum", "sleep"} => bs = {} /\ handles = {}
  <2>1. mode \in Singles <=> mode \in {"timeout", "cancellable"}
    BY DEF Singles
  <2>2. mode \in {"when_all", "when_any", "timeout", "cancellable", "sleep", "quorum"} \/ IsScope
    BY TaskBounds DEF TasksInv, TasksTypeOK, IsScope, Scopes
  <2>3. IsScope \/ mode \in {"quorum", "sleep"} => handles = {}
    BY DEF TasksInv, Held, Detached
  <2>4. mode \in {"when_all", "when_any"} => handles = Active
    BY <1>1 DEF TasksInv, Held
  <2>5. mode \in Singles /\ ~resolved => handles = Active
    BY <1>1 DEF TasksInv, Held
  <2>6. mode = "cancellable" /\ resolved => Active = {}
    BY DEF TasksInv, Held
  <2> QED
    BY <2>1, <2>2, <2>3, <2>4, <2>5, <2>6
<1> HIDE DEF bs
<1>3. bs \in SUBSET (1..N) /\ \A b \in bs : runner[b] \in {"fresh", "waiting"}
  BY <1>2 DEF Active
<1>4. /\ Queue(ready') /\ Marks(ready') = {}
      /\ Runners(ready') = Runners(ready) \ bs /\ Inners(ready') = Inners(ready) \ bs
  <2>1. /\ Queue(scrub(ready, bs)) /\ Runners(scrub(ready, bs)) = Runners(ready) \ bs
        /\ Inners(scrub(ready, bs)) = Inners(ready) \ bs
    BY <1>1, <1>3, ScrubQueue
  <2> QED
    BY <1>1, <2>1, WithoutOwner
<1>5. /\ runner \in [1..N -> {"none", "fresh", "waiting", "final", "freed"}]
      /\ inner \in [1..N -> {"fresh", "parked", "done", "freed"}]
      /\ timer \in {"off", "fresh", "sleeping", "fired", "final", "expired"}
      /\ resolved \in BOOLEAN /\ handles \subseteq 1..N
  BY DEF TasksInv, TasksTypeOK
<1>6. /\ runner' \in [1..N -> {"none", "fresh", "waiting", "final", "freed"}]
      /\ \A b \in 1..N : runner'[b] = IF b \in bs THEN "freed" ELSE runner[b]
  BY <1>1, <1>5 DEF Freed
<1>7. /\ inner' \in [1..N -> {"fresh", "parked", "done", "freed"}]
      /\ \A b \in bs : inner'[b] = "freed"
      /\ \A b \in 1..N \ bs : inner'[b] \in {inner[b], "freed"}
      /\ \A b \in Branch \ bs : runner[b] \in {"fresh", "waiting"} => inner'[b] = inner[b]
  <2>1. PICK run, inn, next : run = runner' /\ inn = Freed(inner, bs) /\ next = inner'
    OBVIOUS
  <2>2. /\ inn \in [1..N -> {"fresh", "parked", "done", "freed"}]
        /\ \A b \in 1..N : inn[b] = IF b \in bs THEN "freed" ELSE inner[b]
    BY <1>5, <2>1 DEF Freed
  <2>3. next = Settle("destroyed", run, inn)
    BY <1>1, <2>1
  <2>4. SettledAs(run, inn, next)
    BY <2>2, <2>3, Settled
  <2>5. Branch \subseteq 1..N
    BY BranchFacts
  <2>6. \A b \in 1..N \ bs : run[b] = runner[b]
    BY <1>6, <2>1
  <2> QED
    BY <1>3, <2>1, <2>2, <2>4, <2>5, <2>6 DEF SettledAs
<1>8. Active' = Active \ bs /\ Unborn' = Unborn /\ Branch' = Branch /\ IsScope' = IsScope /\ Detached' = Detached
  <2>1. Active' = Active \ bs
    BY <1>6 DEF Active
  <2>2. Unborn' = Unborn
    BY <1>3, <1>6 DEF Unborn
  <2> QED
    BY <1>1, <2>1, <2>2 DEF Branch, Branches, IsScope, Detached
<1>9. /\ timer' \in {"off", "final", "expired"}
      /\ timer' # "off" => timer' = timer /\ mode # "timeout"
  BY <1>1, <1>5 DEF TimerCancelled
<1>10. TasksTypeOK'
  BY <1>1, <1>4, <1>5, <1>6, <1>7, <1>9 DEF TasksInv, TasksTypeOK, Queue
<1>11. QueueIsTrue'
  <2>1. ASSUME NEW b \in 1..N, b \in Inners(ready) \ bs PROVE inner'[b] = "parked"
    <3>1. inner[b] = "parked" /\ runner[b] = "waiting" /\ b \in Branch
      BY <2>1 DEF TasksInv, QueueIsTrue, Placed
    <3> QED
      BY <1>7, <2>1, <3>1
  <2>2. ASSUME NEW b \in 1..N
        PROVE  (b \in Runners(ready) \ bs <=> runner'[b] = "fresh") /\ (b \in deferred <=> runner'[b] = "final")
    BY <1>3, <1>6 DEF TasksInv, QueueIsTrue
  <2> QED
    BY <1>1, <1>4, <1>9, <2>1, <2>2 DEF QueueIsTrue
<1>12. Placed'
  <2> SUFFICES ASSUME NEW b \in 1..N
               PROVE  /\ b \notin Branch => runner'[b] = "none" /\ inner'[b] = "freed"
                      /\ inner'[b] = "parked" => runner'[b] = "waiting"
                      /\ runner'[b] \in {"final", "freed"} => inner'[b] \in {"done", "freed"}
                      /\ b \in ended => runner'[b] \in {"final", "freed"}
    BY <1>1, <1>8 DEF Placed
  <2>1. /\ b \notin Branch => runner[b] = "none" /\ inner[b] = "freed"
        /\ inner[b] = "parked" => runner[b] = "waiting"
        /\ runner[b] \in {"final", "freed"} => inner[b] \in {"done", "freed"}
        /\ b \in ended => runner[b] \in {"final", "freed"}
    BY DEF TasksInv, Placed
  <2>2. CASE b \in bs
    BY <1>3, <1>6, <1>7, <2>1, <2>2
  <2>3. CASE b \notin bs
    BY <1>6, <1>7, <2>1, <2>3
  <2> QED
    BY <2>2, <2>3
<1>13. Before' /\ Timed' /\ Woken' /\ Decided'
  BY <1>1, <1>4, <1>9 DEF TasksInv, Before, Timed, Woken, Decided
<1>14. Held'
  <2>1. mode = "cancellable" => Active' = {}
    BY <1>2, <1>8
  <2>2. Detached \/ mode = "sleep" => handles' = {}
    BY <1>1, <1>2 DEF Detached
  <2> QED
    BY <1>1, <1>8, <2>1, <2>2 DEF Held, Singles
<1>15. Won'
  BY <1>1, <1>8 DEF TasksInv, Won, Singles
<1>16. CountIsTrue'
  <2>1. IsScope => Active' = Active
    BY <1>2, <1>8
  <2> QED
    BY <1>1, <1>8, <2>1
    DEF TasksInv, CountIsTrue, CountedEnds, CountedTasks, CountedReplies, Uncounted, Singles
<1>17. BranchesEndWithTheAwait'
  <2>1. ASSUME mode \in {"when_all", "when_any", "cancellable"}, NEW b \in 1..N
        PROVE  runner'[b] \in {"none", "final", "freed"} /\ inner'[b] \in {"done", "freed"}
    <3>1. ~IsScope
      BY <2>1 DEF IsScope, Scopes
    <3>2. b \in Branch => runner[b] # "none"
      BY <1>1, <3>1 DEF TasksInv, Held
    <3>3. CASE b \in bs
      BY <1>6, <1>7, <3>3
    <3>4. CASE b \notin bs
      <4>1. runner[b] \in {"none", "final", "freed"}
        BY <1>2, <1>5, <2>1, <3>4 DEF Active
      <4>2. inner[b] \in {"done", "freed"}
        BY <3>2, <4>1 DEF TasksInv, Placed
      <4> QED
        BY <1>6, <1>7, <3>4, <4>1, <4>2
    <3> QED
      BY <3>3, <3>4
  <2>2. ASSUME mode = "when_any", resolved, NEW b \in 1..N \ ended
        PROVE  runner'[b] = "freed" /\ inner'[b] = "freed"
    <3>1. runner[b] = "freed" /\ inner[b] = "freed"
      BY <2>2 DEF TasksInv, BranchesEndWithTheAwait
    <3> QED
      BY <1>6, <1>7, <3>1
  <2>3. mode = "when_any" => resolved' = resolved
    BY <1>1, <1>5 DEF Singles
  <2> QED
    BY <1>1, <1>9, <2>1, <2>2, <2>3 DEF BranchesEndWithTheAwait
<1>18. OutcomeIsTrue'
  BY <1>1 DEF OutcomeIsTrue
<1> QED
  BY <1>10, <1>11, <1>12, <1>13, <1>14, <1>15, <1>16, <1>17, <1>18 DEF TasksInv

\* The token of a cancellable operation or sleep.
LEMMA CancelKeeps ==
  ASSUME TasksInv, Cancel
  PROVE  TasksInv'
<1> DEFINE hits == parent = "awaiting" /\ ~resolved
           bs == IF hits THEN handles ELSE {}
           q == scrub(IF hits THEN Without(ready, {Timer}) ELSE ready, bs)
<1>1. /\ mode \in {"cancellable", "sleep"} /\ Queue(ready)
      /\ cancelled' = TRUE /\ resolved' = (resolved \/ hits) /\ handles' = handles \ bs
      /\ runner' = Freed(runner, bs) /\ inner' = Freed(inner, bs)
      /\ timer' = (IF hits THEN TimerCancelled ELSE timer)
      /\ ready' = (IF hits THEN schedule_resume(Parent, q) ELSE q)
      /\ UNCHANGED <<mode, parent, outcome, left, ended, threw, count, slot, deferred, awaited>>
  BY DEF Cancel, TasksInv, QueueIsTrue
<1>2. /\ runner \in [1..N -> {"none", "fresh", "waiting", "final", "freed"}]
      /\ inner \in [1..N -> {"fresh", "parked", "done", "freed"}]
      /\ timer \in {"off", "fresh", "sleeping", "fired", "final", "expired"}
      /\ resolved \in BOOLEAN /\ handles \subseteq 1..N
  BY DEF TasksInv, TasksTypeOK
<1>3. hits => bs = Active
  <2>1. mode = "cancellable" /\ hits => handles = Active
    BY DEF TasksInv, Held, Singles
  <2>2. mode = "sleep" => handles = {} /\ Active = {}
    <3>1. mode = "sleep" => Branch = {}
      BY BranchFacts
    <3> QED
      BY <3>1 DEF TasksInv, Held, Placed, Active
  <2> QED
    BY <1>1, <2>1, <2>2
<1>4. ~hits => bs = {}
  OBVIOUS
<1>5. bs \in SUBSET (1..N) /\ \A b \in bs : runner[b] \in {"fresh", "waiting"}
  BY <1>3, <1>4 DEF Active
<1>6. /\ Queue(ready')
      /\ Runners(ready') = Runners(ready) \ bs /\ Inners(ready') = Inners(ready) \ bs
      /\ hits => Parent \in Marks(ready') /\ Timer \notin Marks(ready')
      /\ ~hits => Marks(ready') = Marks(ready)
  <2>1. CASE hits
    <3>1. PICK r : r = Without(ready, {Timer})
      OBVIOUS
    <3>2. Queue(r) /\ Marks(r) = Marks(ready) \ {Timer} /\ Runners(r) = Runners(ready) /\ Inners(r) = Inners(ready)
      BY <1>1, <3>1, WithoutTimer
    <3>3. q = scrub(r, bs)
      BY <2>1, <3>1
    <3> HIDE DEF q
    <3>4. Queue(q) /\ Marks(q) = Marks(r) /\ Runners(q) = Runners(r) \ bs /\ Inners(q) = Inners(r) \ bs
      BY <1>5, <3>2, <3>3, ScrubQueue
    <3>5. Queue(ready') /\ Marks(ready') = Marks(q) \cup {Parent} /\ Runners(ready') = Runners(q) /\ Inners(ready') = Inners(q)
      BY <1>1, <2>1, <3>4, ScheduleParent
    <3> QED
      BY <2>1, <3>2, <3>4, <3>5, FramesDiffer
  <2>2. CASE ~hits
    <3>1. ready' = scrub(ready, bs)
      BY <1>1, <2>2
    <3> QED
      BY <1>1, <1>5, <2>2, <3>1, ScrubQueue
  <2> QED
    BY <2>1, <2>2
<1> HIDE DEF bs, q
<1>7. /\ runner' \in [1..N -> {"none", "fresh", "waiting", "final", "freed"}]
      /\ inner' \in [1..N -> {"fresh", "parked", "done", "freed"}]
      /\ \A b \in 1..N : /\ runner'[b] = IF b \in bs THEN "freed" ELSE runner[b]
                         /\ inner'[b] = IF b \in bs THEN "freed" ELSE inner[b]
  BY <1>1, <1>2 DEF Freed
<1>8. Active' = Active \ bs /\ Unborn' = Unborn /\ Branch' = Branch /\ IsScope' = IsScope /\ Detached' = Detached
  <2>1. Active' = Active \ bs
    BY <1>7 DEF Active
  <2>2. Unborn' = Unborn
    BY <1>5, <1>7 DEF Unborn
  <2> QED
    BY <1>1, <2>1, <2>2 DEF Branch, Branches, IsScope, Detached
<1>9. /\ timer' \in {"off", "fresh", "sleeping", "fired", "final", "expired"}
      /\ hits => timer' \in {"off", "final", "expired"}
      /\ timer' # "off" => timer' = timer
      /\ timer' = "off" /\ ~hits => timer = "off"
  BY <1>1, <1>2 DEF TimerCancelled
<1>10. TasksTypeOK'
  BY <1>1, <1>2, <1>6, <1>7, <1>9 DEF TasksInv, TasksTypeOK, Queue
<1>11. QueueIsTrue'
  <2>1. ASSUME NEW b \in 1..N
        PROVE  /\ b \in Runners(ready) \ bs <=> runner'[b] = "fresh"
               /\ b \in deferred <=> runner'[b] = "final"
               /\ b \in Inners(ready) \ bs => inner'[b] = "parked"
    BY <1>5, <1>7 DEF TasksInv, QueueIsTrue
  <2>2. Timer \in Marks(ready') <=> timer' \in {"fresh", "fired"}
    BY <1>1, <1>6, <1>9 DEF TasksInv, QueueIsTrue
  <2> QED
    BY <1>1, <1>6, <2>1, <2>2 DEF TasksInv, QueueIsTrue
<1>12. Placed'
  BY <1>1, <1>5, <1>7, <1>8 DEF TasksInv, Placed
<1>13. Before' /\ Timed' /\ Decided'
  <2>1. Timed'
    BY <1>1, <1>9 DEF TasksInv, Timed
  <2>2. Decided'
    BY <1>1 DEF Decided
  <2>3. ASSUME parent = "fresh" PROVE ~hits /\ handles' = handles /\ resolved' = resolved /\ timer' = timer
    BY <1>1, <1>2, <1>4, <2>3
  <2>4. ASSUME parent = "fresh" PROVE \A b \in 1..N : runner'[b] = runner[b]
    BY <1>4, <1>7, <2>3, <2>4
  <2>5. Before'
    BY <1>1, <1>8, <2>3, <2>4 DEF TasksInv, Before
  <2> QED
    BY <2>1, <2>2, <2>5
<1>14. Woken'
  BY <1>1, <1>6 DEF TasksInv, Woken, Singles
<1>15. Held'
  <2>1. mode = "cancellable" /\ resolved' => Active' = {}
    BY <1>1, <1>3, <1>8 DEF TasksInv, Held
  <2>2. mode = "sleep" => handles' = {}
    BY <1>1 DEF TasksInv, Held
  <2>3. parent = "awaiting" => resolved'
    BY <1>1
  <2>4. parent = "awaiting" => \A b \in Branch : runner[b] # "none"
    BY <1>1 DEF TasksInv, Held, IsScope, Scopes
  <2>5. \A b \in Branch : runner'[b] = "none" => runner[b] = "none"
    BY <1>7, BranchFacts
  <2>6. mode \in Singles /\ ~resolved' /\ parent \in {"resumed", "destroyed"} => Active' = {}
    BY <1>1, <1>8 DEF TasksInv, Held
  <2> QED
    BY <1>1, <1>8, <2>1, <2>2, <2>3, <2>4, <2>5, <2>6 DEF Held, Detached, IsScope, Scopes, Singles
<1>16. Won' /\ CountIsTrue'
  BY <1>1 DEF TasksInv, Won, CountIsTrue, CountedEnds, CountedTasks, CountedReplies, Uncounted, IsScope, Scopes
<1>17. BranchesEndWithTheAwait'
  BY <1>1, <1>7, <1>9 DEF TasksInv, BranchesEndWithTheAwait
<1>18. OutcomeIsTrue'
  <2>1. parent = "resumed" => timer' = timer
    BY <1>1
  <2> QED
    BY <1>1, <2>1 DEF TasksInv, OutcomeIsTrue
<1> QED
  BY <1>10, <1>11, <1>12, <1>13, <1>14, <1>15, <1>16, <1>17, <1>18 DEF TasksInv

\* The scheduler is reset while nobody is queued.
LEMMA ResetKeeps ==
  ASSUME TasksInv, Reset, ResetWhen = "idle"
  PROVE  TasksInv'
<1>1. /\ parent \in {"awaiting", "resumed", "destroyed"} /\ deferred = {} /\ timer # "final" /\ ready = <<>>
      /\ parent' = (IF parent = "awaiting" THEN "destroyed" ELSE parent)
      /\ inner' = [b \in 1..N |-> IF IsScope /\ runner[b] = "none" THEN inner[b] ELSE "freed"]
      /\ timer' = TimerCancelled /\ handles' = {}
      /\ ready' = Without(ready, {Inner(b) : b \in 1..N})
      /\ resolved' = (resolved \/ mode \in Singles \union {"sleep"})
      /\ UNCHANGED <<mode, outcome, left, ended, threw, count, slot, cancelled, deferred, awaited>>
  BY DEF Reset
<1>2. runner' = Freed(runner, Active)
  BY DEF Reset, Active
<1>3. /\ runner \in [1..N -> {"none", "fresh", "waiting", "final", "freed"}]
      /\ inner \in [1..N -> {"fresh", "parked", "done", "freed"}]
      /\ timer \in {"off", "fresh", "sleeping", "fired", "final", "expired"}
      /\ resolved \in BOOLEAN
  BY DEF TasksInv, TasksTypeOK
<1>4. Queue(ready) /\ Marks(ready) = {} /\ Runners(ready) = {} /\ Inners(ready) = {}
  BY <1>1, NobodyQueued
<1>5. Queue(ready') /\ Marks(ready') = {} /\ Runners(ready') = {} /\ Inners(ready') = {}
  <2>1. PICK S : S = {Inner(b) : b \in 1..N}
    OBVIOUS
  <2>2. Without(ready, S) \in Seq(Frames) /\ IsInjective(Without(ready, S)) /\ Range(Without(ready, S)) = Range(ready) \ S
    BY <1>4, WithoutIsTrue DEF Queue
  <2>3. Queue(ready') /\ Range(ready') \subseteq Range(ready)
    BY <1>1, <2>1, <2>2 DEF Queue
  <2> QED
    BY <1>4, <2>3 DEF Marks, Runners, Inners
<1>6. \A b \in 1..N : runner[b] \in {"none", "waiting", "freed"}
  BY <1>1, <1>3, <1>4 DEF TasksInv, QueueIsTrue
<1>7. /\ runner' \in [1..N -> {"none", "fresh", "waiting", "final", "freed"}]
      /\ \A b \in 1..N : runner'[b] = IF runner[b] = "none" THEN "none" ELSE "freed"
  BY <1>2, <1>3, <1>6 DEF Freed, Active
<1>8. /\ inner' \in [1..N -> {"fresh", "parked", "done", "freed"}]
      /\ \A b \in 1..N : inner'[b] = IF IsScope /\ runner[b] = "none" THEN inner[b] ELSE "freed"
  BY <1>1, <1>3
<1>9. Active' = {} /\ Unborn' = Unborn /\ Branch' = Branch /\ IsScope' = IsScope /\ Detached' = Detached
  <2>1. Active' = {}
    BY <1>7 DEF Active
  <2>2. Unborn' = Unborn
    BY <1>7 DEF Unborn
  <2> QED
    BY <1>1, <2>1, <2>2 DEF Branch, Branches, IsScope, Detached
<1>10. timer' \in {"off", "expired"} /\ (timer' = "expired" <=> timer = "expired")
  BY <1>1, <1>3 DEF TimerCancelled
<1>11. parent' \in {"resumed", "destroyed"} /\ (parent' = "resumed" => parent = "resumed")
  BY <1>1
<1>12. TasksTypeOK'
  BY <1>1, <1>3, <1>5, <1>7, <1>8, <1>10, <1>11 DEF TasksInv, TasksTypeOK, Queue
<1>13. QueueIsTrue'
  BY <1>1, <1>5, <1>7, <1>10 DEF QueueIsTrue
<1>14. Placed'
  BY <1>1, <1>7, <1>8, <1>9 DEF TasksInv, Placed
<1>15. Before' /\ Timed' /\ Woken' /\ Decided'
  BY <1>1, <1>5, <1>10, <1>11 DEF TasksInv, Before, Timed, Woken, Decided
<1>16. Held' /\ Won'
  BY <1>1, <1>9, <1>11 DEF TasksInv, Held, Won, Singles
<1>17. CountIsTrue'
  <2>1. CountedTasks'
    <3>1. Cardinality(Active') = 0
      BY <1>9, FS_EmptySet
    <3>2. count \in Nat /\ count' = count
      BY <1>1, TaskBounds DEF TasksInv, TasksTypeOK
    <3> QED
      BY <1>1, <1>9, <1>11, <3>1, <3>2 DEF TasksInv, CountIsTrue, CountedTasks
  <2>2. CountedEnds' /\ CountedReplies' /\ Uncounted'
    BY <1>1 DEF TasksInv, CountIsTrue, CountedEnds, CountedReplies, Uncounted, Singles
  <2> QED
    BY <2>1, <2>2 DEF CountIsTrue
<1>18. BranchesEndWithTheAwait'
  <2>1. ASSUME ~IsScope, NEW b \in 1..N PROVE inner'[b] = "freed" /\ runner'[b] \in {"none", "freed"}
    BY <1>7, <1>8, <2>1
  <2>2. ASSUME mode = "when_any", resolved, NEW b \in 1..N \ ended PROVE runner'[b] = "freed"
    <3>1. runner[b] = "freed"
      BY <2>2 DEF TasksInv, BranchesEndWithTheAwait
    <3> QED
      BY <1>7, <3>1
  <2>3. mode = "when_any" => resolved' = resolved
    BY <1>1, <1>3 DEF Singles
  <2>4. mode \in {"when_all", "when_any", "cancellable"} => ~IsScope
    BY DEF IsScope, Scopes
  <2> QED
    BY <1>1, <1>10, <2>1, <2>2, <2>3, <2>4 DEF BranchesEndWithTheAwait
<1>19. OutcomeIsTrue'
  BY <1>1, <1>10, <1>11 DEF TasksInv, OutcomeIsTrue
<1> QED
  BY <1>12, <1>13, <1>14, <1>15, <1>16, <1>17, <1>18, <1>19 DEF TasksInv

-----------------------------------------------------------------------------
(* The await begins *)

\* A task is spawned in a scope.
LEMMA SpawnKeeps ==
  ASSUME TasksInv, NEW b \in Branch, Spawn(b)
  PROVE  TasksInv'
<1>0. b \in 1..N
  BY BranchFacts
<1>1. /\ IsScope /\ runner[b] = "none" /\ Queue(ready)
      /\ runner' = [runner EXCEPT ![b] = "fresh"] /\ count' = count + 1
      /\ ready' = Append(ready, Runner(b))
      /\ UNCHANGED <<mode, parent, outcome, inner, left, ended, threw, handles, resolved, slot, timer, cancelled,
                     deferred, awaited>>
  BY DEF Spawn, TasksInv, QueueIsTrue
<1>2. mode \in {"join_all", "join_any", "join_all_for"}
  BY <1>1 DEF IsScope, Scopes
<1>3. runner \in [1..N -> {"none", "fresh", "waiting", "final", "freed"}]
  BY DEF TasksInv, TasksTypeOK
<1>4. /\ runner' \in [1..N -> {"none", "fresh", "waiting", "final", "freed"}]
      /\ \A c \in 1..N : runner'[c] = IF c = b THEN "fresh" ELSE runner[c]
  BY <1>1, <1>3
<1>5. b \notin Runners(ready)
  BY <1>0, <1>1 DEF TasksInv, QueueIsTrue
<1>6. /\ Queue(ready') /\ Marks(ready') = Marks(ready) /\ Runners(ready') = Runners(ready) \cup {b}
      /\ Inners(ready') = Inners(ready)
  BY <1>0, <1>1, <1>5, AppendRunner
<1>7. /\ Active' = Active \cup {b} /\ b \notin Active /\ Unborn' = Unborn \ {b} /\ b \in Unborn
      /\ Active \in SUBSET (1..N) /\ Unborn \in SUBSET (1..N)
  <2>1. Active' = Active \cup {b} /\ b \notin Active
    BY <1>0, <1>1, <1>4 DEF Active
  <2>2. Unborn' = Unborn \ {b} /\ b \in Unborn
    BY <1>0, <1>1, <1>4 DEF Unborn
  <2> QED
    BY <2>1, <2>2 DEF Active, Unborn
<1>8. /\ Cardinality(Active') = Cardinality(Active) + 1 /\ Cardinality(Unborn') = Cardinality(Unborn) - 1
      /\ Cardinality(Active) \in Nat /\ Cardinality(Unborn) \in Nat /\ Cardinality(Unborn) # 0
  <2>1. PICK A, U : A = Active /\ U = Unborn
    OBVIOUS
  <2>2. A \in SUBSET (1..N) /\ U \in SUBSET (1..N) /\ b \notin A /\ b \in U
    BY <1>7, <2>1
  <2>3. /\ Cardinality(A \cup {b}) = Cardinality(A) + 1 /\ Cardinality(U \ {b}) = Cardinality(U) - 1
        /\ Cardinality(A) \in Nat /\ Cardinality(U) \in Nat /\ Cardinality(U) # 0
    BY <1>0, <2>2, CountOneMore, BranchCount
  <2> QED
    BY <1>7, <2>1, <2>3
<1>9. Branch' = Branch /\ IsScope' = IsScope /\ Detached' = Detached
  BY <1>1 DEF Branch, Branches, IsScope, Detached
<1>10. CountedTasks'
  <2>1. count \in Nat
    BY DEF TasksInv, TasksTypeOK
  <2>2. /\ count >= Cardinality(Active) /\ count + Cardinality(Unborn) <= N
        /\ parent \in {"fresh", "awaiting"} => count = Cardinality(Active)
        /\ parent = "awaiting" => awaited \subseteq ended \cup Active
    BY <1>1 DEF TasksInv, CountIsTrue, CountedTasks
  <2>3. N \in Nat
    BY TaskBounds
  <2>4. /\ count' >= Cardinality(Active') /\ count' + Cardinality(Unborn') <= N
        /\ parent \in {"fresh", "awaiting"} => count' = Cardinality(Active')
    BY <1>1, <1>8, <2>1, <2>2, <2>3
  <2> QED
    BY <1>1, <1>7, <2>2, <2>4 DEF CountedTasks
<1>11. TasksTypeOK'
  <2>1. count' \in 0..N
    <3>1. count \in Nat /\ N \in Nat /\ count + Cardinality(Unborn) <= N
      BY <1>1, TaskBounds DEF TasksInv, TasksTypeOK, CountIsTrue, CountedTasks
    <3> QED
      BY <1>1, <1>8, <3>1
  <2> QED
    BY <1>1, <1>4, <1>6, <2>1 DEF TasksInv, TasksTypeOK, Queue
<1>12. QueueIsTrue'
  BY <1>0, <1>1, <1>4, <1>6 DEF TasksInv, QueueIsTrue
<1>13. Placed'
  BY <1>1, <1>4, <1>9 DEF TasksInv, Placed
<1>14. Before' /\ Timed' /\ Woken' /\ Decided'
  BY <1>1, <1>2, <1>6, <1>9 DEF TasksInv, Before, Timed, Woken, Decided
<1>15. Held' /\ Won'
  BY <1>1, <1>2, <1>9 DEF TasksInv, Held, Won, Detached, Singles
<1>16. CountIsTrue'
  BY <1>1, <1>2, <1>9, <1>10 DEF CountIsTrue, CountedEnds, CountedReplies, Uncounted, Scopes
<1>17. BranchesEndWithTheAwait'
  BY <1>1, <1>2 DEF TasksInv, BranchesEndWithTheAwait
<1>18. OutcomeIsTrue'
  BY <1>1, <1>2 DEF TasksInv, OutcomeIsTrue
<1> QED
  BY <1>11, <1>12, <1>13, <1>14, <1>15, <1>16, <1>17, <1>18 DEF TasksInv

\* What the await spawns: the scope's tasks are there, the others are not.
LEMMA SpawnFacts ==
  ASSUME TasksInv, parent = "fresh"
  PROVE  /\ Spawned \in SUBSET (1..N) /\ Spawned \subseteq Branch
         /\ IsScope => Spawned = {} /\ Branch = 1..N
         /\ ~IsScope => /\ Spawned = Branch /\ count = 0 /\ ended = {} /\ threw = {}
                        /\ \A b \in 1..N : runner[b] = "none" /\ inner[b] # "parked"
         /\ Runners(ready) \cap Spawned = {}
         /\ Marks(ready) = {}
<1>1. /\ ~IsScope => /\ count = 0 /\ ended = {} /\ threw = {}
                     /\ \A b \in 1..N : runner[b] = "none"
      /\ timer = "off"
  BY DEF TasksInv, Before
<1>2. \A b \in 1..N : inner[b] = "parked" => runner[b] = "waiting"
  BY DEF TasksInv, Placed
<1>3. Branch \subseteq 1..N /\ (IsScope => Branch = 1..N)
  BY BranchFacts DEF IsScope, Scopes, Singles
<1>4. \A b \in 1..N : b \in Runners(ready) <=> runner[b] = "fresh"
  BY DEF TasksInv, QueueIsTrue
<1>5. /\ Spawned \subseteq Branch /\ (IsScope => Spawned = {}) /\ (~IsScope => Spawned = Branch)
  BY DEF Spawned
<1>6. Marks(ready) = {}
  <2>1. Marks(ready) \subseteq {Parent, Timer}
    BY DEF Marks
  <2>2. Parent \notin Marks(ready) /\ Timer \notin Marks(ready)
    BY <1>1 DEF TasksInv, QueueIsTrue
  <2> QED
    BY <2>1, <2>2
<1>7. Runners(ready) \cap Spawned = {}
  <2>1. Runners(ready) \subseteq 1..N
    BY DEF Runners
  <2> QED
    BY <1>1, <1>4, <1>5, <2>1
<1> QED
  BY <1>1, <1>2, <1>3, <1>5, <1>6, <1>7

\* The await is over before it suspends.
LEMMA StartReadyKeeps ==
  ASSUME TasksInv, StartReady
  PROVE  TasksInv'
<1>1. /\ parent = "fresh" /\ AwaitReady /\ parent' = "resumed" /\ Queue(ready)
      /\ outcome' = (IF ~IsScope THEN "cancelled" ELSE IF mode = "join_all" /\ threw # {} THEN "error" ELSE "joined")
      /\ runner' = (IF mode = "quorum" THEN SpawnedRunners ELSE runner)
      /\ ready' = (IF mode = "quorum" THEN ready \o SpawnedHandles ELSE ready)
      /\ inner' = Settle("resumed", runner', inner)
      /\ UNCHANGED <<mode, left, ended, threw, handles, resolved, count, slot, timer, cancelled, deferred, awaited>>
  BY DEF StartReady, TasksInv, QueueIsTrue, shared
<1>2. \/ mode \in {"cancellable", "sleep", "quorum"} /\ cancelled /\ ~IsScope
      \/ IsScope /\ (mode = "join_any" => ended # {})
  BY <1>1 DEF AwaitReady, IsScope, Scopes
<1>3. /\ Spawned \in SUBSET (1..N) /\ Runners(ready) \cap Spawned = {} /\ Marks(ready) = {}
      /\ ~IsScope => /\ Spawned = Branch /\ count = 0 /\ ended = {} /\ threw = {}
                     /\ \A b \in 1..N : runner[b] = "none" /\ inner[b] # "parked"
  BY <1>1, SpawnFacts
<1>4. mode = "quorum" => ~IsScope /\ Branch = 1..N
  BY BranchFacts DEF IsScope, Scopes, Singles
<1>5. /\ Queue(ready') /\ Marks(ready') = {} /\ Inners(ready') = Inners(ready)
      /\ Runners(ready') = IF mode = "quorum" THEN 1..N ELSE Runners(ready)
  <2>1. CASE mode = "quorum"
    <3>1. PICK s : s = Spawned
      OBVIOUS
    <3>2. s \in SUBSET (1..N) /\ N \in Nat /\ Runners(ready) \cap s = {}
      BY <1>3, <3>1, TaskBounds
    <3>3. ready' = ready \o Keep([b \in 1..N |-> Runner(b)], {Runner(b) : b \in s})
      BY <1>1, <2>1, <3>1 DEF SpawnedHandles
    <3>4. /\ Queue(ready') /\ Marks(ready') = Marks(ready) /\ Runners(ready') = Runners(ready) \cup s
          /\ Inners(ready') = Inners(ready)
      BY <1>1, <3>2, <3>3, JoinRunners
    <3>5. Runners(ready) \subseteq 1..N
      BY DEF Runners
    <3> QED
      BY <1>3, <1>4, <2>1, <3>1, <3>4, <3>5
  <2>2. CASE mode # "quorum"
    BY <1>1, <1>3, <2>2
  <2> QED
    BY <2>1, <2>2
<1>6. /\ runner \in [1..N -> {"none", "fresh", "waiting", "final", "freed"}]
      /\ inner \in [1..N -> {"fresh", "parked", "done", "freed"}]
      /\ handles = {} /\ ~resolved /\ ~slot /\ timer = "off" /\ awaited = {}
  BY <1>1 DEF TasksInv, TasksTypeOK, Before
<1>7. /\ runner' \in [1..N -> {"none", "fresh", "waiting", "final", "freed"}]
      /\ \A b \in 1..N : runner'[b] = IF mode = "quorum" THEN "fresh" ELSE runner[b]
  <2>1. mode = "quorum" => Spawned = 1..N
    BY <1>3, <1>4
  <2>2. CASE mode = "quorum"
    BY <1>1, <2>1, <2>2 DEF SpawnedRunners
  <2>3. CASE mode # "quorum"
    BY <1>1, <1>6, <2>3
  <2> QED
    BY <2>2, <2>3
<1>8. SettledAs(runner', inner, inner')
  <2>1. PICK run, inn, next : run = runner' /\ inn = inner /\ next = inner'
    OBVIOUS
  <2>2. inn \in [1..N -> {"fresh", "parked", "done", "freed"}] /\ next = Settle("resumed", run, inn)
    BY <1>1, <1>6, <2>1
  <2>3. SettledAs(run, inn, next)
    BY <2>2, Settled
  <2> QED
    BY <2>1, <2>3
<1>9. mode \in {"cancellable", "sleep"} => \A b \in 1..N : inner'[b] = "freed"
  <2> SUFFICES ASSUME mode \in {"cancellable", "sleep"} PROVE \A b \in 1..N : inner'[b] = "freed"
    OBVIOUS
  <2>1. ~IsScope /\ ~Detached
    BY DEF IsScope, Scopes, Detached
  <2>2. PICK run, inn, next : run = runner' /\ inn = inner /\ next = inner'
    OBVIOUS
  <2>3. ~\E b \in Branch : run[b] \in {"fresh", "waiting", "final"}
    <3>1. Branch \subseteq 1..N
      BY BranchFacts
    <3> QED
      BY <1>3, <1>7, <2>1, <2>2, <3>1
  <2>4. next = [b \in 1..N |-> "freed"]
    <3>1. next = Settle("resumed", run, inn)
      BY <1>1, <2>2
    <3> QED
      BY <2>1, <2>3, <3>1 DEF Settle
  <2> QED
    BY <2>2, <2>4
<1>10. Branch' = Branch /\ IsScope' = IsScope /\ Detached' = Detached
  BY <1>1 DEF Branch, Branches, IsScope, Detached
<1>11. mode # "quorum" => Active' = Active /\ Unborn' = Unborn
  BY <1>7 DEF Active, Unborn
<1>12. mode \in {"cancellable", "sleep"} => Active' = {}
  BY <1>2, <1>3, <1>7 DEF Active, IsScope, Scopes
<1>13. TasksTypeOK'
  <2>1. outcome' \in {"cancelled", "error", "joined"}
    BY <1>1
  <2> QED
    BY <1>1, <1>5, <1>7, <1>8, <2>1 DEF TasksInv, TasksTypeOK, Queue, SettledAs
<1>14. QueueIsTrue'
  <2>1. ASSUME NEW b \in 1..N, b \in Inners(ready) PROVE inner'[b] = "parked"
    <3>1. inner[b] = "parked" /\ runner[b] = "waiting" /\ b \in Branch
      BY <2>1 DEF TasksInv, QueueIsTrue, Placed
    <3>2. mode # "quorum"
      BY <1>3, <1>4, <3>1
    <3> QED
      BY <1>7, <1>8, <3>1, <3>2 DEF SettledAs
  <2>2. ASSUME NEW b \in 1..N
        PROVE  (b \in Runners(ready') <=> runner'[b] = "fresh") /\ (b \in deferred <=> runner'[b] = "final")
    <3>1. /\ b \in Runners(ready) <=> runner[b] = "fresh"
          /\ b \in deferred <=> runner[b] = "final"
      BY DEF TasksInv, QueueIsTrue
    <3>2. mode = "quorum" => runner[b] = "none"
      BY <1>3, <1>4
    <3> QED
      BY <1>5, <1>7, <3>1, <3>2
  <2> QED
    BY <1>1, <1>5, <1>6, <2>1, <2>2 DEF QueueIsTrue
<1>15. Placed'
  <2> SUFFICES ASSUME NEW b \in 1..N
               PROVE  /\ b \notin Branch => runner'[b] = "none" /\ inner'[b] = "freed"
                      /\ inner'[b] = "parked" => runner'[b] = "waiting"
                      /\ runner'[b] \in {"final", "freed"} => inner'[b] \in {"done", "freed"}
                      /\ b \in ended => runner'[b] \in {"final", "freed"}
    BY <1>1, <1>10 DEF Placed
  <2>1. /\ b \notin Branch => runner[b] = "none" /\ inner[b] = "freed"
        /\ inner[b] = "parked" => runner[b] = "waiting"
        /\ runner[b] \in {"final", "freed"} => inner[b] \in {"done", "freed"}
        /\ b \in ended => runner[b] \in {"final", "freed"}
    BY DEF TasksInv, Placed
  <2>2. inner'[b] \in {inner[b], "freed"}
    BY <1>8 DEF SettledAs
  <2>3. CASE mode = "quorum"
    BY <1>3, <1>4, <1>7, <2>2, <2>3
  <2>4. CASE mode # "quorum"
    BY <1>7, <2>1, <2>2, <2>4
  <2> QED
    BY <2>3, <2>4
<1>16. Before' /\ Timed' /\ Woken' /\ Decided'
  BY <1>1, <1>5, <1>6 DEF Before, Timed, Woken, Decided
<1>17. Held' /\ Won'
  BY <1>1, <1>2, <1>6, <1>10, <1>12 DEF Held, Won, Singles, IsScope, Scopes
<1>18. CountIsTrue'
  <2>1. CountedTasks'
    <3>1. IsScope => mode # "quorum"
      BY <1>4
    <3> QED
      BY <1>1, <1>10, <1>11, <3>1 DEF TasksInv, CountIsTrue, CountedTasks
  <2> QED
    BY <1>1, <2>1 DEF TasksInv, CountIsTrue, CountedEnds, CountedReplies, Uncounted
<1>19. BranchesEndWithTheAwait'
  <2>1. ASSUME mode \in {"when_all", "when_any", "cancellable"}, NEW b \in 1..N
        PROVE  runner'[b] = "none" /\ inner'[b] = "freed"
    <3>1. mode = "cancellable" /\ ~IsScope
      BY <1>2, <2>1 DEF IsScope, Scopes
    <3> QED
      BY <1>3, <1>7, <1>9, <3>1
  <2> QED
    BY <1>1, <1>6, <2>1 DEF BranchesEndWithTheAwait
<1>20. OutcomeIsTrue'
  BY <1>1, <1>2, <1>6 DEF OutcomeIsTrue, IsScope, Scopes, Singles
<1> QED
  BY <1>13, <1>14, <1>15, <1>16, <1>17, <1>18, <1>19, <1>20 DEF TasksInv

\* The await suspends: its branches and its timer are spawned.
LEMMA StartKeeps ==
  ASSUME TasksInv, Start
  PROVE  TasksInv'
<1> DEFINE timed == mode \in {"timeout", "sleep", "join_all_for"}
           coro == timed /\ mode # "timeout"
<1>1. /\ parent = "fresh" /\ parent' = "awaiting" /\ Queue(ready)
      /\ runner' = SpawnedRunners
      /\ handles' = (IF Detached THEN {} ELSE Spawned) /\ slot' = Detached
      /\ awaited' = {b \in Branch : runner'[b] \in {"fresh", "waiting"}}
      /\ timer' = (IF ~timed THEN "off" ELSE IF mode = "timeout" THEN "sleeping" ELSE "fresh")
      /\ ready' = ready \o SpawnedHandles \o (IF coro THEN <<Timer>> ELSE <<>>)
      /\ UNCHANGED <<mode, outcome, inner, left, ended, threw, resolved, count, cancelled, deferred>>
  BY DEF Start, TasksInv, QueueIsTrue
<1>2. /\ Spawned \in SUBSET (1..N) /\ Spawned \subseteq Branch
      /\ IsScope => Spawned = {} /\ Branch = 1..N
      /\ ~IsScope => /\ Spawned = Branch /\ count = 0 /\ ended = {} /\ threw = {}
                     /\ \A b \in 1..N : runner[b] = "none" /\ inner[b] # "parked"
      /\ Runners(ready) \cap Spawned = {} /\ Marks(ready) = {}
  BY <1>1, SpawnFacts
<1>3. /\ Queue(ready') /\ Runners(ready') = Runners(ready) \cup Spawned /\ Inners(ready') = Inners(ready)
      /\ Marks(ready') = IF coro THEN {Timer} ELSE {}
  <2>1. PICK s, q : s = Spawned /\ q = ready \o SpawnedHandles
    OBVIOUS
  <2>2. q = ready \o Keep([b \in 1..N |-> Runner(b)], {Runner(b) : b \in s})
    BY <2>1 DEF SpawnedHandles
  <2>3. s \in SUBSET (1..N) /\ N \in Nat /\ Runners(ready) \cap s = {}
    BY <1>2, <2>1, TaskBounds
  <2>4. Queue(q) /\ Marks(q) = Marks(ready) /\ Runners(q) = Runners(ready) \cup s /\ Inners(q) = Inners(ready)
    BY <1>1, <2>2, <2>3, JoinRunners
  <2>5. CASE coro
    <3>1. ready' = q \o <<Timer>>
      BY <1>1, <2>1, <2>5
    <3>2. Timer \notin Marks(q)
      BY <1>2, <2>4
    <3>3. /\ Queue(ready') /\ Marks(ready') = Marks(q) \cup {Timer}
          /\ Runners(ready') = Runners(q) /\ Inners(ready') = Inners(q)
      BY <2>4, <3>1, <3>2, JoinTimer
    <3> QED
      BY <1>2, <2>1, <2>4, <2>5, <3>3
  <2>6. CASE ~coro
    <3>1. ready' = q \o <<>>
      BY <1>1, <2>1, <2>6
    <3>2. ready' = q
      BY <2>4, <3>1 DEF Queue
    <3> QED
      BY <1>2, <2>1, <2>4, <2>6, <3>2
  <2> QED
    BY <2>5, <2>6
<1>4. /\ runner \in [1..N -> {"none", "fresh", "waiting", "final", "freed"}]
      /\ handles = {} /\ ~resolved /\ resolved' = resolved
  BY <1>1 DEF TasksInv, TasksTypeOK, Before
<1>5. /\ runner' \in [1..N -> {"none", "fresh", "waiting", "final", "freed"}]
      /\ \A b \in 1..N : runner'[b] = IF b \in Spawned THEN "fresh" ELSE runner[b]
  BY <1>1, <1>4 DEF SpawnedRunners
<1>6. Branch' = Branch /\ IsScope' = IsScope /\ Detached' = Detached
  BY <1>1 DEF Branch, Branches, IsScope, Detached
<1>7. IsScope => Active' = Active /\ Unborn' = Unborn
  BY <1>2, <1>5 DEF Active, Unborn
<1>8. ~IsScope => Active' = Spawned
  BY <1>2, <1>5 DEF Active
<1>9. awaited' = Active'
  <2>1. \A b \in 1..N : b \notin Branch => runner'[b] = "none"
    BY <1>2, <1>5 DEF TasksInv, Placed
  <2>2. Branch \subseteq 1..N
    BY BranchFacts
  <2> QED
    BY <1>1, <2>1, <2>2 DEF Active
<1>10. timer' \in {"off", "sleeping", "fresh"} /\ (timer' = "fresh" <=> coro) /\ (timer' # "off" => timed)
  BY <1>1
<1>11. TasksTypeOK'
  <2>1. awaited' \subseteq 1..N
    BY <1>9 DEF Active
  <2>2. handles' \subseteq 1..N /\ slot' \in BOOLEAN
    BY <1>1, <1>2 DEF Detached, IsScope
  <2> QED
    BY <1>1, <1>3, <1>5, <1>10, <2>1, <2>2 DEF TasksInv, TasksTypeOK, Queue
<1>12. QueueIsTrue'
  <2>1. ASSUME NEW b \in 1..N
        PROVE  /\ b \in Runners(ready) \cup Spawned <=> runner'[b] = "fresh"
               /\ b \in deferred <=> runner'[b] = "final"
               /\ b \in Inners(ready) => inner[b] = "parked"
    <3>1. /\ b \in Runners(ready) <=> runner[b] = "fresh"
          /\ b \in deferred <=> runner[b] = "final"
          /\ b \in Inners(ready) => inner[b] = "parked"
      BY DEF TasksInv, QueueIsTrue
    <3>2. b \in Spawned => runner[b] = "none"
      BY <1>2
    <3> QED
      BY <1>5, <3>1, <3>2
  <2>2. Timer \in Marks(ready') <=> timer' \in {"fresh", "fired"}
    BY <1>3, <1>10
  <2> QED
    BY <1>1, <1>3, <2>1, <2>2 DEF QueueIsTrue
<1>13. Placed'
  <2> SUFFICES ASSUME NEW b \in 1..N
               PROVE  /\ b \notin Branch => runner'[b] = "none" /\ inner[b] = "freed"
                      /\ inner[b] = "parked" => runner'[b] = "waiting"
                      /\ runner'[b] \in {"final", "freed"} => inner[b] \in {"done", "freed"}
                      /\ b \in ended => runner'[b] \in {"final", "freed"}
    BY <1>1, <1>6 DEF Placed
  <2>1. /\ b \notin Branch => runner[b] = "none" /\ inner[b] = "freed"
        /\ inner[b] = "parked" => runner[b] = "waiting"
        /\ runner[b] \in {"final", "freed"} => inner[b] \in {"done", "freed"}
        /\ b \in ended => runner[b] \in {"final", "freed"}
    BY DEF TasksInv, Placed
  <2>2. b \in Spawned => inner[b] # "parked" /\ b \notin ended /\ b \in Branch
    BY <1>2
  <2> QED
    BY <1>5, <2>1, <2>2
<1>14. Timed'
  BY <1>1, <1>10 DEF Timed
<1>15. Before' /\ Woken' /\ Decided'
  <2>1. Parent \notin Marks(ready')
    BY <1>3, FramesDiffer
  <2>2. mode = "quorum" => slot'
    BY <1>1 DEF Detached
  <2> QED
    BY <1>1, <1>4, <2>1, <2>2 DEF Before, Woken, Decided
<1>16. Held'
  <2>1. ~Detached => handles' = Active'
    BY <1>1, <1>8 DEF Detached
  <2>2. mode = "sleep" => handles' = {}
    BY <1>1, <1>2, BranchFacts
  <2>3. mode \in {"when_all", "when_any"} \cup Singles => ~Detached
    BY DEF Detached, IsScope, Scopes, Singles
  <2>4. ~IsScope => \A b \in Branch : runner'[b] # "none"
    BY <1>2, <1>5
  <2>5. Detached => handles' = {}
    BY <1>1
  <2> QED
    BY <1>1, <1>4, <1>6, <2>1, <2>2, <2>3, <2>4, <2>5 DEF Held
<1>17. Won'
  <2>1. mode = "when_any" => ~IsScope /\ Branch = 1..N
    BY BranchFacts DEF IsScope, Scopes, Singles
  <2> QED
    BY <1>1, <1>2, <1>4, <1>8, <2>1 DEF Won
<1>18. CountIsTrue'
  <2>1. CountedTasks'
    BY <1>1, <1>6, <1>7, <1>9 DEF TasksInv, CountIsTrue, CountedTasks
  <2> QED
    BY <1>1, <2>1 DEF TasksInv, CountIsTrue, CountedEnds, CountedReplies, Uncounted
<1>19. BranchesEndWithTheAwait' /\ OutcomeIsTrue'
  BY <1>1, <1>4 DEF BranchesEndWithTheAwait, OutcomeIsTrue
<1> QED
  BY <1>11, <1>12, <1>13, <1>14, <1>15, <1>16, <1>17, <1>18, <1>19 DEF TasksInv

-----------------------------------------------------------------------------
(* A branch runs *)

\* The branch that is popped is alive, and gone from the queue.
Popped(b) ==
    /\ b \in 1..N /\ b \in Active /\ b \notin ended /\ runner[b] \in {"fresh", "waiting"}
    /\ Queue(Tail(ready)) /\ Marks(Tail(ready)) = Marks(ready)
    /\ Runners(Tail(ready)) = Runners(ready) \ {b} /\ Inners(Tail(ready)) = Inners(ready) \ {b}
    /\ ~IsScope => parent # "fresh"
    /\ mode \in {"when_all", "when_any", "cancellable"} => parent = "awaiting"
    /\ mode \in Singles /\ ~resolved => parent = "awaiting"
    /\ mode = "when_any" => ~resolved

\* It is, by the invariant.
LEMMA BranchIsPopped ==
  ASSUME TasksInv, NEW b \in Branch, ready # <<>>, Head(ready) \in {Runner(b), Inner(b)}
  PROVE  Popped(b)
<1>0. b \in 1..N /\ Queue(ready)
  BY BranchFacts DEF TasksInv, QueueIsTrue
<1>1. /\ b \in Runners(ready) <=> runner[b] = "fresh"
      /\ b \in Inners(ready) => inner[b] = "parked" /\ runner[b] = "waiting"
      /\ b \in ended => runner[b] \in {"final", "freed"}
  BY <1>0 DEF TasksInv, QueueIsTrue, Placed
<1>2. Queue(Tail(ready))
  BY <1>0, PopQueue
<1>3. /\ runner[b] \in {"fresh", "waiting"} /\ Marks(Tail(ready)) = Marks(ready)
      /\ Runners(Tail(ready)) = Runners(ready) \ {b} /\ Inners(Tail(ready)) = Inners(ready) \ {b}
  <2>1. CASE Head(ready) = Runner(b)
    <3>1. /\ b \in Runners(ready) /\ Marks(Tail(ready)) = Marks(ready)
          /\ Runners(Tail(ready)) = Runners(ready) \ {b} /\ Inners(Tail(ready)) = Inners(ready)
      BY <1>0, <2>1, PopKinds
    <3>2. b \notin Inners(ready)
      BY <1>1, <3>1
    <3> QED
      BY <1>1, <3>1, <3>2
  <2>2. CASE Head(ready) = Inner(b)
    <3>1. /\ b \in Inners(ready) /\ Marks(Tail(ready)) = Marks(ready)
          /\ Runners(Tail(ready)) = Runners(ready) /\ Inners(Tail(ready)) = Inners(ready) \ {b}
      BY <1>0, <2>2, PopKinds
    <3>2. b \notin Runners(ready)
      BY <1>1, <3>1
    <3> QED
      BY <1>1, <3>1, <3>2
  <2> QED
    BY <2>1, <2>2
<1>4. b \in Active /\ b \notin ended
  BY <1>0, <1>1, <1>3 DEF Active
<1>5. ~IsScope => parent # "fresh"
  BY <1>0, <1>3 DEF TasksInv, Before
<1>6. mode \in {"when_all", "when_any", "cancellable"} => parent = "awaiting"
  <2>1. mode \in {"when_all", "when_any", "cancellable"} => ~IsScope
    BY DEF IsScope, Scopes
  <2>2. mode \in {"when_all", "when_any", "cancellable"} => parent \notin {"resumed", "destroyed"}
    BY <1>0, <1>3 DEF TasksInv, BranchesEndWithTheAwait
  <2> QED
    BY <1>5, <2>1, <2>2 DEF TasksInv, TasksTypeOK
<1>7. mode \in Singles /\ ~resolved => parent = "awaiting"
  <2>1. mode \in Singles => ~IsScope
    BY DEF IsScope, Scopes, Singles
  <2>2. mode \in Singles /\ ~resolved => parent \notin {"resumed", "destroyed"}
    BY <1>4 DEF TasksInv, Held
  <2> QED
    BY <1>5, <2>1, <2>2 DEF TasksInv, TasksTypeOK
<1>8. mode = "when_any" => ~resolved
  BY <1>4 DEF TasksInv, Won
<1> QED
  BY <1>0, <1>2, <1>3, <1>4, <1>5, <1>6, <1>7, <1>8 DEF Popped

\* The inner task suspends.
LEMMA SuspendKeeps ==
  ASSUME TasksInv, NEW b \in Branch, Popped(b), left[b] # 0,
         left' = [left EXCEPT ![b] = @ - 1], inner' = [inner EXCEPT ![b] = "parked"],
         runner' = [runner EXCEPT ![b] = "waiting"], ready' = Tail(ready),
         UNCHANGED <<mode, parent, outcome, ended, threw, shared, timer, cancelled, deferred, awaited>>
  PROVE  TasksInv'
<1>1. /\ b \in 1..N /\ b \in Active /\ b \notin ended /\ runner[b] \in {"fresh", "waiting"}
      /\ Queue(ready') /\ Marks(ready') = Marks(ready)
      /\ Runners(ready') = Runners(ready) \ {b} /\ Inners(ready') = Inners(ready) \ {b}
  BY DEF Popped
<1>2. /\ ~IsScope => parent # "fresh"
      /\ mode \in {"when_all", "when_any", "cancellable"} => parent = "awaiting"
      /\ mode = "when_any" => ~resolved
  BY DEF Popped
<1>3. /\ runner \in [1..N -> {"none", "fresh", "waiting", "final", "freed"}]
      /\ inner \in [1..N -> {"fresh", "parked", "done", "freed"}] /\ left \in [1..N -> Nat]
  BY DEF TasksInv, TasksTypeOK
<1>4. /\ runner' \in [1..N -> {"none", "fresh", "waiting", "final", "freed"}]
      /\ inner' \in [1..N -> {"fresh", "parked", "done", "freed"}]
      /\ \A c \in 1..N : /\ runner'[c] = IF c = b THEN "waiting" ELSE runner[c]
                         /\ inner'[c] = IF c = b THEN "parked" ELSE inner[c]
  BY <1>3
<1>5. left' \in [1..N -> Nat]
  BY <1>1, <1>3
<1>6. UNCHANGED <<mode, parent, outcome, ended, threw, handles, resolved, count, slot, timer, cancelled, deferred, awaited>>
  BY DEF shared
<1>7. Active' = Active /\ Unborn' = Unborn
  BY <1>1, <1>4 DEF Active, Unborn
<1>8. Branch' = Branch /\ IsScope' = IsScope /\ Detached' = Detached
  BY <1>6 DEF Branch, Branches, IsScope, Detached
<1>9. TasksTypeOK'
  BY <1>1, <1>4, <1>5, <1>6 DEF TasksInv, TasksTypeOK, Queue
<1>10. QueueIsTrue'
  BY <1>1, <1>4, <1>6 DEF TasksInv, QueueIsTrue
<1>11. Placed'
  BY <1>1, <1>4, <1>6, <1>8 DEF TasksInv, Placed
<1>12. Before'
  BY <1>2, <1>6, <1>8 DEF TasksInv, Before
<1>13. Timed' /\ Woken' /\ Decided'
  BY <1>1, <1>6 DEF TasksInv, Timed, Woken, Decided
<1>14. Won' /\ CountIsTrue'
  BY <1>6, <1>7, <1>8 DEF TasksInv, Won, CountIsTrue, CountedEnds, CountedTasks, CountedReplies, Uncounted
<1>15. Held'
  <2>1. \A c \in Branch : runner'[c] = "none" => runner[c] = "none"
    BY <1>4, BranchFacts
  <2> QED
    BY <1>6, <1>7, <1>8, <2>1 DEF TasksInv, Held
<1>16. BranchesEndWithTheAwait'
  BY <1>2, <1>6 DEF TasksInv, BranchesEndWithTheAwait
<1>17. OutcomeIsTrue'
  BY <1>6 DEF TasksInv, OutcomeIsTrue
<1> QED
  BY <1>9, <1>10, <1>11, <1>12, <1>13, <1>14, <1>15, <1>16, <1>17 DEF TasksInv

\* What the end of a branch does to the frames and the queue, whatever the
\* construct: b ends, the branches of gone are destroyed with it.
BranchEnds(b, gone) ==
    /\ gone \subseteq Active \ {b}
    /\ ended' = ended \cup {b} /\ threw' \in {threw, threw \cup {b}}
    /\ deferred' = deferred \cup {b}
    /\ runner' \in [1..N -> {"none", "fresh", "waiting", "final", "freed"}]
    /\ inner' \in [1..N -> {"fresh", "parked", "done", "freed"}]
    /\ \A c \in 1..N : /\ runner'[c] = IF c = b THEN "final" ELSE IF c \in gone THEN "freed" ELSE runner[c]
                       /\ inner'[c] = IF c = b THEN "done" ELSE IF c \in gone THEN "freed" ELSE inner[c]
    /\ Queue(ready')
    /\ Runners(ready') = Runners(ready) \ ({b} \cup gone)
    /\ Inners(ready') = Inners(ready) \ ({b} \cup gone)
    /\ Marks(ready') = Marks(ready) \/ (Marks(ready') = Marks(ready) \cup {Parent} /\ parent = "awaiting")
    /\ UNCHANGED <<mode, parent, outcome, left, timer, cancelled, awaited>>

\* Queue and frames agree after it.
LEMMA BranchEndsKeeps ==
  ASSUME TasksInv, NEW b \in Branch, Popped(b), NEW gone, BranchEnds(b, gone),
         handles' \subseteq 1..N, resolved' \in BOOLEAN, slot' \in BOOLEAN, count' \in 0..N
  PROVE  /\ TasksTypeOK' /\ QueueIsTrue' /\ Placed' /\ Timed'
         /\ Active' = Active \ ({b} \cup gone) /\ Unborn' = Unborn
         /\ Branch' = Branch /\ IsScope' = IsScope /\ Detached' = Detached
         /\ ~IsScope /\ parent = "awaiting" => \A c \in Branch : runner'[c] # "none"
<1>1. b \in 1..N /\ b \in Active /\ b \notin ended /\ runner[b] \in {"fresh", "waiting"}
  BY DEF Popped
<1>2. gone \subseteq Active \ {b} /\ \A c \in gone : c \in 1..N /\ c # b /\ runner[c] \in {"fresh", "waiting"}
  BY DEF BranchEnds, Active
<1>3. \A c \in 1..N : /\ runner'[c] = IF c = b THEN "final" ELSE IF c \in gone THEN "freed" ELSE runner[c]
                      /\ inner'[c] = IF c = b THEN "done" ELSE IF c \in gone THEN "freed" ELSE inner[c]
  BY DEF BranchEnds
<1>4. /\ ended' = ended \cup {b} /\ threw' \in {threw, threw \cup {b}} /\ deferred' = deferred \cup {b}
      /\ UNCHANGED <<mode, parent, outcome, left, timer, cancelled, awaited>>
  BY DEF BranchEnds
<1>5. /\ Queue(ready') /\ Runners(ready') = Runners(ready) \ ({b} \cup gone)
      /\ Inners(ready') = Inners(ready) \ ({b} \cup gone)
      /\ Marks(ready') = Marks(ready) \/ (Marks(ready') = Marks(ready) \cup {Parent} /\ parent = "awaiting")
  BY DEF BranchEnds
<1>6. Branch' = Branch /\ IsScope' = IsScope /\ Detached' = Detached
  BY <1>4 DEF Branch, Branches, IsScope, Detached
<1>7. TasksTypeOK'
  <2>1. ended' \subseteq 1..N /\ threw' \subseteq ended' /\ deferred' \subseteq 1..N
    BY <1>1, <1>4 DEF TasksInv, TasksTypeOK
  <2>2. /\ runner' \in [1..N -> {"none", "fresh", "waiting", "final", "freed"}]
        /\ inner' \in [1..N -> {"fresh", "parked", "done", "freed"}]
    BY DEF BranchEnds
  <2> QED
    BY <1>4, <1>5, <2>1, <2>2 DEF TasksInv, TasksTypeOK, Queue
<1>8. QueueIsTrue'
  <2>1. ASSUME NEW c \in 1..N
        PROVE  /\ c \in Runners(ready) \ ({b} \cup gone) <=> runner'[c] = "fresh"
               /\ c \in deferred' <=> runner'[c] = "final"
               /\ c \in Inners(ready) \ ({b} \cup gone) => inner'[c] = "parked"
    <3>1. /\ c \in Runners(ready) <=> runner[c] = "fresh"
          /\ c \in deferred <=> runner[c] = "final"
          /\ c \in Inners(ready) => inner[c] = "parked"
      BY DEF TasksInv, QueueIsTrue
    <3> QED
      BY <1>2, <1>3, <1>4, <3>1
  <2>2. Parent \in Marks(ready') => parent = "awaiting"
    BY <1>5 DEF TasksInv, QueueIsTrue
  <2>3. Timer \in Marks(ready') <=> Timer \in Marks(ready)
    BY <1>5, FramesDiffer
  <2> QED
    BY <1>4, <1>5, <2>1, <2>2, <2>3 DEF TasksInv, QueueIsTrue
<1>9. Placed'
  <2> SUFFICES ASSUME NEW c \in 1..N
               PROVE  /\ c \notin Branch => runner'[c] = "none" /\ inner'[c] = "freed"
                      /\ inner'[c] = "parked" => runner'[c] = "waiting"
                      /\ runner'[c] \in {"final", "freed"} => inner'[c] \in {"done", "freed"}
                      /\ c \in ended' => runner'[c] \in {"final", "freed"}
    BY <1>6 DEF Placed
  <2>1. /\ c \notin Branch => runner[c] = "none" /\ inner[c] = "freed"
        /\ inner[c] = "parked" => runner[c] = "waiting"
        /\ runner[c] \in {"final", "freed"} => inner[c] \in {"done", "freed"}
        /\ c \in ended => runner[c] \in {"final", "freed"}
    BY DEF TasksInv, Placed
  <2> QED
    BY <1>2, <1>3, <1>4, <2>1
<1>10. Timed'
  BY <1>4 DEF TasksInv, Timed
<1>11. Active' = Active \ ({b} \cup gone)
  BY <1>3 DEF Active
<1>12. Unborn' = Unborn
  BY <1>1, <1>2, <1>3 DEF Unborn
<1>13. ASSUME ~IsScope, parent = "awaiting", NEW c \in Branch PROVE runner'[c] # "none"
  <2>1. c \in 1..N /\ runner[c] # "none"
    BY <1>13, BranchFacts DEF TasksInv, Held
  <2> QED
    BY <1>3, <2>1
<1> QED
  BY <1>6, <1>7, <1>8, <1>9, <1>10, <1>11, <1>12, <1>13

\* A branch that ends has its result, good or bad.
EndsAs(b) ==
    /\ ended' = ended \cup {b} /\ threw' \in {threw, threw \cup {b}}
    /\ UNCHANGED <<mode, parent, outcome, left, timer, cancelled, awaited>>

\* The end of a branch that takes no other along.
LEMMA PlainEnd ==
  ASSUME TasksInv, NEW b \in Branch, Popped(b), EndsAs(b),
         inner' = [inner EXCEPT ![b] = "done"], RunnerEnds(b, runner),
         \/ ready' = Tail(ready)
         \/ ready' = schedule_resume(Parent, Tail(ready)) /\ parent = "awaiting"
  PROVE  BranchEnds(b, {})
<1>1. /\ Queue(Tail(ready)) /\ Marks(Tail(ready)) = Marks(ready) /\ b \in 1..N
      /\ Runners(Tail(ready)) = Runners(ready) \ {b} /\ Inners(Tail(ready)) = Inners(ready) \ {b}
  BY DEF Popped
<1>2. /\ Queue(ready') /\ Runners(ready') = Runners(ready) \ {b} /\ Inners(ready') = Inners(ready) \ {b}
      /\ Marks(ready') = Marks(ready) \/ (Marks(ready') = Marks(ready) \cup {Parent} /\ parent = "awaiting")
  <2>1. CASE ready' = Tail(ready)
    BY <1>1, <2>1
  <2>2. CASE ready' = schedule_resume(Parent, Tail(ready)) /\ parent = "awaiting"
    BY <1>1, <2>2, ScheduleParent
  <2> QED
    BY <2>1, <2>2
<1>3. /\ runner \in [1..N -> {"none", "fresh", "waiting", "final", "freed"}]
      /\ inner \in [1..N -> {"fresh", "parked", "done", "freed"}]
  BY DEF TasksInv, TasksTypeOK
<1>4. runner' = [runner EXCEPT ![b] = "final"] /\ deferred' = deferred \cup {b}
  BY DEF RunnerEnds
<1>5. /\ runner' \in [1..N -> {"none", "fresh", "waiting", "final", "freed"}]
      /\ inner' \in [1..N -> {"fresh", "parked", "done", "freed"}]
      /\ \A c \in 1..N : /\ runner'[c] = IF c = b THEN "final" ELSE runner[c]
                         /\ inner'[c] = IF c = b THEN "done" ELSE inner[c]
  BY <1>3, <1>4
<1> QED
  BY <1>2, <1>4, <1>5 DEF BranchEnds, EndsAs

\* A branch of a when_all ends.
LEMMA EndWhenAllKeeps ==
  ASSUME TasksInv, NEW b \in Branch, Popped(b), EndsAs(b), EndWhenAll(b, Tail(ready))
  PROVE  TasksInv'
<1>1. /\ mode = "when_all" /\ handles' = handles \ {b} /\ count' = count + 1
      /\ ready' = (IF count + 1 = N THEN schedule_resume(Parent, Tail(ready)) ELSE Tail(ready))
      /\ inner' = [inner EXCEPT ![b] = "done"] /\ RunnerEnds(b, runner)
      /\ UNCHANGED <<resolved, slot>>
  BY DEF EndWhenAll
<1>2. /\ b \in 1..N /\ b \in Active /\ b \notin ended /\ parent = "awaiting"
      /\ Marks(Tail(ready)) = Marks(ready) /\ Queue(Tail(ready))
  BY <1>1 DEF Popped
<1>3. /\ ended' = ended \cup {b}
      /\ UNCHANGED <<mode, parent, outcome, left, timer, cancelled, awaited>>
  BY DEF EndsAs
<1>4. /\ handles \subseteq 1..N /\ resolved \in BOOLEAN /\ slot \in BOOLEAN /\ count \in Nat
      /\ ended \subseteq 1..N
  BY DEF TasksInv, TasksTypeOK
<1>5. count' = Cardinality(ended')
  <2>1. count = Cardinality(ended)
    BY <1>1 DEF TasksInv, CountIsTrue, CountedEnds
  <2>2. PICK e : e = ended
    OBVIOUS
  <2>3. Cardinality(e \cup {b}) = Cardinality(e) + 1
    BY <1>2, <1>4, <2>2, CountOneMore
  <2> QED
    BY <1>1, <1>3, <2>1, <2>2, <2>3
<1>6. ended' \in SUBSET (1..N)
  BY <1>2, <1>3, <1>4
<1>7. count' \in 0..N /\ (count' = N => ended' = 1..N)
  <2>1. PICK e : e = ended'
    OBVIOUS
  <2>2. Cardinality(e) \in Nat /\ Cardinality(e) <= N /\ (Cardinality(e) = N => e = 1..N)
    BY <1>6, <2>1, BranchCount
  <2> QED
    BY <1>5, <2>1, <2>2, TaskBounds
<1>8. BranchEnds(b, {})
  BY <1>1, <1>2, PlainEnd
<1>9. /\ TasksTypeOK' /\ QueueIsTrue' /\ Placed' /\ Timed' /\ Active' = Active \ {b} /\ Unborn' = Unborn
      /\ Branch' = Branch /\ IsScope' = IsScope /\ Detached' = Detached
      /\ ~IsScope /\ parent = "awaiting" => \A c \in Branch : runner'[c] # "none"
  <2>1. handles' \subseteq 1..N /\ resolved' \in BOOLEAN /\ slot' \in BOOLEAN
    BY <1>1, <1>4
  <2>2. /\ TasksTypeOK' /\ QueueIsTrue' /\ Placed' /\ Timed' /\ Active' = Active \ ({b} \cup {}) /\ Unborn' = Unborn
        /\ Branch' = Branch /\ IsScope' = IsScope /\ Detached' = Detached
        /\ ~IsScope /\ parent = "awaiting" => \A c \in Branch : runner'[c] # "none"
    BY <1>7, <1>8, <2>1, BranchEndsKeeps
  <2> QED
    BY <2>2
<1>10. Before' /\ Won' /\ Decided'
  BY <1>1, <1>2, <1>3 DEF Before, Won, Decided
<1>11. ~IsScope /\ ~Detached
  BY <1>1 DEF IsScope, Scopes, Detached
<1>12. Held'
  <2>1. handles = Active
    BY <1>1, <1>2 DEF TasksInv, Held
  <2> QED
    BY <1>1, <1>2, <1>3, <1>9, <1>11, <2>1 DEF Held, Singles
<1>13. CountIsTrue'
  BY <1>1, <1>3, <1>5, <1>9, <1>11 DEF CountIsTrue, CountedEnds, CountedTasks, CountedReplies, Uncounted
<1>14. Woken'
  <2>1. ASSUME Parent \in Marks(ready') PROVE ended' = 1..N
    <3>1. Parent \in Marks(ready) => ended = 1..N
      BY <1>1 DEF TasksInv, Woken
    <3>2. Parent \notin Marks(ready)
      BY <1>2, <3>1
    <3>3. count + 1 = N
      BY <1>1, <1>2, <2>1, <3>2
    <3> QED
      BY <1>1, <1>7, <3>3
  <2> QED
    BY <1>1, <1>3, <2>1 DEF Woken, Singles
<1>15. BranchesEndWithTheAwait' /\ OutcomeIsTrue'
  BY <1>1, <1>2, <1>3 DEF BranchesEndWithTheAwait, OutcomeIsTrue
<1> QED
  BY <1>9, <1>10, <1>12, <1>13, <1>14, <1>15 DEF TasksInv

\* A branch wins a when_any.
LEMMA EndWhenAnyKeeps ==
  ASSUME TasksInv, NEW b \in Branch, Popped(b), EndsAs(b), EndWhenAny(b, Tail(ready))
  PROVE  TasksInv'
<1> DEFINE losers == handles \ {b}
<1>1. /\ mode = "when_any" /\ ~resolved /\ handles' = {} /\ resolved' = TRUE
      /\ ready' = schedule_resume(Parent, scrub(Tail(ready), losers))
      /\ inner' = [Freed(inner, losers) EXCEPT ![b] = "done"] /\ RunnerEnds(b, Freed(runner, losers))
      /\ UNCHANGED <<count, slot>>
  BY DEF EndWhenAny
<1>2. /\ b \in 1..N /\ b \in Active /\ b \notin ended /\ parent = "awaiting"
      /\ Queue(Tail(ready)) /\ Marks(Tail(ready)) = Marks(ready)
      /\ Runners(Tail(ready)) = Runners(ready) \ {b} /\ Inners(Tail(ready)) = Inners(ready) \ {b}
  BY <1>1 DEF Popped
<1>3. /\ ended' = ended \cup {b} /\ threw' \in {threw, threw \cup {b}}
      /\ UNCHANGED <<mode, parent, outcome, left, timer, cancelled, awaited>>
  BY DEF EndsAs
<1>4. /\ slot \in BOOLEAN /\ count \in 0..N
      /\ runner \in [1..N -> {"none", "fresh", "waiting", "final", "freed"}]
      /\ inner \in [1..N -> {"fresh", "parked", "done", "freed"}]
  BY DEF TasksInv, TasksTypeOK
<1>5. ended = {} /\ Active = 1..N /\ losers = (1..N) \ {b}
  <2>1. handles = Active /\ ended = {} /\ Active = 1..N
    BY <1>1, <1>2 DEF TasksInv, Held, Won
  <2> QED
    BY <2>1
<1> HIDE DEF losers
<1>6. losers \in SUBSET (1..N) /\ losers \subseteq Active \ {b}
  BY <1>5
<1>7. /\ Queue(ready') /\ Marks(ready') = Marks(ready) \cup {Parent}
      /\ Runners(ready') = Runners(ready) \ ({b} \cup losers) /\ Inners(ready') = Inners(ready) \ ({b} \cup losers)
  <2>1. PICK q : q = scrub(Tail(ready), losers)
    OBVIOUS
  <2>2. /\ Queue(q) /\ Marks(q) = Marks(Tail(ready)) /\ Runners(q) = Runners(Tail(ready)) \ losers
        /\ Inners(q) = Inners(Tail(ready)) \ losers
    BY <1>2, <1>6, <2>1, ScrubQueue
  <2>3. /\ Queue(ready') /\ Marks(ready') = Marks(q) \cup {Parent} /\ Runners(ready') = Runners(q)
        /\ Inners(ready') = Inners(q)
    BY <1>1, <2>1, <2>2, ScheduleParent
  <2> QED
    BY <1>2, <2>2, <2>3
<1>8. /\ runner' = [Freed(runner, losers) EXCEPT ![b] = "final"] /\ deferred' = deferred \cup {b}
  BY <1>1 DEF RunnerEnds
<1>9. /\ runner' \in [1..N -> {"none", "fresh", "waiting", "final", "freed"}]
      /\ \A c \in 1..N : runner'[c] = IF c = b THEN "final" ELSE IF c \in losers THEN "freed" ELSE runner[c]
  BY <1>4, <1>8 DEF Freed
<1>10. /\ inner' \in [1..N -> {"fresh", "parked", "done", "freed"}]
       /\ \A c \in 1..N : inner'[c] = IF c = b THEN "done" ELSE IF c \in losers THEN "freed" ELSE inner[c]
  BY <1>1, <1>4 DEF Freed
<1>11. BranchEnds(b, losers)
  BY <1>2, <1>3, <1>6, <1>7, <1>8, <1>9, <1>10 DEF BranchEnds
<1>12. /\ TasksTypeOK' /\ QueueIsTrue' /\ Placed' /\ Timed' /\ Active' = Active \ ({b} \cup losers) /\ Unborn' = Unborn
       /\ Branch' = Branch /\ IsScope' = IsScope /\ Detached' = Detached
       /\ ~IsScope /\ parent = "awaiting" => \A c \in Branch : runner'[c] # "none"
  <2>1. handles' \subseteq 1..N /\ resolved' \in BOOLEAN /\ slot' \in BOOLEAN /\ count' \in 0..N
    BY <1>1, <1>4
  <2> QED
    BY <1>11, <2>1, BranchEndsKeeps
<1>13. Active' = {} /\ ended' = {b}
  BY <1>3, <1>5, <1>12
<1>14. Before' /\ Decided'
  BY <1>1, <1>2, <1>3 DEF Before, Decided
<1>15. ~IsScope /\ ~Detached
  BY <1>1 DEF IsScope, Scopes, Detached
<1>16. Held' /\ Won'
  BY <1>1, <1>2, <1>3, <1>12, <1>13, <1>15 DEF Held, Won, Singles
<1>17. CountIsTrue'
  BY <1>1, <1>3, <1>12, <1>15 DEF TasksInv, CountIsTrue, CountedEnds, CountedTasks, CountedReplies, Uncounted
<1>18. Woken'
  BY <1>1, <1>3 DEF Woken, Singles
<1>19. BranchesEndWithTheAwait'
  <2>1. \A c \in 1..N \ ended' : runner'[c] = "freed" /\ inner'[c] = "freed"
    BY <1>5, <1>9, <1>10, <1>13
  <2> QED
    BY <1>2, <1>3, <2>1 DEF BranchesEndWithTheAwait
<1>20. OutcomeIsTrue'
  BY <1>2, <1>3 DEF OutcomeIsTrue
<1> QED
  BY <1>12, <1>14, <1>16, <1>17, <1>18, <1>19, <1>20 DEF TasksInv

\* The one branch of a with_timeout or a cancellable operation ends.
LEMMA EndSingleKeeps ==
  ASSUME TasksInv, NEW b \in Branch, Popped(b), EndsAs(b), EndSingle(b, Tail(ready))
  PROVE  TasksInv'
<1>1. /\ mode \in Singles /\ resolved' = TRUE
      /\ ready' = (IF resolved THEN Tail(ready) ELSE schedule_resume(Parent, Tail(ready)))
      /\ inner' = [inner EXCEPT ![b] = "done"] /\ RunnerEnds(b, runner)
      /\ UNCHANGED <<handles, count, slot>>
  BY DEF EndSingle
<1>2. /\ b \in 1..N /\ b \in Active /\ b \notin ended /\ parent # "fresh"
      /\ mode = "cancellable" => parent = "awaiting"
      /\ ~resolved => parent = "awaiting"
  BY <1>1 DEF Popped, Singles, IsScope, Scopes
<1>3. /\ ended' = ended \cup {b}
      /\ UNCHANGED <<mode, parent, outcome, left, timer, cancelled, awaited>>
  BY DEF EndsAs
<1>4. handles \subseteq 1..N /\ slot \in BOOLEAN /\ count \in 0..N /\ ended \subseteq 1..N
  BY DEF TasksInv, TasksTypeOK
<1>5. b = 1 /\ ended \subseteq {1} /\ Active \subseteq {1}
  <2>1. Branch = {1}
    BY <1>1, BranchFacts
  <2>2. ended \subseteq Branch
    BY <1>4 DEF TasksInv, Placed
  <2>3. Active \subseteq Branch
    BY DEF TasksInv, Placed, Active
  <2> QED
    BY <2>1, <2>2, <2>3
<1>6. BranchEnds(b, {})
  BY <1>1, <1>2, PlainEnd
<1>7. /\ TasksTypeOK' /\ QueueIsTrue' /\ Placed' /\ Timed' /\ Active' = Active \ {b} /\ Unborn' = Unborn
      /\ Branch' = Branch /\ IsScope' = IsScope /\ Detached' = Detached
      /\ ~IsScope /\ parent = "awaiting" => \A c \in Branch : runner'[c] # "none"
  <2>1. handles' \subseteq 1..N /\ resolved' \in BOOLEAN /\ slot' \in BOOLEAN /\ count' \in 0..N
    BY <1>1, <1>4
  <2>2. /\ TasksTypeOK' /\ QueueIsTrue' /\ Placed' /\ Timed' /\ Active' = Active \ ({b} \cup {}) /\ Unborn' = Unborn
        /\ Branch' = Branch /\ IsScope' = IsScope /\ Detached' = Detached
        /\ ~IsScope /\ parent = "awaiting" => \A c \in Branch : runner'[c] # "none"
    BY <1>6, <2>1, BranchEndsKeeps
  <2> QED
    BY <2>2
<1>8. Active' = {} /\ ended' = {1} /\ ended = {}
  BY <1>2, <1>3, <1>5, <1>7
<1>9. mode \in {"timeout", "cancellable"} /\ ~IsScope /\ ~Detached
  BY <1>1 DEF Singles, IsScope, Scopes, Detached
<1>10. Before' /\ Won' /\ Decided'
  BY <1>2, <1>3, <1>9 DEF Before, Won, Decided
<1>11. Held'
  BY <1>1, <1>3, <1>7, <1>8, <1>9 DEF Held
<1>12. CountIsTrue'
  BY <1>1, <1>3, <1>7, <1>9 DEF TasksInv, CountIsTrue, CountedEnds, CountedTasks, CountedReplies, Uncounted
<1>13. Woken'
  BY <1>1, <1>3, <1>8, <1>9 DEF Woken
<1>14. BranchesEndWithTheAwait'
  BY <1>2, <1>3, <1>9 DEF TasksInv, BranchesEndWithTheAwait
<1>15. OutcomeIsTrue'
  <2>1. ASSUME parent = "resumed" PROVE mode = "timeout" /\ outcome \notin {"value", "error"}
    <3>1. ended # {1}
      BY <1>8
    <3> QED
      BY <1>1, <1>2, <1>9, <2>1, <3>1 DEF TasksInv, OutcomeIsTrue
  <2> QED
    BY <1>3, <2>1 DEF TasksInv, OutcomeIsTrue
<1> QED
  BY <1>7, <1>10, <1>11, <1>12, <1>13, <1>14, <1>15 DEF TasksInv

\* A task of a scope ends.
LEMMA TaskDoneKeeps ==
  ASSUME TasksInv, NEW b \in Branch, Popped(b), EndsAs(b), on_task_done(b, Tail(ready))
  PROVE  TasksInv'
<1> DEFINE wakes == mode = "join_any" \/ count = 1
<1>1. /\ IsScope /\ count' = count - 1
      /\ ready' = (IF slot /\ wakes /\ parent = "awaiting" THEN schedule_resume(Parent, Tail(ready)) ELSE Tail(ready))
      /\ slot' = (slot /\ ~wakes)
      /\ inner' = [inner EXCEPT ![b] = "done"] /\ RunnerEnds(b, runner)
      /\ UNCHANGED <<handles, resolved>>
  BY DEF on_task_done
<1>2. /\ b \in 1..N /\ b \in Active /\ b \notin ended
      /\ Marks(Tail(ready)) = Marks(ready) /\ Queue(Tail(ready))
  BY DEF Popped
<1>3. /\ ended' = ended \cup {b}
      /\ UNCHANGED <<mode, parent, outcome, left, timer, cancelled, awaited>>
  BY DEF EndsAs
<1>4. handles \subseteq 1..N /\ resolved \in BOOLEAN /\ slot \in BOOLEAN /\ count \in 0..N /\ N \in Nat
  BY TaskBounds DEF TasksInv, TasksTypeOK
<1>5. /\ count >= Cardinality(Active) /\ count + Cardinality(Unborn) <= N
      /\ parent \in {"fresh", "awaiting"} => count = Cardinality(Active)
      /\ parent = "awaiting" => awaited \subseteq ended \cup Active
  BY <1>1 DEF TasksInv, CountIsTrue, CountedTasks
<1>6. /\ Cardinality(Active \ {b}) = Cardinality(Active) - 1
      /\ Cardinality(Active \ {b}) \in Nat /\ Cardinality(Active) \in Nat /\ Cardinality(Unborn) \in Nat
      /\ Cardinality(Active \ {b}) = 0 => Active \ {b} = {}
  <2>1. PICK A, U : A = Active /\ U = Unborn
    OBVIOUS
  <2>2. A \in SUBSET (1..N) /\ A \ {b} \in SUBSET (1..N) /\ U \in SUBSET (1..N) /\ b \in A
    BY <1>2, <2>1 DEF Active, Unborn
  <2>3. Cardinality(A \ {b}) = Cardinality(A) - 1
    BY <1>2, <2>2, CountOneMore
  <2>4. /\ Cardinality(A \ {b}) \in Nat /\ Cardinality(A) \in Nat /\ Cardinality(U) \in Nat
        /\ Cardinality(A \ {b}) = 0 => A \ {b} = {}
    BY <2>2, BranchCount
  <2> QED
    BY <2>1, <2>3, <2>4
<1>7. /\ count' \in 0..N /\ count' >= Cardinality(Active \ {b}) /\ count' + Cardinality(Unborn) <= N
      /\ parent \in {"fresh", "awaiting"} => count' = Cardinality(Active \ {b})
  BY <1>1, <1>4, <1>5, <1>6
<1>8. BranchEnds(b, {})
  <2>1. ready' = Tail(ready) \/ (ready' = schedule_resume(Parent, Tail(ready)) /\ parent = "awaiting")
    BY <1>1
  <2> QED
    BY <1>1, <2>1, PlainEnd
<1>9. /\ TasksTypeOK' /\ QueueIsTrue' /\ Placed' /\ Timed' /\ Active' = Active \ {b} /\ Unborn' = Unborn
      /\ Branch' = Branch /\ IsScope' = IsScope /\ Detached' = Detached
  <2>1. handles' \subseteq 1..N /\ resolved' \in BOOLEAN /\ slot' \in BOOLEAN
    BY <1>1, <1>4
  <2>2. /\ TasksTypeOK' /\ QueueIsTrue' /\ Placed' /\ Timed' /\ Active' = Active \ ({b} \cup {}) /\ Unborn' = Unborn
        /\ Branch' = Branch /\ IsScope' = IsScope /\ Detached' = Detached
    BY <1>7, <1>8, <2>1, BranchEndsKeeps
  <2> QED
    BY <2>2
<1>10. mode \in {"join_all", "join_any", "join_all_for"} /\ Detached
  BY <1>1 DEF IsScope, Scopes, Detached
<1>11. Before'
  BY <1>1, <1>3, <1>9 DEF TasksInv, Before
<1>12. Won' /\ Decided'
  BY <1>3, <1>10 DEF Won, Decided
<1>13. Held'
  BY <1>1, <1>3, <1>9, <1>10 DEF TasksInv, Held, Singles
<1>14. CountIsTrue'
  <2>1. CountedTasks'
    <3>1. parent = "awaiting" => awaited \subseteq ended' \cup Active'
      BY <1>3, <1>5, <1>9
    <3> QED
      BY <1>3, <1>7, <1>9, <3>1 DEF CountedTasks
  <2> QED
    BY <1>3, <1>10, <2>1 DEF CountIsTrue, CountedEnds, CountedReplies, Uncounted, Scopes
<1>15. Woken'
  <2>1. ASSUME Parent \in Marks(ready'), mode = "join_all" PROVE awaited \subseteq ended'
    <3>1. CASE Parent \in Marks(ready)
      BY <1>3, <2>1, <3>1 DEF TasksInv, Woken
    <3>2. CASE Parent \notin Marks(ready)
      <4>1. count = 1 /\ parent = "awaiting"
        BY <1>1, <1>2, <2>1, <3>2
      <4>2. Active \ {b} = {}
        BY <1>5, <1>6, <4>1
      <4> QED
        BY <1>3, <1>5, <4>1, <4>2
    <3> QED
      BY <3>1, <3>2
  <2>2. ended' # {}
    BY <1>3
  <2> QED
    BY <1>3, <1>10, <2>1, <2>2 DEF Woken, Singles
<1>16. BranchesEndWithTheAwait'
  BY <1>3, <1>10 DEF TasksInv, BranchesEndWithTheAwait
<1>17. OutcomeIsTrue'
  <2>1. ended \subseteq ended' /\ ended' # {}
    BY <1>3
  <2> QED
    BY <1>3, <1>10, <2>1 DEF TasksInv, OutcomeIsTrue, Singles
<1> QED
  BY <1>9, <1>11, <1>12, <1>13, <1>14, <1>15, <1>16, <1>17 DEF TasksInv

\* What the end of a collector adds to the replies and the failures.
LEMMA ReplyCounts ==
  ASSUME TasksInv, NEW b \in 1..N, b \notin ended, EndsAs(b)
  PROVE  /\ Cardinality(ended' \ threw') = IF b \in threw' THEN Cardinality(ended \ threw)
                                           ELSE Cardinality(ended \ threw) + 1
         /\ Cardinality(threw') >= Cardinality(threw)
         /\ Cardinality(ended' \ threw') \in 0..N /\ Cardinality(ended \ threw) \in Nat
         /\ Cardinality(threw') \in Nat /\ Cardinality(threw) \in Nat
<1>1. PICK e, t, e2, t2 : e = ended /\ t = threw /\ e2 = ended' /\ t2 = threw'
  OBVIOUS
<1>2. /\ e \in SUBSET (1..N) /\ t \subseteq e /\ b \notin e
      /\ e2 = e \cup {b} /\ t2 \in {t, t \cup {b}}
  BY <1>1 DEF TasksInv, TasksTypeOK, EndsAs
<1>3. /\ e \ t \in SUBSET (1..N) /\ e2 \ t2 \in SUBSET (1..N) /\ t2 \in SUBSET (1..N) /\ t \in SUBSET (1..N)
      /\ t \in SUBSET t2
  BY <1>2
<1>4. /\ Cardinality(e2 \ t2) \in Nat /\ Cardinality(e2 \ t2) <= N /\ Cardinality(e \ t) \in Nat
      /\ Cardinality(t) \in Nat /\ Cardinality(t2) \in Nat
  BY <1>3, BranchCount
<1>5. Cardinality(t) <= Cardinality(t2)
  BY <1>3, CountSubset
<1>6. Cardinality(e2 \ t2) = IF b \in t2 THEN Cardinality(e \ t) ELSE Cardinality(e \ t) + 1
  <2>1. CASE b \in t2
    <3>1. e2 \ t2 = e \ t
      BY <1>2, <2>1
    <3> QED
      BY <2>1, <3>1
  <2>2. CASE b \notin t2
    <3>1. e2 \ t2 = (e \ t) \cup {b} /\ b \notin e \ t
      BY <1>2, <2>2
    <3>2. PICK s : s = e \ t
      OBVIOUS
    <3>3. Cardinality(s \cup {b}) = Cardinality(s) + 1
      BY <1>3, <3>1, <3>2, CountOneMore
    <3> QED
      BY <2>2, <3>1, <3>2, <3>3
  <2> QED
    BY <2>1, <2>2
<1>7. N \in Nat
  BY TaskBounds
<1>8. Cardinality(e2 \ t2) \in 0..N
  BY <1>4, <1>7
<1> QED
  BY <1>1, <1>4, <1>5, <1>6, <1>8

\* A collector of a quorum ends.
LEMMA EndQuorumKeeps ==
  ASSUME TasksInv, NEW b \in Branch, Popped(b), EndsAs(b), EndQuorum(b, Tail(ready))
  PROVE  TasksInv'
<1> DEFINE ok   == IF b \in threw' THEN count ELSE count + 1
           done == ok >= Need \/ Cardinality(threw') > N - Need
<1>1. /\ mode = "quorum" /\ count' = (IF resolved THEN count ELSE ok) /\ resolved' = (resolved \/ done)
      /\ ready' = (IF slot /\ ~resolved /\ done /\ parent = "awaiting"
                   THEN schedule_resume(Parent, Tail(ready)) ELSE Tail(ready))
      /\ slot' = (slot /\ ~done)
      /\ inner' = [inner EXCEPT ![b] = "done"] /\ RunnerEnds(b, runner) /\ UNCHANGED handles
  BY DEF EndQuorum
<1>2. ~IsScope /\ Detached
  BY <1>1 DEF IsScope, Scopes, Detached
<1>3. /\ b \in 1..N /\ b \in Active /\ b \notin ended /\ parent # "fresh"
      /\ Marks(Tail(ready)) = Marks(ready) /\ Queue(Tail(ready))
  BY <1>2 DEF Popped
<1>4. /\ ended' = ended \cup {b}
      /\ UNCHANGED <<mode, parent, outcome, left, timer, cancelled, awaited>>
  BY DEF EndsAs
<1>5. handles \subseteq 1..N /\ resolved \in BOOLEAN /\ slot \in BOOLEAN /\ count \in 0..N /\ N \in Nat /\ Need \in Nat
  BY TaskBounds DEF TasksInv, TasksTypeOK
<1>6. PICK new, old, bad2, bad \in Nat :
        /\ new = Cardinality(ended' \ threw') /\ old = Cardinality(ended \ threw)
        /\ bad2 = Cardinality(threw') /\ bad = Cardinality(threw)
        /\ new = (IF b \in threw' THEN old ELSE old + 1) /\ new \in 0..N /\ bad2 >= bad
  <2>1. /\ Cardinality(ended' \ threw') = IF b \in threw' THEN Cardinality(ended \ threw)
                                           ELSE Cardinality(ended \ threw) + 1
        /\ Cardinality(threw') >= Cardinality(threw)
        /\ Cardinality(ended' \ threw') \in 0..N /\ Cardinality(ended \ threw) \in Nat
        /\ Cardinality(threw') \in Nat /\ Cardinality(threw) \in Nat
    BY <1>3, ReplyCounts
  <2> QED
    BY <2>1
<1>7. /\ count <= old /\ (~resolved => count = old)
      /\ resolved => count >= Need \/ bad > N - Need
  BY <1>1, <1>6 DEF TasksInv, CountIsTrue, CountedReplies
<1>8. done <=> ok >= Need \/ bad2 > N - Need
  BY <1>6
<1> HIDE DEF done
<1>9. /\ count' \in 0..N /\ count' <= new /\ (~resolved' => count' = new)
      /\ resolved' => count' >= Need \/ bad2 > N - Need
  <2>1. CASE resolved
    <3>1. count' = count
      BY <1>1, <2>1
    <3>2. resolved'
      BY <1>1, <2>1
    <3>3. count <= new /\ (count >= Need \/ bad2 > N - Need)
      BY <1>5, <1>6, <1>7, <2>1
    <3> QED
      BY <1>5, <3>1, <3>2, <3>3
  <2>2. CASE ~resolved
    <3>1. count' = ok
      BY <1>1, <2>2
    <3>2. resolved' <=> done
      BY <1>1, <2>2
    <3>3. ok = new
      BY <1>6, <1>7, <2>2
    <3> QED
      BY <1>6, <1>8, <3>1, <3>2, <3>3
  <2> QED
    BY <2>1, <2>2
<1>10. resolved' \in BOOLEAN /\ slot' \in BOOLEAN
  BY <1>1, <1>5 DEF done
<1>11. BranchEnds(b, {})
  <2>1. ready' = Tail(ready) \/ (ready' = schedule_resume(Parent, Tail(ready)) /\ parent = "awaiting")
    BY <1>1
  <2> QED
    BY <1>1, <2>1, PlainEnd
<1>12. /\ TasksTypeOK' /\ QueueIsTrue' /\ Placed' /\ Timed' /\ Active' = Active \ {b} /\ Unborn' = Unborn
       /\ Branch' = Branch /\ IsScope' = IsScope /\ Detached' = Detached
       /\ ~IsScope /\ parent = "awaiting" => \A c \in Branch : runner'[c] # "none"
  <2>1. handles' \subseteq 1..N
    BY <1>1, <1>5
  <2>2. /\ TasksTypeOK' /\ QueueIsTrue' /\ Placed' /\ Timed' /\ Active' = Active \ ({b} \cup {}) /\ Unborn' = Unborn
        /\ Branch' = Branch /\ IsScope' = IsScope /\ Detached' = Detached
        /\ ~IsScope /\ parent = "awaiting" => \A c \in Branch : runner'[c] # "none"
    BY <1>9, <1>10, <1>11, <2>1, BranchEndsKeeps
  <2> QED
    BY <2>2
<1>13. Before' /\ Won'
  BY <1>1, <1>3, <1>4 DEF Before, Won
<1>14. Held'
  BY <1>1, <1>2, <1>4, <1>12 DEF TasksInv, Held, Singles
<1>15. CountIsTrue'
  <2>1. CountedReplies'
    BY <1>6, <1>9 DEF CountedReplies
  <2> QED
    BY <1>1, <1>2, <1>4, <1>12, <2>1 DEF CountIsTrue, CountedEnds, CountedTasks, Uncounted
<1>16. /\ Marks(ready) \subseteq Marks(ready')
       /\ slot /\ ~resolved /\ done /\ parent = "awaiting" => Parent \in Marks(ready')
       /\ ~(slot /\ ~resolved /\ done /\ parent = "awaiting") => Marks(ready') = Marks(ready)
  <2>1. CASE slot /\ ~resolved /\ done /\ parent = "awaiting"
    BY <1>1, <1>3, <2>1, ScheduleParent
  <2>2. CASE ~(slot /\ ~resolved /\ done /\ parent = "awaiting")
    BY <1>1, <1>3, <2>2
  <2> QED
    BY <2>1, <2>2
<1>17. Woken'
  <2>1. Parent \in Marks(ready') => resolved'
    BY <1>1, <1>16 DEF TasksInv, Woken
  <2> QED
    BY <1>1, <1>4, <2>1 DEF Woken, Singles
<1>18. Decided'
  <2>1. ASSUME parent = "awaiting" PROVE IF resolved' THEN Parent \in Marks(ready') ELSE slot'
    <3>1. IF resolved THEN Parent \in Marks(ready) ELSE slot
      BY <1>1, <2>1 DEF TasksInv, Decided
    <3> QED
      BY <1>1, <1>16, <2>1, <3>1
  <2> QED
    BY <1>4, <2>1 DEF Decided
<1>19. BranchesEndWithTheAwait'
  BY <1>1, <1>4 DEF TasksInv, BranchesEndWithTheAwait
<1>20. OutcomeIsTrue'
  <2>1. ASSUME parent = "resumed"
        PROVE  /\ outcome = "value" => new >= Need
               /\ outcome = "error" => bad2 > N - Need
               /\ outcome = "cancelled" => cancelled
    <3>1. /\ outcome = "value" => old >= Need
          /\ outcome = "error" => bad > N - Need
          /\ outcome = "cancelled" => cancelled
      BY <1>1, <1>6, <2>1 DEF TasksInv, OutcomeIsTrue
    <3> QED
      BY <1>5, <1>6, <3>1
  <2> QED
    BY <1>1, <1>4, <1>6, <2>1 DEF OutcomeIsTrue, Singles
<1> QED
  BY <1>12, <1>13, <1>14, <1>15, <1>17, <1>18, <1>19, <1>20 DEF TasksInv

\* A branch runs until it suspends or ends.
LEMMA RunBranchKeeps ==
  ASSUME TasksInv, NEW b \in Branch, RunBranch(b)
  PROVE  TasksInv'
<1>1. /\ ready # <<>> /\ Head(ready) \in {Runner(b), Inner(b)} /\ InnerRuns(b)
      /\ UNCHANGED <<mode, parent, outcome, timer, cancelled, awaited>>
  BY DEF RunBranch
<1>2. Popped(b)
  BY <1>1, BranchIsPopped
<1>3. CASE /\ left[b] # 0
           /\ left' = [left EXCEPT ![b] = @ - 1] /\ inner' = [inner EXCEPT ![b] = "parked"]
           /\ runner' = [runner EXCEPT ![b] = "waiting"] /\ ready' = Tail(ready)
           /\ UNCHANGED <<ended, threw, shared, deferred>>
  BY <1>1, <1>2, <1>3, SuspendKeeps
<1>4. CASE /\ ended' = ended \union {b} /\ threw' \in {threw, threw \cup {b}}
           /\ EndBranch(b, Tail(ready)) /\ UNCHANGED left
  <2>1. EndsAs(b)
    BY <1>1, <1>4 DEF EndsAs
  <2> QED
    BY <1>2, <1>4, <2>1, EndWhenAllKeeps, EndWhenAnyKeeps, EndSingleKeeps, TaskDoneKeeps, EndQuorumKeeps
    DEF EndBranch
<1> QED
  BY <1>1, <1>3, <1>4 DEF InnerRuns

\* Nothing happens.
LEMMA TasksStutter ==
  ASSUME TasksInv, UNCHANGED tasksVars
  PROVE  TasksInv'
<1>1. UNCHANGED <<mode, parent, outcome, runner, inner, left, ended, threw, handles, resolved, count, slot, timer,
                  cancelled, ready, deferred, awaited>>
  BY DEF tasksVars, shared
<1>2. Active' = Active /\ Unborn' = Unborn /\ Branch' = Branch /\ IsScope' = IsScope /\ Detached' = Detached
  BY <1>1 DEF Active, Unborn, Branch, Branches, IsScope, Detached
<1>3. TasksTypeOK' /\ QueueIsTrue' /\ Placed' /\ Before'
  BY <1>1, <1>2 DEF TasksInv, TasksTypeOK, QueueIsTrue, Placed, Before
<1>4. Held' /\ Won' /\ Woken' /\ Timed' /\ Decided'
  BY <1>1, <1>2 DEF TasksInv, Held, Won, Woken, Timed, Decided
<1>5. CountIsTrue'
  BY <1>1, <1>2 DEF TasksInv, CountIsTrue, CountedEnds, CountedTasks, CountedReplies, Uncounted
<1>6. BranchesEndWithTheAwait' /\ OutcomeIsTrue'
  BY <1>1 DEF TasksInv, BranchesEndWithTheAwait, OutcomeIsTrue
<1> QED
  BY <1>3, <1>4, <1>5, <1>6 DEF TasksInv

\* Every step keeps the invariant.
LEMMA TasksStep ==
  ASSUME TasksInv, [TasksNext]_tasksVars, ResetWhen = "idle"
  PROVE  TasksInv'
<1>1. ASSUME NEW b \in Branch, Spawn(b) \/ RunBranch(b) \/ WakeInner(b) PROVE TasksInv'
  BY <1>1, SpawnKeeps, RunBranchKeeps, WakeInnerKeeps
<1>2. CASE StartReady \/ Start \/ RunParent \/ RunTimer \/ DrainEnds
  BY <1>2, StartReadyKeeps, StartKeeps, RunParentKeeps, RunTimerKeeps, DrainEndsKeeps
<1>3. CASE TimerFires \/ Cancel \/ CancelQuorum \/ DestroyParent \/ Reset
  BY <1>3, TimerFiresKeeps, CancelKeeps, CancelQuorumKeeps, DestroyParentKeeps, ResetKeeps
<1>4. CASE UNCHANGED tasksVars
  BY <1>4, TasksStutter
<1> QED
  BY <1>1, <1>2, <1>3, <1>4 DEF TasksNext

\* The queue as the property states it.
LEMMA QueueOfInv == TasksInv => QueueIsLive
<1> SUFFICES ASSUME TasksInv PROVE QueueIsLive
  OBVIOUS
<1>1. /\ IsInjective(ready)
      /\ Parent \in Marks(ready) => parent = "awaiting"
      /\ Timer \in Marks(ready) <=> timer \in {"fresh", "fired"}
  BY DEF TasksInv, QueueIsTrue, Queue
<1>2. Marks(ready) = {f \in {Parent, Timer} : f \in Range(ready)}
  BY DEF Marks
<1>3. ASSUME NEW b \in 1..N
      PROVE  /\ Runner(b) \in Range(ready) <=> runner[b] = "fresh"
             /\ Inner(b) \in Range(ready) => inner[b] = "parked" /\ runner[b] = "waiting"
             /\ b \in deferred <=> runner[b] = "final"
  BY DEF TasksInv, QueueIsTrue, Placed, Runners, Inners
<1>4. mode = "quorum" /\ resolved /\ parent = "awaiting" => Parent \in Marks(ready)
  BY DEF TasksInv, Decided
<1> QED
  BY <1>1, <1>2, <1>3, <1>4 DEF QueueIsLive

\* The invariant of a scheduler that is reset only when its queue is empty:
\* a reset leaves the frames it destroys in the ready queue.
THEOREM TasksAreTrue ==
  ResetWhen = "idle" => (TasksSpec => []TasksInv)
<1> SUFFICES ASSUME ResetWhen = "idle" PROVE TasksSpec => []TasksInv
  OBVIOUS
<1>1. TasksInit => TasksInv
  BY TasksStart
<1>2. TasksInv /\ [TasksNext]_tasksVars => TasksInv'
  BY TasksStep
<1> QED
  BY <1>1, <1>2, PTL DEF TasksSpec

\* run_ready() resumes no frame that is freed, finished or running, and none
\* twice for one suspension; no spawned frame is forgotten; and no branch of a
\* when_all, when_any or cancellable operation runs on after its await.
THEOREM FramesStayTracked ==
  ResetWhen = "idle" => (TasksSpec => []FramesAreTracked)
<1> SUFFICES ASSUME ResetWhen = "idle" PROVE TasksSpec => []FramesAreTracked
  OBVIOUS
<1>1. TasksSpec => []TasksInv
  BY TasksAreTrue
<1>2. TasksInv => FramesAreTracked
  BY QueueOfInv DEF TasksInv, FramesAreTracked
<1> QED
  BY <1>1, <1>2, PTL

\* What await_resume() returns is what happened: all branches or tasks ended,
\* one branch won, no exception was swallowed, the deadline came first, the
\* quorum has its replies or is out of reach.
THEOREM AwaitsTellTheTruth ==
  ResetWhen = "idle" => (TasksSpec => []OutcomeIsTrue)
<1> SUFFICES ASSUME ResetWhen = "idle" PROVE TasksSpec => []OutcomeIsTrue
  OBVIOUS
<1>1. TasksSpec => []TasksInv
  BY TasksAreTrue
<1>2. TasksInv => OutcomeIsTrue
  BY DEF TasksInv
<1> QED
  BY <1>1, <1>2, PTL
=============================================================================
